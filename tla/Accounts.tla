------------------------------- MODULE Accounts -------------------------------
(***************************************************************************)
(* Accounts of the hub (everlist/app.py, SPEC.md sections 12 and 12a):     *)
(* signup, login by code or by signed challenge, token generations,        *)
(* rotation, logout-all, deletion, email binding and recovery.             *)
(*                                                                         *)
(* A handler is one action per lock section.  Two places are finer:        *)
(* login reads the generation after it let go of LOCK (Mint), and so can   *)
(* see a generation that rotate, logout-all or recover/confirm have bumped *)
(* in memory and not yet written (WriteBump).                              *)
(*                                                                         *)
(* Codes and keys are unguessable: a request proves a code only if it was  *)
(* mailed, and a key only by a signature its owner made.                   *)
(***************************************************************************)
EXTENDS Integers, FiniteSets

CONSTANTS
    Account,        \* account ids; random, never reused
    Code,           \* account codes the hub can mint; random, never reused
    Key,            \* ed25519 public keys; clients choose them
    Email,
    Login,          \* POST /accounts/login requests in flight
    Session,        \* token-authenticated requests in flight
    NoSecret,       \* the credential of an unused account id
    NoEmail,
    MaxGen,         \* bound on the generations of an account
    MaxCodes,       \* bound on the mails sent
    MaxChallenges,  \* bound on the login challenges issued
    MaxCrashes      \* bound on restarts

ASSUME AccountsAssumption ==
    /\ IsFiniteSet(Account)
    /\ Code \cap Key = {}
    /\ NoSecret \notin Code \cup Key
    /\ NoEmail \notin Email
    /\ {MaxGen, MaxCodes, MaxChallenges, MaxCrashes} \subseteq Nat

VARIABLES
    acct,       \* ACCOUNTS
    challenge,  \* LOGIN_CHALLENGES (memory only), 0 if there is none
    issued,     \* login challenges issued so far; they are random, never reused
    writing,    \* a handler that bumped a generation holds LOCK and is about
                \* to call _persist_locked
    disk,       \* accounts, and what was promised about tokens, in the snapshot
    login,      \* login requests that have proved a credential, before minting
    session,    \* requests whose token passed _gen_check, before LOCK
    mail,       \* mails delivered (external)
    expired,    \* mailed codes older than 15 minutes (external)
    sigs,       \* signatures <<key, challenge>> made by key owners (external)
    minted,     \* account codes handed out so far
    tokens,     \* login tokens issued
    revoked,    \* tokens that a completed revocation found issued
    spent,      \* mailed codes accepted so far
    answered,   \* how often each challenge logged somebody in
    crashes

environment == <<mail, expired, sigs>>
history == <<minted, tokens, revoked, spent, answered>>
vars == <<acct, challenge, issued, writing, disk, login, session, environment, history, crashes>>

Secret == Code \cup Key
NoCode == 0
NoToken == [a |-> "none"]
NoLogin == [a |-> "none"]

AccountRec == [st : {"none", "live", "gone"}, cred : Secret \cup {NoSecret},
               gen : 0..MaxGen, email : Email \cup {NoEmail},
               pend : Email \cup {NoEmail}, pendCode : 0..MaxCodes, recCode : 0..MaxCodes]
NewAccount == [st |-> "none", cred |-> NoSecret, gen |-> 0, email |-> NoEmail,
               pend |-> NoEmail, pendCode |-> NoCode, recCode |-> NoCode]
Token == [a : Account, gen : 0..MaxGen, by : Secret]

Init ==
    /\ acct = [a \in Account |-> NewAccount]
    /\ challenge = [a \in Account |-> 0]
    /\ issued = 0
    /\ writing = FALSE
    /\ disk = [acct |-> acct, revoked |-> {}, spent |-> {}]
    /\ login = [t \in Login |-> NoLogin]
    /\ session = [r \in Session |-> NoToken]
    /\ mail = {}
    /\ expired = {}
    /\ sigs = {}
    /\ minted = {}
    /\ tokens = {}
    /\ revoked = {}
    /\ spent = {}
    /\ answered = [n \in 1..MaxChallenges |-> 0]
    /\ crashes = 0

Live(a) == acct[a].st = "live"
KeyTaken(k) == \E a \in Account : Live(a) /\ acct[a].cred = k
FreshCode == Code \ minted
NextMail == Cardinality(mail) + 1
Sent(use, a, e) == mail' = mail \cup {[use |-> use, a |-> a, to |-> e, code |-> NextMail]}
TokensOf(a) == {t \in tokens : t.a = a}

(* _gen_check: the account exists and the token's generation is not older.  *)
Valid(t) == Live(t.a) /\ t.gen >= acct[t.a].gen

Snapshot == [acct |-> acct, revoked |-> revoked, spent |-> spent]
Persist == disk' = Snapshot'

-----------------------------------------------------------------------------
(* POST /accounts/signup.                                                  *)
SignUp(a) ==
    /\ ~writing
    /\ acct[a].st = "none"
    /\ \E s \in FreshCode \cup {k \in Key : ~KeyTaken(k)} :
         /\ acct' = [acct EXCEPT ![a] = [NewAccount EXCEPT !.st = "live", !.cred = s]]
         /\ minted' = minted \cup ({s} \cap Code)
    /\ UNCHANGED <<challenge, issued, writing, login, session, environment, tokens, revoked,
                   spent, answered, crashes>>
    /\ Persist

(* GET /auth/challenge?kind=login: a new challenge replaces the old one.   *)
IssueChallenge(a) ==
    /\ ~writing
    /\ Live(a)
    /\ acct[a].cred \in Key
    /\ issued < MaxChallenges
    /\ issued' = issued + 1
    /\ challenge' = [challenge EXCEPT ![a] = issued']
    /\ UNCHANGED <<acct, writing, disk, login, session, environment, history, crashes>>

(* The owner of a key signs a challenge of its account; it may be gone when
   the signature arrives.  One made later, or by another key, opens nothing. *)
Sign(k, n) ==
    /\ n <= issued
    /\ \E a \in Account : challenge[a] = n /\ acct[a].cred = k
    /\ sigs' = sigs \cup {<<k, n>>}
    /\ UNCHANGED <<acct, challenge, issued, writing, disk, login, session, mail, expired,
                   history, crashes>>

(* Mutant: the challenge is looked at and left in place.                   *)
LoginByKeyKept(t, a) ==
    /\ ~writing
    /\ login[t] = NoLogin
    /\ Live(a)
    /\ acct[a].cred \in Key
    /\ <<acct[a].cred, challenge[a]>> \in sigs
    /\ answered' = [answered EXCEPT ![challenge[a]] = @ + 1]
    /\ login' = [login EXCEPT ![t] = [a |-> a, by |-> acct[a].cred]]
    /\ UNCHANGED <<acct, challenge, issued, writing, session, environment, minted, tokens,
                   revoked, spent, crashes>>
    /\ Persist

(* POST /accounts/login with a signature: the challenge is popped, then the
   signature is checked.                                                   *)
LoginByKey(t, a) ==
    /\ ~writing
    /\ login[t] = NoLogin
    /\ Live(a)
    /\ acct[a].cred \in Key
    /\ <<acct[a].cred, challenge[a]>> \in sigs
    /\ challenge' = [challenge EXCEPT ![a] = 0]
    /\ answered' = [answered EXCEPT ![challenge[a]] = @ + 1]
    /\ login' = [login EXCEPT ![t] = [a |-> a, by |-> acct[a].cred]]
    /\ UNCHANGED <<acct, issued, writing, session, environment, minted, tokens, revoked,
                   spent, crashes>>
    /\ Persist

(* A wrong signature, an expired challenge or the limit of bound agents: the
   challenge is gone all the same.                                         *)
RefuseLogin(a) ==
    /\ ~writing
    /\ Live(a)
    /\ challenge[a] # 0
    /\ challenge' = [challenge EXCEPT ![a] = 0]
    /\ UNCHANGED <<acct, issued, writing, disk, login, session, environment, history, crashes>>

(* POST /accounts/login with the account code.                             *)
LoginByCode(t, a) ==
    /\ ~writing
    /\ login[t] = NoLogin
    /\ Live(a)
    /\ acct[a].cred \in Code
    /\ login' = [login EXCEPT ![t] = [a |-> a, by |-> acct[a].cred]]
    /\ UNCHANGED <<acct, challenge, issued, writing, session, environment, history, crashes>>
    /\ Persist

(* The rest of login, without LOCK: read the generation, mint.  If the
   account is gone the handler raises.                                     *)
Mint(t) ==
    /\ login[t] # NoLogin
    /\ login' = [login EXCEPT ![t] = NoLogin]
    /\ tokens' = IF Live(login[t].a)
                 THEN tokens \cup {[a |-> login[t].a, gen |-> acct[login[t].a].gen,
                                    by |-> login[t].by]}
                 ELSE tokens
    /\ UNCHANGED <<acct, challenge, issued, writing, disk, session, environment, minted,
                   revoked, spent, answered, crashes>>

-----------------------------------------------------------------------------
(* Revocation.                                                             *)

(* Mutant: the old credential dies, the tokens it got do not.              *)
BumpForgotten(a, s, rc) ==
    /\ ~writing
    /\ acct' = [acct EXCEPT ![a].cred = s, ![a].recCode = rc]
    /\ revoked' = revoked \cup TokensOf(a)
    /\ challenge' = [challenge EXCEPT ![a] = 0]
    /\ writing' = TRUE

(* What rotate, recover/confirm and logout-all do under LOCK before they
   persist: credential, generation, recovery code; no login challenge.     *)
Bump(a, s, rc) ==
    /\ ~writing
    /\ acct[a].gen < MaxGen
    /\ acct' = [acct EXCEPT ![a].cred = s, ![a].gen = @ + 1, ![a].recCode = rc]
    /\ revoked' = revoked \cup TokensOf(a)
    /\ challenge' = [challenge EXCEPT ![a] = 0]
    /\ writing' = TRUE

(* Their call of _persist_locked.                                          *)
WriteBump ==
    /\ writing
    /\ writing' = FALSE
    /\ UNCHANGED <<acct, challenge, issued, login, session, environment, history, crashes>>
    /\ Persist

(* POST /accounts/rotate: only a code account has a code to prove.         *)
Rotate(a, s) ==
    /\ Live(a)
    /\ acct[a].cred \in Code
    /\ s \in FreshCode
    /\ Bump(a, s, acct[a].recCode)
    /\ minted' = minted \cup {s}
    /\ UNCHANGED <<issued, disk, login, session, environment, tokens, spent, answered, crashes>>

(* Token-authenticated requests: verify_token and _gen_check come before the
   section of the handler.                                                 *)
GenCheck(r, t) ==
    /\ ~writing
    /\ session[r] = NoToken
    /\ Valid(t)
    /\ session' = [session EXCEPT ![r] = t]
    /\ UNCHANGED <<acct, challenge, issued, writing, disk, login, environment, history, crashes>>

(* POST /accounts/logout-all                                               *)
LogoutAll(r) ==
    /\ session[r] # NoToken
    /\ Live(session[r].a)
    /\ Bump(session[r].a, acct[session[r].a].cred, acct[session[r].a].recCode)
    /\ session' = [session EXCEPT ![r] = NoToken]
    /\ UNCHANGED <<issued, disk, login, environment, minted, tokens, spent, answered, crashes>>

(* Mutant: the snapshot is not written.                                    *)
DeleteUnwritten(r) ==
    /\ ~writing
    /\ session[r] # NoToken
    /\ Live(session[r].a)
    /\ acct' = [acct EXCEPT ![session[r].a] = [NewAccount EXCEPT !.st = "gone"]]
    /\ challenge' = [challenge EXCEPT ![session[r].a] = 0]
    /\ session' = [session EXCEPT ![r] = NoToken]
    /\ revoked' = revoked \cup TokensOf(session[r].a)
    /\ UNCHANGED <<issued, writing, disk, login, environment, minted, tokens, spent,
                   answered, crashes>>

(* DELETE /accounts/me; its listings are BookingCore's ArchiveListing.     *)
Delete(r) ==
    /\ ~writing
    /\ session[r] # NoToken
    /\ Live(session[r].a)
    /\ acct' = [acct EXCEPT ![session[r].a] = [NewAccount EXCEPT !.st = "gone"]]
    /\ challenge' = [challenge EXCEPT ![session[r].a] = 0]
    /\ session' = [session EXCEPT ![r] = NoToken]
    /\ revoked' = revoked \cup TokensOf(session[r].a)
    /\ UNCHANGED <<issued, writing, login, environment, minted, tokens, spent, answered, crashes>>
    /\ Persist

(* The account is gone, or another check of the handler failed.            *)
RefuseSession(r) ==
    /\ ~writing
    /\ session[r] # NoToken
    /\ session' = [session EXCEPT ![r] = NoToken]
    /\ UNCHANGED <<acct, challenge, issued, writing, disk, login, environment, history, crashes>>

-----------------------------------------------------------------------------
(* Email.                                                                  *)

(* POST /accounts/email/bind under LOCK: refused while another account has
   the address verified; a new code replaces the pending one and is mailed. *)
Bind(a, e) ==
    /\ ~writing
    /\ Live(a)
    /\ \A b \in Account \ {a} : Live(b) => acct[b].email # e
    /\ NextMail <= MaxCodes
    /\ acct' = [acct EXCEPT ![a].pend = e, ![a].pendCode = NextMail]
    /\ Sent("verify", a, e)
    /\ UNCHANGED <<challenge, issued, writing, login, expired, sigs, history, crashes>>
    /\ Persist

BindByCode(a, e) ==
    /\ acct[a].cred \in Code
    /\ Bind(a, e)
    /\ UNCHANGED session

BindByToken(r, e) ==
    /\ session[r] # NoToken
    /\ Bind(session[r].a, e)
    /\ session' = [session EXCEPT ![r] = NoToken]

(* Mutant: the address in the request is not compared with the pending one. *)
VerifyAnyEmail(m, e) ==
    /\ ~writing
    /\ m.code \notin expired
    /\ \E a \in Account :
         /\ Live(a) /\ acct[a].pendCode = m.code
         /\ acct' = [acct EXCEPT ![a].email = e, ![a].pend = NoEmail, ![a].pendCode = NoCode]
    /\ spent' = spent \cup {m.code}
    /\ UNCHANGED <<challenge, issued, writing, login, session, environment, minted, tokens,
                   revoked, answered, crashes>>
    /\ Persist

(* POST /accounts/email/verify {email, code}, by somebody who has read mail m. *)
VerifyEmail(m, e) ==
    /\ ~writing
    /\ m.code \notin expired
    /\ \E a \in Account :
         /\ Live(a) /\ acct[a].pend = e /\ acct[a].pendCode = m.code
         /\ acct' = [acct EXCEPT ![a].email = e, ![a].pend = NoEmail, ![a].pendCode = NoCode]
    /\ spent' = spent \cup {m.code}
    /\ UNCHANGED <<challenge, issued, writing, login, session, environment, minted, tokens,
                   revoked, answered, crashes>>
    /\ Persist

(* POST /accounts/email/recover: the first account with the address; which
   one that is, if there are several, depends on the order of signup.      *)
Recover(a) ==
    /\ ~writing
    /\ Live(a)
    /\ acct[a].email # NoEmail
    /\ NextMail <= MaxCodes
    /\ acct' = [acct EXCEPT ![a].recCode = NextMail]
    /\ Sent("recover", a, acct[a].email)
    /\ UNCHANGED <<challenge, issued, writing, login, session, expired, sigs, history, crashes>>
    /\ Persist

(* Mutant: the new key is not compared with those of other accounts.       *)
NewSecretUnchecked(a) == IF acct[a].cred \in Key THEN Key ELSE FreshCode

(* A keypair account brings a key no other account has; a code account gets
   a fresh code.                                                           *)
NewSecret(a) == IF acct[a].cred \in Key
                THEN {k \in Key : k = acct[a].cred \/ ~KeyTaken(k)}
                ELSE FreshCode

(* Mutant: the recovery code is accepted again and again.                  *)
ConfirmRecoveryAgain(m, s) ==
    /\ m.code \notin expired
    /\ \E a \in Account :
         /\ Live(a) /\ acct[a].email # NoEmail /\ acct[a].recCode = m.code
         /\ s \in NewSecret(a)
         /\ Bump(a, s, acct[a].recCode)
    /\ spent' = spent \cup {m.code}
    /\ minted' = minted \cup ({s} \cap Code)
    /\ UNCHANGED <<issued, disk, login, session, environment, tokens, answered, crashes>>

(* POST /accounts/email/recover/confirm {email, code}: the address must be
   the account's, which whoever holds the code may know.                   *)
ConfirmRecovery(m, s) ==
    /\ m.code \notin expired
    /\ \E a \in Account :
         /\ Live(a) /\ acct[a].email # NoEmail /\ acct[a].recCode = m.code
         /\ s \in NewSecret(a)
         /\ Bump(a, s, NoCode)
    /\ spent' = spent \cup {m.code}
    /\ minted' = minted \cup ({s} \cap Code)
    /\ UNCHANGED <<issued, disk, login, session, environment, tokens, answered, crashes>>

(* Fifteen minutes after it was mailed, a code is refused; one that is not
   pending is refused as it is.                                            *)
Expire(m) ==
    /\ \E a \in Account : m.code \in {acct[a].pendCode, acct[a].recCode}
    /\ expired' = expired \cup {m.code}
    /\ UNCHANGED <<acct, challenge, issued, writing, disk, login, session, mail, sigs,
                   history, crashes>>

-----------------------------------------------------------------------------
(* A crash and _load_state.  A revocation that was not written was not
   answered either, so it is not in the promises of the snapshot.          *)
Restart ==
    /\ crashes < MaxCrashes
    /\ crashes' = crashes + 1
    /\ acct' = disk.acct
    /\ revoked' = disk.revoked
    /\ spent' = disk.spent
    /\ challenge' = [a \in Account |-> 0]
    /\ writing' = FALSE
    /\ login' = [t \in Login |-> NoLogin]
    /\ session' = [r \in Session |-> NoToken]
    /\ UNCHANGED <<issued, disk, environment, minted, tokens, answered>>

Next ==
    \/ \E a \in Account : \/ SignUp(a) \/ IssueChallenge(a) \/ RefuseLogin(a) \/ Recover(a)
                          \/ \E t \in Login : LoginByKey(t, a) \/ LoginByCode(t, a)
                          \/ \E s \in Code : Rotate(a, s)
                          \/ \E e \in Email : BindByCode(a, e)
    \/ \E k \in Key, n \in 1..MaxChallenges : Sign(k, n)
    \/ \E t \in Login : Mint(t)
    \/ WriteBump
    \/ \E r \in Session : \/ LogoutAll(r) \/ Delete(r) \/ RefuseSession(r)
                          \/ \E t \in tokens : GenCheck(r, t)
                          \/ \E e \in Email : BindByToken(r, e)
    \/ \E m \in mail : \/ Expire(m)
                       \/ \E e \in Email : VerifyEmail(m, e)
                       \/ \E s \in Secret : ConfirmRecovery(m, s)
    \/ Restart

Spec == Init /\ [][Next]_vars

-----------------------------------------------------------------------------
(* Properties.                                                             *)

(* Accounts in memory and on disk, and requests in flight, keep their types. *)
TypeOK ==
    /\ acct \in [Account -> AccountRec]
    /\ \A a \in Account : Live(a) => acct[a].cred \in Secret
    /\ disk \in [acct : [Account -> AccountRec], revoked : SUBSET Token,
                 spent : SUBSET (1..MaxCodes)]
    /\ challenge \in [Account -> 0..MaxChallenges]
    /\ login \in [Login -> {NoLogin} \cup [a : Account, by : Secret]]
    /\ session \in [Session -> {NoToken} \cup Token]
    /\ tokens \subseteq Token
    /\ revoked \subseteq tokens

(* One key logs in to one account ("pubkey already registered", signup and
   recover/confirm), so a signature never opens somebody else's account.   *)
OneKeyOneAccount ==
    \A a, b \in Account : Live(a) /\ Live(b) /\ acct[a].cred = acct[b].cred => a = b

(* An address is verified for an account only after a code for that account
   was mailed to that address, through rebinds, races and restarts.        *)
VerifiedMeansDelivered ==
    \A a \in Account : acct[a].email # NoEmail =>
        \E m \in mail : m.use = "verify" /\ m.a = a /\ m.to = acct[a].email

(* "Codes: 6 chars, 15-min TTL, single-use" (SPEC.md section 12): a code that
   was accepted is not pending any more, in memory or after a reload.      *)
CodesSpentOnce ==
    /\ \A a \in Account : {acct[a].pendCode, acct[a].recCode} \cap spent = {}
    /\ \A a \in Account : {disk.acct[a].pendCode, disk.acct[a].recCode} \cap disk.spent = {}

(* "Replay impossible: challenges are single-use" (SPEC.md section 12a).   *)
OneLoginPerChallenge == \A n \in 1..MaxChallenges : answered[n] <= 1

(* Rotation, recovery, logout-all and deletion kill every token issued before
   ("instantly killing ALL previously issued tokens", SPEC.md section 12a). *)
RevokedTokensDead == \A t \in revoked : ~Valid(t)

(* A deleted account does not come back, not even with a restart (H7).     *)
DeletedStaysDeleted ==
    [][\A a \in Account : acct[a].st = "gone" => acct'[a].st = "gone"]_vars

-----------------------------------------------------------------------------
(* Claims of the repository that the code does not keep.                   *)

(* app.py, email/bind: "refuse (no takeover)", "email already bound to another
   verified account".  Two accounts bind the address first and verify later. *)
EmailVerifiedOnce ==
    \A a, b \in Account :
        Live(a) /\ Live(b) /\ acct[a].email = acct[b].email /\ acct[a].email # NoEmail => a = b
=============================================================================
