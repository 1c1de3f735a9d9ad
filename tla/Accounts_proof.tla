---------------------------- MODULE Accounts_proof ----------------------------
(***************************************************************************)
(* Proofs about Accounts, for any sets of accounts, codes, keys, addresses *)
(* and requests and any number of restarts: types, keys, mailed codes,     *)
(* verified addresses, deletion; and revocation while the hub does not     *)
(* restart.                                                                *)
(***************************************************************************)
EXTENDS Accounts, FiniteSetTheorems, TLAPS

-----------------------------------------------------------------------------
(* The inductive invariant.  Restart replaces memory by the snapshot, so    *)
(* its parts take accounts A, accepted codes S, mails M and codes K.       *)

(* Every mail carries a code of its own.                                   *)
Mails(M) ==
    /\ IsFiniteSet(M)
    /\ Cardinality(M) <= MaxCodes
    /\ \A m \in M : m.code \in 1..Cardinality(M)
    /\ \A m, n \in M : m.code = n.code => m = n

(* The credential, the address and the codes in record n of account a have
   been obtained as they should.                                           *)
Owned(a, n, M, K) ==
    /\ n.st = "live" => n.cred \in Secret /\ (n.cred \in Code => n.cred \in K)
    /\ n.email # NoEmail => \E m \in M : m.use = "verify" /\ m.a = a /\ m.to = n.email
    /\ n.pendCode # NoCode =>
         \E m \in M : m.use = "verify" /\ m.a = a /\ m.to = n.pend /\ m.code = n.pendCode
    /\ n.recCode # NoCode =>
         \E m \in M : m.use = "recover" /\ m.a = a /\ m.code = n.recCode

Unspent(n, S) == n.pendCode \notin S /\ n.recCode \notin S

Apart(A) == \A a, b \in Account :
    A[a].st = "live" /\ A[b].st = "live" /\ A[a].cred = A[b].cred => a = b

Sound(A, S, M, K) ==
    /\ A \in [Account -> AccountRec]
    /\ S \subseteq 1..Cardinality(M)
    /\ \A a \in Account : Owned(a, A[a], M, K) /\ Unspent(A[a], S)
    /\ Apart(A)

(* Challenges, requests and tokens.                                        *)
Requests ==
    /\ issued \in 0..MaxChallenges
    /\ challenge \in [Account -> 0..MaxChallenges]
    /\ login \in [Login -> {NoLogin} \cup [a : Account, by : Secret]]
    /\ session \in [Session -> {NoToken} \cup Token]
    /\ tokens \subseteq Token
    /\ revoked \subseteq tokens
    /\ disk.revoked \subseteq tokens

DiskType ==
    disk \in [acct : [Account -> AccountRec], revoked : SUBSET Token, spent : SUBSET (1..MaxCodes)]

IInv ==
    /\ Mails(mail)
    /\ Sound(acct, spent, mail, minted)
    /\ Sound(disk.acct, disk.spent, mail, minted)
    /\ Requests
    /\ DiskType

-----------------------------------------------------------------------------
(* Lemmas about the parts.                                                 *)

(* A new mail has a new code.                                              *)
LEMMA NewMail ==
  ASSUME Mails(mail), NEW use, NEW a, NEW e, NextMail <= MaxCodes, Sent(use, a, e)
  PROVE  /\ Mails(mail')
         /\ mail \subseteq mail'
         /\ Cardinality(mail) \in Nat /\ Cardinality(mail') = Cardinality(mail) + 1
<1> DEFINE m == [use |-> use, a |-> a, to |-> e, code |-> NextMail]
<1>1. Cardinality(mail) \in Nat /\ NextMail = Cardinality(mail) + 1
  BY FS_CardinalityType DEF Mails, NextMail
<1>2. m \notin mail /\ mail' = mail \cup {m}
  BY <1>1 DEF Mails, Sent
<1>3. IsFiniteSet(mail') /\ Cardinality(mail') = Cardinality(mail) + 1
  BY <1>2, FS_AddElement DEF Mails
<1>4. \A n \in mail' : n.code \in 1..Cardinality(mail')
  BY <1>1, <1>2, <1>3 DEF Mails
<1>5. \A n, o \in mail' : n.code = o.code => n = o
  BY <1>1, <1>2 DEF Mails
<1>6. QED
  BY <1>1, <1>2, <1>3, <1>4, <1>5 DEF Mails

(* More mails and more codes do no harm.                                   *)
LEMMA Grows ==
  ASSUME NEW A, NEW S, NEW M, NEW N, NEW K, NEW L, Sound(A, S, M, K),
         Cardinality(M) \in Nat, Cardinality(N) \in Nat, Cardinality(M) <= Cardinality(N),
         M \subseteq N, K \subseteq L
  PROVE  Sound(A, S, N, L)
<1>1. S \subseteq 1..Cardinality(N)
  BY DEF Sound
<1>2. \A a \in Account : Owned(a, A[a], N, L)
  BY DEF Sound, Owned
<1>3. QED
  BY <1>1, <1>2 DEF Sound

(* One account changes, with a credential no live account has.             *)
LEMMA Changes ==
  ASSUME NEW A, NEW S, NEW M, NEW K, Sound(A, S, M, K),
         NEW a \in Account, NEW B \in [Account -> AccountRec], NEW T \in SUBSET (1..Cardinality(M)),
         \A b \in Account \ {a} : B[b] = A[b],
         Owned(a, B[a], M, K), Unspent(B[a], T),
         \A b \in Account \ {a} : Unspent(A[b], T),
         \A b \in Account \ {a} : A[b].st = "live" /\ B[a].st = "live" => A[b].cred # B[a].cred
  PROVE  Sound(B, T, M, K)
<1>1. \A b \in Account : Owned(b, B[b], M, K) /\ Unspent(B[b], T)
  BY DEF Sound
<1>2. Apart(B)
  BY DEF Sound, Apart
<1>3. QED
  BY <1>1, <1>2 DEF Sound

(* The code of one mail is pending with its account only, and for its use. *)
LEMMA OneHolder ==
  ASSUME NEW A, NEW S, NEW M, NEW K, Sound(A, S, M, K), Mails(M), NEW m \in M, NEW b \in Account
  PROVE  /\ m.code # NoCode
         /\ A[b].pendCode = m.code => m.use = "verify" /\ m.a = b /\ m.to = A[b].pend
         /\ A[b].recCode = m.code => m.use = "recover" /\ m.a = b
<1>1. m.code \in 1..Cardinality(M) /\ Cardinality(M) \in Nat
  BY FS_CardinalityType DEF Mails
<1>2. m.code # NoCode
  BY <1>1 DEF NoCode
<1>3. Owned(b, A[b], M, K)
  BY DEF Sound
<1>4. QED
  BY <1>2, <1>3 DEF Owned, Mails

(* A revocation keeps all but the credential, the generation and the recovery
   code of one account.                                                    *)
LEMMA BumpKeeps ==
  ASSUME Sound(acct, spent, mail, minted), NEW a \in Account, NEW s \in Secret, NEW rc \in 0..MaxCodes,
         Bump(a, s, rc)
  PROVE  /\ acct' \in [Account -> AccountRec]
         /\ \A b \in Account \ {a} : acct'[b] = acct[b]
         /\ acct'[a].cred = s /\ acct'[a].recCode = rc /\ acct'[a].gen = acct[a].gen + 1
         /\ acct'[a].st = acct[a].st /\ acct'[a].email = acct[a].email
         /\ acct'[a].pend = acct[a].pend /\ acct'[a].pendCode = acct[a].pendCode
<1>1. acct \in [Account -> AccountRec] /\ acct[a].gen < MaxGen
  BY DEF Sound, Bump
<1>2. acct' = [acct EXCEPT ![a].cred = s, ![a].gen = @ + 1, ![a].recCode = rc]
  BY DEF Bump
<1>3. acct[a].gen + 1 \in 0..MaxGen
  BY <1>1, AccountsAssumption DEF AccountRec
<1>4. QED
  BY <1>1, <1>2, <1>3 DEF AccountRec

-----------------------------------------------------------------------------
(* Initial states.                                                         *)

LEMMA NewAccountSound ==
  /\ NewAccount \in AccountRec
  /\ \A a, M, K : Owned(a, NewAccount, M, K) /\ Owned(a, [NewAccount EXCEPT !.st = "gone"], M, K)
  /\ [NewAccount EXCEPT !.st = "gone"] \in AccountRec
<1>1. 0 \in 0..MaxGen /\ 0 \in 0..MaxCodes
  BY AccountsAssumption
<1>2. QED
  BY <1>1 DEF NewAccount, AccountRec, Owned, NoCode

LEMMA InvInit == Init => IInv
<1> SUFFICES ASSUME Init PROVE IInv
  OBVIOUS
<1>1. IsFiniteSet({}) /\ Cardinality({}) = 0
  BY FS_EmptySet
<1>2. Mails({})
  BY <1>1, AccountsAssumption DEF Mails
<1>3. acct \in [Account -> AccountRec] /\ \A a \in Account : acct[a] = NewAccount
  BY NewAccountSound DEF Init
<1>4. \A a \in Account : Owned(a, acct[a], {}, {}) /\ Unspent(acct[a], {})
  BY <1>3, NewAccountSound DEF Unspent
<1>5. Apart(acct)
  BY <1>3 DEF Apart, NewAccount
<1>6. Sound(acct, {}, {}, {})
  BY <1>1, <1>3, <1>4, <1>5 DEF Sound
<1>7. Requests
  BY AccountsAssumption DEF Init, Requests
<1>8. disk = [acct |-> acct, revoked |-> {}, spent |-> {}]
  BY DEF Init
<1>9. DiskType
  BY <1>3, <1>8 DEF DiskType
<1>10. mail = {} /\ minted = {} /\ spent = {} /\ disk.acct = acct /\ disk.spent = {}
  BY <1>8 DEF Init
<1>11. QED
  BY <1>2, <1>6, <1>7, <1>9, <1>10 DEF IInv

-----------------------------------------------------------------------------
(* Every step keeps the invariant.                                         *)

(* What became of mails, codes and snapshot.                               *)
LEMMA MailStep ==
  ASSUME IInv, [Next]_vars
  PROVE  /\ Mails(mail')
         /\ mail \subseteq mail' /\ minted \subseteq minted'
         /\ Cardinality(mail) \in Nat /\ Cardinality(mail') \in Nat
         /\ Cardinality(mail) <= Cardinality(mail')
<1>1. Cardinality(mail) \in Nat
  BY FS_CardinalityType DEF IInv, Mails
<1>2. minted \subseteq minted'
  BY DEF Next, SignUp, IssueChallenge, Sign, LoginByKey, RefuseLogin, LoginByCode, Mint, WriteBump,
         Rotate, GenCheck, LogoutAll, Delete, RefuseSession, Bind, BindByCode, BindByToken,
         VerifyEmail, Recover, ConfirmRecovery, Expire, Restart, vars, history
<1>3. mail' = mail \/ \E use \in {"verify", "recover"} : \E a, e : NextMail <= MaxCodes /\ Sent(use, a, e)
  BY DEF Next, SignUp, IssueChallenge, Sign, LoginByKey, RefuseLogin, LoginByCode, Mint, WriteBump,
         Rotate, GenCheck, LogoutAll, Delete, RefuseSession, Bind, BindByCode, BindByToken,
         VerifyEmail, Recover, ConfirmRecovery, Expire, Restart, vars, environment
<1>4. CASE mail' = mail
  BY <1>1, <1>2, <1>4 DEF IInv
<1>5. ASSUME NEW use, NEW a, NEW e, NextMail <= MaxCodes, Sent(use, a, e)
      PROVE  Mails(mail') /\ mail \subseteq mail' /\ Cardinality(mail') = Cardinality(mail) + 1
  BY <1>5, NewMail DEF IInv
<1>6. QED
  BY <1>1, <1>2, <1>3, <1>4, <1>5

LEMMA DiskStep == [Next]_vars => disk' = disk \/ disk' = Snapshot'
<1>1. Next => disk' = disk \/ Persist
  BY DEF Next, SignUp, IssueChallenge, Sign, LoginByKey, RefuseLogin, LoginByCode, Mint, WriteBump,
         Rotate, GenCheck, LogoutAll, Delete, RefuseSession, Bind, BindByCode, BindByToken,
         VerifyEmail, Recover, ConfirmRecovery, Expire, Restart
<1>2. QED
  BY <1>1 DEF vars, Persist

(* The steps that change accounts, one by one, before mails are added.     *)
LEMMA SignUpSound ==
  ASSUME IInv, NEW a \in Account, SignUp(a),
         Sound(acct, spent, mail, minted')
  PROVE  Sound(acct', spent', mail', minted')
<1>1. PICK s \in FreshCode \cup {k \in Key : ~KeyTaken(k)} :
        /\ acct' = [acct EXCEPT ![a] = [NewAccount EXCEPT !.st = "live", !.cred = s]]
        /\ minted' = minted \cup ({s} \cap Code)
  BY DEF SignUp
<1>2. s \in Secret
  BY <1>1 DEF Secret, FreshCode
<1>3. [NewAccount EXCEPT !.st = "live", !.cred = s] \in AccountRec
  BY <1>2, NewAccountSound DEF AccountRec, NewAccount
<1>4. /\ acct' \in [Account -> AccountRec]
      /\ \A b \in Account \ {a} : acct'[b] = acct[b]
  BY <1>1, <1>3 DEF IInv, Sound
<1>5. acct'[a] = [NewAccount EXCEPT !.st = "live", !.cred = s]
  BY <1>1 DEF IInv, Sound
<1>6. Owned(a, acct'[a], mail, minted')
  BY <1>5, <1>1, <1>2 DEF Owned, NewAccount, NoCode
<1>7. Unspent(acct'[a], spent)
  <2>1. 0 \notin spent
    BY DEF IInv, Sound
  <2>2. QED
    BY <1>5, <2>1 DEF Unspent, NewAccount, NoCode
<1>8. \A b \in Account \ {a} : acct[b].st = "live" => acct[b].cred # s
  BY <1>1, AccountsAssumption DEF IInv, Sound, Owned, KeyTaken, Live, FreshCode
<1>9. \A b \in Account \ {a} : acct[b].st = "live" => acct[b].cred # acct'[a].cred
  BY <1>5, <1>8 DEF NewAccount
<1>10. /\ UNCHANGED <<spent, mail>> /\ spent \in SUBSET (1..Cardinality(mail))
      /\ \A b \in Account : Unspent(acct[b], spent)
  BY DEF SignUp, history, environment, Sound
<1>11. Sound(acct', spent, mail, minted')
  BY <1>4, <1>6, <1>7, <1>9, <1>10, Changes
<1>12. QED
  BY <1>10, <1>11

(* Deletion leaves nothing behind.                                         *)
LEMMA DeleteSound ==
  ASSUME IInv, NEW r \in Session, session[r].a \in Account, Delete(r)
  PROVE  Sound(acct', spent', mail', minted')
<1>1. PICK a \in Account : a = session[r].a
  OBVIOUS
<1>2. acct' = [acct EXCEPT ![a] = [NewAccount EXCEPT !.st = "gone"]]
  BY <1>1 DEF Delete
<1>3. /\ acct' \in [Account -> AccountRec]
      /\ \A b \in Account \ {a} : acct'[b] = acct[b]
      /\ acct'[a] = [NewAccount EXCEPT !.st = "gone"]
  BY <1>2, NewAccountSound DEF IInv, Sound
<1>4. UNCHANGED <<spent, mail, minted>>
  BY DEF Delete, environment
<1>5. /\ Owned(a, acct'[a], mail, minted) /\ Unspent(acct'[a], spent)
      /\ acct'[a].st = "gone"
  <2>1. 0 \notin spent
    BY DEF IInv, Sound
  <2>2. QED
    BY <1>3, <2>1, NewAccountSound DEF Unspent, NewAccount, NoCode
<1>6. /\ spent \in SUBSET (1..Cardinality(mail))
      /\ \A b \in Account : Unspent(acct[b], spent)
  BY DEF IInv, Sound
<1>7. QED
  BY <1>3, <1>4, <1>5, <1>6, Changes DEF IInv

(* A revocation: the new credential is the account's own or nobody's.      *)
LEMMA BumpSound ==
  ASSUME IInv, NEW a \in Account, NEW s \in Secret, NEW rc \in {acct[a].recCode, NoCode}, Bump(a, s, rc),
         acct[a].st = "live",
         s \in Code => s \in minted',
         \A b \in Account \ {a} : acct[b].st = "live" => acct[b].cred # s,
         NEW T \in SUBSET (1..Cardinality(mail)),
         \A b \in Account \ {a} : Unspent(acct[b], T),
         acct[a].pendCode \notin T, rc \notin T,
         mail' = mail, minted \subseteq minted', Sound(acct, spent, mail, minted')
  PROVE  Sound(acct', T, mail', minted')
<1>1. acct[a] \in AccountRec /\ NoCode \in 0..MaxCodes
  BY AccountsAssumption DEF IInv, Sound, NoCode
<1>2. rc \in 0..MaxCodes
  BY <1>1 DEF AccountRec
<1>3. /\ acct' \in [Account -> AccountRec]
      /\ \A b \in Account \ {a} : acct'[b] = acct[b]
      /\ acct'[a].cred = s /\ acct'[a].recCode = rc
      /\ acct'[a].st = acct[a].st /\ acct'[a].email = acct[a].email
      /\ acct'[a].pend = acct[a].pend /\ acct'[a].pendCode = acct[a].pendCode
  BY <1>2, BumpKeeps DEF IInv
<1>4. Owned(a, acct[a], mail, minted')
  BY DEF Sound
<1>5. Owned(a, acct'[a], mail, minted')
  BY <1>3, <1>4 DEF Owned
<1>6. Unspent(acct'[a], T)
  BY <1>3 DEF Unspent
<1>7. \A b \in Account \ {a} : acct[b].st = "live" => acct[b].cred # acct'[a].cred
  BY <1>3
<1>8. QED
  BY <1>3, <1>5, <1>6, <1>7, Changes

(* A mailed code becomes pending with one account.                         *)
LEMMA BindSound ==
  ASSUME IInv, NEW a \in Account, NEW e \in Email, Bind(a, e),
         Sound(acct, spent, mail', minted)
  PROVE  Sound(acct', spent', mail', minted')
<1>1. /\ acct' = [acct EXCEPT ![a].pend = e, ![a].pendCode = NextMail]
      /\ Sent("verify", a, e) /\ NextMail <= MaxCodes
      /\ UNCHANGED <<spent, minted>>
  BY DEF Bind, history
<1>2. Cardinality(mail) \in Nat /\ Cardinality(mail') = Cardinality(mail) + 1
  BY <1>1, NewMail DEF IInv
<1>3. NextMail \in 0..MaxCodes /\ NextMail \notin spent
  BY <1>1, <1>2, AccountsAssumption DEF NextMail, IInv, Sound
<1>4. acct \in [Account -> AccountRec]
  BY DEF IInv, Sound
<1>5. /\ acct' \in [Account -> AccountRec]
      /\ \A b \in Account \ {a} : acct'[b] = acct[b]
      /\ acct'[a].pend = e /\ acct'[a].pendCode = NextMail
      /\ acct'[a].st = acct[a].st /\ acct'[a].cred = acct[a].cred
      /\ acct'[a].email = acct[a].email /\ acct'[a].recCode = acct[a].recCode
  BY <1>1, <1>3, <1>4 DEF AccountRec
<1>6. \E m \in mail' : m.use = "verify" /\ m.a = a /\ m.to = e /\ m.code = NextMail
  <2>1. PICK m : m = [use |-> "verify", a |-> a, to |-> e, code |-> NextMail]
    OBVIOUS
  <2>2. m \in mail'
    BY <1>1, <2>1 DEF Sent
  <2>3. QED
    BY <2>1, <2>2
<1>7. Owned(a, acct[a], mail', minted) /\ Unspent(acct[a], spent)
  BY DEF Sound
<1>8. Owned(a, acct'[a], mail', minted)
  BY <1>5, <1>6, <1>7 DEF Owned
<1>9. Unspent(acct'[a], spent)
  BY <1>3, <1>5, <1>7 DEF Unspent
<1>10. \A b \in Account \ {a} : acct[b].st = "live" /\ acct'[a].st = "live"
                                => acct[b].cred # acct'[a].cred
  BY <1>5 DEF Sound, Apart
<1>11. spent \in SUBSET (1..Cardinality(mail')) /\ \A b \in Account : Unspent(acct[b], spent)
  BY DEF Sound
<1>12. Sound(acct', spent, mail', minted)
  BY <1>5, <1>8, <1>9, <1>10, <1>11, Changes
<1>13. QED
  BY <1>1, <1>12

(* An accepted verification code was mailed to the address it verifies, and
   is pending nowhere else.                                                *)
LEMMA VerifySound ==
  ASSUME IInv, NEW m \in mail, NEW e \in Email, VerifyEmail(m, e)
  PROVE  Sound(acct', spent', mail', minted')
<1>1. PICK a \in Account :
        /\ acct[a].pend = e /\ acct[a].pendCode = m.code
        /\ acct' = [acct EXCEPT ![a].email = e, ![a].pend = NoEmail, ![a].pendCode = NoCode]
  BY DEF VerifyEmail
<1>2. UNCHANGED <<mail, minted>> /\ spent' = spent \cup {m.code}
  BY DEF VerifyEmail, environment
<1>3. acct \in [Account -> AccountRec] /\ NoCode \in 0..MaxCodes
  BY AccountsAssumption DEF IInv, Sound, NoCode
<1>4. /\ acct' \in [Account -> AccountRec]
      /\ \A b \in Account \ {a} : acct'[b] = acct[b]
      /\ acct'[a].email = e /\ acct'[a].pendCode = NoCode
      /\ acct'[a].st = acct[a].st /\ acct'[a].cred = acct[a].cred
      /\ acct'[a].recCode = acct[a].recCode
  <2>1. acct[a] \in AccountRec
    BY <1>3
  <2>2. /\ acct' \in [Account -> AccountRec]
        /\ \A b \in Account \ {a} : acct'[b] = acct[b]
    BY <1>1, <1>3, <2>1 DEF AccountRec
  <2>3. acct'[a].email = e /\ acct'[a].pendCode = NoCode
    BY <1>1, <1>3, <2>1 DEF AccountRec
  <2>4. /\ acct'[a].st = acct[a].st /\ acct'[a].cred = acct[a].cred
        /\ acct'[a].recCode = acct[a].recCode
    BY <1>1, <1>3, <2>1 DEF AccountRec
  <2>5. QED
    BY <2>2, <2>3, <2>4
<1>5. /\ m.code # NoCode
      /\ \A b \in Account : /\ acct[b].pendCode = m.code
                               => m.use = "verify" /\ m.a = b /\ m.to = acct[b].pend
                            /\ acct[b].recCode = m.code => m.use = "recover" /\ m.a = b
  BY OneHolder DEF IInv
<1>6. m.use = "verify" /\ m.a = a /\ m.to = e
  BY <1>1, <1>5
<1>7. Owned(a, acct[a], mail, minted) /\ \A b \in Account : Unspent(acct[b], spent)
  BY DEF IInv, Sound
<1>8. Owned(a, acct'[a], mail, minted)
  BY <1>4, <1>6, <1>7 DEF Owned
<1>9. 0 \notin spent /\ spent \in SUBSET (1..Cardinality(mail)) /\ m.code \in 1..Cardinality(mail)
  BY DEF IInv, Sound, Mails
<1>10. spent' \in SUBSET (1..Cardinality(mail))
  BY <1>2, <1>9
<1>11. Unspent(acct'[a], spent')
  BY <1>2, <1>4, <1>5, <1>6, <1>7, <1>9 DEF Unspent, NoCode
<1>12. \A b \in Account \ {a} : Unspent(acct[b], spent')
  BY <1>2, <1>5, <1>6, <1>7 DEF Unspent
<1>13. \A b \in Account \ {a} : acct[b].st = "live" /\ acct'[a].st = "live"
                                => acct[b].cred # acct'[a].cred
  BY <1>4 DEF IInv, Sound, Apart
<1>14. Sound(acct', spent', mail, minted)
  BY <1>4, <1>8, <1>10, <1>11, <1>12, <1>13, Changes DEF IInv
<1>15. QED
  BY <1>2, <1>14

(* A recovery code is mailed to the verified address.                      *)
LEMMA RecoverSound ==
  ASSUME IInv, NEW a \in Account, Recover(a), Sound(acct, spent, mail', minted)
  PROVE  Sound(acct', spent', mail', minted')
<1>1. /\ acct' = [acct EXCEPT ![a].recCode = NextMail]
      /\ Sent("recover", a, acct[a].email) /\ NextMail <= MaxCodes
      /\ UNCHANGED <<spent, minted>>
  BY DEF Recover, history
<1>2. Cardinality(mail) \in Nat
  BY <1>1, NewMail DEF IInv
<1>3. NextMail \in 0..MaxCodes /\ NextMail \notin spent
  BY <1>1, <1>2, AccountsAssumption DEF NextMail, IInv, Sound
<1>4. acct \in [Account -> AccountRec]
  BY DEF IInv, Sound
<1>5. /\ acct' \in [Account -> AccountRec]
      /\ \A b \in Account \ {a} : acct'[b] = acct[b]
      /\ acct'[a].pend = acct[a].pend /\ acct'[a].pendCode = acct[a].pendCode
      /\ acct'[a].st = acct[a].st /\ acct'[a].cred = acct[a].cred
      /\ acct'[a].email = acct[a].email /\ acct'[a].recCode = NextMail
  BY <1>1, <1>3, <1>4 DEF AccountRec
<1>6. \E m \in mail' : m.use = "recover" /\ m.a = a /\ m.code = NextMail
  <2>1. PICK m : m = [use |-> "recover", a |-> a, to |-> acct[a].email, code |-> NextMail]
    OBVIOUS
  <2>2. m \in mail'
    BY <1>1, <2>1 DEF Sent
  <2>3. QED
    BY <2>1, <2>2
<1>7. Owned(a, acct[a], mail', minted) /\ Unspent(acct[a], spent)
  BY DEF Sound
<1>8. Owned(a, acct'[a], mail', minted)
  BY <1>5, <1>6, <1>7 DEF Owned
<1>9. Unspent(acct'[a], spent)
  BY <1>3, <1>5, <1>7 DEF Unspent
<1>10. \A b \in Account \ {a} : acct[b].st = "live" /\ acct'[a].st = "live"
                                => acct[b].cred # acct'[a].cred
  BY <1>5 DEF Sound, Apart
<1>11. spent \in SUBSET (1..Cardinality(mail')) /\ \A b \in Account : Unspent(acct[b], spent)
  BY DEF Sound
<1>12. Sound(acct', spent, mail', minted)
  BY <1>5, <1>8, <1>9, <1>10, <1>11, Changes
<1>13. QED
  BY <1>1, <1>12

(* An accepted recovery code is pending nowhere, and the new credential is
   nobody else's.                                                          *)
LEMMA ConfirmSound ==
  ASSUME IInv, NEW m \in mail, NEW s \in Secret, ConfirmRecovery(m, s),
         Sound(acct, spent, mail, minted')
  PROVE  Sound(acct', spent', mail', minted')
<1>1. PICK a \in Account :
        /\ acct[a].st = "live" /\ acct[a].recCode = m.code
        /\ s \in NewSecret(a) /\ Bump(a, s, NoCode)
  BY DEF ConfirmRecovery, Live
<1>2. mail' = mail /\ spent' = spent \cup {m.code} /\ minted' = minted \cup ({s} \cap Code)
  BY DEF ConfirmRecovery, environment
<1>3. /\ m.code # NoCode
      /\ \A b \in Account : /\ acct[b].pendCode = m.code
                               => m.use = "verify" /\ m.a = b /\ m.to = acct[b].pend
                            /\ acct[b].recCode = m.code => m.use = "recover" /\ m.a = b
  BY OneHolder DEF IInv
<1>4. m.use = "recover" /\ m.a = a
  BY <1>1, <1>3
<1>5. 0 \notin spent /\ spent \in SUBSET (1..Cardinality(mail)) /\ m.code \in 1..Cardinality(mail)
  BY DEF IInv, Sound, Mails
<1>6. spent' \in SUBSET (1..Cardinality(mail)) /\ NoCode \notin spent'
  BY <1>2, <1>3, <1>5 DEF NoCode
<1>7. \A b \in Account : Unspent(acct[b], spent)
  BY DEF IInv, Sound
<1>8. /\ \A b \in Account \ {a} : Unspent(acct[b], spent')
      /\ acct[a].pendCode \notin spent'
  BY <1>2, <1>3, <1>4, <1>7 DEF Unspent
<1>9. \A b \in Account \ {a} : acct[b].st = "live" => acct[b].cred # s
  <2> SUFFICES ASSUME NEW b \in Account \ {a}, acct[b].st = "live" PROVE acct[b].cred # s
    OBVIOUS
  <2>1. CASE s \in FreshCode
    BY <2>1 DEF FreshCode, IInv, Sound, Owned
  <2>2. CASE s = acct[a].cred
    BY <1>1, <2>2 DEF IInv, Sound, Apart
  <2>3. CASE ~KeyTaken(s)
    BY <2>3 DEF KeyTaken, Live
  <2>4. QED
    BY <1>1, <2>1, <2>2, <2>3 DEF NewSecret
<1>10. s \in Code => s \in minted'
  BY <1>2
<1>11. minted \subseteq minted'
  BY <1>2
<1>12. QED
  BY <1>1, <1>2, <1>6, <1>8, <1>9, <1>10, <1>11, BumpSound

(* Rotation brings a code nobody has had.                                  *)
LEMMA RotateSound ==
  ASSUME IInv, NEW a \in Account, NEW s \in Code, Rotate(a, s), Sound(acct, spent, mail, minted')
  PROVE  Sound(acct', spent', mail', minted')
<1>1. /\ acct[a].st = "live" /\ s \in FreshCode /\ Bump(a, s, acct[a].recCode)
      /\ minted' = minted \cup {s} /\ UNCHANGED <<spent, mail>> /\ s \in Secret
  BY DEF Rotate, Live, environment, Secret
<1>2. \A b \in Account \ {a} : acct[b].st = "live" => acct[b].cred # s
  BY <1>1 DEF FreshCode, IInv, Sound, Owned
<1>3. /\ \A b \in Account : Unspent(acct[b], spent)
      /\ acct[a].pendCode \notin spent /\ acct[a].recCode \notin spent
      /\ spent \in SUBSET (1..Cardinality(mail))
  BY DEF IInv, Sound, Unspent
<1>4. s \in Code => s \in minted'
  BY <1>1
<1>5. minted \subseteq minted'
  BY <1>1
<1>6. Sound(acct', spent, mail', minted')
  BY <1>1, <1>2, <1>3, <1>4, <1>5, BumpSound
<1>7. QED
  BY <1>1, <1>6

(* Logout-all changes the generation alone.                                *)
LEMMA LogoutSound ==
  ASSUME IInv, NEW r \in Session, session[r].a \in Account, LogoutAll(r)
  PROVE  Sound(acct', spent', mail', minted')
<1>1. PICK a \in Account : a = session[r].a
  OBVIOUS
<1>2. /\ acct[a].st = "live" /\ Bump(a, acct[a].cred, acct[a].recCode)
      /\ UNCHANGED <<spent, mail, minted>>
  BY <1>1 DEF LogoutAll, Live, environment
<1>3. /\ acct[a].cred \in Secret /\ (acct[a].cred \in Code => acct[a].cred \in minted')
      /\ \A b \in Account \ {a} : acct[b].st = "live" => acct[b].cred # acct[a].cred
  BY <1>2 DEF IInv, Sound, Owned, Apart
<1>4. /\ \A b \in Account : Unspent(acct[b], spent)
      /\ acct[a].pendCode \notin spent /\ acct[a].recCode \notin spent
      /\ spent \in SUBSET (1..Cardinality(mail))
  BY DEF IInv, Sound, Unspent
<1>5. Sound(acct, spent, mail, minted') /\ minted \subseteq minted'
  BY <1>2 DEF IInv
<1>6. Sound(acct', spent, mail', minted')
  BY <1>2, <1>3, <1>4, <1>5, BumpSound
<1>7. QED
  BY <1>2, <1>6

(* Challenges, requests and tokens: each action writes what it read or made. *)
LEMMA RequestStep == ASSUME IInv, [Next]_vars PROVE Requests'
<1>1. Requests /\ acct \in [Account -> AccountRec]
  BY DEF IInv, Sound
<1>2. CASE UNCHANGED <<issued, challenge, login, session, tokens, revoked>>
  <2>1. disk'.revoked = disk.revoked \/ disk'.revoked = revoked'
    BY DiskStep DEF Snapshot
  <2>2. QED
    BY <1>1, <1>2, <2>1 DEF Requests
<1>3. disk'.revoked = disk.revoked \/ disk'.revoked = revoked'
  BY DiskStep DEF Snapshot
<1>4. ASSUME NEW a \in Account, IssueChallenge(a) PROVE Requests'
  BY <1>1, <1>3, <1>4, AccountsAssumption DEF IssueChallenge, Requests, history
<1>5. ASSUME NEW a \in Account, RefuseLogin(a) PROVE Requests'
  BY <1>1, <1>3, <1>5, AccountsAssumption DEF RefuseLogin, Requests, history
<1>6. ASSUME NEW a \in Account, NEW t \in Login, LoginByKey(t, a) PROVE Requests'
  BY <1>1, <1>3, <1>6, AccountsAssumption DEF LoginByKey, Requests, Secret
<1>7. ASSUME NEW a \in Account, NEW t \in Login, LoginByCode(t, a) PROVE Requests'
  BY <1>1, <1>3, <1>7 DEF LoginByCode, Requests, history, Secret
<1>8. ASSUME NEW t \in Login, Mint(t) PROVE Requests'
  <2>1. login[t] \in [a : Account, by : Secret]
    BY <1>1, <1>8 DEF Mint, Requests
  <2>2. [a |-> login[t].a, gen |-> acct[login[t].a].gen, by |-> login[t].by] \in Token
    BY <1>1, <2>1 DEF Token, AccountRec
  <2>3. tokens \subseteq tokens' /\ tokens' \subseteq Token
    BY <1>1, <1>8, <2>2 DEF Mint, Requests
  <2>4. login' \in [Login -> {NoLogin} \cup [a : Account, by : Secret]]
    BY <1>1, <1>8 DEF Mint, Requests
  <2>5. QED
    BY <1>1, <1>3, <1>8, <2>3, <2>4 DEF Mint, Requests
<1>9. ASSUME NEW r \in Session, NEW t \in tokens, GenCheck(r, t) PROVE Requests'
  BY <1>1, <1>3, <1>9 DEF GenCheck, Requests, history
<1>10. ASSUME NEW a \in Account, NEW s, NEW rc, Bump(a, s, rc)
       PROVE  /\ challenge' \in [Account -> 0..MaxChallenges]
              /\ tokens' = tokens => revoked' \subseteq tokens'
  BY <1>1, <1>10, AccountsAssumption DEF Bump, Requests, TokensOf
<1>11. ASSUME NEW a \in Account, NEW s \in Code, Rotate(a, s) PROVE Requests'
  BY <1>1, <1>3, <1>10, <1>11 DEF Rotate, Requests
<1>12. ASSUME NEW r \in Session, session[r] # NoToken PROVE session[r] \in Token /\ session[r].a \in Account
  BY <1>1, <1>12 DEF Requests, Token
<1>13. ASSUME NEW r \in Session, LogoutAll(r) PROVE Requests'
  <2>1. session[r].a \in Account
    BY <1>12, <1>13 DEF LogoutAll
  <2>2. /\ challenge' \in [Account -> 0..MaxChallenges] /\ revoked' \subseteq tokens'
    BY <1>10, <1>13, <2>1 DEF LogoutAll
  <2>3. QED
    BY <1>1, <1>3, <1>13, <2>2 DEF LogoutAll, Requests
<1>14. ASSUME NEW r \in Session, Delete(r) PROVE Requests'
  <2>1. /\ revoked' = revoked \cup TokensOf(session[r].a)
        /\ challenge' = [challenge EXCEPT ![session[r].a] = 0]
        /\ session' = [session EXCEPT ![r] = NoToken]
        /\ UNCHANGED <<issued, login, tokens>>
    BY <1>14 DEF Delete
  <2>2. revoked' \subseteq tokens' /\ 0 \in 0..MaxChallenges
    BY <1>1, <2>1, AccountsAssumption DEF Requests, TokensOf
  <2>3. QED
    BY <1>1, <1>3, <2>1, <2>2 DEF Requests
<1>15. ASSUME NEW r \in Session, RefuseSession(r) PROVE Requests'
  BY <1>1, <1>3, <1>15 DEF RefuseSession, Requests, history
<1>16. ASSUME NEW r \in Session, NEW e \in Email, BindByToken(r, e) PROVE Requests'
  BY <1>1, <1>3, <1>16 DEF BindByToken, Bind, Requests, history
<1>17. ASSUME NEW m \in mail, NEW s \in Secret, ConfirmRecovery(m, s) PROVE Requests'
  <2>1. PICK a \in Account : Bump(a, s, NoCode)
    BY <1>17 DEF ConfirmRecovery
  <2>2. /\ challenge' \in [Account -> 0..MaxChallenges]
        /\ UNCHANGED <<issued, login, session, tokens>>
    BY <1>10, <1>17, <2>1 DEF ConfirmRecovery
  <2>3. revoked' \subseteq tokens'
    BY <1>10, <2>1, <2>2
  <2>4. QED
    BY <1>1, <1>3, <2>2, <2>3 DEF Requests
<1>18. CASE Restart
  BY <1>1, <1>3, <1>18, AccountsAssumption DEF Restart, Requests
<1>19. ASSUME NEW a \in Account, SignUp(a) \/ Recover(a) \/ \E e \in Email : BindByCode(a, e) PROVE Requests'
  BY <1>2, <1>19 DEF SignUp, Recover, BindByCode, Bind, history
<1>20. ASSUME NEW m \in mail, Expire(m) \/ \E e \in Email : VerifyEmail(m, e) PROVE Requests'
  BY <1>2, <1>20 DEF Expire, VerifyEmail, history
<1>21. ASSUME WriteBump \/ \E k \in Key, n \in 1..MaxChallenges : Sign(k, n) PROVE Requests'
  BY <1>2, <1>21 DEF WriteBump, Sign, history
<1>22. CASE UNCHANGED vars
  BY <1>2, <1>22 DEF vars, history
<1>23. QED
  BY <1>4, <1>5, <1>6, <1>7, <1>8, <1>9, <1>11, <1>13, <1>14, <1>15, <1>16, <1>17, <1>18, <1>19,
     <1>20, <1>21, <1>22 DEF Next

(* Memory stays sound.                                                     *)
LEMMA SoundStep == ASSUME IInv, [Next]_vars PROVE Sound(acct', spent', mail', minted')
<1>1. /\ Sound(acct, spent, mail, minted')
      /\ Sound(acct, spent, mail', minted)
      /\ Sound(acct, spent, mail', minted')
      /\ Sound(disk.acct, disk.spent, mail', minted')
  BY MailStep, Grows DEF IInv
<1>2. ASSUME NEW r \in Session, session[r] # NoToken PROVE session[r].a \in Account
  BY <1>2 DEF IInv, Requests, Token
<1>3. ASSUME NEW a \in Account, SignUp(a) PROVE Sound(acct', spent', mail', minted')
  BY <1>1, <1>3, SignUpSound
<1>4. ASSUME NEW r \in Session, Delete(r) PROVE Sound(acct', spent', mail', minted')
  BY <1>2, <1>4, DeleteSound DEF Delete
<1>5. ASSUME NEW a \in Account, NEW e \in Email, Bind(a, e) PROVE Sound(acct', spent', mail', minted')
  BY <1>1, <1>5, BindSound
<1>6. ASSUME NEW m \in mail, NEW e \in Email, VerifyEmail(m, e) PROVE Sound(acct', spent', mail', minted')
  BY <1>6, VerifySound
<1>7. ASSUME NEW a \in Account, Recover(a) PROVE Sound(acct', spent', mail', minted')
  BY <1>1, <1>7, RecoverSound
<1>8. ASSUME NEW m \in mail, NEW s \in Secret, ConfirmRecovery(m, s)
      PROVE  Sound(acct', spent', mail', minted')
  BY <1>1, <1>8, ConfirmSound
<1>9. ASSUME NEW a \in Account, NEW s \in Code, Rotate(a, s) PROVE Sound(acct', spent', mail', minted')
  BY <1>1, <1>9, RotateSound
<1>10. ASSUME NEW r \in Session, LogoutAll(r) PROVE Sound(acct', spent', mail', minted')
  BY <1>2, <1>10, LogoutSound DEF LogoutAll
<1>11. CASE Restart
  BY <1>1, <1>11 DEF Restart
<1>12. CASE UNCHANGED <<acct, spent>>
  BY <1>1, <1>12
<1>13. ASSUME NEW a \in Account, IssueChallenge(a) \/ RefuseLogin(a)
                                 \/ \E t \in Login : LoginByKey(t, a) \/ LoginByCode(t, a)
       PROVE  UNCHANGED <<acct, spent>>
  BY <1>13 DEF IssueChallenge, RefuseLogin, LoginByKey, LoginByCode, history
<1>14. ASSUME NEW r \in Session, RefuseSession(r) \/ \E t \in tokens : GenCheck(r, t)
       PROVE  UNCHANGED <<acct, spent>>
  BY <1>14 DEF RefuseSession, GenCheck, history
<1>15. ASSUME NEW m \in mail, Expire(m) PROVE UNCHANGED <<acct, spent>>
  BY <1>15 DEF Expire, history
<1>16. ASSUME WriteBump \/ (\E t \in Login : Mint(t))
              \/ (\E k \in Key, n \in 1..MaxChallenges : Sign(k, n)) \/ UNCHANGED vars
       PROVE  UNCHANGED <<acct, spent>>
  BY <1>16 DEF WriteBump, Mint, Sign, vars, history
<1>17. ASSUME NEW a \in Account, NEW e \in Email, BindByCode(a, e)
       PROVE  Sound(acct', spent', mail', minted')
  BY <1>5, <1>17 DEF BindByCode
<1>18. ASSUME NEW r \in Session, NEW e \in Email, BindByToken(r, e)
       PROVE  Sound(acct', spent', mail', minted')
  BY <1>2, <1>5, <1>18 DEF BindByToken
<1>19. QED
  BY <1>3, <1>4, <1>6, <1>7, <1>8, <1>9, <1>10, <1>11, <1>12, <1>13, <1>14, <1>15, <1>16, <1>17,
     <1>18 DEF Next

LEMMA InvStep == IInv /\ [Next]_vars => IInv'
<1> SUFFICES ASSUME IInv, [Next]_vars PROVE IInv'
  OBVIOUS
<1>1. Mails(mail') /\ Sound(acct', spent', mail', minted') /\ Requests'
  BY MailStep, SoundStep, RequestStep
<1>2. Sound(disk.acct, disk.spent, mail', minted')
  BY MailStep, Grows DEF IInv
<1>3. disk' = disk \/ disk' = [acct |-> acct', revoked |-> revoked', spent |-> spent']
  BY DiskStep DEF Snapshot
<1>4. Sound(disk'.acct, disk'.spent, mail', minted')
  BY <1>1, <1>2, <1>3
<1>5. /\ acct' \in [Account -> AccountRec] /\ revoked' \subseteq Token
      /\ spent' \subseteq 1..MaxCodes
  <2>1. Cardinality(mail') \in Nat /\ Cardinality(mail') <= MaxCodes
    BY <1>1, MailStep DEF Mails
  <2>2. QED
    BY <1>1, <2>1, AccountsAssumption DEF Sound, Requests
<1>6. DiskType'
  <2>1. CASE disk' = disk
    BY <2>1 DEF DiskType, IInv
  <2>2. CASE disk' = [acct |-> acct', revoked |-> revoked', spent |-> spent']
    BY <1>5, <2>2 DEF DiskType
  <2>3. QED
    BY <1>3, <2>1, <2>2
<1>7. QED
  BY <1>1, <1>4, <1>6 DEF IInv

(* The inductive invariant of the accounts.                                *)
THEOREM Invariance == Spec => []IInv
  BY InvInit, InvStep, PTL DEF Spec

(* Accounts in memory and on disk, requests and tokens keep their types.   *)
THEOREM TypeCorrect == Spec => []TypeOK
<1>1. IInv => TypeOK
  BY DEF IInv, Sound, Owned, Requests, DiskType, TypeOK, Live
<1>2. QED
  BY <1>1, Invariance, PTL

(* One key opens one account (signup, recover/confirm).                    *)
THEOREM KeysApart == Spec => []OneKeyOneAccount
<1>1. IInv => OneKeyOneAccount
  BY DEF IInv, Sound, Apart, OneKeyOneAccount, Live
<1>2. QED
  BY <1>1, Invariance, PTL

(* A verified address got a verification mail for its account (email/verify). *)
THEOREM AddressesDelivered == Spec => []VerifiedMeansDelivered
<1>1. IInv => VerifiedMeansDelivered
  BY DEF IInv, Sound, Owned, VerifiedMeansDelivered
<1>2. QED
  BY <1>1, Invariance, PTL

(* An accepted code is pending nowhere, in memory or in a reload.          *)
THEOREM CodesDie == Spec => []CodesSpentOnce
<1>1. IInv => CodesSpentOnce
  BY DEF IInv, Sound, Unspent, CodesSpentOnce
<1>2. QED
  BY <1>1, Invariance, PTL

-----------------------------------------------------------------------------
(* Deletion is final: whoever is gone in memory is gone on disk.           *)

GoneInv == \A a \in Account : acct[a].st = "gone" => disk.acct[a].st = "gone"

LEMMA GoneStep ==
  ASSUME IInv, GoneInv, [Next]_vars
  PROVE  GoneInv' /\ \A a \in Account : acct[a].st = "gone" => acct'[a].st = "gone"
<1>1. acct \in [Account -> AccountRec] /\ \A r \in Session : session[r] # NoToken => session[r].a \in Account
  BY DEF IInv, Sound, Requests, Token
<1>2. disk' = disk \/ disk'.acct = acct'
  BY DiskStep DEF Snapshot
<1>3. CASE \A a \in Account : acct'[a].st = acct[a].st
  BY <1>2, <1>3 DEF GoneInv
<1>4. ASSUME NEW a \in Account, SignUp(a)
      PROVE  GoneInv' /\ \A b \in Account : acct[b].st = "gone" => acct'[b].st = "gone"
  <2>1. /\ acct[a].st = "none"
        /\ \E n : acct' = [acct EXCEPT ![a] = [NewAccount EXCEPT !.st = "live", !.cred = n]]
    BY <1>4 DEF SignUp
  <2>2. \A b \in Account \ {a} : acct'[b] = acct[b]
    BY <1>1, <2>1
  <2>3. acct'[a].st = "live"
    BY <1>1, <2>1 DEF NewAccount
  <2>4. QED
    BY <1>2, <2>1, <2>2, <2>3 DEF GoneInv
<1>5. ASSUME NEW r \in Session, Delete(r)
      PROVE  GoneInv' /\ \A b \in Account : acct[b].st = "gone" => acct'[b].st = "gone"
  <2>1. PICK a \in Account : a = session[r].a
    BY <1>1, <1>5 DEF Delete
  <2>2. acct' = [acct EXCEPT ![a] = [NewAccount EXCEPT !.st = "gone"]] /\ disk'.acct = acct'
    BY <1>5, <2>1 DEF Delete, Persist, Snapshot
  <2>3. \A b \in Account \ {a} : acct'[b] = acct[b]
    BY <1>1, <2>2
  <2>4. acct'[a].st = "gone"
    BY <1>1, <2>2 DEF NewAccount
  <2>5. QED
    BY <2>2, <2>3, <2>4 DEF GoneInv
<1>6. CASE Restart
  <2>1. disk' = disk /\ acct' = disk.acct
    BY <1>6 DEF Restart
  <2>2. QED
    BY <2>1 DEF GoneInv
<1>7. ASSUME NEW a \in Account, NEW s \in Secret, NEW rc, Bump(a, s, rc)
      PROVE  \A b \in Account : acct'[b].st = acct[b].st
  BY <1>1, <1>7 DEF Bump, AccountRec
<1>8. ASSUME NEW a \in Account, \/ Recover(a) \/ \E s \in Code : Rotate(a, s)
                                \/ \E e \in Email : Bind(a, e)
      PROVE  \A b \in Account : acct'[b].st = acct[b].st
  <2>1. CASE Recover(a)
    <3>1. acct' = [acct EXCEPT ![a].recCode = NextMail]
      BY <2>1 DEF Recover
    <3>2. QED
      BY <1>1, <3>1 DEF AccountRec
  <2>2. ASSUME NEW e \in Email, Bind(a, e) PROVE \A b \in Account : acct'[b].st = acct[b].st
    <3>1. acct' = [acct EXCEPT ![a].pend = e, ![a].pendCode = NextMail]
      BY <2>2 DEF Bind
    <3>2. QED
      BY <1>1, <3>1 DEF AccountRec
  <2>3. CASE \E s \in Code : Rotate(a, s)
    BY <1>7, <2>3 DEF Rotate, Secret
  <2>4. QED
    BY <1>8, <2>1, <2>2, <2>3
<1>9. ASSUME NEW r \in Session, LogoutAll(r) PROVE \A b \in Account : acct'[b].st = acct[b].st
  <2>1. session[r].a \in Account /\ acct[session[r].a].cred \in Secret
    BY <1>1, <1>9 DEF LogoutAll, Live, IInv, Sound, Owned
  <2>2. QED
    BY <1>7, <1>9, <2>1 DEF LogoutAll
<1>10. ASSUME NEW m \in mail, NEW e \in Email, VerifyEmail(m, e)
       PROVE  \A b \in Account : acct'[b].st = acct[b].st
  <2>1. PICK a \in Account : acct' = [acct EXCEPT ![a].email = e, ![a].pend = NoEmail, ![a].pendCode = NoCode]
    BY <1>10 DEF VerifyEmail
  <2>2. QED
    BY <1>1, <2>1 DEF AccountRec
<1>11. ASSUME NEW m \in mail, NEW s \in Secret, ConfirmRecovery(m, s)
       PROVE  \A b \in Account : acct'[b].st = acct[b].st
  BY <1>7, <1>11 DEF ConfirmRecovery
<1>12. ASSUME NEW a \in Account, IssueChallenge(a) \/ RefuseLogin(a)
                                 \/ \E t \in Login : LoginByKey(t, a) \/ LoginByCode(t, a)
       PROVE  acct' = acct
  BY <1>12 DEF IssueChallenge, RefuseLogin, LoginByKey, LoginByCode
<1>13. ASSUME NEW r \in Session, RefuseSession(r) \/ \E t \in tokens : GenCheck(r, t)
       PROVE  acct' = acct
  BY <1>13 DEF RefuseSession, GenCheck
<1>14. ASSUME NEW m \in mail, Expire(m) PROVE acct' = acct
  BY <1>14 DEF Expire
<1>15. ASSUME WriteBump \/ (\E t \in Login : Mint(t))
              \/ (\E k \in Key, n \in 1..MaxChallenges : Sign(k, n)) \/ UNCHANGED vars
       PROVE  acct' = acct
  BY <1>15 DEF WriteBump, Mint, Sign, vars
<1>16. ASSUME NEW r \in Session, NEW e \in Email, BindByToken(r, e)
       PROVE  \A b \in Account : acct'[b].st = acct[b].st
  BY <1>1, <1>8, <1>16 DEF BindByToken
<1>17. ASSUME NEW a \in Account, NEW e \in Email, BindByCode(a, e)
       PROVE  \A b \in Account : acct'[b].st = acct[b].st
  BY <1>8, <1>17 DEF BindByCode
<1>18. QED
  BY <1>3, <1>4, <1>5, <1>6, <1>8, <1>9, <1>10, <1>11, <1>12, <1>13, <1>14, <1>15, <1>16, <1>17
     DEF Next

(* A deleted account does not come back, whatever was in flight and however
   often the hub restarts (DELETE /accounts/me).                           *)
THEOREM DeletionFinal == Spec => DeletedStaysDeleted
<1>1. Init => GoneInv
  BY DEF Init, GoneInv
<1>2. IInv /\ GoneInv /\ [Next]_vars => GoneInv'
  BY GoneStep
<1>3. IInv /\ GoneInv /\ [Next]_vars
        => [\A a \in Account : acct[a].st = "gone" => acct'[a].st = "gone"]_vars
  BY GoneStep
<1>4. QED
  BY <1>1, <1>2, <1>3, Invariance, PTL DEF Spec, DeletedStaysDeleted

-----------------------------------------------------------------------------
(* A challenge that is out has not been answered, and is out once.         *)

ChallengeInv ==
    /\ sigs \subseteq Key \X (1..MaxChallenges)
    /\ answered \in [1..MaxChallenges -> Nat]
    /\ \A n \in 1..MaxChallenges : answered[n] <= 1 /\ (n > issued => answered[n] = 0)
    /\ \A a \in Account : challenge[a] # 0 => challenge[a] <= issued /\ answered[challenge[a]] = 0
    /\ \A a, b \in Account : challenge[a] = challenge[b] /\ challenge[a] # 0 => a = b

LEMMA ChallengeStep == ASSUME IInv, ChallengeInv, [Next]_vars PROVE ChallengeInv'
<1>1. /\ issued \in 0..MaxChallenges /\ challenge \in [Account -> 0..MaxChallenges]
      /\ MaxChallenges \in Nat
  BY AccountsAssumption DEF IInv, Requests
<1>2. CASE /\ UNCHANGED <<issued, answered, sigs>>
           /\ \A a \in Account : challenge'[a] \in {challenge[a], 0}
  BY <1>1, <1>2 DEF ChallengeInv
<1>3. ASSUME NEW a \in Account, IssueChallenge(a) PROVE ChallengeInv'
  <2>1. /\ issued' = issued + 1 /\ issued < MaxChallenges
        /\ challenge' = [challenge EXCEPT ![a] = issued']
        /\ UNCHANGED <<answered, sigs>>
    BY <1>3 DEF IssueChallenge, environment, history
  <2>2. challenge'[a] = issued + 1 /\ \A b \in Account \ {a} : challenge'[b] = challenge[b]
    BY <1>1, <2>1
  <2>3. answered[issued + 1] = 0
    BY <1>1, <2>1 DEF ChallengeInv
  <2>4. QED
    BY <1>1, <2>1, <2>2, <2>3 DEF ChallengeInv
<1>4. ASSUME NEW k \in Key, NEW n \in 1..MaxChallenges, Sign(k, n) PROVE ChallengeInv'
  <2>1. sigs' = sigs \cup {<<k, n>>} /\ UNCHANGED <<issued, answered, challenge>>
    BY <1>4 DEF Sign, history
  <2>2. QED
    BY <2>1 DEF ChallengeInv
<1>5. ASSUME NEW a \in Account, NEW t \in Login, LoginByKey(t, a) PROVE ChallengeInv'
  <2>1. PICK n : n = challenge[a]
    OBVIOUS
  <2>2. /\ <<acct[a].cred, n>> \in sigs
        /\ challenge' = [challenge EXCEPT ![a] = 0]
        /\ answered' = [answered EXCEPT ![n] = @ + 1]
        /\ UNCHANGED <<issued, sigs>>
    BY <1>5, <2>1 DEF LoginByKey, environment
  <2>3. n \in 1..MaxChallenges
    BY <2>2 DEF ChallengeInv
  <2>4. n <= issued /\ answered[n] = 0
    BY <2>1, <2>3 DEF ChallengeInv
  <2>5. /\ answered' \in [1..MaxChallenges -> Nat] /\ answered'[n] = 1
        /\ \A m \in (1..MaxChallenges) \ {n} : answered'[m] = answered[m]
    BY <2>2, <2>3, <2>4 DEF ChallengeInv
  <2>6. challenge'[a] = 0 /\ \A b \in Account \ {a} : challenge'[b] = challenge[b]
    BY <1>1, <2>2
  <2>7. \A b \in Account \ {a} : challenge[b] # n
    BY <2>1, <2>3 DEF ChallengeInv
  <2>8. \A b \in Account : challenge'[b] # 0 => answered'[challenge'[b]] = 0 /\ challenge'[b] <= issued
    BY <1>1, <2>5, <2>6, <2>7 DEF ChallengeInv
  <2>9. \A m \in 1..MaxChallenges : answered'[m] <= 1 /\ (m > issued => answered'[m] = 0)
    BY <1>1, <2>3, <2>4, <2>5 DEF ChallengeInv
  <2>10. QED
    BY <2>2, <2>5, <2>6, <2>8, <2>9 DEF ChallengeInv
<1>6. ASSUME NEW a \in Account, NEW s, NEW rc, Bump(a, s, rc)
      PROVE  \A b \in Account : challenge'[b] \in {challenge[b], 0}
  BY <1>1, <1>6 DEF Bump
<1>7. ASSUME NEW a \in Account, \/ RefuseLogin(a) \/ SignUp(a) \/ Recover(a)
                                \/ \E t \in Login : LoginByCode(t, a)
                                \/ \E e \in Email : BindByCode(a, e)
      PROVE  ChallengeInv'
  BY <1>1, <1>2, <1>7 DEF RefuseLogin, SignUp, Recover, LoginByCode, BindByCode, Bind, environment, history
<1>8. ASSUME NEW a \in Account, NEW s \in Code, Rotate(a, s) PROVE ChallengeInv'
  BY <1>2, <1>6, <1>8 DEF Rotate, environment
<1>9. ASSUME NEW r \in Session, LogoutAll(r) PROVE ChallengeInv'
  <2>1. session[r].a \in Account
    BY <1>9 DEF LogoutAll, IInv, Requests, Token
  <2>2. QED
    BY <1>2, <1>6, <1>9, <2>1 DEF LogoutAll, environment
<1>10. ASSUME NEW r \in Session, Delete(r) PROVE ChallengeInv'
  <2>1. challenge' = [challenge EXCEPT ![session[r].a] = 0] /\ UNCHANGED <<issued, answered, sigs>>
    BY <1>10 DEF Delete, environment
  <2>2. QED
    BY <1>1, <1>2, <2>1
<1>11. ASSUME NEW r \in Session, \/ RefuseSession(r) \/ \E t \in tokens : GenCheck(r, t)
                                 \/ \E e \in Email : BindByToken(r, e)
       PROVE  ChallengeInv'
  BY <1>1, <1>2, <1>11 DEF RefuseSession, GenCheck, BindByToken, Bind, environment, history
<1>12. ASSUME NEW m \in mail, Expire(m) \/ \E e \in Email : VerifyEmail(m, e) PROVE ChallengeInv'
  BY <1>1, <1>2, <1>12 DEF Expire, VerifyEmail, environment, history
<1>13. ASSUME NEW m \in mail, NEW s \in Secret, ConfirmRecovery(m, s) PROVE ChallengeInv'
  BY <1>2, <1>6, <1>13 DEF ConfirmRecovery, environment
<1>14. CASE Restart
  BY <1>1, <1>2, <1>14 DEF Restart, environment
<1>15. ASSUME WriteBump \/ (\E t \in Login : Mint(t)) \/ UNCHANGED vars PROVE ChallengeInv'
  BY <1>1, <1>2, <1>15 DEF WriteBump, Mint, vars, environment, history
<1>16. QED
  BY <1>3, <1>4, <1>5, <1>7, <1>8, <1>9, <1>10, <1>11, <1>12, <1>13, <1>14, <1>15 DEF Next

(* A challenge logs in once, also across restarts (login by signature).    *)
THEOREM LoginOnce == Spec => []OneLoginPerChallenge
<1>1. Init => ChallengeInv
  BY AccountsAssumption DEF Init, ChallengeInv
<1>2. IInv /\ ChallengeInv /\ [Next]_vars => ChallengeInv'
  BY ChallengeStep
<1>3. ChallengeInv => OneLoginPerChallenge
  BY DEF ChallengeInv, OneLoginPerChallenge
<1>4. QED
  BY <1>1, <1>2, <1>3, Invariance, PTL DEF Spec

-----------------------------------------------------------------------------
(* While the hub does not restart, no token is ahead of its account, and a  *)
(* revoked one is behind.                                                  *)

RevInv ==
    /\ crashes = 0
    /\ \A t \in tokens : /\ acct[t.a].st # "none"
                         /\ acct[t.a].st = "live" => t.gen <= acct[t.a].gen
    /\ \A t \in revoked : acct[t.a].st = "live" => t.gen < acct[t.a].gen

LEMMA RevStep == ASSUME MaxCrashes = 0, IInv, RevInv, [Next]_vars PROVE RevInv'
<1>1. /\ acct \in [Account -> AccountRec]
      /\ tokens \subseteq Token /\ revoked \subseteq tokens
      /\ \A r \in Session : session[r] # NoToken => session[r].a \in Account
      /\ \A a \in Account : acct[a].gen \in Nat
      /\ \A t \in tokens : t.a \in Account /\ t.gen \in Nat
  BY AccountsAssumption DEF IInv, Sound, Requests, Token, AccountRec
<1>2. CASE /\ UNCHANGED <<tokens, revoked, crashes>>
           /\ \A a \in Account : acct'[a].st = acct[a].st /\ acct'[a].gen = acct[a].gen
  BY <1>1, <1>2 DEF RevInv
<1>3. ASSUME NEW a \in Account, NEW B \in AccountRec, acct[a].st = "none" \/ B.st = "gone",
             acct' = [acct EXCEPT ![a] = B], UNCHANGED <<tokens, crashes>>,
             revoked' \subseteq revoked \cup TokensOf(a)
      PROVE  RevInv'
  <2>1. acct'[a] = B /\ \A b \in Account \ {a} : acct'[b] = acct[b]
    BY <1>1, <1>3
  <2>2. \A t \in tokens : t.a = a => B.st = "gone"
    BY <1>3 DEF RevInv
  <2>3. \A t \in revoked' : t \in tokens /\ (t.a # a => t \in revoked)
    BY <1>1, <1>3 DEF TokensOf
  <2>4. QED
    BY <1>1, <1>3, <2>1, <2>2, <2>3 DEF RevInv
<1>4. ASSUME NEW a \in Account, SignUp(a) PROVE RevInv'
  <2>1. PICK s \in Secret :
          acct' = [acct EXCEPT ![a] = [NewAccount EXCEPT !.st = "live", !.cred = s]]
    BY <1>4 DEF SignUp, FreshCode, Secret
  <2>2. [NewAccount EXCEPT !.st = "live", !.cred = s] \in AccountRec
    BY NewAccountSound DEF AccountRec, NewAccount
  <2>3. acct[a].st = "none" /\ UNCHANGED <<tokens, revoked, crashes>>
    BY <1>4 DEF SignUp
  <2>4. QED
    BY <1>3, <2>1, <2>2, <2>3
<1>5. ASSUME NEW r \in Session, Delete(r) PROVE RevInv'
  <2>1. PICK a \in Account : a = session[r].a
    BY <1>1, <1>5 DEF Delete
  <2>2. /\ acct' = [acct EXCEPT ![a] = [NewAccount EXCEPT !.st = "gone"]]
        /\ revoked' = revoked \cup TokensOf(a) /\ UNCHANGED <<tokens, crashes>>
    BY <1>5, <2>1 DEF Delete
  <2>3. [NewAccount EXCEPT !.st = "gone"] \in AccountRec /\ [NewAccount EXCEPT !.st = "gone"].st = "gone"
    BY NewAccountSound DEF NewAccount
  <2>4. QED
    BY <1>3, <2>2, <2>3
<1>6. ASSUME NEW a \in Account, NEW s \in Secret, NEW rc \in 0..MaxCodes, Bump(a, s, rc),
             UNCHANGED <<tokens, crashes>>
      PROVE  RevInv'
  <2>1. /\ acct'[a].gen = acct[a].gen + 1 /\ acct'[a].st = acct[a].st
        /\ \A b \in Account \ {a} : acct'[b] = acct[b]
    BY <1>6, BumpKeeps DEF IInv
  <2>2. revoked' = revoked \cup TokensOf(a)
    BY <1>6 DEF Bump
  <2>3. \A t \in tokens : /\ acct'[t.a].st = acct[t.a].st
                          /\ acct'[t.a].gen = IF t.a = a THEN acct[a].gen + 1 ELSE acct[t.a].gen
    BY <1>1, <2>1
  <2>4. \A t \in TokensOf(a) : t \in tokens /\ t.a = a
    BY DEF TokensOf
  <2>5. \A t \in tokens : /\ acct'[t.a].st # "none"
                          /\ acct'[t.a].st = "live" => t.gen <= acct'[t.a].gen
    BY <1>1, <2>3 DEF RevInv
  <2>6. \A t \in revoked' : acct'[t.a].st = "live" => t.gen < acct'[t.a].gen
    BY <1>1, <2>2, <2>3, <2>4 DEF RevInv
  <2>7. QED
    BY <1>6, <2>5, <2>6 DEF RevInv
<1>7. ASSUME NEW t \in Login, Mint(t) PROVE RevInv'
  <2>1. UNCHANGED <<acct, revoked, crashes>>
    BY <1>7 DEF Mint
  <2>2. \A u \in tokens' \ tokens : /\ u.a = login[t].a /\ u.gen = acct[login[t].a].gen
                                    /\ acct[login[t].a].st = "live"
    BY <1>7 DEF Mint, Live
  <2>3. login[t].a \in Account
    BY <1>7 DEF Mint, IInv, Requests
  <2>4. \A u \in tokens' : /\ acct[u.a].st # "none"
                           /\ acct[u.a].st = "live" => u.gen <= acct[u.a].gen
    BY <1>1, <2>2, <2>3 DEF RevInv
  <2>5. QED
    BY <2>1, <2>4 DEF RevInv
<1>8. \A a \in Account : /\ acct[a].recCode \in 0..MaxCodes /\ NoCode \in 0..MaxCodes
                         /\ Live(a) => acct[a].cred \in Secret
  BY <1>1, AccountsAssumption DEF AccountRec, NoCode, IInv, Sound, Owned, Live
<1>9. ASSUME NEW a \in Account, NEW s \in Code, Rotate(a, s) PROVE RevInv'
  BY <1>6, <1>8, <1>9 DEF Rotate, Secret
<1>10. ASSUME NEW r \in Session, LogoutAll(r) PROVE RevInv'
  <2>1. PICK a \in Account : a = session[r].a
    BY <1>1, <1>10 DEF LogoutAll
  <2>2. /\ Live(a) /\ Bump(a, acct[a].cred, acct[a].recCode) /\ UNCHANGED <<tokens, crashes>>
    BY <1>10, <2>1 DEF LogoutAll
  <2>3. QED
    BY <1>6, <1>8, <2>2
<1>11. ASSUME NEW m \in mail, NEW s \in Secret, ConfirmRecovery(m, s) PROVE RevInv'
  BY <1>6, <1>8, <1>11 DEF ConfirmRecovery
<1>12. ASSUME NEW a \in Account, Recover(a) PROVE RevInv'
  <2>1. acct' = [acct EXCEPT ![a].recCode = NextMail] /\ UNCHANGED <<tokens, revoked, crashes>>
    BY <1>12 DEF Recover, history
  <2>2. QED
    BY <1>1, <1>2, <2>1 DEF AccountRec
<1>13. ASSUME NEW a \in Account, NEW e \in Email, Bind(a, e) PROVE RevInv'
  <2>1. /\ acct' = [acct EXCEPT ![a].pend = e, ![a].pendCode = NextMail]
        /\ UNCHANGED <<tokens, revoked, crashes>>
    BY <1>13 DEF Bind, history
  <2>2. QED
    BY <1>1, <1>2, <2>1 DEF AccountRec
<1>14. ASSUME NEW m \in mail, NEW e \in Email, VerifyEmail(m, e) PROVE RevInv'
  <2>1. PICK a \in Account : acct' = [acct EXCEPT ![a].email = e, ![a].pend = NoEmail, ![a].pendCode = NoCode]
    BY <1>14 DEF VerifyEmail
  <2>2. UNCHANGED <<tokens, revoked, crashes>>
    BY <1>14 DEF VerifyEmail
  <2>3. QED
    BY <1>1, <1>2, <2>1, <2>2 DEF AccountRec
<1>15. ~Restart
  BY DEF Restart, RevInv
<1>16. CASE UNCHANGED <<acct, tokens, revoked, crashes>>
  BY <1>2, <1>16
<1>17. ASSUME NEW a \in Account, IssueChallenge(a) \/ RefuseLogin(a)
                                 \/ \E t \in Login : LoginByKey(t, a) \/ LoginByCode(t, a)
       PROVE  RevInv'
  BY <1>16, <1>17 DEF IssueChallenge, RefuseLogin, LoginByKey, LoginByCode, history
<1>18. ASSUME NEW r \in Session, RefuseSession(r) \/ \E t \in tokens : GenCheck(r, t) PROVE RevInv'
  BY <1>16, <1>18 DEF RefuseSession, GenCheck, history
<1>19. ASSUME NEW m \in mail, Expire(m) PROVE RevInv'
  BY <1>16, <1>19 DEF Expire, history
<1>20. ASSUME WriteBump \/ (\E k \in Key, n \in 1..MaxChallenges : Sign(k, n)) \/ UNCHANGED vars
       PROVE  RevInv'
  BY <1>16, <1>20 DEF WriteBump, Sign, vars, history
<1>21. ASSUME NEW r \in Session, NEW e \in Email, BindByToken(r, e) PROVE RevInv'
  BY <1>1, <1>13, <1>21 DEF BindByToken
<1>22. ASSUME NEW a \in Account, NEW e \in Email, BindByCode(a, e) PROVE RevInv'
  BY <1>13, <1>22 DEF BindByCode
<1>23. QED
  BY <1>4, <1>5, <1>7, <1>9, <1>10, <1>11, <1>12, <1>14, <1>15, <1>17, <1>18, <1>19, <1>20, <1>21,
     <1>22 DEF Next

(* Revocation is final while the hub does not restart: rotate, logout-all,
   recover/confirm and deletion leave no earlier token valid (_gen_check). *)
THEOREM RevocationFinal == ASSUME MaxCrashes = 0 PROVE Spec => []RevokedTokensDead
<1>1. Init => RevInv
  BY DEF Init, RevInv
<1>2. IInv /\ RevInv /\ [Next]_vars => RevInv'
  BY RevStep
<1>3. IInv /\ RevInv => RevokedTokensDead
  <2> SUFFICES ASSUME IInv, RevInv, NEW t \in revoked PROVE ~Valid(t)
    BY DEF RevokedTokensDead
  <2>1. t.gen \in Nat /\ acct[t.a].gen \in Nat
    BY AccountsAssumption DEF IInv, Sound, Requests, Token, AccountRec
  <2>2. QED
    BY <2>1 DEF RevInv, Valid, Live
<1>4. QED
  BY <1>1, <1>2, <1>3, Invariance, PTL DEF Spec
===============================================================================
