-------------------------------- MODULE Chat --------------------------------
(***************************************************************************)
(* The chat agent in front of the hub: the per-sender state of chatlib.py  *)
(* (login sessions, the numbered results of the last search, the pending   *)
(* deletion, the cancel tokens), the actions brain.py can turn a message   *)
(* into, and the two services that run it.  webchat.py serves one browser: *)
(* its sid cookie is the sender, every reply sets the cookie to the sid of *)
(* its request, a login moves the session to a fresh sid in a second       *)
(* section of BRAIN_LOCK.  wrapper.py runs handle_text in threads without  *)
(* a lock (Serialized = FALSE).  What another sender's load evicts and     *)
(* what a clock expires is one action that may happen at any time.         *)
(***************************************************************************)
EXTENDS Naturals, Sequences, FiniteSets

CONSTANTS
    Sid,            \* cookie values (web-<sid>), or the addresses of agents
    Account,
    Item,           \* listings
    Paid,           \* those with a price
    Tab,            \* requests the browser can have in flight
    None,           \* no cookie, no session, no stash, no account
    Serialized,     \* BRAIN_LOCK (webchat.py) or none (wrapper.py)
    MaxBookings,
    MaxRequests,    \* bound: requests the browser sends
    MaxForgets      \* bound: evictions and expiries

VARIABLES
    live,           \* the hub: accounts that exist
    bookings,       \* the hub: the bookings chat made, in order
    sessions,       \* chatlib._SESSIONS
    stash,          \* chatlib._LAST_RESULTS
    cookie,         \* the browser's sid
    minted,         \* sids handed out
    req,            \* the requests in flight, by tab
    shown,          \* the numbered list a sender was last shown, while it has one
    warned,         \* the account a sender's session was warned about
    sent, lost,     \* how many requests were sent, how often something was forgotten
    told            \* the account the browser was last told it acts as

hubVars  == <<live, bookings>>
chatVars == <<sessions, stash>>
vars     == <<hubVars, chatVars, cookie, minted, req, shown, warned, told,
            sent, lost>>
bounds   == <<sent, lost>>

NoReq == [pc |-> "idle", sid |-> None, kind |-> "chat", says |-> None,
          posted |-> 0, alone |-> TRUE]
Fresh(a) == [acct |-> a, pend |-> None, cancels |-> {}]

Lists == {<<>>} \cup {<<i>> : i \in Item}
         \cup {<<i, j>> : i \in Item, j \in Item}
Numbered == {l \in Lists : \A m, n \in DOMAIN l : l[m] = l[n] => m = n}

SessionType == [acct : Account, pend : Account \cup {None},
                cancels : SUBSET (1..MaxBookings)]

(* Every sender's state and every request is of its kind. *)
TypeOK ==
    /\ live \subseteq Account
    /\ \A n \in DOMAIN bookings :
          bookings[n] \in [by : Account, item : Item, asked : Item \cup {None},
                           active : BOOLEAN]
    /\ sessions \in [Sid -> SessionType \cup {None}]
    /\ stash \in [Sid -> Numbered \cup {None}]
    /\ cookie \in Sid \cup {None} /\ minted \subseteq Sid

Init ==
    /\ live = Account /\ bookings = <<>>
    /\ sessions = [s \in Sid |-> None]
    /\ stash = [s \in Sid |-> None]
    /\ cookie = None /\ minted = {}
    /\ req = [t \in Tab |-> NoReq]
    /\ shown = [s \in Sid |-> <<>>] /\ warned = [s \in Sid |-> None]
    /\ told = None /\ sent = 0 /\ lost = 0

(***************************************************************************)
(* Requests.                                                               *)
(***************************************************************************)
InFlight == {t \in Tab : req[t].pc # "idle"}
(* "posted" is inside a section of the lock; the other points are between. *)
(* Mutant: a request comes in between the two sections of another.         *)
LockOpen(t) == TRUE
LockFree(t) == Serialized => \A u \in Tab \ {t} : req[u].pc # "posted"
At(t, pc, kind) == req[t].pc = pc /\ req[t].kind = kind
S(t) == req[t].sid

(* The browser sends its cookie, or none and the server mints a sid. *)
Send(t, kind) ==
    /\ req[t].pc = "idle" /\ sent < MaxRequests /\ sent' = sent + 1
    /\ \E s \in IF cookie # None THEN {cookie} ELSE Sid \ minted :
          /\ minted' = minted \cup {s}
          /\ req' = [u \in Tab |->
                IF u = t THEN [NoReq EXCEPT !.pc = "sent", !.sid = s, !.kind = kind,
                                            !.alone = InFlight = {}]
                ELSE [req[u] EXCEPT !.alone = FALSE]]
    /\ UNCHANGED <<hubVars, chatVars, cookie, shown, warned, told, lost>>

(* The reply sets the cookie to its sid; /api/reset clears it. *)
Deliver(t) ==
    /\ req[t].pc = "answered"
    /\ cookie' = S(t)
    /\ told' = IF ~req[t].alone THEN None
               ELSE IF req[t].says = "same" THEN told ELSE req[t].says
    /\ req' = [req EXCEPT ![t] = NoReq]
    /\ UNCHANGED <<hubVars, chatVars, minted, shown, warned, bounds>>

(* Mutant: a reply sets the cookie its request came with.                  *)
AnswerOld(t, sid, says) ==
    req' = [req EXCEPT ![t].pc = "answered", ![t].says = says]
Answer(t, sid, says) ==
    req' = [req EXCEPT ![t].pc = "answered", ![t].sid = sid, ![t].says = says]
Say(t) == Answer(t, S(t), "same")

(***************************************************************************)
(* Sessions.                                                               *)
(***************************************************************************)
(* Mutant: a new login takes over the old session's pending deletion.      *)
SetSessionOver(s, a) ==
    /\ sessions' = [sessions EXCEPT ![s] = [Fresh(a) EXCEPT
                        !.pend = IF sessions[s] = None THEN None ELSE sessions[s].pend]]
    /\ warned' = [warned EXCEPT ![s] = None]
SetSession(s, a) ==
    /\ sessions' = [sessions EXCEPT ![s] = Fresh(a)]
    /\ warned' = [warned EXCEPT ![s] = None]
DropSession(s) ==
    /\ sessions' = [sessions EXCEPT ![s] = None]
    /\ warned' = [warned EXCEPT ![s] = None]

(* login, login-seed and signup typed in the chat: the sid stays. *)
TypedLogin(t) ==
    /\ \E a \in live : SetSession(S(t), a) /\ Answer(t, S(t), a)
    /\ UNCHANGED <<hubVars, stash, shown>>
TypedLogout(t) ==
    /\ DropSession(S(t)) /\ Answer(t, S(t), None)
    /\ UNCHANGED <<hubVars, stash, shown>>

(* The hub revokes every login token of the account, on every chat, and   *)
(* refuses a session whose own tokens are dead: then nothing changes here. *)
LogoutAll(t) ==
    /\ sessions[S(t)] # None
    /\ \/ DropSession(S(t)) /\ Answer(t, S(t), None)
       \/ Say(t) /\ UNCHANGED <<sessions, warned>>
    /\ UNCHANGED <<hubVars, stash, shown>>

(* delete-account: the first message warns, the second erases. *)
DeleteWarn(t) ==
    /\ sessions[S(t)] # None
    /\ sessions' = [sessions EXCEPT ![S(t)].pend = sessions[S(t)].acct]
    /\ warned' = [warned EXCEPT ![S(t)] = sessions[S(t)].acct]
    /\ Say(t)
    /\ UNCHANGED <<hubVars, stash, shown>>
DeleteConfirm(t) ==
    LET s == sessions[S(t)] IN
    /\ s # None /\ s.pend # None
    /\ \/ /\ s.acct \in live /\ s.pend = s.acct
          /\ live' = live \ {s.acct}
          /\ DropSession(S(t)) /\ Answer(t, S(t), None)
       \/ Say(t) /\ UNCHANGED <<live, sessions, warned>>
    /\ UNCHANGED <<bookings, stash, shown>>

(***************************************************************************)
(* Search and the numbered results.                                        *)
(***************************************************************************)
(* A search without a hit answers so and keeps the older results. *)
Search(t) ==
    /\ \E l \in Numbered :
          IF l = <<>> THEN UNCHANGED <<stash, shown>>
          ELSE /\ stash' = [stash EXCEPT ![S(t)] = l]
               /\ shown' = [shown EXCEPT ![S(t)] = l]
    /\ Say(t) /\ UNCHANGED <<hubVars, sessions, warned>>

(* Mutant: the cards are shown, the numbers stay those of the last search. *)
BrowseUnnumbered(t) ==
    /\ \E l \in Numbered \ {<<>>} : shown' = [shown EXCEPT ![S(t)] = l]
    /\ Say(t) /\ UNCHANGED <<hubVars, stash, sessions, warned>>
(* "not X, something else": the board without X, which is not a search.    *)
BrowseExcept(t) ==
    /\ \E l \in Numbered \ {<<>>} :
          /\ stash' = [stash EXCEPT ![S(t)] = l]
          /\ shown' = [shown EXCEPT ![S(t)] = l]
    /\ Say(t) /\ UNCHANGED <<hubVars, sessions, warned>>

(* nav_reply("home") and the typed board reset. *)
BoardReset(t) ==
    /\ stash' = [stash EXCEPT ![S(t)] = None]
    /\ shown' = [shown EXCEPT ![S(t)] = <<>>]
    /\ Say(t) /\ UNCHANGED <<hubVars, sessions, warned>>

(***************************************************************************)
(* Booking: by position in the last results, or by the id of a listing.    *)
(***************************************************************************)
(* The listing a number stands for, and what the sender was shown there.   *)
Positions(s) == IF stash[s] = None THEN {} ELSE DOMAIN stash[s]
Target(s, n) == stash[s][n]
ShownAt(s, n) == IF n \in DOMAIN shown[s] THEN shown[s][n] ELSE None

(* The hub books a free listing for live tokens; chat asks only for those. *)
BookPost(t) ==
    LET s == S(t) IN
    /\ sessions[s] # None /\ sessions[s].acct \in live
    /\ Len(bookings) < MaxBookings
    /\ \E pick \in {<<Target(s, n), ShownAt(s, n)>> : n \in Positions(s)}
                   \cup {<<i, i>> : i \in Item}, heard \in BOOLEAN :
          /\ pick[1] \in Item \ Paid
          /\ bookings' = Append(bookings,
                [by |-> sessions[s].acct, item |-> pick[1], asked |-> pick[2],
                 active |-> TRUE])
          /\ req' = [req EXCEPT ![t].pc = IF heard THEN "posted" ELSE "answered",
                                ![t].says = "same",
                                ![t].posted = Len(bookings) + 1]
    /\ UNCHANGED <<live, chatVars, shown, warned>>

(* The cancel token goes into the session the sender has by then. *)
BookStore(t) ==
    /\ At(t, "posted", "chat")
    /\ sessions' = IF sessions[S(t)] = None THEN sessions
                   ELSE [sessions EXCEPT ![S(t)].cancels = @ \cup {req[t].posted}]
    /\ Answer(t, S(t), "same")
    /\ UNCHANGED <<hubVars, stash, cookie, minted, shown, warned, told, bounds>>

(***************************************************************************)
(* One message.  brain.respond turns it into one of the same actions, or   *)
(* answers without touching anything; without the brain it is a search.    *)
(***************************************************************************)
BrainTurn(t) ==
    \/ Search(t)
    \/ BoardReset(t)
    \/ BookPost(t)
    \/ Say(t) /\ UNCHANGED <<hubVars, chatVars, shown, warned>>

HandleText(t) ==
    /\ At(t, "sent", "chat") /\ LockFree(t)
    /\ \/ TypedLogin(t) \/ TypedLogout(t) \/ LogoutAll(t)
       \/ DeleteWarn(t) \/ DeleteConfirm(t)
       \/ BrowseExcept(t) \/ BrainTurn(t)
    /\ UNCHANGED <<cookie, minted, told, bounds>>

(***************************************************************************)
(* webchat.py's own endpoints.                                             *)
(***************************************************************************)
(* POST /api/login, first section: a login that fails leaves the session   *)
(* the sid had, and the answer is built from that.                         *)
ApiLogin(t) ==
    /\ At(t, "sent", "login") /\ LockFree(t)
    /\ \/ \E a \in live :
             /\ SetSession(S(t), a)
             /\ req' = [req EXCEPT ![t].pc = "entered", ![t].says = a]
       \/ /\ req' = [req EXCEPT ![t].pc = IF sessions[S(t)] = None THEN "answered" ELSE "entered",
                                ![t].says = IF sessions[S(t)] = None THEN None
                                            ELSE sessions[S(t)].acct]
          /\ UNCHANGED <<sessions, warned>>
    /\ UNCHANGED <<hubVars, stash, cookie, minted, shown, told, bounds>>

(* POST /api/login-pubkey sets the session in a section and reads it back  *)
(* outside: another request may have taken it, and the handler dies.       *)
ApiLoginKey(t) ==
    /\ At(t, "sent", "key") /\ LockFree(t)
    /\ \/ \E a \in live : SetSession(S(t), a)
          /\ req' = [req EXCEPT ![t].pc = "keyed"]
       \/ Say(t) /\ UNCHANGED <<sessions, warned>>
    /\ UNCHANGED <<hubVars, stash, cookie, minted, shown, told, bounds>>
ReadBack(t) ==
    /\ At(t, "keyed", "key")
    /\ req' = IF sessions[S(t)] = None THEN [req EXCEPT ![t] = NoReq]
              ELSE [req EXCEPT ![t].pc = "entered", ![t].says = sessions[S(t)].acct]
    /\ UNCHANGED <<hubVars, chatVars, cookie, minted, shown, warned, told, bounds>>

(* The second section: session and results move to a fresh sid, the search *)
(* to refine does not; without a session the handler dies unanswered.      *)
Rotate(t) ==
    /\ req[t].pc = "entered" /\ LockFree(t)
    /\ IF sessions[S(t)] = None
       THEN /\ req' = [req EXCEPT ![t] = NoReq]
            /\ UNCHANGED <<chatVars, minted, shown, warned>>
       ELSE \E n \in Sid \ minted :
            LET old == S(t)
                Move(f, none) == [f EXCEPT ![n] = f[old], ![old] = none] IN
            /\ minted' = minted \cup {n}
            /\ sessions' = Move(sessions, None)
            /\ warned' = Move(warned, None)
            /\ stash' = Move(stash, None)
            /\ shown' = Move(shown, <<>>)
            /\ Answer(t, n, req[t].says)
    /\ UNCHANGED <<hubVars, cookie, told, bounds>>

ApiLogout(t) ==
    /\ At(t, "sent", "logout") /\ LockFree(t)
    /\ DropSession(S(t)) /\ Answer(t, S(t), None)
    /\ UNCHANGED <<hubVars, stash, cookie, minted, shown, told, bounds>>
ApiReset(t) ==
    /\ At(t, "sent", "reset") /\ LockFree(t)
    /\ DropSession(S(t)) /\ Answer(t, None, None)
    /\ UNCHANGED <<hubVars, stash, cookie, minted, shown, told, bounds>>

(* POST /api/cancel, without the lock: the hub takes a token once; the     *)
(* session drops it on a 200, and keeps it when the answer is lost.        *)
ApiCancel(t) ==
    /\ At(t, "sent", "cancel")
    /\ \E b \in IF sessions[S(t)] = None THEN {} ELSE sessions[S(t)].cancels :
          /\ bookings' = [bookings EXCEPT ![b].active = FALSE]
          /\ \E heard \in BOOLEAN :
                sessions' = IF heard /\ bookings[b].active
                            THEN [sessions EXCEPT ![S(t)].cancels = @ \ {b}] ELSE sessions
    /\ Say(t)
    /\ UNCHANGED <<live, stash, cookie, minted, shown, warned, told, bounds>>

(***************************************************************************)
(* The hub's other clients, the clock and the caps.                        *)
(***************************************************************************)
OwnerConfirms(b) ==
    /\ bookings[b].active
    /\ bookings' = [bookings EXCEPT ![b].active = FALSE]
    /\ UNCHANGED <<live, chatVars, cookie, minted, req, shown, warned, told, bounds>>

(* _session and _set_session evict the oldest tenth at the cap and drop a  *)
(* session after its 24 h; the stash has its own cap.                      *)
Forget(s) ==
    /\ \/ /\ sessions[s] # None /\ DropSession(s)
          /\ told' = None
          /\ req' = [t \in Tab |-> [req[t] EXCEPT !.says = IF @ = "same" THEN @ ELSE None]]
          /\ UNCHANGED <<stash, shown>>
       \/ /\ stash[s] # None
          /\ stash' = [stash EXCEPT ![s] = None]
          /\ shown' = [shown EXCEPT ![s] = <<>>]
          /\ UNCHANGED <<sessions, warned, req, told>>
    /\ lost < MaxForgets /\ lost' = lost + 1
    /\ UNCHANGED <<hubVars, cookie, minted, sent>>

Kinds == {"chat", "login", "key", "logout", "reset", "cancel"}

Next ==
    \/ \E t \in Tab : \/ \E k \in Kinds : Send(t, k)
                      \/ Deliver(t) \/ HandleText(t) \/ BookStore(t)
                      \/ ApiLogin(t) \/ ApiLoginKey(t) \/ ReadBack(t) \/ Rotate(t)
                      \/ ApiLogout(t) \/ ApiReset(t) \/ ApiCancel(t)
    \/ \E b \in DOMAIN bookings : OwnerConfirms(b)
    \/ \E s \in Sid : Forget(s)

Spec == Init /\ [][Next]_vars

(***************************************************************************)
(* Properties.                                                             *)
(***************************************************************************)
(* What a booking made by number reserves is the listing its sender was    *)
(* last shown at that number, across logins that move the sender to a      *)
(* fresh sid, resets, evictions and searches without a hit                 *)
(* (handle_text's 'book n', brain_book, webchat's rotation).               *)
BookedAsShown ==
    \A n \in DOMAIN bookings : bookings[n].item = bookings[n].asked

(* The cancel tokens of a session are those of bookings its own account    *)
(* made, whatever was logged in, out or moved while the hub was booking    *)
(* (handle_text's W1 stash, used by webchat.api_dashboard and api_cancel). *)
CancelTokensFit ==
    \A s \in Sid : sessions[s] # None =>
        \A b \in sessions[s].cancels :
            b \in DOMAIN bookings /\ bookings[b].by = sessions[s].acct

(* When no request is in flight, the account the browser was last told it  *)
(* acts as is the one whose tokens its next command uses; told is set only *)
(* by a reply whose request had no other beside it (api_login, rotation).  *)
ToldIsActing ==
    told # None /\ InFlight = {} =>
        /\ cookie # None /\ sessions[cookie] # None
        /\ sessions[cookie].acct = told

(* An account is erased only by a session that was warned about that very  *)
(* account and has not logged in anew since (_delete_account's two steps). *)
ErasedAsWarned ==
    [][\A a \in live \ live' :
          \E s \in Sid : /\ warned[s] = a
                         /\ sessions[s] # None /\ sessions[s].acct = a
                         /\ sessions'[s] = None]_vars
=============================================================================
