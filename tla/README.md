# A TLA+ model of EverList

EverList (`everlist/`) is a marketplace hub for agents: one Python process that
keeps listings, bookings with an escrow state, a public ledger, accounts and
reputations in memory, guards them with one lock, and writes the whole state as
one snapshot at the end of every mutation.  Around it stand a registry of hubs
(`registry/`), an escrow contract on the Midnight chain that the hub mirrors, an
x402 payment facilitator, a chat agent, an MCP endpoint and a client SDK.

This directory holds TLA+ models of the parts whose order of events matters, TLC
runs that check them on small instances, and TLAPS proofs of what holds for all
instances.  `PROJECT.json` says, definition by definition, which lines of the
source a model stands for.

## 1. Inventory

`app.py` is a `ThreadingHTTPServer`: each request is a thread.  `LOCK` (an
`RLock`) protects the module state; a handler may take it once, take it several
times with work in between, or (token checks) use another lock.

| Component | State it keeps | Operations | What makes it correct |
|---|---|---|---|
| Booking engine (`app.py`) | `LISTINGS`, `BOOKINGS`, `LEDGER`, `SECRETS`, id counters | `POST /listings`, `.../manage` (edit, delete, archive, unarchive, make_private, make_public), `POST /book`, `/confirm`, `/cancel`, `/admin/sync-escrow` | the seat counter equals the seats taken; no overselling; escrow follows its diagram; the ledger tells it; an open booking keeps its listing; a refund on the chain arrives |
| Escrow mirror (`midnight_indexer.py`) | none; reads an indexer | `escrow(id)`: a state or `IndexerError` | answers are never invented; errors leave the booking alone |
| Booking requests (`app.py`) | `IDEMPOTENCY`, `RATE_LIMITS` | the gates of `POST /book`, replay by `Idempotency-Key` | one key books once, also across a restart; a gate that was closed at the decision stays closed; the terms agreed to are the terms recorded |
| Reputation (`app.py`) | `rating_*`, `feedback_*`, `review_flags`, in the listing and in the account | `/book/{id}/rate`, recompute at boot, review queue | the aggregate in memory is what a reload computes; free bookings never enter the paid aggregate |
| Accounts (`app.py`) | `ACCOUNTS` (credential hash or key, `gen`, email, recovery), `LOGIN_CHALLENGES`, `AUTH_HITS` | signup, login, rotate, logout-all, email bind / verify / recover, vouch, delete | a revoked credential yields no valid token; one verified email, one account |
| Proof of work (`app.py`) | `POW_CHALLENGES` | issue, spend, prune | a solved challenge is accepted once |
| Tokens (`hublib.py`) | `_NONCES` | mint, verify (single use, subject, expiry), prune | a single-use token works once, also across a restart |
| Personhood (`midnight_credential.py`) | `midnight_credential` in the account | verify-midnight | a verdict is applied to the account and commitment it was given for |
| x402 (`x402verify.py`, `x402facilitate.py`) | used nonces, settlement registry | verify, settle, reconcile | an authorization is accepted once and settled once; ledger and registry agree |
| Storage (`storage.py`, `tools/restore_backup.py`) | state file or SQLite, rotated backups, instance lock | write, read, rotate, restore | a crash leaves the old or the new snapshot; backups are whole; one process writes |
| Money and terms (`app.py`) | none | fee, payout, normalise terms | fee + payout = price; terms stay within their limits |
| Rate limits (`app.py`, `webchat.py`) | sliding windows | allow, evict | never more than the cap in a window; the tables stay bounded |
| Search, pages, single reads (`app.py`, `storage.py`) | the full-text index | `GET /listings`, `/listings/{id}`, `/search`, `/suggest` | what is closed to a reader stays out of the answer; a client that pages misses nothing that stood still; a search finds what was acknowledged |
| Registry (`registry/registry.py`) | open and verified tiers of hub records, signing key | `GET /registry`, `POST /register` (probe, prove, insert, evict, persist) | a hub is listed once; a registration that was answered stays until displaced |
| Registry checker (`registry/check_hub.py`) | none; asks a hub and judges it | C1 to C7, the registry's signature | an honest hub is not blamed, a cheating one is not cleared |
| Chat agent (`webchat.py`, `chatlib.py`, `brain.py`) | per sender: session, last results, pending deletion, cancel tokens, listing draft, slot count; the cookie | login, logout, rotation, search, `book n`, cancel, delete-account, guided and one-shot listing | a number books what was shown at it; the browser acts as whom it was told; a slot is counted once; only a warned session erases |
| Wrapper, MCP, SDK | a token, a key | translate, retry | a retry does not book twice |
| Front end, mail, operations | none of their own | read and render | (no state) |

How they interact: every handler calls the booking engine's state directly under
`LOCK`; tokens come from `hublib` under its own `_NLOCK`; `sync-escrow` calls the
indexer with no lock held; the premium endpoint calls the facilitator *with*
`LOCK` held; every mutation ends in `_persist_locked`, which copies all
components' tables into one snapshot; the next start reads it back.  Chat, MCP,
wrapper and SDK reach the hub over HTTP only.

Hard behaviours:

* requests that check, let go of the lock and come back (token check then
  transition, idempotency check then reservation then store, chain read then
  mirror, verdict then apply, login proof then token);
* changes in memory followed by a write that may fail or never happen;
* two sources of truth for an escrow: the hub and the chain;
* things recomputed at boot that were maintained incrementally before;
* bounded tables with eviction (challenges, idempotency keys, rate windows, open
  registry tier, chat sessions);
* reads whose result is checked or written out after the lock is gone.

`PROJECT.json` lists the hazards one by one, each at its line, with the
properties that would notice.

## 2. Plan

| # | Modules | Proofs | Question |
|---|---|---|---|
| 1 | `Escrow` (abstract), `BookingCore` | `BookingCore_proof` | seats, escrow, ledger, snapshot, chain |
| 2 | `BookRequests` | `BookRequests_proof` | the threads of `POST /book`, idempotency keys |
| 3 | `Accounts` | `Accounts_proof` | credentials, generations, email, recovery, deletion |
| 4 | `Reputation` | `Reputation_proof` | ratings, aggregates, the rebuild at boot, the review queue |
| 5 | `X402` | `Web_proof` | verification and settlement of payments |
| 6 | `Chat` | `Web_proof` | the chat agent: browsing, booking, sessions |
| 7 | `ProofOfWork` | `Services_proof` | the table of challenges |
| 8 | `DurableStore` (abstract), `Storage` | `Services_proof` | file mode, SQLite, backups, power cuts, the restore tool |
| 9 | `Credential` | `Services_proof` | verify-midnight and vouching |
| 10 | `Reads` | `Services_proof` | listings, search, pages, the gates of a request |
| 11 | `Intake` | `Services_proof` | the chat agent: listing |
| 12 | `Registry`, `HubCheck` | `Registry_proof` | the registry of hubs and the checker that judges a hub |

All of it is written; what could follow is in section 7.  `MCBookingCore`,
`MCBookRequests`, `MCAccounts` and `MCReputation` instantiate one component each.
`Web` puts the two web front ends `X402` and `Chat` side by side, `Services` the seven
services of rows 7 to 12; `MCWeb` and `MCServices` give them their small instances.  The
components of these two share no state, so `part` chooses one of them at the start and the
others stand still: what TLC explores is the union of their state spaces, not the product,
and each property speaks of its own part.  The proofs are about `Web` and `Services` too:
each component keeps an invariant of its own, whatever `part` is.  `Data_proof` has the
facts about sums and sequences that several proofs need.

`BookingCore` is the centre: `BookRequests` refines what leads to its `Book`,
`Reputation` follows its bookings after they end, `X402` explains its
`SettlePremium`, `Storage` explains when its `disk` is what it was told, and `Chat`
is one of its clients.  They are kept apart because each asks a question of its own
and TLC would not get through their product; what one assumes of another is an action
of the other (a settlement, a snapshot, a mirror), stated in the comments.

## 3. The booking engine

### State and actions

`BookingCore` keeps `LISTINGS` and `BOOKINGS` as functions from ids to records
(ids are never reused: listing ids come from persisted counters, booking ids are
random), the public ledger as the two things a reader can learn about a booking
from it (the `escrow` field of the booking's own entry, and the newest
`escrow_sync` entry), and whether an x402 settlement is in it and which entries
follow that settlement.  `disk` is the last snapshot; `spent` the cancel tokens
whose nonce is in `hublib._NONCES`.

| Action | Code |
|---|---|
| `CreateListing`, `EditListing`, `ArchiveListing`, `DeleteListing` | `POST /listings`, `/listings/{id}/manage`; one lock section each |
| `Book` | the reservation section of `POST /book`: duplicate escrow reference, capacity, opening state (`WAIVED`, `DIRECT`, `HELD`), record, ledger entry, counter, snapshot |
| `VerifyConfirm`, `Confirm`, `RefuseConfirm` | `POST /book/{id}/confirm`: the token is checked before `LOCK` is taken |
| `VerifyCancel`, `Cancel`, `RefuseCancel` | `POST /book/{id}/cancel`: the token's nonce is spent before `LOCK` is taken |
| `SyncStart`, `SyncReadChain`, `SyncError`, `SyncApply` | `POST /admin/sync-escrow`: copy under `LOCK`, read the chain without it, mirror under it if the booking did not change |
| `SettlePremium` | `GET /premium/events` in settle mode: the settlement is appended to the ledger |
| `Restart` | crash and `_load_state` |
| `ChainMove`, `Tick` | the escrow contract as the indexer shows it; the clock (both external) |

`LedgerLoop` is the loop of confirm and cancel over `LEDGER`.  It reads
`t["booking"]`, which an `x402_settlement` entry does not have; the model keeps
the exception: entries before the settlement have been rewritten, later ones and
the disk have not, and the booking has changed.

`Escrow` is what a booker is told (SPEC.md, section 5): a booking starts `HELD`,
`WAIVED` or `DIRECT`; it ends `RELEASED` or `REFUNDED`; only the mutual refund of
the chain takes `RELEASED` to `REFUNDED`.  `BookingCore!EscrowPromise` is that
specification under the mapping `escrow <- booking's escrow field`.

### Properties

* `InventoryExact`: the counter of a listing equals the seats of its bookings,
  where a booking refunded by *cancel* occupies none and one whose refund was
  mirrored from the chain still does (sync-escrow never touches the counter).
* `NoOversell`, `ActiveHasListing`, `RefExclusive`: across racing bookings, edits,
  cancels, deletes and mirrors.
* `LedgerTells`: what the ledger says of a booking is its escrow state.
* `AcknowledgedIsDurable`: between handlers, memory and disk agree.
* `RefundCredentialKept`: while the refund window is open, and until the hub
  restarts, the buyer's only cancel token has not been burned by a refused or
  racing attempt.  (After a restart it may have been: the nonce travels to the disk
  with whatever snapshot is written next, before the cancel it was spent for.)
* `EscrowPromise`: refinement of `Escrow`.
* `RefundReachesHub` (liveness): a refund on the chain reaches the booking.

### Runs

| Run | Instance | Shows |
|---|---|---|
| `booking_inventory` | 1 listing, 2 bookings, quantity up to 2, capacities 0, 1, 3, one escrow, 1 restart | inventory, listings kept, references |
| `booking_sync` | 1 booking, 1 escrow, 1 sync, clock of 2 ticks, window of 1, 1 restart, fairness | refinement, ledger, durability, credential, convergence with the chain |
| `booking_faults` | 1 booking, failed writes, settlement exceptions, 2 restarts | the counter stays exact in memory and after every reload |
| `booking_settled` | the smallest instance that shows it | section 6 |

Why these bounds are enough to see the cases: two bookings compete for a capacity
of 1 or 3 with quantities 1 and 2, so both "fits alone, not together" (1 and 1, or
2 and 2) and "fits together" (1 and 2) occur, edits move the capacity below and
above what is sold, and capacity 0 gives the edit that refuses every booking; one
escrow reference is enough for two bookings to want it; one sync is enough to hold
a stale copy while confirm, cancel, the chain or the window moves on; two ticks and
a window of one put a cancel before, at and after the deadline.  What does not
depend on these numbers is proved.

### Fairness

`FairSpec` assumes of the operator that `sync-escrow` is run again and again
(`WF` of `SyncStart`), that a request which holds an answer goes on (`WF` of
`SyncApply`, `SyncError`), and that the indexer answers now and then (`SF` of
`SyncReadChain`: reads may fail any number of times, but not for ever).  Nothing
is assumed of buyers, owners, the clock or the chain.  The loop over the targets
goes on after each `IndexerError`, which is what makes the assumption per
booking and not only per request.

## 4. The other parts

Each module below is one component, with its own restart: the action loads the
component's part of the last snapshot and forgets what the code keeps in memory
only.

### Booking requests: `BookRequests`

`POST /book` takes `LOCK` several times and lets go of it in between.  A request
thread walks through `gates`, `check` (the idempotency table), `reserve`,
`respond`; the owner's `make_private`, `make_public`, `archive`, `edit` and
`delete`, other requests and a restart come in between.  The listing is reduced
to what the gates read; a buyer who is not verified, a wrong field or the rate
limit is a refusal that may always happen (`RefuseGates`, `RefuseReserve`).  The
idempotency table is a sequence in insertion order, because eviction is FIFO and a
key that is stored again keeps its place.  Only custom payment terms are told
apart: echoing the default ones, or none, makes no difference to the code.

* `ReplayIsPrivate`: a 201 answer, replayed or fresh, shows a booking only to the
  principal and payload it was made for, though two principals may use one key and
  the later response replaces the earlier one.
* `TermsConsented`: a paid booking under custom terms records the terms the buyer
  echoed, although the owner edits terms and price between the buyer's reading and
  the reservation.
* `OneKeyOneBooking` does not hold (section 6).

Run `book_races`: 2 threads, 2 principals, 1 key and no key, one custom terms
object, 1 claim code, 2 bookings, any number of restarts.  Two threads and two
principals are what a race for one key needs; the second booking is needed for one
stored response to replace another.

### Accounts: `Accounts`

`ACCOUNTS` with its credential (a code or a public key), generation, bound and
pending address and pending codes; `LOGIN_CHALLENGES`; login requests that have
proved a credential and not yet minted a token; token requests that passed
`_gen_check` and have not yet taken `LOCK`; the snapshot.  Login reads the
generation after letting go of `LOCK` (`Mint`), so it may see a generation that
`rotate`, `logout-all` or `recover/confirm` has bumped and not yet written
(`Bump`, then `WriteBump`).  Mails, signatures and the fifteen minutes of a code
are external: a request may present a code only after it was mailed, to whomever,
and a signature only if the owner of the key made it.

* `RevokedTokensDead`: a completed rotation, recovery, logout-all or deletion
  leaves no token valid that was issued before it, whatever was minted during it.
* `OneLoginPerChallenge`, `OneKeyOneAccount`, `VerifiedMeansDelivered`,
  `CodesSpentOnce`: each relates a credential in use to how it was obtained, over
  rebinding, racing confirmations and reloads.
* `DeletedStaysDeleted`: neither a restart nor a request in flight revives an
  account.
* `EmailVerifiedOnce` does not hold (section 6).

Run `accounts_tokens` has no restart: with one, a token minted between a bump in
memory and its snapshot survives the crash that undoes the bump, and is valid again
once a later bump reaches its generation.  Its bounds are one account, three
generations, two logins and two token requests at once, so that one handler can be
between any two steps of another.  Run `accounts_email` has two accounts that
compete for keys and addresses, two requests at once, three mails (bind, rebind,
recover) and a restart.

### Reputation: `Reputation`

Listings with their aggregates (paid, free, weighted) and review flags, bookings
with payer, settled amount, escrow and rating.  `Rate` is the whole handler:
self-review walls, channel, weight, aggregates, the heuristics of the review queue,
snapshot.  `Restart` rebuilds every aggregate from the bookings, as the code does at
every start.

* `AggregatesFromHistory`: what was kept step by step equals what the next start
  will compute.  It excepts listings with a free booking that was confirmed or
  cancelled after its rating: the rebuild then moves that rating to the paid
  channel, although SPEC.md section 21b says free bookings never enter it.
* `RatedForGood`: no rating changes or is lost, over restarts.
* `SuspectsFlagged` (`CollusionFlagged` and `BurstFlagged`): whichever booking is
  rated first, a wallet that paid twice, or for two listings of one owner, and three
  paid ratings within the window put a listing in the queue.

Run `rep_aggregates`: 2 listings, 3 bookings (a burst needs three), 2 principals, 1
wallet, amounts 0 and 60 (the weight is capped at 50), one score, a clock of one tick
and a burst window within a tick, 1 restart.

### x402: `X402`

A payment is an authorization and a spelling of its nonce: the payer signs 32 bytes,
which the client may write in upper or lower case, while the nonce registry and the
fingerprint of a settlement are keyed by the string.  `verify_payment` is four steps
without `LOCK`: the clock (`CheckWindow`), a look at the nonces that prunes them
(`FirstLook`), the signature, and a second look that records the nonce (`SecondLook`).
An authorization may expire between any two of them.  The premium handler holds `LOCK` from `Enter`, which persists the
nonce, through the facilitator's answer (`Ask`, `Record` or `Reuse`).  The
facilitator may settle and answer, settle and be silent, or fail; an authorization
may expire at any moment, and expired nonces are pruned whenever they are looked at
or written.

* `AskedOnce`: the facilitator is asked once for a payment, whatever races, expires or
  dies.  Excepted is a payment that expired while a request was verifying it: if the hub
  died earlier between asking and recording, its nonce is pruned, its outcome unknown, and
  the facilitator is asked again.
* `Reconciled`: the registry says settled exactly if the ledger does, in memory
  and on disk, and only of authorizations that are on the chain.
* `ServedOnce`: a payment is served once, unless it expired while a request was
  verifying it: its nonce is then pruned before a look, and a second
  request is served from the recorded outcome.

All three speak of payments.  Of authorizations `AskedOnce` and `ServedOnce` would be false
(section 6): another spelling is another payment, and only the chain refuses it.

Run `chat_payments`, part `payments`: 3 threads, 1 authorization in 2 spellings, any number of
restarts.  Three threads: one in the settlement, one verified behind it, one still verifying.
Two spellings are two payments to the registries, and more than two, as they share the chain
and the clock.

### Proof of work: `ProofOfWork`

The table of challenges with kind and mark, the issue with its pruning, the spend
with its early returns, solutions and expiry (external), a restart that empties the
table.  `WorkNotLost`: a full table, a wrong solution or a wrong kind never costs a
client the challenge it solved.  The code takes the mark off a used challenge when it
refuses it, so the attempt after a refused one succeeds, where SPEC.md section 12a
says "Challenges single-use"; `Spend` does the same.

Run `services`, part `challenges`: 3 challenges of 2 kinds, a cap of 2, a restart, so
the table is full with live, expired and spent challenges in it.

### Storage: `Storage` and `DurableStore`

`DurableStore` is what the hub needs: snapshots are numbered in the order their writes
begin, and a start gets one of them whole, never one older than the last whose write
returned.  `Storage` is `storage.py` in both modes.  In file mode a write is `Dump`
(temp file), `SyncTmp`, `Replace`, `SyncDir`; state and temp file each have what a
reader sees and what is on the disk.  In SQLite mode it is one `Commit`.  `Backup`
rotates first.  A write may `Raise`, a process may be killed (`Kill`), the power may go
(`PowerCut`: what was not synced is lost).  `Restore` is `tools/restore_backup.py`: it
probes the instance lock, lets it go and writes as the hub does; `StartBeside` is the hub
that starts under it.

* `StoreKept`: refinement of `DurableStore`; no start ends in exit 78 either.
* `RestoreSticks`: a hub that starts after a finished restore runs on what was restored,
  except the one that started under the tool.

Part `storage`: 4 snapshots, 2 backups kept, 2 failures.  Two failures give a raised write
followed by a power cut, and a cut during the write after a cut; four snapshots give a backup
that has been rotated out and a restore of one that is older than the last.  `HUB_FSYNC` is
on, as by default: without it `StoreKept` is not claimed.

### Registry: `Registry`

A registration is `Fetch` (the hub proved the address), `Limit` and `File`: the limiter and
the record are two sections of the registry's lock, after the fetches.  `File` refuses a
listed url, evicts the oldest at the cap and writes the file; a write that raises leaves the
record in memory.  `Start` makes the signing key and loads the file, `Review` is the
operator's edit of the stopped service's file.  `Document` and `CheckRegistry` are what a reader gets
and how `check_hub --registry` judges it.

* `OneURL`: the open tier lists a hub once, in memory and file.
* `VouchedTillDisplaced`: a registration answered 201 is in the document under every
  key a reader may have pinned, and in the file, until it made room as the oldest of a full
  list.  A power cut is
  excepted: the registry syncs nothing, and a file it cannot parse is a fresh start.

Part `registry`: 2 threads, 3 hubs, 1 source, a cap of 2 with 3 ids, 3 per source and 2
windows, 2 stops: two threads race for one url, the third hub evicts the first, the fourth
request is refused.  Three hubs are needed for it: two fill the list, and a listed one is
refused before the cap is looked at.

### Registry checker: `HubCheck`

The requests of `check_hub.py`, one action each, against a hub that books, settles, mirrors,
changes its fee at a restart, goes dark, or cheats: charges more, pays out less,
writes `WAIVED` on paid bookings, hides entries.  Amounts are cents and the rounding is the
code's (`hub_fee_c` down, the checker's own half up, a tolerance of one cent).

* `VerdictFits`: an honest hub that answers is not blamed; a hub that is cleared charged
  what it declared and showed what it counted.  A hub that went dark before its ledger was
  read, and no other, exits 2, and one dark at the challenge exits 1; one that goes dark later
  only gets a warning.  `dark` is the request at which the hub stopped answering.  The
  exceptions are the code's (section 6): the instant rail, a changed fee, a ledger or a limiter
  that moved under an answer, a hub that shows no bookings.

Part `checker`: prices 0 and 19.99, fees 1 % and 2.5 %, 2 entries, 1 restart.  19.99 at
2.5 % is where the two roundings differ by a cent.

### Personhood: `Credential`

`verify-midnight` names the account under `LOCK` (`Ask`), reads the contract without it
(`Read`) and decides under it again (`Decide`), while the contract admits and revokes,
another request binds, the operator vouches and the account is deleted.  `Answer` is what
the chat session keeps of it.  The reader takes the last action of the first page the indexer
sends (`Page`) for the contract's latest: `shown` follows the contract up to there (`Paged`).

* `OneHolder`: no credential is held by two accounts.
* `RevokedLoses`: an account whose credential was answered to be revoked is not
  `midnight-zk` again, unless by a request whose reading was older than the revocation the
  first page shows (section 6).

Part `personhood`: 2 accounts, 2 credentials, 2 requests, 3 changes of the contract of which
the first page has 2, 1 vouching or deletion: two requests for one credential, a revocation
between a request's two sections, and one the page does not show.

### Public reads: `Reads`

Listings as dicts that outlive their place in `LISTINGS`, the full-text index that is written
with the snapshot, requests of strangers (`Ask`, `Select` under `LOCK`, `Pass` and `Tell`
after it), and a client that pages.  The owner posts, edits, archives, hides, opens and deletes at any
point; each write may fail, which leaves memory ahead of the index.  In SQLite mode a search
asks the index; in file mode, and until a first write made the index, it looks for the term in
the listing's JSON, where only ASCII words (`Plain`) are written as they are.

* `ClosedStaysClosed`: what was private, archived or demanding when a request came in, and
  stayed so, is not in its answer and not booked.
* `WalkComplete`: a client that followed the pages to the end has read every listing that
  was there all along, once, unless something it had read moved.
* `SearchFinds`: a search finds every open listing whose last change was acknowledged, by
  its words of now: in file mode, by its ASCII words (section 6).

Parts `walk`, `ask` and `index`: one client that pages while nothing but visibility changes (3
listings, pages of one); one request of any kind beside one listing and 2 claim codes (a
code that died and its successor); the search alone with 2 words, one of them not ASCII.  The
last two parts run in either storage mode.  5 writes are enough for a
post, a failed edit and a repair.  One request is enough because requests do not disturb
each other.

### Chat agent: `Chat` and `Intake`

`Chat` has what `chatlib.py` keeps per sender (session, numbered results, pending deletion,
cancel tokens) and the browser's cookie.  A message becomes one of the actions the parser or
the brain can turn it into; the recognition of words is left out.  `Send` and `Deliver` are
the browser's, with several tabs in flight; `HandleText` is one section of `BRAIN_LOCK`, with
a booking split at the hub's answer (`BookPost`, `BookStore`); `ApiLogin` sets the session in one
section and `Rotate` moves it to a fresh cookie in the next; `ApiLoginKey` reads the session
back outside the lock; `ApiCancel` takes no lock.  `Forget` is an expiry or an eviction.
`Serialized = FALSE` is the chat handler of `wrapper.py`, which takes no lock.

* `BookedAsShown`: a number books the listing that was last shown at it, over logins that
  move the sender, resets, evictions and searches without a hit.
* `CancelTokensFit`: a session holds cancel tokens of its own account's bookings only.
* `ToldIsActing`: when nothing is in flight, the account the browser was told is the one it
  acts as.
* `ErasedAsWarned`: only a session that was warned about an account, and has not logged in
  anew, erases it.

Part `chat` of `chat_payments`: 3 cookies, 2 accounts, 2 tabs, 2 listings of which one is
paid, 2 bookings, 4 requests, 2 evictions or expiries.  Four requests are a login, a search or a
warning, another login in a second tab, and the booking or the confirmation that follows; three cookies are the
first one and two rotations.

`Intake` is listing by conversation: the guided draft, its edits, the one-line
listing and the private deal that share `_create_listing`'s path, deletions, and the per-sender count
of slots.  A value is what the two validations tell apart: a price the guided step takes and
`float()` refuses is a value of its own.  `SlotsExact`: the count equals the live listings
the sender made and heard about, as long as it deleted nothing that was made elsewhere.
Part `intake`: 3 steps, caps of 1 and 2, 2 listings beside one that was made elsewhere.

### Fairness

Only `booking_sync` assumes any (section 3).  The other runs check safety, which
holds if everything stops at any moment.  Where the bounds make a model stop in the
end (the clock, the restarts, the mails, the parts of `services`, of which a spent
checker or a full draft is a real stop), `CHECK_DEADLOCK` is off; `book_races` and
`book_twice` may always restart and are checked for deadlock, and so are the payments
of `chat_payments`: only its chat part, whose requests are bounded, may stand still.

## 5. Proofs

Every safety property that a run checks, state or action, and both refinements are also
theorems, for all values of the constants; only `RefundReachesHub` is not.  The assumptions
on constants are the named `ASSUME`s of the modules (sets of numbers are numbers, sentinels
are not members, a cap has room for one), which TLC evaluates on every run, and those a
theorem states itself, given below.

### Booking: `BookingCore_proof`

For any finite set of bookings and any sets of listings, references and syncs, any
capacities, quantities, windows, number of restarts, with or without failed writes and
settlement exceptions: `Invariance` (`Spec => []IInv`), and from it `TypeCorrect`,
`InventoryCorrect`, `NeverOversold`, `ListingKept`, `RefsExclusive`.

`IInv` is the type invariant, a bound on what a sync may hold (`SyncBound`) and `Sound` of
*two* states: the one in memory and the one on disk.  The second is what makes the invariant
inductive: `Restart` replaces memory by the snapshot, and since a write may fail the snapshot
may be any older state, so the snapshot must be sound by itself.  `Sound` states that
counters equal seats, seats are within capacity, open bookings have a live listing,
references are exclusive, and, what the induction needs, that a booking exists on its listing
with quantity at least 1 and that its sync mark is one its escrow state allows.  The lemmas
about `Seats` say how its cardinality changes when one booking is added, settled or refunded.

* `TokenKept` (`RefundCredentialKept`).  `CredInv` adds to the property that the token of a
  booking not yet made is unspent; `CredCalm` lists what a step may not do to break it (no
  booking goes back to `HELD`, no window reopens), and is shown action by action.
* `LedgerFaithful` (settlement off): `LedgerTells`, even with failed writes.
* `Durable` (settlement off, writes succeed): `AcknowledgedIsDurable`.
* `PromiseKept` (same): the refinement of `Escrow`.  Without durability it fails: a reload may
  take back a transition that was announced.

### Requests and accounts: `BookRequests_proof`, `Accounts_proof`

For any sets of requests, principals, keys and terms, any cap and any number of restarts:
`TypeCorrect`, `RepliesPrivate` (`ReplayIsPrivate`), `ConsentGiven` (`TermsConsented`).
`ReplayIsPrivate` is not inductive: what a replay shows was stored long before.  Its
invariant says of *every* entry of the table, in memory and on disk, and of every request
that has reserved, that it names a booking made for its payload (`MadeFor`), and that booking
ids are told apart (`Numbered`).  Four lemmas say what eviction, append and replacement do to
the table.

For any sets of accounts, codes, keys, addresses and requests and any number of restarts:
`TypeCorrect`, `KeysApart`, `AddressesDelivered`, `CodesDie`, `LoginOnce`, `DeletionFinal`;
and `RevocationFinal` where there is no restart (`MaxCrashes = 0`, as in the run
`accounts_tokens`, for the reason given in section 4).  Again `Sound` takes memory or snapshot
as its argument.  It ties each pending code to the mail that carries it (`Owned`): a code
names one mail, a mail one account and one use, and so a code that was accepted for one thing
is pending for no other.  `GoneInv` (whoever is gone in memory is gone on disk),
`ChallengeInv` (a challenge that is out is unanswered and out once) and `RevInv` (no token is
ahead of its account, a revoked one is behind) stand on top of `IInv`.

### Ratings: `Reputation_proof`

For any listings, bookings, principals, wallets, amounts and scores, and any number of
restarts: `AggregatesAreHistory` (`AggregatesFromHistory`), `SuspectsAreFlagged`
(`SuspectsFlagged`), `RatingsStay` (`RatedForGood`).

`RepInv` has the types (with finitely many bookings made), the snapshot (`RepDisk`: every
booking, and of a listing all but its aggregates, which a start rebuilds and does not write)
and three facts about bookings (`RepBooked`) the code relies on without checking them: what was
paid for is never `WAIVED`, only an instant payment names a wallet, no rating lies in the
future.  The first is why a paid booking counts in one channel for ever, the second why a
wallet that pays is never rated in the free branch, which does not look for suspects, the third
why a new rating ends the burst window.  Steps are of two kinds: `RatingsKept` and `ListingsKept`
(everything but `Rate`), under which the three properties carry over, and `Rate`, under which
`OneMore` says what one booking more does to each sum.  The converse direction of the
exception in `AggregatesFromHistory` matters here: no step makes a rated booking `WAIVED`.

### Web: `Web_proof`

Payments, for any sets of authorizations, spellings and requests and any number of restarts: `TypeCorrect`,
`SettledOnce` (`AskedOnce`), `LedgerReconciled` (`Reconciled`), `PaymentServedOnce`
(`ServedOnce`).  The parts of the invariant are one per idea: `LockInv` (the thread in the
settlement section holds `LOCK`), `DiskInv` (outcome and ledger reach disk with memory),
`NonceInv` (the nonce of whoever is in the settlement section is in memory *and* on disk, or
has expired: a crash cannot undo it), `AskInv` (a payment that was asked for and has no outcome
is held by the thread that still waits, or by nobody since a crash), `ReconInv` and `ServeInv`.
`AskInv` is why a second thread, or the same payment after a restart, cannot ask again.  What
they say of a payment they say of one spelling of its nonce.  These
are theorems about `X402`; `PaymentsUndisturbed` carries them to `Web`.

Chat, for any sets of sids, accounts, tabs and listings and any number of requests:
`NumbersBookWhatWasShown` (`BookedAsShown`), `BrowserActsAsTold` (`ToldIsActing`),
`ErasureWasAnnounced` (`ErasedAsWarned`), with and without the lock, and `CancelTokensAreOwn`
(`CancelTokensFit`) where `Serialized`, which is `webchat.py`; without a lock it is false
(section 6).  In `ChInv`, `ChShown` ties what a sid resolves a number to to what was shown there
last, `ChWarned` a pending deletion to its warning, and `ChTold` says what `ToldIsActing` says
only when all is quiet: the browser was told the account its cookie's session has, *or* a request
is in flight whose reply will tell it anew.  `ChAlone` and `ChSays` are about those replies.
`ChTokens` adds that a booking which is at the hub fits the session it will be stored in, which
holds because nobody else comes between (`LockFree`).

### Services: `Services_proof`, `Registry_proof`

* Proof of work: `ChallengeTypeCorrect` and `WorkKept` (`WorkNotLost`), for any cap.  What
  pruning removes has expired, and a mark means an acceptance, so that the mark taken off at a
  refusal frees no unspent challenge.
* Storage, where `Fsync` (`HUB_FSYNC`) is on: `StoreImplemented` (`StoreKept`, the refinement of
  `DurableStore`) and `RestoreFinal` (`RestoreSticks`).  `StoWithin` says that what is seen and
  what is durable lie between the last acknowledged and the newest snapshot; `StoProgress` how
  far the write in progress has come, which is what `Return` needs; `StoPromised` ties the
  restored content to the newest snapshot until the next write.
* Personhood: `HolderUnique` (`OneHolder`) and `RevocationHeard` (`RevokedLoses`), where the
  word for "no credential" is not a credential (`CredentialAssumption`).  A verdict "revoked" is never too early
  (`CredVerdict`), and whoever was told keeps the revoked credential and can bind no other
  (`CredTold`); both speak of what the first page shows, of any length.
* Chat listings: `SlotsCounted` (`SlotsExact`).  A deletion moves the later listings up one
  place; `WithoutOne` in `Data_proof` says which is where then, and a bijection between
  the places before and after that the count of the others is unchanged.
* Reads: `ClosedKept` (`ClosedStaysClosed`), `WalkReadsAll` (`WalkComplete`), `SearchKept`
  (`SearchFinds`) from `RdInv`: the list has every listing once, what is barred to a request was
  closed throughout (`BarredClosed`: archived, private without its claim, or demanding), the
  rows of the index, where the mode has one, are those of acknowledged texts (`RowsOfNow`), and `HalfWay` says of a client between two pages that it has read exactly the
  open listings before its offset, on which the page that follows depends.
* Registry: `OneURLHolds` (`OneURL`) and `VouchedHolds` (`VouchedTillDisplaced`).  `RegInv` has
  the list in memory and the one in the file once each (`Once`), the key in memory and the
  one on disk (`RegKeys`), and what was told to whom (`RegTold`).
* Checker: `VerdictFitsHolds` (`VerdictFits`), for any prices, fees and number of entries.
  `ChkLedger` says what an honest ledger and its totals look like while bookings go on,
  `ChkPlace` what the checker has seen at each step of its conversation, `ChkDark` which verdicts
  are possible with a hub that went dark at an earlier request, `ChkVerdict` the rest.

### Induction over data

Three components have properties that speak of sums and of recursive definitions: the aggregates of `Reputation`, the
totals of `HubCheck`, the list that `Reads` pages through.  The library's induction theorems take
the property as an operator, which no installed prover instantiates.  `Data_proof` argues by a
least counterexample instead: strict inclusion of finite sets is well-founded
(`FS_StrictSubsetOrderingWellFounded`), so if a fact about the subsets of a finite set fails, it
fails for a smallest one (`WFMin`), and that one is refuted.  This gives `SumInsert` and
`SumRemove` (a sum changes by the value of one element, whatever order the fold takes) and
the facts about `SubSeq` with one element taken out; what `Visible` computes is obtained from its
recursion in the same way.

### Only model-checked

`RefundReachesHub` (liveness under fairness is beyond the prover), and the three properties of
section 6, which are false.  The type invariants of the modules with proofs are part of their
inductive invariants.  `TypeOK` of `Reputation` also bounds the weighted sums by the number of
ratings; neither a run nor a theorem says so.

## 6. Where the sources disagree with themselves

Three runs end in a counterexample; each quotes what the sources say in
`PROJECT.json`, "findings".

* `booking_settled` (`LedgerTells`): the loop of confirm and cancel over the ledger
  reads a field that a settlement entry does not have (`app.py:2593`), so after
  the first x402 settlement each of them raises after the booking changed and
  before ledger and disk are written.
* `book_twice` (`OneKeyOneBooking`): check of the key, reservation and store of the
  response are three sections (`app.py:2439`, `2448`, `2548`); two requests with one
  key and payload book twice, and so does a retry after a crash in between.
* `accounts_two_owners` (`EmailVerifiedOnce`): `email/bind` refuses an address that
  another account has verified, `email/verify` does not look (`app.py:1897`); two
  accounts that bound it first both own it.

The models also follow the code, without a run for it, where it departs from its
documents or from what a reader would expect:

* Booking: a mirrored refund gives no seats back; confirm and cancel rewrite the
  entry in a ledger called append-only; cancel refunds in the hub without asking the
  chain; a free booking confirmed before its rating counts as paid; the reservation does
  not look again at visibility or at `require_verified_buyer` (`app.py:2356`, `2448`),
  though `make_private` answers that the previous claim no longer works (`app.py:2209`).
* Accounts: a comment in the rotation (`app.py:1813`) says that login tokens already issued
  stay valid until they expire.  The rotation bumps the generation (`app.py:1827`), so they are
  dead at once, which is what SPEC.md section 12a says and `RevokedTokensDead` shows.
* x402: "payments are nonce-unique and the nonce registry already blocks replay"
  (`x402facilitate.py:93`), but registry and fingerprint are keyed by the nonce as it was written
  (`x402verify.py:93`, `x402facilitate.py:30`) and the signature covers the bytes it stands for:
  the authorization in another letter case passes both looks and the facilitator is asked
  again.  The chain takes the authorization once.
* x402: an authorization that expires while a request verifies it loses its nonce to the
  pruning (`x402verify.py:105`): a second request is served from the recorded outcome, and
  after a crash between asking and recording the facilitator is asked again.
* Proof of work: the mark comes off at the refusal (`app.py:296`).
* Personhood: a verdict read before a revocation may be applied after the downgrade
  (`app.py:1763`), where `midnight_credential.py:24` has revocation apply at once; vouching
  overrides a revoked credential; the query of the contract's actions asks whether there is a
  next page and nobody looks at the answer (`midnight_credential.py:112`), so that a revocation
  beyond the first page is never seen, where line 163 speaks of the "latest public state"; the
  chat says "verification lost" of any revoked credential the user names (`chatlib.py:815`).
* Reads: `/search` and `GET /listings/{id}` look at the live dicts after `LOCK` is gone;
  paging by offset skips a listing when one already read is archived; a failed write leaves
  memory ahead of the index; the search of file mode looks into ASCII-escaped JSON
  (`app.py:1317`) and finds no word that is not ASCII, where SPEC.md:33 says "substring match".
* Checker: it does not know `DIRECT` (`check_hub.py:13`); a changed fee makes older
  entries fail; `GET /ledger` sums under `LOCK` and serialises after it (`app.py:1442`);
  `sync-escrow` counts a request before it looks at the admin key (`app.py:2786`), so a probe
  may meet 429 for 403; insufficient evidence exits 0; a hub that is dark by the last request
  only warns (`check_hub.py:261`).
* Registry: nothing is synced and a torn state starts fresh; a url is compared within the open
  tier only; the limiter comes after the fetches, where the comment says it bounds them
  (`registry.py:344`).
* Storage: backups are not synced; the restore tool lets go of the lock it probed
  (`restore_backup.py:63`).
* Chat: a login that fails while a session is there answers `ok` with the old account
  (`webchat.py:776`); `webchat.py:14` calls the handling single-threaded, which the
  wrapper's `to_thread` is not (`wrapper.py:249`), and there the cancel token of one
  account can reach the session of another; a draft is dropped before it is judged
  (`chatlib.py:351`); a deletion of a listing made elsewhere frees a slot.

## 7. Not modelled, and why

* **Cryptography, HTTP, JSON, validation of fields, GraphQL and codecs**: a signature is good
  or not, a field is accepted or refused, the indexer answers a state or an error; none of
  it changes state.
* **Language**: how `chatlib.py` and `brain.py` recognise what a message means, the model
  behind the brain, the chat log, and the rendering of replies.  `Chat` starts from the
  action a message becomes.
* **Token expiry and the pruning of nonces** (`hublib.py`): an expired token is refused
  before its nonce is looked up, so that a pruned nonce matters only to a request that passed
  the clock in the same second.
* **The hub's sliding windows** only refuse; they are a refusal that may always happen where a
  model needs one.
* **Normalisation of terms, deposits, prices per quantity, facets, community schemas**: pure
  functions of one request.
* **Notifications, digest, mail**: output only.  The digest keeps no mark of having been
  sent, so there is no state to be wrong about.
* **MCP endpoint, client SDK, the wrapper's own search, book and list messages**: they translate
  and hold tokens.  A retry of theirs with a key is another request of `BookRequests`; one
  without a key is another booking.
* **Front end and pages**: they render what `Reads` models.
* **Operations scripts**: run by hand; but for the restore tool (in `Storage`) they reach the hub
  over HTTP or restart it.
* **Account settings for payout and notifications, the list of bound agents**: one field each behind the
  authentication that `Accounts` has for email.
