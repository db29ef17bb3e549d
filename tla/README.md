# tachigo: a verification development

tachigo rewards viewers of a Twitch stream. Watching and clicking earn points;
points are exchanged for the $TACHI token, minted on chain; tokens are burnt for
coupons of the Tachiya shop; streamers run raffles and airdrops. This directory
holds TLA+ models of the parts whose correctness depends on the order of
concurrent steps and on what survives a failure, TLC runs that check them on
small instances, and TLAPS proofs for every instance.

Paths below are relative to `src/services/api/internal/` unless they begin with
`src/`, `docs/` or `contracts/`.

## 1. Inventory

The API server is one Go process over PostgreSQL. Every HTTP request is a
goroutine; requests share no memory but a few mutexes, and meet in the database
(READ COMMITTED unless said otherwise), on the chain and at external services.
gorm runs each statement outside `Transaction(...)` in a transaction of its own.

| component | state it keeps | operations | what must hold |
|---|---|---|---|
| Points ledger, `services/points_service.go` | `points_ledgers` (spendable, cumulative), `points_transactions` | credit, deduct, list | the history explains the balance; a balance is never negative |
| Claim flow, `services/claim_service.go` | `claims`, `tachi_balances`, ledgers | reserve, record broadcast, roll back, compensate, finalize, mark | no point is lost or made; a claim is paid once; the local verdict is the chain's |
| TachiToken client and contract, `contract/tachi_token.go`, `contracts/src/TachiToken.sol` | a mutex; wallets on chain | mint, burn, wait for a receipt | what the caller is told is what the chain did |
| Spend, `services/spend_service.go`, `services/tachiya_client.go` | `tachi_balances`, `coupon_redemptions` | reserve, burn, record, ask Tachiya, persist | a voucher is paid for; the mirrored balance drifts only by what can be named |
| Watch rewards, `services/watch_service.go`, `handlers/watch_handler.go` | `watch_sessions`, statistics, ledgers | start, heartbeat, click, end | time is counted once and paid once; statistics do not run ahead |
| Channel configuration, `services/channel_config_service.go` | `channel_configs` | read, update | a change under a session neither doubles nor loses a second |
| Raffle, `services/raffle_service.go` | `raffles`, entries, draws, tiers, claims | life cycle, import, join, draw, tier edits, claim | an entry wins once; quotas hold; subscriber raffles admit subscribers |
| Raffle scheduler, `services/raffle_scheduler.go` | the due raffles | scan every 5 minutes | a due raffle is taken up |
| Airdrop, `services/airdrop_service.go` | ledgers, `channel_configs` | distribute an amount over fresh sessions | shares add up; the daily limit holds |
| Authentication, `services/auth_service.go` | users, providers, refresh tokens, nonces | register, login, refresh, OAuth, wallet login, unlink | a refresh token and a nonce are used once; a user keeps a way to log in |
| E-mail, `services/email_auth_service.go` | verification and reset tokens | send, verify, reset | a reset is used once; a failed mail does not lock the user out |
| Extension back end, `services/extension_service.go` | users, ledgers | login, Bits purchase | a purchase is credited once |
| Users, wallets, addresses, `services/user_service.go`, `services/address_service.go` | users, `shipping_addresses` | profile, wallet, create, update, set default, delete | one default address; a saved profile undoes nothing it was not told of |
| Agencies and streamers, `services/agency_service.go`, `services/streamer_service.go` | `streamers`, `agency_streamers` | register, create, list, statistics | only who held the channel's identity is registered; a list shows what the caller may read |
| HTTP layer, `middleware/rate_limit.go`, `handlers/auth_handler.go` | windows in memory, the browser's cookies | limit, set and clear cookies | a route is limited in any stretch of time; tabs do not log each other out |
| Server start, metrics, tracing | counters | wiring, migrations | - |
| Dashboard, extension panel, documentation, infrastructure | - | user interface, deployment | - |

How they interact: the claim flow takes points from the ledgers that watch
rewards, purchases and airdrops fill, and writes the balance the spend flow
debits; both send transactions from one signer; the airdrop reads the sessions
heartbeats keep fresh; the raffle reads accounts and provider tokens, and the
raffle's scheduler activates what streamers may activate by hand; a registration
for a channel, a raffle entry and a purchase each look up who holds a Twitch
identity, which logins and links move; an agency is set up with the same reset
link a user recovers an account with.

What is hard: a claim or a redemption is a row of separate transactions around
chain and HTTP calls, any of which may fail, time out after it took effect, or
be cut off by a restart; several operations check in one statement and write in
another; the heartbeat handler writes statistics after its main transaction
committed; prize tiers, profiles and channel settings are saved as a whole after
being read; a mail is sent between two writes of the row that throttles it; the
tabs of a browser refresh one session with one cookie. `PROJECT.json` lists each
hazard at its line with the properties that cover it.

## 2. Plan

In the order in which the modules were written, the most important behaviour
first:

1. `PointsLedger`, `ClaimMint`: points to tokens, the centre of the program;
   `PointExchange`, what the claim flow promises, refined by `ClaimMint`.
2. `CouponSpend`: tokens to coupons; `TokenEconomy`: both flows on one balance,
   one wallet, one process.
3. `WatchRewards`: where points come from.
4. `Raffle`: life cycle, list, draws and tiers.
5. `Airdrop`: shares and the daily limit under serializable retries.
6. `RefreshTokens` and, over it, `AccountAccess` (first logins that race,
   nonces, linking) and `BrowserSession` (cookies and tabs), composed by
   `AccountSessions`.
7. `AccountRecovery`: verification and reset links, and the profile that is
   saved as a whole.
8. `RateLimit` and, over it, `BitsPurchase`.
9. `Calls`, `AddressBook`, `ChannelRegistry`, `RafflePrizes`, composed by
   `AccountPages`.
10. `RaffleScheduler`: batches, failing raffles, time-outs, restarts.
11. Proofs: `Sums`, the lemmas about sums that several of them need, and one
    module for each group of components that share state or calls:
    `TokenEconomyProofs`, `CouponSpendProofs`, `WatchRewardsProofs`,
    `GiveawayProofs`, `AccountAccessProofs`, `AccountPagesProofs`,
    `BitsPurchaseProofs`.

What could come next: the type invariants and the claim flow's theorems for
`TokenEconomySpec` as a whole; an abstract specification of what a redemption
promises, refined by `CouponSpend`; an instance of `AccountAccess` with a second
wallet.

## 3. Modules

A database transaction is one step: its row locks serialise it with the other
writers of its rows. Where an operation reads in one statement and writes in
another without a lock, the model has two steps and keeps what was read. A step
that calls the chain or another service is a step of its own. Failures are
alternatives of the step they can hit: a transaction commits, aborts, or commits
although the caller sees an error.

### `PointsLedger`
`points_service.go`. `spendable`, `cumulative` and `history` are the columns of
`points_ledgers` and the rows of `points_transactions`; `lastId` is the order of
the time-ordered row ids. `AddPoints` and `DeductPoints` are the service's two
writers; `Post` is the pair of ledger update and history row that the claim flow
writes too. Bound: `MaxEarned` on the cumulative total of a ledger.

### `ClaimMint`
`ClaimService.Claim` from the first check to the answer, one action per
transaction or chain call, named after the method it models (`ReserveTx`,
`RollbackTx`, `BroadcastTx`, `CompensateTx`, `FinalizeTx`, `MarkTx` are the
transaction bodies; `Reserve`, `BroadcastMint`, `RecordBroadcast`,
`AwaitReceipt`, ... the places of the request). `resv` is the reservation kept
in memory, `pc` the place. `Splits` is the loop over ledgers in creation order,
stated by its result. `ChainMint` is the chain: it mines, reverts or drops.
`Crash` ends every request in flight. Amounts are whole points; the conversion
to token units (`services/token_units.go`) multiplies by a constant and is left
out.

### `PointExchange`
The abstract promise: a stake takes points, is held, and is paid once or
returned once. `ClaimMint!ImplementsExchange` instantiates it with all ledgers
of a viewer as one number and a request's status as the phase of its stake.
What the exchange hides: tables, the chain, requests, crashes, retries.

### `CouponSpend`
`SpendService.Redeem`: debit, burn under the client's mutex, record, voucher
call, compensation mark or voucher. `CreatePending` is the one method the code
calls in two places. Tachiya is external: it issues or refuses, and its answer
may be lost. The branch without a Tachiya client is left out: the server always
wires one.

### `TokenEconomy`
Both flows on one `tachi` and one `wallet`, with a crash that ends both. It
instantiates `CouponSpend` beside `ClaimMint`; a redemption can only spend what
claims credited.

### `WatchRewards`
One channel. `StartLook` and `StartFound`/`StartInsert` are the two halves of
`StartSession`, whose `SELECT ... FOR UPDATE` locks nothing when there is no
row; the partial unique index of migration 003 decides the insert. `Heartbeat`,
`RecordClick` and `EndSession` hold the session's lock and are one step.
`LookUpStreamer` and `AddHeartbeatTime` are the second transaction of the
heartbeat handler: the first takes the viewer's row of the statistics and reads
who holds the channel, which no lock keeps from changing hands before the second
writes and commits. `owed` is what the handler has not written yet, `found` the
streamer it read. A channel without a streamer has no broadcast statistic and
the code skips the row: `unattended` is a history of the seconds skipped.
`TakeChannel` and `LeaveChannel` are a login with the channel's free Twitch
identity and its unlinking. `paid` and `clickedAt` stand for the
ledger rows of the two sources. Durations are small numbers in the proportion
of the code's (gap < cap < stale). Seconds are whole: the code rounds an
interval down and moves the heartbeat time on. Bound: `Horizon` on the clock.

### `Raffle`
One raffle. `call` is what a goroutine has read and is about to write; `Abort`
ends a call at any step (a database error, a cancelled request, a restart).
`DrawNext` and `DrawFromTier` check outside the transaction, `Pick` is the
random select, `InsertDraw` the insert with the conditional increment,
`LoseDraw` the retry after the unique index refused. `UpdatePrizeTier` and
`SaveTier` are the read and the whole-row save. `EditedTiers` says which tiers
an instance edits. Left out: the position of a tier (order of display),
notifications, the accounts behind the entries (`RafflePrizes`) and the Twitch
sync (`RaffleScheduler`).

### `RafflePrizes`
The accounts behind a raffle's entries. `ImportLook`, `JoinLook` and `SyncLook`
are the three lookups that find an account for a row, each before the insert
(`InsertEntry`); a join names the entry by the account's username, or by the
Twitch id if it has none, the other two by the login in the row. Accounts rename
themselves and identities move meanwhile; `estranged` is a history of either
leaving an account whose name and identity disagree. `DrawWinner`, `SendLink`,
`LoseLink` and `Expire` are what becomes of the claim link, `SubmitClaim` the
checks of the claim page and `InsertClaim` the insert under the unique index.

### `RaffleScheduler`
`runOnce` with `RunScheduledSnapshots`: `Scan` reads a batch of due raffles,
`SnapshotOne` begins the sync of the first, `SyncRow`, `SyncDone`, `SyncRefused`
and `SyncFails` are the steps of `SyncFromTwitchAPI`, `Promote` the conditional
activation. The streamer's `SnapshotByHand` runs the same sync. A raffle is its
number in the order in which raffles become due. Twitch is external: it refuses
a token or fails at any page. Bound: `MaxFaults` on errors, time-outs and
restarts.

### `Airdrop`
One channel. `Attempt` is what one SERIALIZABLE transaction reads (the day, the
viewers, the limit and the day's total) with the shares computed from it,
`Commit` what it writes, `Retry` and `Fail` how it ends otherwise. Two attempts
that overlap on one day each read the ledger rows' transactions the other
writes, so only the first to commit does: `overtaken`. `Shares` states
`distributeAirdrop`: a viewer is one of the `left` first in the order of
remainders if fewer than `left` come before him. Sessions come, grow and go as
the heartbeats make them. The limit is one of `Limits` from the start: no code
path writes `daily_airdrop_limit`, so the retry on its change that a comment
of `ExecuteContext` plans for never happens. Bounds: `MaxSeconds`, `Days`.

### `RefreshTokens`
`RefreshContext` and `LogoutContext`. `refreshing` is the row a refresh has read
in its transaction; `Rotate` deletes it, which must affect a row, and issues the
next. A row is there or deleted: an expired one is one no refresh begins with,
and `Logout` is also the delete of a refresh that finds it expired.
`DeleteExpiredRefreshTokens` has no caller.

### `AccountAccess`
Extends `RefreshTokens` with what starts a session. `UpsertLook` and
`UpsertCreate` are the lookups and the inserts of `upsertOAuthUser`,
`UpsertConflict` and `Recover` its way out of a duplicate key, `Finish` the login
with a row that was found: `Save` writes the whole row and so brings back one
that was unlinked meanwhile. `Web3Verify` and `LinkWallet` check the nonce before
their transaction (`VerifyLook`, `LinkLook`) and delete it in it. `UnlinkLook` and
`UnlinkProvider` are the count and the delete. The unique indexes of migrations
001 and 014 are `Duplicate` and the guards of `Register` and `LinkWallet`. The
lookups inside `Register`, `Web3Verify` and `LinkWallet` are one step with the
inserts, because a unique index turns a stale lookup into the outcome of a later
one. `opened` is a history of the logins.

### `BrowserSession`
Extends `RefreshTokens` with one browser. `jar` is what its tabs share, `http`
what each connection carries: a request with the cookies as they were when it
was sent, or an answer with the cookies it sets. `Arrive` applies an answer,
`Lose` drops it; the handlers of `auth_handler.go` are the actions between, with
`SignIn` for the logins that are one request. They succeed or fail;
`AccountAccess` says when. `RefreshUnacknowledged` is a rotation that took effect
although the handler was told that its commit failed.

### `AccountSessions`
`AccountAccess` and `BrowserSession` over one table of refresh tokens. A session's
tokens are read and deleted by its own calls only, so a behaviour has the calls of
one side; what is said of the browser is said of its side.

### `AccountRecovery`
`EmailAuthService` for both kinds of links. `ResetAsked` is the throttle check,
`IssueLink` the insert, `Mail` the call of the mailer with its three outcomes,
`Supersede` and `Withdraw` the two ways the rows are tidied up, `UseLook` and
`UseLink` the read outside and the write inside the transaction. `ProfileLook`
and `ProfileSave` are `UserService.UpdateProfile`, `AgencyCreate` and
`ResendSetup` the agency handler's use of the same link. Passwords are counted.
`crowded` is a history of two resets of one address at once. Bounds: `MaxLinks`,
`MaxPasswords`.

### `RateLimit` and `BitsPurchase`
`RateLimit` is the fixed-window limiter; `Cleaned` the removal of expired
windows when the table is full. `BitsPurchase` extends it with the two routes a
receipt arrives by: the account is looked up (`TPointComplete`), the points and
the transaction id are written together (`AddPointsWithMeta`), a duplicate id is
answered as such, and `IssueTokens` is the part of the call after the commit.
`told` is a history of the answers. Bound: `MaxTime` on the clock.

### `AddressBook`, `ChannelRegistry`, `AccountPages`
They share `Calls`, the requests in progress, which `Raffle`, `Airdrop` and
`AccountRecovery` extend too. `AddressBook` has the rows of one
user; `ClearStarts` takes the statement's snapshot of the other defaults,
`Clear` waits for their locks, `Save` commits: the two statements of READ
COMMITTED that decide whether two defaults are left. `ChannelRegistry` has
registrations (`Register` checks the identity, `FirstOrCreate` inserts), the
settings (`UpdateConfigLook` reads both, `UpdateConfig` writes both), the checks
of the handlers as operators, and `BackfillAgency`; `ListStreamerUserIDs` and
the rest of the operators are what a caller is shown. `held` is a history of who
held an identity. `AccountPages` composes them with `RafflePrizes`; the pages
share no table, so a behaviour has the calls of one of them.

## 4. Runs

Type invariants are part of the modules and of the proofs; a run checks what
could go wrong. Times are on two workers.

| run | instance | distinct states | shows |
|---|---|---|---|
| `claim` | 1 viewer, 2 ledgers, 2 claims of all or of 2, credits and deductions of 1, at most 2 earned per ledger, fair | 760k, 95 s | no point lost or made, the verdict is the chain's, statuses follow their life cycle; every transaction is an abstract step or none; a request that took points ends |
| `spend` | 2 viewers (one without a wallet), 3 redemptions, 3 tokens, fair | 167k, 57 s | vouchers are paid, the rows reconcile with burns and vouchers, every redemption ends although burns share a mutex |
| `coupon_status` | 1 viewer, 2 redemptions | refuted | `DocumentedStatus`, the comments at `models/coupon_redemption.go:13` and `:18`, is false of both statuses: the row of a burn with an unknown receipt is pending too, and a voucher whose answer was lost has been issued although its row asks for compensation |
| `economy` | 1 viewer, 2 claims, 2 redemptions | 148k, 4 s | the drift of wallet and balance is exactly accounted for; every token comes from points |
| `watch_rewards` | 2 viewers, 2 session rows, 2 accounts that may hold the channel, 2 requests, rates {2, 3}, clock to 5, `Focus` | 2.4M, 125 s | no second counted or paid twice, none withheld; clicks of a session keep their distance; statistics never run ahead of sessions, and every second recorded is booked to the streamer found, or to nobody on an unattended channel |
| `raffle` | 2 entries (one subscribes), 2 tiers, one of them edited, 2 requests, fair | 564k, 65 s | counts are draws, quota holds, subscribers-only lists, every call ends |
| `airdrop` | 3 viewers with watch times 0 to 2, 2 airdrops of 1 or 2, limits 2 (default) and 3, 2 days, 2 attempts | 2.3M, 62 s | the day's limit, payment of what is reported, proportional shares |
| `access` | 2 accounts, a Twitch, a Google (verified) and an e-mail identity of one address, a wallet, 2 requests, 3 tokens with 1 nonce or 2 with 2; or a browser of 1 account, 2 tabs, 3 tokens, 2 OAuth logins | 2.7M, 105 s | racing first logins meet in one account, nonces and tokens work once, ended sessions stay ended, joins are vouched for, the last way in is lost only to an unlink that was misled; tabs do not throw each other out, a login lands where it was asked to |
| `recovery` | 1 address, 2 calls, 3 links, 2 passwords | 5.2M, 80 s | nobody is throttled without a mail, the last link mailed works, a used link is dead, what was reset stays reset |
| `purchases` | 1 receipt, 2 accounts, 2 routes of limit 2, 2 calls, clock to 4 | 2.2M, 36 s | credited once, answers are true, no route lets twice its limit through in a window |
| `pages` | 3 addresses; a streamer, an agency and a channel; 2 viewers, 2 logins, 2 entries; 2 calls | 836k, 94 s | one default, registrations are earned, settings are kept, one ticket each |
| `scheduler` | 3 raffles of 2 streamers, batches of 2, 1 subscriber, 1 fault, fair | 965k, 94 s | only whole snapshots activate, a completed raffle stays so, a due raffle is served |

Why the bounds are enough: each property relates at most two concurrent requests
or two rows, and a third redemption in `spend` waits for the mutex while two
others are before and behind it. Two claims and two ledgers make a claim span
ledgers while the other one, a deduction or a credit changes them; asking for 0
(all) and for 2 gives both branches of the amount. Viewers of a channel share
nothing but the streamer's statistic, so `Focus` lets two viewers, whose
heartbeats book to one channel while it changes hands, beat twice (clock to 2,
one rate, no clicks), and one viewer of an unattended channel go on. Two session
rows are what a race of starts, a stale close or a restart leaves; the clock
passes the stale threshold once. `MaxTries` (draws) and `MaxAttempts` (airdrops)
are 2 instead of 5: what they guard is the same. Three viewers are what it takes
for two remainders to compete for one point, or for one to win it before a
longer watcher; two airdrops are what it takes to overlap and two days to retry
after midnight. In `access` one address makes every identity but the wallet
compete for one account, and three tokens are a token and the two that two
refreshes of it would leave; there is one wallet and one identity of each
provider, so the replacement of an account's other wallet by `LinkWallet` is not
reached. The browser's logins are of one account, as any of them gives the
browser a token it keeps or loses alike. Three links are a mailed one, a failed
one after it and the verification link; three addresses are two that compete and
one that was the default. Three raffles fill a batch of two and leave one for
the next scan, and the one fault hits any sync of them; a clock to 4 is two
windows of two. The entries of `pages` are at most two and one is drawn
(`FewEntries`): a property of entries relates two. Deadlock is not checked: the
requests of an instance are used up, the clock stops at its bound.

Fairness. `RequestsEnd`, `RedemptionsEnd` and `CallsEnd` assume that a started
goroutine is scheduled: its database and RPC calls return or run into the
deadlines the code sets (receipt timeout, request timeout, HTTP client timeout).
The step that takes the burn mutex has strong fairness: Go's mutex hands over to
a waiter after 1 ms of starvation. `DueGetsSnapshot` assumes that the
scheduler's goroutine goes on: a ticker starts a scan after the one before, and
every call of a sync has a deadline; faults are bounded, as no scheduler makes
progress through faults without end. Nothing is assumed of the chain, of Twitch,
of new requests or of crashes.

Every property has a mutant: the definition named "Mutant" before the one it
replaces is the code with a plausible bug, and the property fails with it.

## 5. Proofs

Each module proves its theorems for any values of the constants that meet the
named assumptions of the modules (`ClaimAssumption`, `RaffleAssumption`, ...)
and from nothing else. Every safety and action property a passing run checks is
the statement of a theorem; `AccountSessions` and `AccountPages` have the
behaviours of the components they compose. The property is named in brackets
where the theorem's name differs.

| module | theorems | from |
|---|---|---|
| `TokenEconomyProofs` | `TypeCorrect`, `RequestsInStep` (`RequestInv`), `VerdictSound` (`VerdictMatchesChain`), `StatusesFollowLifeCycle` (`StatusLifeCycle`), `NoPointLost` (`PointsConserved`), `ClaimsAreExchanges` (`ImplementsExchange`) | `ClaimSpec` |
| | `DriftExplained` (`MirrorDrift`) | `EconomySpec` |
| `CouponSpendProofs` | `SpendTypeCorrect`, `PaidVouchers` (`VoucherIsPaid`), `RowsReconcile` (`RowsAccountForBurns`) | `SpendSpec` |
| `WatchRewardsProofs` | `WatchTypeCorrect`, `CreditedTimePassed` (`WatchTimeIsReal`), `NoSecondPaidTwice` (`SecondsPaidOnce`), `StatisticsFollow` (`StatsFollowSessions`), `ClicksApart` (`ClickCooldown`) | `WatchSpec` |
| `GiveawayProofs` | `RaffleTypeCorrect`, `OnlySubscribersJoin` (`SubscribersOnly`), `CountsAreDraws` (`CountIsDraws`) | `RaffleSpec` |
| | `AirdropTypeCorrect`, `LimitHolds` (`DailyLimitHolds`), `PaidInFull` (`AirdropsPaidInFull`), `Proportional` (`SharesAreProportional`) | `AirdropSpec` |
| `AccountAccessProofs` | `TokensInOrder` (`SessionIsLinear`), `NoRevival` (`OverIsOver`) | `TokenSpec` |
| | `AccessTypeCorrect`, `OneAccountPerIdentity` (`LoginsAgree`), `NonceUsedOnce` (`NonceAdmitsOnce`), `OnlyVouchedForJoin` (`JoinsAreVouchedFor`), `LastWayInIsKept` (`LastWayInKept`), `LoginsRunTokens`, `TokensInOrderHere`, `NoRevivalHere` | `AccessSpec` |
| | `SessionLasts` (`SessionSurvives`), `LandsWhereAsked` (`RedirectIsOwn`), `BrowserRunsTokens` | `BrowserSpec` |
| `AccountPagesProofs` | `RecoveryTypeCorrect`, `ThrottledByMail` (`ThrottledOnlyByMail`), `LatestLinkStays` (`LatestLinkWorks`), `UsedLinksAreGone` (`LinksWorkOnce`), `ResetsStick` (`ResetSticks`) | `RecoverySpec` |
| | `OneDefaultAddress` (`OneDefault`), `PagesKeep` | `PagesSpec` |
| | `RegistryTypeCorrect`, `Earned` (`RegistrationEarned`), `SettingsKept` (`UnsetFieldKept`) | `RegistrySpec` |
| | `PrizesTypeCorrect`, `OneTicket` (`OneTicketEach`) | `PrizesSpec` |
| | `SchedulerTypeCorrect`, `WholeSnapshots` (`SnapshotIsWhole`), `CompletedStays` (`NeverReopened`) | `SchedulerSpec` |
| `BitsPurchaseProofs` | `Bounded` (`BurstBound`) | `LimitSpec` |
| | `PurchasesBounded` (`BurstBound`), `AnswersTrue`, `CreditedOnce` (`PurchaseAnswersTrue`) | `PurchaseSpec` |

`Sums` proves what points, seconds and shares need of `SumFunctionOnSet`: that
the order of the fold does not matter, what changing, adding or removing one
element does, that sums keep order and scale. The provers cannot apply an
induction theorem, which takes the property as an operator; so each of these
lemmas takes the parts of the set for which it holds as a set, and a smallest
part outside it gives the contradiction (`SetInduction`). The fold itself is a
CHOOSE of a recursive function, which is shown to exist the same way. `RanksCount`
says that exactly n elements of a strict order have fewer than n before them.

The arguments, by the inductive invariant each needs:

- `ClaimMint`, requests: `RequestInv` says for each place of a request what its
  row and the chain are. It does not know that the values are of their kinds, nor
  that a mint cannot change verdict once mined; the invariant is `ClaimTypeOK`
  with, for each claim, a fact about its place, its row and its mint (`Fact`). The
  per-claim form makes each step a matter of the one claim that moves and of a
  lemma that the others keep their fact. The life cycle follows because a row only
  moves in a place whose fact gives its status.
- `ClaimMint`, points: `PointsConserved` is a balance of totals and says nothing of
  the rows a rollback deletes. `PointsInv` adds that each ledger's rows have
  different ids and sum to its balance (`RowsOf`), that a reservation's items are
  its amount and come from its viewer's ledgers (`Took`), that a pending claim's
  rows are still in the history (`TakenRows`) and are no other claim's (`OwnRows`):
  then what a rollback deletes is what the reservation wrote.
- `PointExchange`: the abstract points are a viewer's sum over ledgers, so each
  concrete step is a lemma on what one ledger, or items on several, do to that
  sum; a claim that has not reserved has no owner (`Unplaced`), so a stake is
  placed once. Every action of `ClaimMint` is shown to be one of the exchange's
  or to change nothing it sees.
- `TokenEconomy`: the drift of wallet and balance is one equation, which debits
  and restored debits do not disturb only if the balance itself is what claims
  credited less what redemptions hold; `EconomyInv` has both equations for each
  viewer (`DriftOf`), the facts of the claims and those of the redemptions.
- `CouponSpend`: `InStep` says the same of a redemption's place, its row, its
  burn and its voucher; that a place given back the debit is never one a voucher
  follows is what `VoucherIsPaid` needs, and that the row is there before Tachiya
  is called, and keeps its status until the answer, what `RowsAccountForBurns`
  needs.
- `WatchRewards`: `WatchInv` has the active session of a viewer as the only one
  and the latest of all (`LatestIsActive`), which the partial unique index and
  the row lock keep although `StartSession` looks before it inserts. Credited
  time then fits between the start of the first session and the last heartbeat
  (`Spans`): a heartbeat adds at most the time since the latest one, on the
  latest session. What statistics lack is what handlers owe between the two
  transactions (`StatOK`). A booking moves one request's seconds to its viewer's
  statistic and the same seconds to one streamer's or to the unattended ones
  (`BookingAddsUp`), whoever holds the channel by then, so the two stay equal
  (`AllBooked`). A click's cooldown is on the active session or from before its
  start (`Cooling`). `NoSecondPaidTwice` needs that a heartbeat pays whole
  points and leaves less than the price of one, at whatever rate holds.
- `Raffle`: `SubscribersOnly` rests on calls in progress: a join's mode is the
  raffle's mode and the raffle is no draft (`CallsFit`), and a draft was never
  joined nor opened (`DraftIsClosed`). `CountIsDraws` rests on the pick being
  drawn by nobody else when it is inserted, so the set of a tier's draws grows by
  one element with its count, and on a row id being new (`TierRows`).
- `Airdrop`: the day's total alone does not bound what attempts in progress will
  add. `AirdropInv` adds that the shares of an attempt sum to its amount
  (`SharesAddUp`) and that an attempt nobody has overtaken still fits below the
  limit (`RoomLeft`); a commit takes room only from attempts it overtakes. The
  shares: with quotients and remainders of amount times weight by the sum of the
  weights, the sum times the points left is the sum of the remainders, so there are
  at most as many points left as viewers with a remainder (`LeftOver`); as many
  viewers are lucky as points are left, and each has a remainder (`LuckyOnes`).
  Hence the shares sum to the amount and none is a point off.
- `RefreshTokens`: a login's row has a session number no earlier row has,
  because a row's session is at most its own number, and a rotation gives the
  session of the row it deletes to the new row, which by linearity was the
  session's only one. `AccountAccess` and `BrowserSession` run the tokens only as
  `RefreshTokens` does, so both theorems hold there (`LoginsRunTokens`,
  `BrowserRunsTokens`).
- `AccountAccess`: the tables are what the unique indexes make them (`RowsFit`: an
  identity is live in one account, an address is one account's, one wallet each,
  an identity that opened an account keeps a row there); an identity's rows never
  vanish (`Grows`), so what a login has read stays true until it writes (`CallsFit`).
  A nonce that was presented is gone (`NoncesFit`).
- `BrowserSession`: while every answer arrives, every rotation is acknowledged
  and nobody logs out (`calm`), the only copy of a new token is in the answer
  that brings it (`OnlyCopies`), so no other request can use it up before the
  answer arrives; and the cookie holds a token that works or such an answer is
  under way (`SessionGoesOn`). `RedirectIsOwn` rests on a login's state
  parameter and its target being together in the jar, the requests and the
  answers (`TargetsTogether`).
- `AccountRecovery`: `Senders` says how far the mail of each link is by the call
  that sends it, that no two calls send one link, and that an address nobody
  crowds has one sender, whose link is the newest. So a withdrawn link is one
  that was not mailed, a superseded one is older than a mailed one, and whoever is
  throttled has a mail on its way or arrived.
- `AddressBook`: a call that will make a default has, unless calls crossed, seen
  or locked all the other live addresses (`ClearsOthers`). `PagesKeep` shows that
  the pages of `AccountPages` leave each other's tables alone.
- `RafflePrizes`: an enter call carries the account its name led to; as long as
  nothing is estranged, name and account are the same viewer's.
- `ChannelRegistry`: a registration under way is of an account that held the
  identity when it was looked up; agencies name only registered accounts.
- `RaffleScheduler`: the subscribers a sync has left and the entries together
  are all of them (`RowsAddUp`), so a sync that ended leaves none out; entries
  are never removed.
- `RateLimit`: of any `Limit` requests in a row one opened a window
  (`WindowsBegin`), and `Limit` requests after one that opened a window the window
  is over. Of any 2 * `Limit` requests the first `Limit` contain such a one, and
  the last comes after its window. `PurchasesBounded` lifts the bound to the
  purchases: each of their steps is a step of the limiter or none.
- `BitsPurchase`: a call about to answer has its receipt credited
  (`IssuesCredited`), and an account's balance is the sum of the receipts credited
  to it (`BalanceInv`), which the unique transaction id lets grow once for each.

Only model-checked: the four liveness properties (`RequestsEnd`,
`RedemptionsEnd`, `CallsEnd`, `DueGetsSnapshot`), because fairness and ENABLED are
beyond the prover.

## 6. Not modelled

Server start, migrations (but the agency backfill), metrics and tracing, the
user interfaces, generated clients, the documentation site and deployment: they
hold no state the properties are about. `docs/docs.go` is generated. Within the
modelled parts: reading endpoints and statistics, formatting, e-mail and webhook
texts, JWT and signature checks (their result is a guard), request validation,
routing, gas, nonce selection and confirmation depth, notes and metadata of
transactions, the overflow checks of int64 amounts, the OAuth tokens kept for
Twitch but for whether they work, partial outages that only delay, and the loss
of the database itself.

## 7. Known deviations

Places where the code does less than a comment, a test or a reader would expect.
The properties of the runs are stated so that they say exactly what holds; the
stronger ones named here are in the modules and fail.

- `models/coupon_redemption.go:13-14` says that a pending row means a burn that
  succeeded; `spend_service.go:91-101` writes one for a burn whose receipt is
  unknown, too, and nothing tells the two apart or settles the second. Line 18
  says that compensation-needed means that Tachiya's redeem failed;
  `spend_service.go:129-140` writes it for every error, also when the voucher
  was issued and only the answer was lost, so a compensation may pay for a
  voucher that exists (run `coupon_status`). `RowsAccountForBurns` says what the
  rows do tell.
- A send that fails after the node took the mint deletes the claim row; the
  viewer keeps points and gets tokens (`ClaimMint!MintHasClaimRow`).
- A heartbeat on a channel without a registered streamer is recorded for the
  viewer and for no streamer, and one that races a move of the channel is booked
  to the account that held it when the transaction looked: a broadcast total is
  not the sum of its channel's viewers, and `StatsFollowSessions` counts the
  skipped seconds apart.
- Ending and starting a session clears the click cooldown: `ClickCooldown` is
  about one session.
- Two unlink calls at once leave an account without a login, also when they
  remove two identities of one provider: `LastWayInKept` excepts a misled call.
- Saving a tier writes the `drawn_count` it read and forgets a concurrent draw;
  the quota is exceeded (`Raffle!TierWithinQuota`; `CountIsDraws` is about tiers
  nobody edits).
- An import in progress adds entries after activation
  (`Raffle!ParticipantListLocked`).
- The CSV import matches `users.username` although its comment speaks of the
  linked Twitch login; a viewer whose name differs from it can be in a raffle
  twice, or be entered in another's place: `OneTicketEach` excepts estranged
  accounts.
- The e-mail with the winner's link is sent once, without a retry; a lost one
  leaves a prize nobody can claim.
- `UpdateProfile` saves the whole account and undoes a password reset committed
  since it read: `ResetSticks` excepts it.
- Two uses of one reset link that both read it before either deletes it both
  set a password, although the link is meant to work once: `LinksWorkOnce` is
  about the calls that come after a use.
- Two resets mailed at once delete each other's row, and neither link works:
  `LatestLinkWorks` excepts crowded addresses.
- A sync that finds its token refused clears what is stored, also the token a
  fresh login has just written; the handler's snapshot never checks the raffle's
  status.
- Two addresses saved as the default by calls that cross, each insert unseen by
  the other's clearing statement, leave two defaults: `OneDefault` excepts users
  whose calls `crossed`.
- `UpdateChannelConfig` writes both settings as it read them; one that read
  before another committed takes the other's field back: `UnsetFieldKept` excepts
  an update whose read went stale.
- A refresh whose rotation took effect but was answered with an error leaves the
  cookie with the deleted token, and the next refresh signs the browser out:
  `SessionSurvives` holds while `calm`.
- `BackfillAgency` is only called by tests; migration 020 does its work.
- No code path writes `daily_airdrop_limit`.

## 8. Running

    tlc -workers 2 -config MCClaimMint.cfg MCClaimMint.tla
    tlapm TokenEconomyProofs.tla

Each `.cfg` names in `PROJECT.json` the module it belongs to.
