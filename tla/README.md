# FanPulse in TLA+

FanPulse is a prediction game on top of the DreamDEX binary markets: users buy
UP or DOWN on a market and play that position against another user (a *duel*) or
against everybody else on the market (a *Classic Battle*). Collateral lives on
chain; FanPulse keeps predictions, duels, battles, and the points they earn
(energy, rating, wins, losses) in PostgreSQL, serves them over HTTP, and settles
them in a cron worker. A React client signs in with a wallet, signs the orders the server
prepares, and polls what it shows. This directory holds TLA+ models of that
backend and of the client's part in it, TLC configurations that check them, and
proofs checked by TLAPS.

Paths below are relative to the repository root.

## Inventory

| Component | State it keeps | Operations | Correct when | Modelled |
|---|---|---|---|---|
| Battle entry (`src/battles/battles.service.ts`) | `Battle`, `Prediction`, `BattleEntry` rows | `enter`, `confirmEntry`, `abandonPendingEntry`, `findOrCreateBattle`, `getByMarketId`, `list` | entries and locked predictions match; one entry per user and battle; what is read of a battle makes sense | `Battles`, `BattleViews`, `BattleHub` |
| Battle settlement (`src/battles/battle-settlement.service.ts`) | battle status, placements, `User` statistics, `BattleRatingEvent` rows | `lockOpenBattles`, `resolveLockedBattles` | quorum; places without gap or tie; every result counted once; every battle ends | `Battles`, `BattleRules`, `Arena` |
| Duels (`src/predictions/`, `src/challenges/`) | `Prediction`, `Challenge` rows | `create`, `confirm`, `challenge`, `confirmChallenge`, `confirmByOriginal`, `listOpen`, `get` | one challenger; opposite sides, different users; window respected; no call offered twice | `Duels`, `DuelViews` |
| Duel settlement (`src/rewards/settlement.service.ts`) | challenge status, `User` statistics, `RatingEvent` rows | `expireOpenPredictions`, `resolveLockedChallenges` | the right one wins, once; every duel and open call ends | `Duels`, `Bout` |
| Energy and rating arithmetic (`src/rewards/`, `src/battles/battle-rating.calculator.ts`) | none | multiplier, Elo step | bounds, ordering of steps | partly |
| Cron worker (`src/workers/fanpulse.worker.ts`) | the `running` flag | `tick`, every 15 s | one tick at a time; a failure does not stop the next tick | partly: its phases in `Battles`, `Duels`, `Agents`, `FanNft` |
| DreamDEX gateway (`src/dreamdex/`) | SDK handle | `assertTradable`, `prepareBuy`, `verifyFill`, reads | orders the pool accepts, at a bounded price, within the market's life; a credit is what a transaction bought or the wallet has | `Orders`; reads of lists and candles left out |
| AI agents (`src/agents/`) | `Market.aiStatus`, `aiRequestId`, `aiProbability` | `enqueueForMarket`, `submitInferNumber`, `pollPending`, `readResult` | one paid request per market; only what agents answered is shown; answers arrive | `Agents` |
| Fan NFT (`src/nft/`, `contracts/FanNFT.sol`) | owner, tokens and tiers on chain; tier, token and pending flag in `User`; the `syncing` flag | `syncPending`, `syncUser`, `setTier`, `transferOwnership` | one token per wallet; profile, chain and rating agree; no forgotten sync | `FanNft` |
| Callback contract (`contracts/AgentCallback.sol`) | none | turns a platform call into an event | nothing in the repository reads it | not modelled |
| Authentication (`src/auth/`, the connect dialog in `App.tsx`) | `AuthNonce` rows; the stored session | `issueNonce`, `login`; `requestNonce`, `disconnect` | a nonce logs in once, before it expires; a sign-in ends | `Sessions` |
| Markets (`src/markets/`) | `Market` rows | upsert, views | views agree with the rows | partly: the start of an AI request in `Agents` |
| Leaderboard, profiles (`src/leaderboard/`, `src/users/`) | none | queries | a record is explained by the history under it | partly: `profile`'s record, duels and battle history in `DuelViews` |
| Order panels (`battle-panel.tsx`, `lib/wallet.ts`, the duel panel and challenge dialog of `App.tsx`) | React state, wallet prompts, transactions | `submit`, `signAndConfirm`, `resetWalletWait` | a confirmed order is its owner's and paid; no panel waits for nobody | `Panel` |
| Pages (`pages/battles.tsx`, `App.tsx`) | React Query caches | fetch, poll, render | no card or result that contradicts the rows; polling follows to the end | partly: `BattleViews`, `BattleHub`, `DuelViews` |
| HTTP layer, scripts | none | | | not modelled |

### How they interact

Requests and the worker share nothing but the database. A request typically
checks a row, awaits something slow (an RPC, the indexer, `verifyFill`, which
waits up to 60 s for a receipt and then polls the indexer), and then writes
by primary key, without looking again. The worker reads a batch of rows with
`findMany` and works through it one row at a time, one or more RPC calls and
one transaction each, on what the batch read. What protects the rows is
therefore: the order of the checks, the unique keys and foreign keys of the
schema, the atomicity of `$transaction`, and the `running` flag, which admits
one tick at a time. The world (wall clock, market status, fills) moves on its
own.

The client drives the requests: it asks for an order, has the wallet approve
and send it, waits for the receipt and sends the hash for confirmation; the
wallet and the chain go on whether the page is still there or not. Its pages
poll several queries independently, and each answer may itself consist of
several readings, because Prisma reads every relation of an `include` with a
SELECT of its own.

### What is hard, and what it threatens

`PROJECT.json` lists the hazards with their lines. In groups:

- *stale reads across an await*: `confirmEntry` after the lock, the entry count
  of `lockOpenBattles`, ratings of a batch, `confirm` sent twice,
  `confirmChallenge` after the window;
- *races of requests*: two pending orders of one user, two challengers, two
  first entrants of a market, delete against confirm;
- *failure and restart*: a tick that aborts between two rows, a process that
  dies in a batch, an RPC failure read as "not tradable";
- *two stores*: a tier is on chain and in the database, an estimate is paid on
  chain and recorded in the database; a crash, a timeout or a lost receipt
  falls between the two;
- *termination*: battles without a quorum, ticks that abort early, open calls
  confirmed twice;
- *torn readings*: a battle and its entries, a record and its history, two lists
  of one page, read at different times while the worker settles;
- *a client that overlaps itself*: a button pressed again, a prompt answered after
  its timeout, a page left or reloaded, an account switched, an answer lost;
- *numeric edges*: ties and empty sides in the ranking, the minimum of entrants,
  prices at both ends of the book, orders at the end of a market.

## Modules

| Module | What it is |
|---|---|
| `BattleRules` | the pure part of a battle: who is correct, who ranks ahead of whom, placement |
| `Battles` | entry and settlement of battles, with requests, worker, crashes and the market |
| `Arena` | what a battle promises, with no request, batch or crash in sight |
| `BattlesRefinement` | `Battles` under a refinement mapping to `Arena` |
| `Battles_proofs` | theorems about `Battles`, among them that it implements the safety of `Arena`, checked by TLAPS |
| `BattleViews` | extends `Battles`: a browser on a battle's page, its leaderboard |
| `BattleViews_proofs` | the theorem about the list that page shows, checked by TLAPS |
| `BattleHub` | extends `Battles`: a browser on the hub, its three lists |
| `Duels` | duels: predictions, challenges, expiry and settlement |
| `Bout` | what a 1v1 call promises, with no request, reading or crash in sight |
| `DuelsRefinement` | `Duels` under a refinement mapping to `Bout` |
| `DuelViews` | extends `Duels`: browsers on the clashes and profile pages, and on a duel's page |
| `Duels_proofs` | theorems about `Duels`, its pages and its refinement, checked by TLAPS |
| `FanNft` | the soulbound tier token: `syncPending`, the mempool and `FanNFT.sol` |
| `FanNft_proofs` | theorems about `FanNft`, checked by TLAPS |
| `Agents` | the AI estimate of a market: `enqueueForMarket`, the agents platform, `pollPending` |
| `Agents_proofs` | theorems about `Agents`, checked by TLAPS |
| `Orders` | pricing, mining and verification of orders: `assertTradable`, `prepareBuy`, `verifyFill` |
| `Panel` | the client's order panels: `signAndConfirm`, the wallet, the two transactions |
| `Sessions` | signing in: nonces, login requests, the connect dialog, tabs, the stored session |
| `Orders_proofs`, `Panel_proofs`, `Sessions_proofs` | theorems about these three, checked by TLAPS |
| `MCFanNft`, `MCAgents`, `MCOrders`, `MCPanel`, `MCSessions` | for TLC: symmetry, the answers agents may give, the books a market may show |
| `MCBattles`, `MCDuels` | for TLC, from the initial states: `Battles` with its abstract specification and the hub, `Duels` with its pages |
| `MCBattlesSeeded`, `MCDuelsSeeded` | for TLC, from scenarios in which people have entered or predicted, with a page open in some |

### From code to model

*Rows.* A table is a function from ids to records. A prediction id has a
`status` (`FREE` before the row exists, `DELETED` after, so that ids are not
reused) and, in `call`, the fields that never change. A battle is identified
with its market, because `Battle.marketRowId` is unique; a challenge with its
original prediction, because `Challenge.originalPredictionId` is.
`entries[m]` is the sequence of a battle's `BattleEntry` rows by creation,
which is also the order of their cuids, the tie-break of the ranking.

*Requests.* `req[r]` is where request `r` stands: its `pc` names the await it
is at, the other fields are the local variables it still needs. Each Prisma
call and each `$transaction` of a battle request is one action. A request may
fail at every await (`RequestFails`). Checks that only compare the caller with
the row's owner are expressed by who may start what.
`confirmChallenge`'s transaction is split into its second read and its commit:
under READ COMMITTED another transaction may commit in between, and the unique
keys of `Challenge` roll it back if so (`ConfirmSecondRead`, `ConfirmCommit`).

*The worker.* `worker` is the tick in progress: its phase, the rows still to
do, and what `findMany` read (`late`: the comparison with the batch's `now`;
`seen`: how many entries; `rating`: the users' ratings). Each row of a batch is
one action, in any order. `lockOpenBattles` has no `catch`, so a tick may abort
there; `resolveLockedBattles` and `resolveLockedChallenges` catch per row
(`ResolveSkip`). `Crash` drops everything but the database.

*The world.* A market trades, closes, and has an outcome or is void. Time is one
bit per market in `Battles` (`due[m]`: `locksAt` has passed, the same moment at
which less than `minTradingHeadroomSec` is left), one bit per market and one
window state per prediction in `Duels`.

*Statistics.* `wins`, `losses`, `battlesWon` are counted exactly. Energy is only
ever incremented, so it is the number of payouts. A rating is written as an
absolute value computed from a value read earlier, so it is modelled as the set
of battles or duels whose result it reflects: a lost update is then visible as
a missing member.

*The Fan NFT.* `user` has the columns `syncUser` reads and writes; `Settle`
stands for the end of either settlement's transaction, which writes a rating and
raises the flag. `syncer` is one `syncPending` in progress, admitted by the
`syncing` flag: the rows as `findMany` read them, the users to do, and the one
whose transaction is being sent ("due") or awaited ("wait"). The contract's five
mappings and counters are variables; `owners` and `tierOf` are sequences, since
token ids count from 1. The chain mines the `mempool` in nonce order, at any
time, also after the service stopped waiting. `rated` and `lost` are history:
whether `syncPending` has read a user's rating since it was written, and
whether a `setTier` of the user was sent whose receipt was never recorded.

*The AI estimate.* `view[v]` is one run of `enqueueForMarket`, started by a page
view and awaited by nobody. `requests` is the platform's side: every
`createRequest` the wallet paid for, its status, and the receipts of its agents.
The platform, its agents and their order are external and may do anything the
service's code is prepared for. `readReceipts` and `readOnchainRequest` are
`Majority` and `OnChain`; which of the two is reachable is a choice, so `Readable` is
their union. A failed call inside the `try` leads to `MarkFailed`, one outside it
leaves the row as it is, and a call that fails had no effect on the
database.

*Orders.* Prices and quantities are the code's raw integers on a small grid
(`One`, `Tick`, `Lot`), with the code's own rounding. `CheckTradable`, `Prepare`,
`Broadcast` and `Mine` are apart, because seconds or minutes lie between
them and `prepareBuy` repeats none of `assertTradable`'s checks. A book is two
price-ordered sequences of levels and may become any other at any time. The pool
fills an immediate-or-cancel order with what its limit reaches. `verifyFill`'s
evidence (the receipt's fills, then the wallet's balance, then the indexer) is three
actions, since each is awaited. It takes whatever transaction the client names: `Presented`
are those of all the predictions' orders, used before or not, and those in `Elsewhere`, of any
sender, side and market; `Accepts` are its checks. The wallet's tokens may be sold, redeemed or moved
between any two steps (`Trade`). The pool, the wallet and the indexer are external.

*The order panels.* `flow[f]` is one call of `signAndConfirm`, at one of its awaits;
`tx[f]` its approval and its order, which live in the wallet and on chain
independently of the flow. `view` is the component's state: what it prepared,
which step it shows, which mutations are pending; `mounted` says whether a
flow still writes to it. The server is one step per request, with the checks
of `Battles` and `Duels` that matter to the client: the row's owner, its status,
the sender, whether the battle or original is still open. The three panels differ
where the code does (`kind`): only `enter` replaces a pending row, only a
challenge is confirmed by its original, only the dialog has a cancel button.

*Signing in.* `login[r]` is one delivery of a login request, at one of its awaits
(find the nonce, verify, delete it, make the token). `signIn[s]` is one
`requestNonce` of the connect dialog; `tab` and `stored` are what React and
`localStorage` keep. A page change mounts a new dialog, a reload reads what is stored.

*Pages.* The view modules add one variable per page to `Battles` or `Duels` and
read their rows, never write them. A fetch is one action per SELECT, then one
for the answer's arrival, and may fail at each; the sorting, numbering and labelling of
the component are operators on what arrived. A fetch that one query runs
at a time (React Query) is one `pc`; single-SELECT lists are read and shown in
one action, which keeps the latest reading. `profile` is six of them: the user, the predictions, their
challenges in either role, the battle entries, their battles. Because the
record it reads counts battles too, `DuelViews` has the battles' two transactions that it
can see: an entry confirmed (`BattleEntry`) and a battle resolved about the entries its batch read
(`BattleEnds`).

### What is abstracted or left out

Outside `Orders`, prices and quantities (an order fills or the confirmation
fails); the floating-point size of energy payouts and rating steps; the
percentages of a community or an agent, but for those `Agents` clamps; the
duration of transactions (Prisma's 5 s limit of an interactive transaction, which a
very large battle might exceed on every tick); logging, layout and wording;
`tokenURI` and its SVG; the prompt and the deposit of an AI request; the nonce
of the protocol wallet, which `FanNft` and `Agents` share in production; the text of
the sign-in message and its signature. Of the readings: `getById` (as
`getByMarketId`), the leaderboard (one ordered SELECT), the
markets offered as new arenas, the predictions of battle entries in a profile's `history` (LOCKED for
ever, see below), and the limits of lists (30 open, 20 locked and 12
resolved battles, 50 calls and 20 entries of a profile). The home, market and NFT pages, charts, and the sample data
pages render while they have none. The battle and the duel phases of one tick
share the `User` rows; they are modelled separately, so the loss of a rating
*between* a battle and a duel is not shown (within one batch it is). `Panel` and
`Battles` are not composed: `Panel` takes from `Battles` and `Duels` when a request is
accepted, and shows what reaches them.

## Runs

Passing runs. "Seeded" runs start from states in which people have entered
or predicted already, which requests alone reach from `Init`, so that the states are
spent on what comes next.

| Run | Bounds | Question |
|---|---|---|
| `battles_arena` | 2 users, 1 market, 2 rows, 1 request, quorum 1; the hub closed, or open while one user enters | from the empty database: types; does every battle end, and does `Battles` implement `Arena` with its fairness? Does the hub drop every card that is out of date? |
| `battles_races` | quorum 2, 2 requests; seeded: one entrant and two pending orders of a second user; two entrants and a late entry, and three entrants, with a browser on the page; a market nobody has entered; 4 entrants, both directions, 3 confidences; 2 battles of the same 2 users | while requests confirm, abandon and re-enter, and the worker locks and resolves what it read earlier: do entries and predictions match, does the quorum hold, are places 1..n by conviction, then order of entry, is each result counted once through aborts and crashes, and is a list shown as final the final ranking? |
| `duels_races` | 2 requests; seeded: 1 original and 3 challenging orders (two of one user); 2 duels of the same 2 users on 2 markets; an original confirmed a second time while it is challenged, with its author's page open; a duel, with the challenger's page open, and a battle on the same market that he may enter | does exactly one challenger lock, is each result counted once, for the right winner, has no expired call a duel or time left, however late challenger and confirmations come, is the record a page gets explained by the two histories it gets with it, is no duel offered as an open call again, and is every step one that `Bout` allows? |
| `duels_live` | 2 users, 2 rows, 1 request, one duel page | from the empty database: types, opposition; does every duel and every open call end, and is whoever watches shown so? |
| `fannft` | 2 users, ratings around two tier limits (999, 1000, 1200), batches of 1, 3 ratings written, 2 transactions on their way, 3 failures | while ratings change, receipts are lost, calls fail, the process restarts and the contract changes hands: do tokens, profiles and tiers agree, and does every flag clear? |
| `agents` | 1 market, 3 views, 3 agents, answers -1, 40 and 101 | is a market paid for once, does it show only what its agents answered, within 0..100, and does an agreed answer arrive? |
| `orders` | 2 orders of one wallet, prices of 0..100 in ticks of 2, lots of 2, crossing 25 ticks, 3 books (thin, deep, at either end, empty), times around 300 s and 5 s before the end and past it; the wallet may be emptied at any time; a purchase in another market, and transactions of another sender, without an order, of a sale, and failed ones | are orders on the pool's grid, paid at most the margin over the ask, and dead before the market is? Is a credit what a transaction bought or what the wallet has, of the right side, whatever is presented? |
| `panel` | any panel, 2 flows, 2 rows, 2 accounts, 2 detours (leave, reload, switch, cancel, another tab) | is what is confirmed paid for, once, by its own account; is no order put to the user without an allowance; does no panel wait for nobody? |
| `sessions` | 1 tab, 2 sign-ins, 2 login deliveries, 2 nonces, 2 accounts | does a nonce log in once, and does every sign-in end? |

Why the bounds are enough: every race in the code is between two requests, or
a request and the worker, about one row or one unique key; two requests, one
worker and three rows contain all of them, and two rows of a batch are needed
for a lost rating. Rankings compare pairs of entries, four entrants with three
confidences have ties above, below and between. A page is one reader, and readers do not
disturb each other. In `fannft`, the
second result can overtake the first one's transaction and the third the retry's;
two transactions on their way are one that was given up and its retry; a batch
of 1 makes two flagged users wait for one another. In `agents`, three
runs race for one claim, and three agents can agree, disagree or split two
to one; markets do not interact except by sharing a poll, whose order is free.
In `orders`, with 25 ticks reaching
from the middle of the grid to either end, every clamp of `prepareBuy` is met; two orders can be
confirmed with one another's transaction and share a balance. In `panel`,
a second flow suffices for every overlap, since flows interact only through the
view and the allowance, and a detour may come before, in and after it. Two deliveries
of a login request contain the race for its nonce.
The theorems lift every safety property of these runs to every bound (`ResolvedListIsRanked`
up to lists of 999 rows).

Deadlock is checked in every run with a worker: the cron always has a next step.
`orders`, `panel` and `sessions` stop when their orders, flows or
nonces are used up, so they do not check it.

### Disagreements between code and documentation

Each run checks one documented statement and ends with a counterexample.

| Run | Statement | What the code does |
|---|---|---|
| `finding_unscored_entrant` | `docs/battle-royale-spec.md:31` "Entrants ranked; energy + rating applied" (and `:30` "LOCKED: No new entries") | `confirmEntry` checks the battle, waits for the fill, and inserts without checking again (`battles.service.ts:150`); an entry added after the batch was read is never scored (`battle-settlement.service.ts:161`) |
| `finding_lost_rating` | `:31` "rating applied" | the second battle of a batch overwrites the rating of the first (`battle-settlement.service.ts:207`) |
| `finding_unsynced_rating` | `contracts/FanNFT.sol:5` "Mirrors `challengeRating` tiers" (and `docs/battle-royale-spec.md:427` "Fan NFT sync fires after rating change") | `syncUser` sends the tier it read, waits for the receipt up to a minute, and then lowers the flag (`fan-nft.service.ts:190`), also when a settlement raised it meanwhile; the new rating is never sent unless another one follows |

More of them, found while modelling, that have no run of their own:

- a battle is voided for `insufficient_entrants`
  (`docs/battle-royale-spec.md:364`) by a count that is older than the write
  (`battle-settlement.service.ts:59`), and may have its quorum by then;
- `enter` and `abandonPendingEntry` delete a PENDING prediction whose fill is
  being verified, though "PENDING means the wallet never confirmed"
  (`battles.service.ts:63`);
- a LOCKED prediction "has a challenger" (`FRONTEND_CONTEXT.md:280`), but one that
  has becomes OPEN again when a second confirmation of it, begun before, ends after
  the challenge (`predictions.service.ts:121`); the challenge row keeps that
  from the lists and histories (`NoDuelIsListedAgain`, `RecordIsExplained`);
- an EXPIRED prediction (`FRONTEND_CONTEXT.md:281`) becomes OPEN or LOCKED
  again, because the updates of `confirm` and `confirmChallenge` are
  unconditional (`predictions.service.ts:121`, `:267`); `Bout` has to allow it;
- a resolved battle is listed by place, but an entry without one counts as the 999th
  (`battle-panel.tsx:69`), so with a thousand correct entrants or more the others are not
  shown last (`ListIsShort`);
- `lockOpenBattles` takes any error of `assertTradable`, a failed RPC too, for
  an untradable market (`battle-settlement.service.ts:52`; in the model,
  `LockOne` with `rpcOk` FALSE);
- `confirmChallenge` does not look at `challengeExpiresAt`
  (`predictions.service.ts:250`), so a duel may be locked after its window as
  long as the worker has not expired the original;
- `fanNftTier` is "last on-chain tier 0-4; null = never minted"
  (`schema.prisma:50`), but after a lost receipt it is neither: the next sync
  decides by the database, and if the rating has returned meanwhile, it clears
  the flag and leaves the chain as it is (`lost` in `FanNft`);
- clients are told to poll "until READY/FAILED" (`FRONTEND_CONTEXT.md:213`), but
  a market stays PENDING for ever when the process dies between the claim and
  the request id (`agents.service.ts:57-69`), and when the platform reports that a
  request failed or timed out, because `readOnchainRequest` throws for it
  inside a `try` whose `catch` returns null (`agents.service.ts:234-245`);
- "Confirm rejects bad `txHash`, wrong sender, zero fill, wrong side"
  (`FRONTEND_CONTEXT.md:301`), but a transaction whose order bought nothing is accepted when the
  wallet holds the outcome token for whatever reason, and its whole balance is credited
  (`dreamdex.service.ts:474`); `CreditIsBacked` states what is left of the promise;
- the server asks of a transaction only its sender, its side and a fill
  (`dreamdex.service.ts:395-472`): it may be another prediction's, one that has confirmed a
  prediction already, or one of another market. That a hash confirms one prediction
  (`ConfirmedOrderIsOwn`) holds of the application's own pages only;
- a profile's record counts battles (`users.service.ts:97-98`,
  `battle-settlement.service.ts:208-209`), and the page shows it over a list of duels
  (`App.tsx:664-666`, `:672-683`) in which the predictions of battle entries are "LOCKED", after their
  battle has ended too. The page's record is therefore not explained by the list under it, while that of
  the answer is by `history` and `battleHistory` together, which `RecordIsExplained` states;
- `aiPercent` is 0 to 100 (`FRONTEND_CONTEXT.md:204`), but the client takes any
  percentage of at most 1 for a fraction (`App.tsx:124`, `battle-panel.tsx:209`), so
  an estimate or a community of 1 % is shown as 100 %;
- `battleUpPercent` is the "% of battle entrants calling Up"
  (`docs/battle-royale-spec.md:252`), but the code averages the entrants' stated
  confidence in UP (`battles.service.ts:371`);
- the duel page shows an invented RESOLVED duel while it loads and, because it
  polls only what it knows to be LOCKED, for as long as its first load has failed
  (`App.tsx:580`, `:583`); the profile page has a sample of its own;
- the connect dialog, after any failure, stays in its second step, whose only way
  out is another page or a reload (`App.tsx:236`; `SignInFails` in `Sessions`).

### Fairness

Liveness is checked under: time passes and every market is eventually resolved
or voided (DreamDEX settles every market); the cron fires every 15 s and a tick
that is not interrupted ends; a call that is tried again on every tick does not
fail for ever, which is strong fairness of the successful outcome
(`SF_vars(LockOne(m, TRUE))`, `SF_vars(ResolveVoid(m) \/ ResolveSettle(m))`).
It is an assumption and not a promise of the code: a market whose RPC call fails on every tick
aborts `lockOpenBattles` each time, and what comes after it in the batch waits.
`FanNft` assumes that the tick keeps starting `syncPending`,
that a sync in progress goes on, and that the chain mines; its failures are
bounded (`MaxFailures`), so they end: a `setTier` that reverts for ever, and users it
keeps out of the batch, are not covered. `Agents` assumes that the tick keeps
reaching `pollPending`, and that reading an answer that is there, and writing it,
does not fail on every tick; views, agents and the platform owe nothing. Both
lean on ticks that get past `lockOpenBattles`, which may abort them.
`DuelViews` and `BattleHub` assume a page in front, whose timers fire, and fetches that
do not fail for ever (`ScreenFairness`, `HubFairness`). `Sessions` assumes that a
handler goes on to its end or fails, and that a wallet's prompt is answered
one way or the other. `Orders` and `Panel` claim safety only: a prompt may
stay open for ever.
Users owe nothing else: no request of `Battles` or `Duels` is fair. Aborts, skips, failures and
crashes stay possible without limit.

## Proofs

`Battles_proofs` proves, for every set of users, markets, prediction rows and
requests, every set of confidences and every minimum of entrants:

| Theorem | Says |
|---|---|
| `TypeCorrect` | `Spec => []TypeOK` |
| `EntriesCorrect` | `Spec => [](EntriesMatchPredictions /\ OneEntryPerUser)` |
| `QuorumCorrect` | `Spec => []LockedHasQuorum` |
| `ScoringCorrect` | `Spec => [](OnlyResolvedScores /\ ScoredOnce)` |
| `LifeCycleCorrect` | `Spec => LifeCycle` |
| `RankingCorrect` | `Spec => []RankedByConviction` |
| `CountedOnceCorrect` | `Spec => []ResultsCountedOnce` |
| `Refines` | `Spec => ImplementsArena` |

They assume what `Battles` assumes of its constants (`MinEntrants` is a positive number,
confidences are in 1..99, `None` is none of the other values).

The two entry invariants are not inductive alone: `EntryInvariant` adds that a
row has fields exactly while it exists (`RowsHaveCalls`) and that a request in
flight holds only ids of rows that were inserted (`RequestsHoldIds`): a
confirmation in flight could otherwise lock a row that `enter` has yet to
insert. The settlement invariants need `BatchStillValid`: what the worker has
still to do is as it read it, up to entries that came in meanwhile. That is
the one fact that makes the unconditional updates of the worker harmless, and it
holds because nothing but the worker moves a battle out of OPEN or LOCKED, and
because of the `running` flag.

`RankedByConviction` and `ResultsCountedOnce` speak of the whole history of
settlements. `ResultsInvariant` makes them inductive with three more facts: a
resolve batch has read a quorum of each battle (`BatchHasQuorum`, from
`LockedHasQuorum` at `ResolveBegin`); whoever is scored in a battle has entered it
(`ScoredHaveEntered`), so that an entry confirmed after the worker's reading
belongs to a user the battle has not scored; and an entry is placed only together
with the scoring of its user (`OnlyScoredArePlaced`), so that it is unplaced too.
The proof has three parts. The lemma `Ranks` is about the pure ranking: for any
roster, `Placement` gives its correct entries 1, 2, ... without gap or tie, by
`RanksAhead`; the argument is that whoever is ahead has strictly fewer entries ahead of
him, and that an injection of a finite set into an interval of its size is
onto. `SettleWrites` states what the transaction of `resolveOne` writes, row by
row, for all who read its tables; and `ResultsStay` that any other step adds at
most an entry nobody was scored for. TLC checked `ResultsInvariant`, and the
invariants of the other proofs, on the runs of their modules before they were proved.

For `Refines`, every step maps to a step of `Arena` or changes nothing `Arena` sees. `RefinesMove`
covers the locks and voids, whose old status is known from `BatchStillValid`, and
`RefinesSettle` the transaction of `resolveOne`: the roster are the users of the
entries it read, as many as those (`OneEntryPerUser`) and therefore a quorum; the winners are the
placed ones; the one champion is the entry that `Ranks` places first.
`ImplementsFairArena`, which `battles_arena` checks, is this and `Arena`'s
fairness; the life cycle of `LifeCycleCorrect` is part of what `Arena` allows.

`BattleViews_proofs` proves, with the same assumptions and whatever page is open:

| Theorem | Says |
|---|---|
| `ResolvedListCorrect` | `ViewsSpec => [](ListIsShort => ResolvedListIsRanked)` |

The page reads a battle by one SELECT and its entries by another, and the battle may be
settled, or a late entry come in, between the two and afterwards. `PageInvariant` says why
that does no harm: a battle once read as RESOLVED still is what it was read as, and what
was read of its entries from then on is the first so many of them as they still are, among
which is everybody who was scored. That rests on `RankedByConviction` and on the finality of a
resolved battle's rows (`ResultsFinal`). The rest is about sorting, which the
model defines by rank: row k is the one that k - 1 rows are shown before. `LexicalIsStrict` shows that
`sortEntries`'s comparison is a strict total order, `Positions` that in one such the number of those
before it is the position of each, and `PlacedComeFirst` that placed rows come first, in
the order of their places. The hypothesis `ListIsShort`, at most 999 rows in a list, is
the code's: `sortEntries` takes an entry without a place for the 999th
(`battle-panel.tsx:69`), so in a battle with more correct entrants than that the others are shown
in the midst of them.

`Duels_proofs` proves, for every set of users, markets, prediction rows and requests:

| Theorem | Says |
|---|---|
| `TypeCorrect` | `Spec => []TypeOK` |
| `RaceCorrect` | `Spec => []OnlyTheWinnerOfTheRaceLocks` |
| `DuelIsOpposedCorrect` | `Spec => []DuelIsOpposed` |
| `ExpiryCorrect` | `Spec => []ExpiredIsUnchallenged` |
| `WinnerCorrect` | `Spec => []WinnerWasRight` |
| `CountedOnceCorrect` | `Spec => []ResultsCountedOnce` |
| `RecordCorrect` | `ViewsSpec => []RecordIsExplained` |
| `ListingCorrect` | `ViewsSpec => NoDuelIsListedAgain` |
| `StepsCorrect` | `Spec => EveryStepIsOfBout` |
| `Refines` | `Spec => ImplementsBout` |

`DuelInvariant` says what requests in flight may rely on (`RequestsHoldRows`: the
row a confirmation holds exists, and from `takeRead` on it is a challenge), that
a challenge was made for an open call of somebody else in the other direction and
is PENDING until it has the duel (`ChallengesAreOpposed`), that challenge rows and
LOCKED challenges match both ways (`DuelsAreLocked`), and that nobody but the
worker ends a duel (`BatchStillValid`). It does *not* say that an original with a duel is
LOCKED: a late second confirmation makes it OPEN again, and the proof shows that
no theorem depends on it. `ExpiredIsUnchallenged` rests on that: an expired call is unchallenged not because of what
the worker checked when it expired it, but because whoever takes it afterwards writes LOCKED over EXPIRED in
the transaction that creates the challenge, and a late confirmation writes OPEN with a new window.
`ResultsInvariant` adds that the set of
resolved duels is finite, so that one more of them adds one to its cardinality.

The two theorems about pages need `ClashesInvariant`. `profile` reads the user, then the
predictions, the challenges of either role, the battle entries and their battles, while duels and battles
are settled. What was read of a duel's end is
final, and every row read LOCKED is one side of a duel (`LockedIsInDuel`, `RowsHold`). The
record was read first, so the rows and entries that are won by what the fetch *has read or would
read now* (`SeenEnded`, `SeenPlayed`) number at least the wins it read when the record
is read (`ResultsAreSeen`, from `ResultsCountedOnce`, for the duels, `BattlesHold` for the battles), and never
fewer afterwards (`SeenEndedGrows`), until all is read and the lists are made of it (`RecordIsCovered`).
An entry is placed by the transaction that decides its battle, so a placement read is final, and
so is a winning direction (`EntryHolds`).
For `NoDuelIsListedAgain`, a call the history shows in a duel has its challenge row for good
(`HistoryHolds`), and `listOpen` takes no call that has one, whatever its status says.

`Bout` sees the stage of each call and its duel, the sides of that duel and the users' wins, losses and payouts.
Each way a duel or an open call moves has a lemma (`RefinesOpen`, `RefinesTake`,
`RefinesExpire`, `RefinesVoid`, `RefinesSettle`); every other step changes nothing `Bout`
sees (`RefinesStutter`). `BatchStillValid` says that what is voided or settled is still LOCKED, and
`TakersSawOpen` that a call about to be taken was open once and can only have
expired since, or lost the race. `Bout` is as weak as the code is there: a call that
expired may be opened again or still be taken (see the list of disagreements above).

`Orders_proofs` proves, for every grid, margin, set of books, of times and of asked sizes:

| Theorem | Says |
|---|---|
| `TypeCorrect` | `Spec => []TypeOK`: prepared orders are whole ticks and lots the pool accepts |
| `PriceCorrect` | `Spec => []PriceIsBounded` |
| `ExpiryCorrect` | `Spec => []OrderOutlivesNothing` |
| `CreditCorrect` | `Spec => CreditIsBacked` |

They assume that the tick divides one whole and is smaller, that lots, minima, times and
margins are natural numbers, and that the books hold prices of the grid, best first. The
arithmetic is in lemmas about `SnapDown` and `SnapUp` (what they return is a
whole number of ticks or lots, and how far it is from what they were given) and `CrossingPriceIsGood`, which
follows the price through rounding, crossing and both clamps. The invariant speaks of
each order by itself: `WellPrepared` says what its fields are from the moment it is prepared (`GoodOrders`);
no step of the wallet, of the book or of a verification changes them. For `CreditIsBacked`,
`ProofsHold` says that the transaction a verification goes by was accepted for its prediction and
still would be, the awaits of the other sources later. `Depth`, a
fold over a book, is opaque to the provers; nothing proved needs what it computes.

`Panel_proofs` proves, for every set of flows, rows and accounts and every number of detours:

| Theorem | Says |
|---|---|
| `TypeCorrect` | `Spec => []TypeOK` |
| `OwnOrderCorrect` | `Spec => []ConfirmedOrderIsOwn` |
| `AllowanceCorrect` | `Spec => []OrderNeedsAllowance` |
| `StepCorrect` | `Spec => []StepHasFlow` |

`PanelInvariant` says what a flow knows at each of its awaits (`FlowsKnow`), that
the wallet is asked by flows that have connected (`AskedByFlows`: the sender of a transaction
never changes), that a mined approval lasts (`ApprovalsLast`), that confirmation is asked for mined orders only
(`MinedBeforeConfirm`) and that a row's hash is that of a flow that is over (`HashesAreConfirmed`).
`StepHasFlow` is inductive as it stands.

`Sessions_proofs` proves, for every set of tabs, sign-ins, deliveries, accounts and nonces:

| Theorem | Says |
|---|---|
| `TypeCorrect` | `Spec => []TypeOK` |
| `NonceCorrect` | `Spec => []NonceLogsInOnce` |

`SessionInvariant` says that a request carries the nonce its sign-in was given
(`SignInsArePrepared`, `RequestsAreSent`) and that the row of a nonce that has logged in is gone
(`UsedNoncesAreGone`): the second of two deliveries that both found the row then fails at
its deletion.

`FanNft_proofs` proves, for every set of users and ratings, every batch size
and every bound:

| Theorem | Says |
|---|---|
| `NftTypeCorrect` | `Spec => []TypeOK` |
| `TokenCorrect` | `Spec => [](OneTokenPerWallet /\ TokenIsOnChain)` |
| `ProfileCorrect` | `Spec => []ProfileShowsChain` |
| `MirrorsCorrect` | `Spec => []MirrorsRating` |
| `MintCorrect` | `Spec => MintedAtScout` |

The invariant adds three facts. `BatchIsCurrent`: a row in the batch may be old
in its rating only, so what is decided from its tier and token is right.
`MempoolIsKnown`: transactions are mined in order and the awaited one is the
last, so an empty mempool means that its receipt is there, and any other transaction
belongs to a user in `lost`. `ReceiptIsTrue`: a successful receipt means
the chain has what is about to be recorded. `MirrorsRating` is proved on
top of them, with `Settle` and `SyncBegin` moving `rated`.

`Agents_proofs` proves, for every set of markets, views and answers and every
finite set of agents:

| Theorem | Says |
|---|---|
| `AgentsTypeCorrect` | `Spec => []TypeOK` |
| `PaidOnceCorrect` | `Spec => []PaidOnce` |
| `EstimateCorrect` | `Spec => []EstimateIsAnswered` |
| `LifeCycleCorrect` | `Spec => EstimateLifeCycle` |

Their invariant is `ClaimInvariant`: an IDLE market has no request, a claimed
market without an id belongs to at most one run, and that run alone sends,
records or fails; what the poll is about to write is an answer of that
market's request. The lemma `AnswersStay` (two reports of one value remain two)
rests on the library's facts about finite cardinalities, `RowStep` says what
any step can do to the row of a market, and the four theorems follow.

Only model-checked: liveness under fairness, which is outside TLAPS's reach as
ENABLED is (`ImplementsFairArena` beyond `ImplementsArena`, `EveryCardMovesOn`,
`EveryCallIsSeenToEnd`, `EveryFlagClears`, `EveryAnswerArrives`,
`EverySignInEnds`). Every invariant and action property of the passing runs is proved,
`ResolvedListIsRanked` for lists of at most 999 rows.
`OnlyResolvedScores`, `ScoredOnce`, `OneEntryPerUser`, `LifeCycle`, `TokenIsOnChain`,
`MintedAtScout`, `ImplementsArena` and `ImplementsBout` are proved and have no run of their
own; `LifeCycle` and `ImplementsArena` follow from `ImplementsFairArena`, and the steps of
`ImplementsBout` are what `EveryStepIsOfBout` checks.

## Plan

1. *(done)* `BattleRules`, `Battles`, `Arena`, `BattlesRefinement`: the core.
2. *(done)* `Battles_proofs`: types, entries, quorum, scoring, life cycle.
3. *(done)* `Duels`.
4. *(done)* `FanNft` and `FanNft_proofs`, `Agents` and `Agents_proofs`.
5. *(done)* `Orders`: tick and lot arithmetic of `prepareBuy`, expiry, verification of
   fills; `Sessions`: nonces and sign-in; `Panel`: the client's order sequence.
6. *(done)* `BattleViews`, `BattleHub`, `DuelViews`: what browsers read and show.
7. *(done)* `Duels_proofs`, `Orders_proofs`, `Panel_proofs`, `Sessions_proofs`: every
   safety property of these modules that a run checks.
8. *(done)* `Battles_proofs`: ranking and counting, and the safety half of
   `ImplementsFairArena`.
9. *(done)* The pages: `ResolvedListIsRanked` from `RankedByConviction` and the finality of a
   resolved battle; `RecordIsExplained` and `NoDuelIsListedAgain` from `DuelInvariant` and
   `ResultsInvariant`. `Bout`, `DuelsRefinement`: what duels promise, and the proof that they do.
10. `Worker`: battles, duels, agents and NFT under one tick, sharing `User`
   rows; ratings across batches.
