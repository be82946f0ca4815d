# MathCoin in TLA+

MathCoin is a game: the server hands a player an arithmetic problem with a
deadline and a reward, and credits the reward once for a right answer in time.
What players earned is published from time to time as a Merkle root on chain,
where they claim tokens against it.  This directory holds TLA+ models of the
parts of it in which several actors share state, the TLC runs that check them
on small instances, and TLAPS proofs for every value of the constants.

    tlasany M.tla                             parse
    tlc -workers 2 -config X.cfg MCmodule     model-check
    tlapm MProofs.tla                         check proofs

`PROJECT.json` maps each definition to the source lines it translates and lists
the runs, mutants, findings, hazards and theorems.

## 1. The system

Paths are relative to `src/`.

| Component | State it keeps | Operations | Status |
|---|---|---|---|
| Challenge and mint API (`api/src/routes/challenge.rs`, `mint.rs`, migrations 002, 003) | tables `challenges`, `earnings`; a pool of 5 connections | issue a challenge; answer it | modelled: `Mint`, `Ledger` |
| Difficulty retarget (`difficulty.rs`, step 7 of `mint.rs`, `main.rs` 79-94, `stats.rs`) | an atomic `difficulty`; a deque of mint times under a mutex | record a mint; periodic recompute; query | modelled: `Retarget` |
| Rate limiter (`rate_limit.rs`) | a map from key to request times, under a mutex | check a request | modelled: `RateLimit` |
| Sessions and accounts (`session.rs`, `claim_address.rs`, migrations 001, 004) | table `users` | upsert on login; set the claim address once | modelled: `Accounts` |
| Token verification (`auth.rs`) | JWKS cache with a time stamp | verify; fetch | modelled: `Jwks`, without the cryptography |
| Challenge generator (`challenge.rs`) | none | level -> problem, solution, reward | modelled: `ChallengeGen` |
| Distribution publisher (`publisher/src/publish.ts`) | tables `distributions`, `distribution_entries` | snapshot, Merkle tree, insert | modelled: `Settlement` |
| Merkle tree (`publisher/src/buildMerkleTree.ts`) | none | leaves -> root, proofs | partly: in `Settlement` a root stands for its leaves |
| On-chain publication, submitter (`api/src/chain/publisher.rs`, `tx_submitter.rs`) | `distributions.status`; a local nonce | submit `updateRoot`, wait, mark published; recover a nonce gap | modelled: `Settlement`, and the nonce in `Submitter` |
| Claimed-event indexer (`chain/indexer.rs`) | a block cursor; `users.claimed_onchain` | apply a chunk of events, move the cursor | modelled: `Indexer` |
| Contract (`contracts/src/MathCoin.sol`) | root; claimed amount per account; balances | `updateRoot`, `claim` | partly: `Settlement`; ownership, transfers and events are left out |
| Read endpoints (`me.rs`, `audit.rs`, `claim_data.rs`, `claim_relay.rs`) | none | compute claimable; audit the root | partly: `Settlement` has the distribution they serve |
| Web client (`web/src`) | page state: challenge, countdown, answer in flight | fetch, answer, retry | partly: `GamePage`, the mining page and `useApi` |
| Configuration, wiring, deployment script | none after start | | not modelled: values become constants |

How they interact.  Every request passes the rate limiter, then a handler.  A
handler that needs an identity asks the token verifier.  Handlers talk to each
other only through PostgreSQL, the `difficulty` number, and the two mutexes;
the mint feeds the retarget state, and the challenge handler reads the
difficulty it computes.  The publisher, a separate process, reads `earnings`
and `users` and writes `distributions`; the publication code sends their roots
to the contract; the indexer carries the contract's events back to `users`.
`GET /api/me` then combines earnings, the last published distribution and what
the indexer wrote.

What is hard in each, and what makes it correct:

* **Mint.** Resent and concurrent answers for one challenge; decisions taken
  on a row read several statements earlier; two clocks; errors in the middle
  of a transaction, and of COMMIT itself; disconnected clients.  Correct means:
  a challenge is resolved once, credited iff CLAIMED, only for its owner's right
  answer in time, and players are told the truth about it.
* **Retarget.** The task and the mints read the clock or the difficulty before
  they wait for the mutex.  Correct means: the difficulty stays in its range
  and moves gently, no mint of the last window is forgotten, and an idle system
  becomes easy again.
* **Rate limiter.** Clock and cutoff are read before the mutex.  Correct means:
  bounded admissions per window, no undeserved 429, bounded memory.
* **JWKS cache.** Concurrent misses, and the slowest fetch wins.  Correct means:
  a token of a current key is accepted, a withdrawn key is eventually refused.
* **Accounts.** UNIQUE(email) next to an upsert that handles `provider_sub`
  only; a claim address is set at most once under concurrent requests.
* **Publisher, publication.** Snapshot before the transaction; overlapping
  runs; crash or timeout after a transaction was sent; nonce gaps.  Correct
  means: published amounts of a player never go down, and the table's
  `published` agrees with the chain.
* **Indexer.** Chunks that end inside a block, crashes between the events and
  the cursor, replay.  Correct means: `claimed_onchain` ends at what the
  contract holds.
* **Page.** Answers that arrive for an earlier challenge; a retry of a POST
  that had succeeded.  Correct means: what the player is told is so, and the page
  never waits for ever.
* **Challenge generator.** Operands that grow by ten per level, and subtractions
  whose sides are swapped.  Correct means: the number stored is that of the
  expression shown, and no checked operation fails.

## 2. The modules

| Module | Models | Reads with |
|---|---|---|
| `Ledger` | what the mint promises: issue, credit, void, each atomic | nothing in it refers to requests or clocks |
| `Mint` | `GET /api/challenge`, `POST /api/mint` and the database under them | `Ledger`, by `INSTANCE ... WITH` |
| `Retarget` | difficulty and the mint window | step 7 of `Mint` is its `RecordMint` |
| `RateLimit` | the middleware's check | |
| `Jwks` | the cache of signing keys, fetched by several requests at once | |
| `Payout` | what the settlement promises: what was earned is paid, in portions, and never more | |
| `Settlement` | publisher, publication, contract, and which distribution the API serves | `Payout`, by `INSTANCE ... WITH` |
| `Indexer` | the indexer of Claimed events over a chain that grows and is reorganized | its events are the claims of `Settlement` |
| `Submitter` | the nonce, the submission lock, the resync and `recover_gap` under concurrent calls | `Settlement` has what a call submits |
| `Accounts` | `users`, `POST /api/session`, `POST /api/claim-address` | `OptIn` of `Settlement` is its `SetAddress` |
| `GamePage` | the mining page and its retries, over a network that loses and delays | `Outcomes` are the answers of `Mint` |
| `ChallengeGen` | operands, order and solution of every level | the solution `Mint` stores |
| `MCParts` | the last four side by side, and their liveness | |
| `MCMint`, `MCRetarget`, `MCRateLimit`, `MCJwks`, `MCSettlement`, `MCIndexer` | symmetry sets and constants for TLC | |
| `MintProofs`, `RetargetProofs`, `RateLimitProofs`, `JwksProofs`, `SettlementProofs`, `IndexerProofs`, `PartsProofs` (of `Submitter`, `Accounts`, `ChallengeGen`, `GamePage`, and of `MCParts`, which runs the four together) | theorems | |
| `Sums` | lemmas about sums over finite sets and least elements | `MintProofs` and `SettlementProofs` cite it |

### Mint

One action per statement of the handler.  A request `r` is at `pc[r]`:

    idle -Receive-> lookup -> read -+-> done                      404, 409
                                    +-> late  -> voidLate  -> done   410 or 409
                                    +-> wrong -> voidWrong -> done   422 or 409
                                    +-> begin -> cas -> insert -> commit -> balance -> record -> done
                                                  +--------+--------+-> rollback -> done

`rows` and `earnings` hold **committed** rows.  What the transaction of
`cas .. commit` has written but not committed is not in them: it follows from
`pc`, `lock[c]` and `credit[r]`, and `ApplyCommit` makes it visible at once.
This is PostgreSQL's READ COMMITTED, the default the handlers run at.  An
UPDATE waits (`Unlocked`) for the row lock and then evaluates its WHERE on the
committed row, with `now()` fixed at the start of its transaction (`ts`): so the
deadline is compared with a time from before the wait.  A single statement on
the pool is a transaction of its own, hence `StartVoid` then `VoidUpdate`.

`ConnectionFree` is the pool: a transaction, or an UPDATE waiting for a lock,
keeps its connection.  `Faults` turns on failed statements (answered 409), a
failed COMMIT that took effect or did not, the balance query that fails (0 is
reported), and clients that disconnect, or an API that dies: the handler is
dropped where it waits, and the server rolls back.  A balance can therefore be
false under faults, which is why `ReportedBalance` is checked without them.

`Skews` is the difference between the API's clock, which sets `expires_at`, and
the database's, which judges it.  Left out: tokens, problem texts, the choice
of a reward from the difficulty (any reward may be drawn).

### Retarget

A critical section under `mint_stats` contains no await, so it is one action
(`RecordMint`, `Recompute`, `QueryStats`); reading the clock (`ReadClock`) or the
difficulty (`LoadDifficulty`) before the wait is an action of its own.  `evicted`
and `behind` are history variables.  Rates are counts; the thresholds of the
code (15.0, 25.0) are integers too.

### RateLimit

`Arrive` reads the clock, `Check` is the critical section.  A bucket is the set
of requests whose times it holds: the vector's order is never looked at.
`Delay` bounds the wait for the mutex, by a guard of `Tick`; the statement of
`AdmissionBound` depends on it, because the code's own "60 per 60 seconds" holds
only if requests do not wait after they read the clock.

### Jwks

A request either finds a fresh entry under the read lock (`Hit`) or goes
`fetching -> answered` without a lock (`Miss`, `Serve`) and then replaces the entry
and verifies with what it got itself (`Store`); any number of them do so at once.
`FetchFails` is a request or a body that fails, `Drop` a client that is gone.  A key
is published and withdrawn once, so "wrong" has one date, `changed`.  A token is the
key it names; one that names none is one whose key is never published, which is
refused like an unknown one, and after the same fetch.  `Delay` bounds the time from
a miss to the store; the code sets no timeout on the fetch, so both properties
are relative to it.

### Settlement

It composes the publisher, the publication and the contract, because its
properties are about all three.

* A publisher run `r` goes `idle -> snapped -> writing -> done` (or `failed`):
  the SELECT is on the pool, BEGIN fixes `created_at` (`begun`), and COMMIT makes
  the distribution, named `r`, visible as pending.
* A call `c` of `publish_pending_distribution` holds a record of its locals:
  selected a distribution (`submit`), sent its root (`wait`), seen its receipt
  (`mark`), and is idle again after the UPDATE or after anything failed.
* `txs` are the transactions by nonce.  `UpdateRoot` mines them in that order;
  `LoseTx` is a revert or a drop.  `Claim` is the contract's `claim`.
* `Fault` counts everything that goes wrong, up to `MaxFaults`: failed runs,
  failed calls, timeouts, lost answers, lost transactions.  A timeout of a
  transaction that was dropped is not counted: it is bound to come.

A root is the function from addresses to cumulative amounts it was computed
from; a proof verifies exactly if its leaf is in that function.  `HasProof` lets
a player use a proof the API has served, that of a published distribution with
the contract's root; `Leaks` lets them use any leaf of the root.  Each player has
one claim address, since the API sets it once.  `Overlap` says whether the
publisher's command may be started while another is running: nothing in the
code prevents it.  The local nonce of the submitter is attached to no
transaction (`Transaction` has no such field), so it is left to `Submitter`; the
submission lock shows here in that sending is one step.

### Indexer

`tip` and `log` are the chain as a node shows it: its height and the Claimed
events of its blocks.  `MineBlock` adds a block, `Reorg` takes blocks back, never
more than `ReorgDepth` below the highest tip there was (`peak`), which is at most
`SafeDepth`, the code's REORG_SAFE_DEPTH.  The contract pays only what exceeds the
amount claimed before, so the cumulative amounts of an account grow (`Growing`).

A call goes `idle -> tip -> fetch -> apply <-> advance -> idle`, with its locals
in the record `call`: the first block, the safe limit, the fetched events, the
position of the next one, `last_block`.  `ApplyEvent` is one turn of the inner
loop, with its UPDATE or its `continue`; `AdvanceCursor` the INSERT at the end of
a chunk; each statement is a transaction on the pool.  `Fail` is an error of any
of them or the death of the process.  A statement that took effect and whose
answer was lost is that statement followed by `Fail`.

There is one call at a time.  What an event carries is external: the production
`ChainClient` is not in the repository, and the module takes the name
`cumulative_amount` at its word.  The contract's event holds what one claim paid
(`MathCoin.sol:38`), so such a client would have to add up; one that does not
breaks every property below.

### Submitter

A call `c` of `submit` is at `step[c]`:

    start -Lock-> send -+-Take-> sent -+-Accept-> wait -Confirm-> done or failed
                        |              +-LoseAnswer-> failed
                        +-NonceError-> resync -AskFresh-> fresh -Resync-> resend
                        +-Refuse-> failed                 resend -Take-> resent -Accept-> wait

(and to `failed` by `Refuse` from `resend`, `LoseAnswer` from `resent`, `FailResync`
from `resync` and `fresh`).  What the node does and what the submitter stores when
the answer comes are on two sides of an await, hence two actions: the node counts
a transaction at `Take`, the local nonce follows at `Accept`; the node is asked at
`AskFresh`, `fresh` is stored at `Resync`.  Between them `recover_gap` and the
others run.  `lock` is held from `Lock` to `Accept` or to an error, where Rust drops
the guard (`Release`).  `recover_gap` takes no lock, so its three steps
(`ReadChain`, `ReadLocal`, `StoreNonce`) interleave with everything.  `count` is
the node's transaction count, with what is pending.

Three history variables say whose fault a nonce is that lags behind: `missed`
counts transactions the node took whose answer no call got (it was lost, or
another process sent them); `raced` those it took from calls since the last
`recover_gap` asked for the count, and `setBack` adds that up over every
`recover_gap` that stored.  One that finds the nonce not ahead adds nothing.

### Accounts

A request is one or two statements, each its own transaction.  `call[k]` is
between them at `balance` or `select`.  A sub has at most one row, which is
UNIQUE(provider_sub).  A statement that took effect and whose answer was lost
is that statement followed by `Drop`; the client may then send the same request
again.  An answer stays in `call[k]` until the next request, so that what it says
can be compared with the table for good.  `late` remembers the one race between
the statements of claim-address: an account created after the UPDATE missed it.

### GamePage

`get` and `mint` are the two requests the page may have under way, with the number
of retries `request` made of each.  `loading` and `submitting` are the page's flags
of those names: each is set when its request begins and reset when it ends, and
nowhere else.  A tick that finds the time over while it starts the interval
leaves the interval running (`ShowChallenge` with `expired`), as in the code.
`Outcomes` is what `Mint` answers: a 500 never comes with an effect, a 409 may come
with any (a COMMIT whose result was lost, `mint.rs:173`), and 401, 404 and 400
are `refused`.  `stray` are submissions given up by the browser which the server
has not yet seen.

### ChallengeGen

A problem is `x op y` where `x` and `y` are products of two numbers; a single
number is a product with 1.  `Problems(l)` are all the problems of a level, out of
`Samples`.  Levels end at 12, the `diff_max` of `main.rs:58`.  In
TLC integers have 32 bits, so the run ends at level 8; the theorem covers all 12.

## 3. The runs

| Run | Question | Bounds |
|---|---|---|
| `mint_ledger` | do racing, failing, abandoned mints keep the ledger exact, and implement `Ledger`? | 3 requests, 1 challenge, 2 users, 2 answers, 2 rewards, Ttl 1, skews of `ClockSkews`, time 0..2, pool 2, faults |
| `mint_answers` | are balances and answers right, and is every request answered? | 2 requests, 2 challenges, 2 users, pool 2, no faults, fair |
| `mint_conflict` | (violation) does 409 mean that the challenge is resolved? | 1 request |
| `retarget` | range of the difficulty, window, how far it jumps, cooling down | 4 mints, window 2, band 1..2, levels 1..3, time 0..5, fair |
| `rate_limit` | admissions per window, deserved refusals | 4 requests, 2 keys, window 2, limit 2, delay 1, time 0..6 |
| `jwks` | for how long is a withdrawn key accepted, or a new one unknown? | 3 requests, 2 keys, Ttl 2, delay 1, time 0..4 |
| `settlement` | is only what was earned paid, do table and contract agree, do entitlements never shrink, is every distribution published? | 2 players (one earns twice, one once), 2 runs that do not overlap, 1 call at a time, 4 transactions, 2 faults, fair |
| `settlement_overlap` | (violation) can the claimable amount be negative with an exact cache? | as above, runs overlap, no faults |
| `indexer` | does the cache show only what the chain holds, and everything up to the cursor, after reorganizations and failures? | 2 accounts, 3 amounts, chunks of 2, 1 claim in a block, depths 1, height 5, 2 failures |
| `indexer_crash` | (violation) is what the cursor passed applied when a call dies? | 2 claims in a block, chunks of 1, 1 failure |
| `parts` | is the page true, are accounts and nonce sound, is every problem what it shows, and does every wait end? | 2 challenges, 1 retry; 2 players, e-mails, addresses and requests; 2 submissions, 1 foreign and 1 dropped transaction; levels 1..8, 13 operands; fair |
| `rate_limit_memory` | (violation) does a check leave outdated buckets? | 2 requests, 2 keys, window 1, time 0..3, fair |

Why these bounds are enough to be worth something:

* Three mint requests for one challenge are a winner, a loser that waits for
  the row lock, and a third that reads between them; two users make one of
  them a stranger, two answers make one wrong, two rewards show a wrong amount.
  Time 0..2 with Ttl 1 has instants before, at and after the deadline, and with
  a negative skew a challenge that is late when it is issued.  A pool of two
  makes the third wait.  Challenges do not share anything but users, connections
  and the table of earnings, so the run with two challenges has fewer requests.
* `Answered` needs two requests with a connection each: one holds the row lock,
  the other waits for it and keeps its connection, so none is left.  A statement
  of the transaction run on the pool would then wait for good (the property's
  mutant).  That nobody waits in a circle is proved for every pool from one up
  (`MintNobodyStuck`).
* Four mints in a window with the band 1..2 bring the rate below, inside and
  above it.  `MaxTime` 5 exceeds `LastMint` + `Window` + 1, so every time can be
  evicted, and three levels leave room for a jump of two.
* Four requests are two more than the limit; `MaxTime` 6 leaves times beyond
  `Window + Delay`, from where `AdmissionBound` speaks.

* Three requests are a slow fetch, a fast one that it overwrites, and a hit on the
  result; time 4 exceeds `Ttl + Delay`, the age the properties allow, and either
  key may change at any instant.

* Two distributions are what "the latest" and "the next" need; each of two
  faults costs at most one transaction more than two distributions take, so
  `MaxTxs` 4 never stops a call.  One player's amount grows twice, the other may
  opt in between the snapshots, so a root may grow in either way.

* With height 5 and a safe depth of 1, four claims can be safe: two full chunks,
  or a full one and a part.  Two failures are a call that dies in the middle of
  replaying another that died.  A depth of 1 has the blocks at, above and below
  the limit; the theorems have any depth, chunk and height.

* In `parts` a behaviour moves one of four modules, which share nothing, so that
  their states add up and do not multiply.  Two challenges are one whose answer
  is late and one it lands on; one retry is a first try and a last one, and what
  the server sees of a challenge is at most those and the submissions given
  up.  Two requests on two accounts are every race of two statements, and each
  may be repeated any number of times.  Two submissions contend for the lock
  and interleave with any number of `recover_gap`.  `Samples` has each level's
  least and largest operand up to level 8, and numbers between.

The clock is bounded by `MaxTime` and the deadlock check is off: when time and
requests are used up there is nothing left to do.

Symmetry is used where values are interchangeable and only invariants or step
properties are checked, never with liveness.

### What the runs show

`mint_ledger`: `LedgerExact` (CLAIMED iff one earnings row with the right owner
and amount), `UniqueNeverNeeded` (the lock and the compare-and-set alone exclude
the second INSERT, so that UNIQUE(challenge_id) is never met), `OneWinner`,
`ResolvedForCause`, and `ImplementsLedger`.  A lost result of COMMIT makes a
player who was credited read 409; the tables stay exact.

`mint_answers`: `BalancesAddUp`, `ReportedBalance`, `ConflictIsFinal` and
`Answered`.

`retarget`: `NothingLiveEvicted` although times are pushed out of order;
`GentleMoves`, how far the difficulty jumps when the task overwrites mints it did
not see; `CoolsDown`.  A tighter bound does not hold: the task loads `current` at `main.rs:85`, waits for the mutex, and
stores what it computed from it.  A mint in between is overwritten: e.g. 2, a
mint raises it to 3, the task lowers its 2 to 1, and the difficulty players see
moves by two steps, which `difficulty_retarget` alone never does.

`rate_limit`: `AdmissionBound`, `LimitDeserved`.

`jwks`: `WithdrawnRefused` and `PublishedKnown`: keys in use are less than
`cache_ttl` plus one fetch old, although an old answer may overwrite a newer one.

`settlement`: `OnlyEarned`; `PublishedWasPosted`; `RootServed` (the contract has
the root of the latest published distribution, or of the oldest pending one);
`RootGrows`; `ClaimableNotNegative`; `ImplementsPayout`; and
`EventuallyPublished`, after finitely many faults.  `RootServed`, `RootGrows` and
`ClaimableNotNegative` depend on the two `one at a time' settings: with two calls
under way TLC refutes `RootGrows` (one selects a distribution, the other
publishes it and sends the next, the first sends the old root again), and with
`Leaks` a claim between the mining of a root and the UPDATE of its row makes the
claimable amount negative for that while.  `OnlyEarned` and `ImplementsPayout` do
not depend on them, and are proved for every setting.

`indexer`: `ReorgSafe`; `CursorMeansApplied` (events up to the cursor are not
fetched again, so they must show); `CatchesUp` (a call that ran to its end left
nothing out up to its safe limit, whatever failed before); `NoRegression`
(without failures the cache never goes down, however the chain moves; with them
it may, while a replay passes through older amounts).

`parts`, the page: `VerdictsAgree` (a verdict told is the server's record, for
good; a credit is told unless an answer of it was lost) and `PageShows`.  Retrying
a POST is therefore safe, and its price is that a credited player may read
"Already claimed!" after a lost answer.  A verdict may be shown beside the next
challenge, if the countdown of its own ended while it was under way; a `correct`
that lands so leaves the page without a button.  The accounts: `AccountsPromise`.
"address already in use" is never said of the caller's own address; "claim
address already set" is true unless the account was created between the two
statements.  The submitter: `NonceDrift`.  The nonce
lags by the transaction whose answer is on its way, by lost answers and foreign
senders, and by what the node took while a `recover_gap` ran that then stored: it
has no lock, and may set the nonce back below a transaction that was just
counted.  TLC refutes the bound without any one of these terms.  The generator: `ProblemSound`.
All four: `CallsEnd`.

Four runs show where the program does not do what its texts say:

* **`ConflictMeansResolved`.** A right answer read before the deadline whose
  transaction begins at or after it is told "challenge already resolved"
  (409) while the row is still PENDING.  The handler has an answer for late
  (410); the compare-and-set does not tell the two reasons apart.
* **`BucketsReclaimed`.** The cleanup looks only at the bucket of the request
  being checked, which is never empty then (with a positive limit).  The property
  speaks of a check that comes when all times of some bucket are before its
  cutoff, and asks that they do not stay for good.  In the counterexample that is
  the bucket of another key.  It asks nothing of entries that still count, nor
  when no check comes, so the end of the clock does not refute it: a check that
  cleaned every bucket would satisfy it.
* **`CrashSafe`.** `chunks(batch_size)` may split a block; the chunk's cursor is
  that block, and a call that dies before the next chunk leaves the rest of the
  block unindexed for good.  "Crash-safe" (`indexer.rs:13`) is true of a block
  with one claim, and that is proved.
* **`ClaimableNotNegative`** with overlapping publisher runs.  The run with the
  older snapshot may begin its transaction later, so its smaller amounts are the
  latest published.  `GET /api/me` then logs "cache corruption detected"
  (`me.rs:81`) although the cache agrees with the contract.

### Fairness

`Answered` assumes weak fairness of each request's own next step: the runtime
polls every task that is ready, and PostgreSQL and the pool serve waiters once
the lock or connection **stays** free.  Weak fairness asks nothing for a
connection that is free now and then, and none is needed at these bounds because
new work is finite.  Clients are not assumed to send anything, nor clocks to
move.  `CoolsDown` assumes that time passes, that the interval fires, and that
the mutex, which nobody holds across an await, is granted; not that a mint comes
or that anybody asks for statistics.  `EventuallyPublished` assumes that the poll
comes again (`publisher.rs:8`), that each step of a call that stays possible is
taken, and that the chain mines what it has not lost.  `CallsEnd` assumes that a
fetch ends, with an answer or an error (the browser gives up on a dead
connection; the page sets no limit of its own), that the lock is granted in turn
(tokio's mutex is fair), and that the node answers or `confirmation_timeout`
expires; nothing makes `recover_gap`, other senders or strays move.
`BucketsReclaimed` is refuted under the fairness of the clock and of the mutex.

## 4. The proofs

All theorems hold for any sets and numbers that meet the named assumptions
(`RewardsAssumption`, `ClockAssumption`, `PoolAssumption`, `FaultsAssumption`,
`NoneAssumption`; `BandAssumption`, `DiffAssumption`, `TimeAssumption`;
`RequestsAssumption`, `LimitAssumption`, `DelayAssumption`; `TtlAssumption`;
`SwitchAssumption`, `BoundAssumption`; `AmountAssumption`, `SizeAssumption`,
`DepthAssumption` and the bounds of `Indexer`; `FaultAssumption` of `Submitter`,
`NoneAssumption` of `Accounts`, `RetriesAssumption`, `BlankAssumption`;
`LevelsAssumption`, `SamplesAssumption`), which the runs evaluate.  Each proof module defines its inductive invariant, proves a lemma per
action or group of actions, and ends with theorems about `Spec`.

**Mint** (`MintTypeOK`, `MintLedgerExact`, `MintUniqueNeverNeeded`,
`MintOneWinner`, `MintResolvedForCause`, `MintConflictIsFinal`,
`MintImplementsLedger`).  No property is
inductive alone.  What carries them: a request past `idle` has a body
(`BodyRead`); a request between its UPDATE and the end of its transaction holds
the lock of its challenge and nobody else does (`LockHeld`); what a request read
before its UPDATE and cannot change any more - owner, solution, deadline - is
still so (`ReadHolds`); while the lock is held the row is PENDING with the
deadline after `ts` and the credit is its reward (`ClaimHolds`); each earnings
row has the request that inserted it, done or past its commit, with its owner's
right answer (`Provenance`); a decisive answer agrees with the tables and stays
so (`AnswersFinal`).  The refinement then takes `Commit` and the commit with a
lost result to `Credit`, the UPDATE to EXPIRED to `Void`, `Issue` to `Issue`, and
everything else to a stutter.  `ConflictIsFinal` is proved from `~Faults`: who is
told 409 found the row resolved or its deadline not after the `ts` of the
transaction, which is not in the future (`ToldConflict`); resolved rows do not
change and the clock does not go back.  That the INSERT's 409 never happens is
`LedgerExact` again.

*Sums* (`MintBalancesAddUp`, `MintReportedBalance`).  `BalancesAddUp` follows from
`IInv`, with nothing new to carry but that finitely many rewards were inserted at
any time (`EarningsFinite`; users and challenges may be infinite): by `LedgerExact`
the challenges a player has claimed and the earnings rows of that player match one
to one with equal amounts.  That equal terms over matching sets have equal sums is
an induction over finite sets, which the prover cannot instantiate.  `Sums`
replaces it by a choice: strict inclusion of the subsets of a finite set is
well-founded, so if the statement fails for any subset it fails for a smallest
one, and taking one member out of that contradicts it.  `ReportedBalance`, from
`~Faults`, needs that the sum a request read counted its own row and that sums
only grow (`BalanceHolds`).

*Waiting* (`MintNobodyStuck`, `MintGoesOn`) is the part of `Answered` that is about
states and steps.  Who holds a row lock is past its UPDATE and needs neither lock
nor connection (`HoldersRun`), and who keeps a connection is either such a one, or
waits for a lock that such a one holds, or may step; so whoever must wait waits
for somebody else who need not, at every pool size from one up.  And nobody goes
round: `StepsLeft`, at most nine, falls with each step of a request and never
rises, faults and disconnects included.  `MayStep` is the guard of the request's
next step; that it is ENABLED of that step is checked by nothing here but
`Answered` itself.

**Retarget** (`RetargetTypeOK`, `RetargetNothingLiveEvicted`,
`RetargetGentleMoves`, `RetargetCools`).  `StampsPast`, no time that was read is in
the future, turns an eviction by a stale clock into one by the present clock.
`LoadDrift`, what the task loaded is at most `max_step` off for each mint recorded
since, gives `GentleMoves`: what it stores is one more step away.
`RetargetCools` is the step of `CoolsDown`: the window holds no time after the last
mint (`Early`), whatever order they were pushed in, so a round of the task after
that mint's window leaves the deque empty - eviction stops at the first time
that is not old, and here all are - and, unless a mint came between load and
store, lowers the difficulty by `max_step` or to its minimum.

**RateLimit** (`RateLimitTypeOK`, `RateLimitAdmissionBound`,
`RateLimitDeserved`).  `WaitsBounded`: a waiting request's time is at most
`Delay` old.  `LatelyKept`: everything of a key admitted in the last
`Window - Delay` is still in its bucket, since no check evicts with a clock
newer than the present.  A bucket has at most `max_requests` members, and so has
every such interval.

**Jwks** (`JwksTypeOK`, `JwksWithdrawnRefused`, `JwksPublishedKnown`).  Every set
of keys the API holds was `TrueAt` some time: a key wrong in it changed then or
later.  For an answer that is when its request was sent (`AnswersTrue`), for the
cache `Delay` before its stamp (`CacheTrue`), because a fetch is no longer than that
(`FetchesBounded`).  Keys change only now, so this stays true whoever overwrites
whom, and a verdict comes less than `Ttl` after a stamp.

**Settlement** (`SettlementTypeOK`, `SettlementOnlyEarned`,
`SettlementPublishedWasPosted`, `SettlementImplementsPayout`, and
`SettlementRootServed`, `SettlementRootGrows`, `SettlementClaimable`).  `OnlyEarned` needs
that the contract's root lists no more than was earned (`RootBacked`), and that
needs it of every snapshot (`SnapBacked`), since any may become the root; both are
kept because earnings only grow.  No order of publication matters, so the
theorem covers overlapping runs and calls.  `PublishedWasPosted` needs that a call
waits for a transaction of its own distribution and is at `mark` only if that was
mined (`CallsPosted`), which mined transactions stay.  The other three are proved
from `Alone` (no overlapping runs, one call at a time), and `ClaimableNotNegative`
from `~Leaks` too.  Their invariant, `Order`, is that one order goes through the
whole chain: runs take their snapshots and their `created_at` in the same order,
so a later distribution lists all that an earlier one lists (`RunsTurn`,
`StoredGrow`); published ones come before pending ones and a call holds the oldest
pending one (`PublishedFirst`); transactions are sent in that order, and mined in
it because they are mined by nonce (`PostedInOrder`); and the contract has the root
of the last one mined (`LastRoot`).  A retry sends the same distribution again,
which leaves the order alone, so timeouts, drops, reverts and lost answers are
all covered.  `settlement_overlap` shows that
overlapping runs must be excluded, and section 3 says what two calls do.

Two more hold for any runs and calls.  `SettlementStoredKept`: a distribution that
was stored keeps its entries and its `created_at`, and goes from pending to
published only; it needs that a run is done once its rows are there and that a
call holds a stored distribution (`StoredFirst`), which is why an UPDATE without a
status condition does no harm (`publisher.rs:49-53`).  `SettlementWaitsEnd`: when
there are pending distributions one of them is the oldest, and a call that waits for
a receipt waits for a transaction that is decided, or the chain has one to mine
next that is not after it.  Both come from the least element of a nonempty set of
numbers (`LeastNumber` of `Sums`), and are what `EventuallyPublished` takes for
granted besides fairness.

**Indexer** (`IndexerTypeOK`, `IndexerReorgSafe`, `IndexerCursorMeansApplied`,
`IndexerCatchesUp`, `IndexerNoRegression`).  A block is `Final` once the tip has been `SafeDepth` above it;
no later step of the chain moves its events (`ChainMoves`, proved of `MineBlock`
and of `Reorg`).  The safe limit of a call is final, the fetched events up to it
are on the chain (`TodoFinal`), and so is every amount that was applied
(`CacheFinal`): that is `ReorgSafe`, for any chunks and blocks.  What the cursor
means needs more (`JInv`): the fetched events are all there are between the first
block and the limit (`Complete`), in strictly increasing blocks (`TodoOrdered`); those
before the position are applied (`Applied`), those from it on lie beyond
`last_block` (`LastBefore`).  The last two hold only if no block has two events, which
is the hypothesis `PerBlock <= 1` of the two theorems, and the run
`indexer_crash` shows that it cannot be dropped.  An UPDATE never lowers what the
cursor has passed, since the event it applies comes later in the log than those
(`Growing`), also when it is a replay.  `NoRegression` needs no bound on the events
of a block: until a call fails, what the cache has for an account is of a block
before the call's `from`, or of an event before `next` in its list (`Source`), and
amounts grow along both.

**Submitter** (`SubmitterTypeOK`, `SubmitterNonceDrift`).  The bound alone is not
inductive: two values that were read earlier are stored later.  What the call with
the lock is about to store (`ToStore`: `local`, or one more once the node took its
transaction) is as close to the count as a nonce is when no answer is on its way;
the count that `recover_gap` read may lag by what raced it (`Near`).
`SubmitterGoesOn`: each step of a call takes it on, and it has seven at most; the
resync happens once.

**Accounts** (`AccountsKeepPromise`).  An answer stays true because rows only gain:
no address changes and no row goes (`Gains`), so what made an UPDATE fail is
still there (`CallAnswered`, `MissedForCause`).

**ChallengeGen** (`GeneratorProblemSound`, `GeneratorExact`).  Level by level, from
the bound of a product of two bounded numbers; the products of level 12 are
below 5e15, hence exact in the doubles of the browser too.

**GamePage** (`GamePageVerdictsAgree`, `GamePageShows`).  An answer under way is
what the server did (`AnswerTrue`); a mint under way is of the challenge shown, with
its form open, or of one whose countdown ended (`MintFollowed`), because only
those let the page go on; a verdict that comes while the next challenge loads is
of such a one (`LoadingVerdict`).

`GamePageGoesOn`: of each request a bounded number of steps is left (`LeftBounded`),
and each try, loss and answer takes one, so the retries of `useApi` end whatever
the network does.

**The four together** (`PartsTypesOK`, `PartsPromises`).  `MCParts` runs the four
modules side by side.  A step of the composition is a step of one part and leaves
the variables of the others alone, so it is a step or a stutter of each
(`PartsStep`, `PartsMove`), and each part's invariant holds in the composition
(`PartsInvariant`).

Only model-checked: `Answered`, `CoolsDown`, `CallsEnd` and `EventuallyPublished`,
liveness under fairness, which the prover cannot express since it has no ENABLED.
What they need of states and steps is proved: that nobody waits in a circle
(`MintNobodyStuck`, `SettlementWaitsEnd`) and that what moves comes nearer to its end
(`MintGoesOn`, `RetargetCools`, `SubmitterGoesOn`, `GamePageGoesOn`).  That the fair
steps are then taken stays with TLC.

## 5. Not modelled, and why

Signatures, hashing, JSON, HTTP headers and wording; the ORM and driver; styling
and routing of the page; the deployment script.  PostgreSQL, the pool and the
clocks appear only as the code uses them, and are marked external in the map
where they stand alone.  A crash of the database that loses committed data, and
a clock that goes backwards, are outside the assumptions.  `claim-relay` answers
a placeholder and changes nothing.  `audit` reads three numbers for display.  The
configuration is read once, before anything runs; its values are constants.

Some things a reader of the code may want to know, which no run is about:

* A token without an e-mail has the empty one (`auth.rs:208-211`), and the second
  account with it violates UNIQUE(email): each of its sessions is a 500.
  `AccountsPromise` allows it, since another account holds that e-mail.
* `GET /api/challenge` that is told 429 on the very first try leaves a blank page:
  the message is inside the challenge's block (`Game.vue:17`).  A first fetch that
  fails has no button to try again.
* A fetch of the next challenge that fails leaves the form of the one before
  open, its countdown stopped; an answer to it is judged by the server.
* `SessionResponse.claim_address` is always null (`session.rs:59`).
* Nothing in `src/` calls `recover_gap`, `publish_pending_distribution` or
  `index_claimed_events`, so how often and with how much overlap they run is an
  assumption of each module.

## 6. Plan

Done in the order of what matters most to players: `Mint` over `Ledger`,
`Retarget`, `RateLimit`, `Settlement` over `Payout`, `Indexer`, `Jwks`,
`Accounts`, `Submitter`, `GamePage`, `ChallengeGen`.  Every invariant and
action property the passing runs check, and every refinement, is proved.  What
is left:

1. A step measure for `EventuallyPublished`: each round of a call either uses up a
   fault or publishes the oldest distribution.
2. The three rows of the components table that are `partly`: the tree of a
   distribution, ownership and transfers of the contract, and the audit.

Runs stay few: one passing run per module, and a violating one only where the
repository's texts and its code disagree; small modules that share nothing may be
instantiated side by side in one.
