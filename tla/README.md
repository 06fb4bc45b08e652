# TLA+ models of the Press indexer

This directory holds TLA+ models of the repository's on-chain event indexer
(`src/rust/indexer/src/main.rs`) and the other services listed below. It
contains the models, the TLC configurations that check them on small instances,
and TLAPS proofs of their main invariants for every instance.

## 1. Inventory

### Components and how they interact

`main` (lines 553-565) opens a Postgres pool, runs `ensure_schema`, and
spawns four independent tokio tasks that share nothing but the database:

| Component | Code | State | Operations |
|---|---|---|---|
| Governance pipeline | `governance_ingest_loop` 741-806, handlers 808-900, derived state 903-947 | cursor file `/state/indexer_governance_lastblock.txt`, in-memory `from_block`; tables `governance_proposals`, `approved_updates`, `release_batches`, `release_batch_items` | start (address file, cursor file or cold start at head-2000), head, `get_logs`, one handler per log, cursor advance + `fs::write` |
| Upgrade-queue pipeline | `upgrade_queue_ingest_loop` 965-1021, `handle_batch_queued` 1023-1045 | its own cursor file; `release_batches`, `release_batch_items` | the same loop; BatchQueued → ensure batch + add item |
| Exchange pipeline | `exchange_registry_ingest_loop` 1053-1095, handlers 1097-1134 | its own cursor file; `exchange_listings` | the same loop; ListingRequested (INSERT OR REPLACE), TestTransactionPassed and ListingFinalized (UPDATE) |
| Poll loop | `poll_loop` 256-379 | `meta.last_block` row (i64) | raw JSON-RPC `eth_getLogs`, manual ABI decode (`u256_at`, `decode_string`), plain INSERTs, cursor write per log |
| HTTP API | routes in `main` 567-592 | none of its own | one SQL statement per route |

The other services are separate binaries: `auth_api` (nonce map),
`oracle_service` (rate limiter and daily budget file), `press_articles`
(votes), `press_governance`, `press_common` (module graph), the deployers,
and several stateless proxies and read-only services.

### Hard behaviours the code is exposed to

- **Crashes and restarts.** The cursor file is the pipeline's only memory.
  Everything handled after the last successful write is handled again.
- **Torn writes.** `fs::write` truncates and then writes. An empty file reads
  as "no cursor", which re-seeds the cursor at head-2000.
- **Dropped errors.** RPC errors retry the same range. Handler errors are
  dropped (`let _ =`), yet the cursor still advances.
- **Non-idempotent writes.** `approved_updates` and `release_batches` use plain
  INSERTs, and the batch id comes from the wall clock.
- **A missing address file.** It ends the task for the life of the process.
- **A SQL dialect mismatch.** The pool is Postgres, but the upserts use
  SQLite syntax (`INSERT OR REPLACE` / `INSERT OR IGNORE`). In addition,
  `release_batches` is created twice (188 and 197): the first definition,
  which lacks `title`, is the one kept.
- **In other services:** an unlocked read-modify-write of the oracle budget
  file; nonce overwrite and removal in `auth_api`; a vote inserted before the
  voting window is checked, with a clock read before the lock, in `press_articles`; and an unlocked
  read-modify-write of `bots_queue.json` by four tasks in `bots_service`.

PROJECT.json lists every component (modelled or not, and why) and every
hazard at the line where it bites.

## 2. Modules

| Module | Models |
|---|---|
| `IngestLoop` | The polling loop shared by the three ethers-based pipelines. Variables: `head`, `addr` (address file exists), `cursorFile` (a number, `Absent` or `Empty`), `pc`, `fromBlock`, `toBlock`, `pending` (logs of the current `get_logs` not yet handled), the ghost `seed` (block of the last genuine cold start), `crashes`. Actions: `StartNoAddress`, `StartFromFile`, `ColdStart`, `GetHead`, `Idle` (head error or `to_block <= from_block`), `GetLogsOk`, `GetLogsFail`, `HandleNext(i)` (logs in `get_logs` order), `Advance` (`from_block = to+1` and the write, whose outcomes are `WriteOutcomes`), and the environment actions `NewBlock`, `DeployAddress` and `Crash` (main respawns the task with `from_block = 0`). |
| `GovernanceIngest` | `IngestLoop` plus the governance tables. `HandleProposalCreated` (the upsert, then the release-batch block), `HandleProposalFinalized` (SELECT with default, then a plain INSERT into `approved_updates`), `HandleFailed` (a decode error or a failed first statement writes nothing), `NextMonth` (the clock `month_batch_id` reads). Named constants turn on failure modes: `TornWrites`, `DbFailures`, `PgStore` (statements in SQLite syntax rejected) and `BatchesTitled` (whether `release_batches` has the columns the INSERT names). |
| `ExchangeIngest` | `IngestLoop` plus `exchange_listings`, keyed by outlet: `HandleListingRequested` (INSERT OR REPLACE of the whole row), `HandleTestPassed` and `HandleFinalized` (UPDATE ... WHERE outlet, no row: nothing). |
| `PollLoop` | `poll_loop`: the i64 `meta.last_block` cursor, the cold start `latest - 3000` formatted with `{:x}` (a negative number goes out as `WordModulus + from`), the block `last` rescanned, plain INSERTs counted up to 2, and the cursor written per log. |
| `OracleBudget` | `allow_budget` of `oracle_service` on concurrent threads: `Load` (read, reset for a new day, the two limit tests, add), `Truncate` and `Write` (the two halves of `fs::write`), `NextDay`, `Crash`. The ghost `granted` counts the calls allowed per day. |
| `AuthNonces` | `auth_api`'s nonce map: `HonestLogin`/`OtherNonce` (GET /nonce overwrites), `HonestVerify`/`AttackerVerify` (POST /verify removes the nonce, then compares the recovered signer). Signatures are records of who signed which message. |
| `ArticleVoting` | `press_articles` `submit` and `vote`. `vote` reads the clock before it waits for the connection lock (`\E t \in 0..now`), refuses a second vote of the wallet, inserts, then auto-closes. The ghost `late` records a vote counted although its handler's reading `t` (the `created_at` it stores) was at or after `ends_at`. |
| `BotsQueue` | `bots_queue.json` of `bots_service` and its four unlocked users, each split at its awaits into a read and a write: `AnnounceRead`/`AnnounceWrite` (admin_announce), `DeleteRead`/`DeleteWrite` (delete_queue_item), `FanRead`/`FanSend`/`FanWrite` (the Discord fanout), `PollFetch`/`PollRead`/`PollWrite` (oracle_alert_poller with its cursor file), and `Crash` (in-memory copies lost, the poller's cursor reloaded). |
| `IndexedCursor` | The abstract promise of a cursor-resumable indexer (spec 3, 8), with no RPC, crash or handler: `Index` (the store only gains logs), `Commit` (the persisted cursor moves forward, and only past blocks whose indexable logs are all in the store) and `Reseed` (the starting block is chosen while no cursor is persisted). `GovernanceIngest` maps onto it as `Cursor` (cursor file to `cursor`, the logs `Applied` in the tables to `indexed`), and `CursorSpec` is the abstract spec under that mapping. |
| `MC*` | Model values and small chains for TLC. |
| `GovernanceIngestProofs`, `GovernanceRefinement`, `PollLoopProofs`, `OracleBudgetProofs`, `AuthNoncesProofs` | TLAPS proofs (section 4). |

Data is abstracted: ids, keys and values are model values; the row of a log
is the part that properties compare; strings, timestamps, texts, channels
and logging are left out.

## 3. Runs

| Run | Expect | Shows |
|---|---|---|
| `gov_pipeline` | pass | `TypeOK`, `CursorSound`, `EventuallyIndexed` and the refinement `CursorSpec` (the pipeline implements `IndexedCursor`) under crashes, RPC failures, failed whole writes and a late address file (~12.5k states). |
| `gov_torn_cursor` | violation | A crash mid-write empties the cursor file; the restart's cold start at head-Lookback skips a block. |
| `gov_replay` | violation | `ReplayIdempotent`: a restart re-handles a ProposalFinalized and appends a second `approved_updates` row (and, across a month, a second batch item). |
| `poll_loop` | pass | `PollCursorSound`, the action property `PollCursorMonotonic` (no step moves `meta.last_block` back) and `PollEventuallyIndexed` on a chain older than the lookback. |
| `poll_young_chain` | violation | On a chain younger than the lookback the negative `from` is sent as a huge block number and nothing is ever indexed. |
| `ex_progress` | pass | `ListingConverges`: each outlet's row ends complete despite restarts. |
| `ex_clobber` | violation | `ListingNoClobber`: a replayed ListingRequested resets the test flag and the listing. |
| `oracle_budget` | pass | `TypeOK` and `NoOvercount`: the file never counts more calls than were allowed on its date. |
| `oracle_budget_race` | violation | `BudgetRespected`: two concurrent requests, or one that reads a truncated file, allow more than the daily cap. |
| `auth_nonces` | pass | `NoReplay` with an attacker that reposts every honest signature, signs with its own key and overwrites nonces. |
| `article_late_vote` | violation | `NoVoteAfterClose`: a vote whose handler read the clock at `ends_at` is inserted and counted, and then closes the article. `vote` never refuses a late vote. |
| `bots_lost_announcement` | violation | `NoLostAnnouncement`: two announcements read the queue, then both write; the first is lost although it was answered `queued: true`. |

**Bounds.** The ingest runs use MaxHead = 4, HeadAtBoot = {0, 2},
Lookback = 1, MaxCrashes = 2, logs in blocks 0..2. Skipping a range needs
head ≥ to+3 (one batch, then a cold start two blocks later), and two crashes
allow one before and one after a cursor write. `poll_loop` uses MaxHead = 3,
Lookback 1 (old chain) or 4 (young chain) and a 16-valued word, which keeps
the wrapped block above every head. The oracle runs use two threads, a cap
of two calls, two days and one restart: enough for a read-read-write-write
race and a truncated read. The auth run has two honest wallets, the attacker
and four nonces, enough for a repost and an overwrite. The bots run has two
announcements, one oracle flag and one restart.

**Fairness.** `WF` on each loop's own steps: every task loops forever and
its only waits are sleeps. `SF` on a successful `get_logs` (and, in
`PollFairness`, a `Begin` that gets logs): a node that answers infinitely
often is eventually asked when it answers. `PollFairness` also assumes the
deployer eventually writes `deploy.json`. New blocks, crashes and the
deployer of the address file are not fair. The liveness properties talk
about blocks below the current head, so a finite chain suffices.

**Mutants.** Every property of a passing run has a plausible bug that TLC
must catch, listed in PROJECT.json: a plain subtraction for
`saturating_sub`, a `get_logs` filter that excludes `to_block`, an error path
that skips the range, a poll handler that records the block after the log's,
a poll loop that resumes after block `last` instead of rescanning it, logs handled in reverse (in the pipeline and in `poll_loop`), a cursor written from a head read after the fetch, an off-by-one
call limit, a day reset that keeps the counters, and a verify that keeps the
nonce.

## 4. Proofs (TLAPS)

TLC checks each property on one small instance; these theorems prove it for
every value of the constants that satisfies the named `ASSUME`s of the
modules. Every inductive invariant below was first run through TLC as an
invariant of the model, and then proved.

| Module | Theorem | States |
|---|---|---|
| `GovernanceIngestProofs` | `TypeCorrect` | `Spec => []TypeOK` |
| | `CursorSafety` | `~TornWrites, ~DbFailures, ~PgStore ⊢ Spec => []CursorSound` |
| `GovernanceRefinement` | `GovernanceRefinesCursor` | same hypotheses ⊢ `Spec => CursorSpec` |
| `PollLoopProofs` | `PollTypeCorrect` | `PollSpec => []PollTypeOK` |
| | `PollCursorSafety` | `~DbFailures => (PollSpec => []PollCursorSound)` |
| | `PollCursorMonotonicity` | `~DbFailures => (PollSpec => PollCursorMonotonic)` |
| `OracleBudgetProofs` | `BudgetTypeCorrect`, `BudgetNoOvercount` | `Spec => []TypeOK`, `Spec => []NoOvercount` |
| `AuthNoncesProofs` | `AuthTypeCorrect`, `ReplaySafety` | `Spec => []TypeOK`, `[]NoReplay` |

**Governance pipeline.** `CursorSound` is not inductive. `IInv` adds:
`TypeOK`; the cursor file is never `Empty` (whole writes); and `BatchSound`
(while a batch is being handled, every indexable log of
`[fromBlock, toBlock]` already taken out of `pending` is projected). Two
lemmas carry the handler steps. `AppliedStable` says a projected log stays
projected: the tables only grow, and `UniqueCreation` (a proposal is created
once on chain) means a proposals row is only rewritten with the same value.
`HandleProjects` says that with a store that neither fails nor rejects
statements, handling an indexable log projects it. `Advance` then moves the
cursor to `to+1`: an indexable log below it is either below the old cursor
(`CursorSound`) or in the batch (`BatchSound`).

**Refinement.** `GovernanceRefinement` proves that the pipeline implements
`IndexedCursor`, step by step:
- the initial state maps to the abstract initial state (no proposal row
  matches an event, because `NoRow` is not a row);
- a handled log is an `Index` step (`AppliedStable`);
- a cold start with no cursor file is a `Reseed`;
- a cursor write that lands is a `Commit`;
- every other step is a stutter.

`Commit` is covered by `CursorSound` of the state after the write. Its "not
backwards" half needs one more invariant, `Ahead`: a running task's
`fromBlock` is never behind the cursor file, and a fetched batch never ends
before it starts.

**poll_loop.** `PollIInv` adds two facts to `PollCursorSound`:
- `HandledSound`: handled logs at or above the scan's seed, and not above a
  pending log, have their rows;
- `PendingInterval`: the pending logs are what is left of a block interval.

Both rest on `LogOrderAssumption`: `eth_getLogs` returns logs in block order.
The monotonicity theorem uses `CursorBelowPending`: inside a batch the
cursor is the value read at the top of the loop, or a block not above any
pending log.

Both theorems assume `~DbFailures`, and that hypothesis is needed.
`read_last_block` maps a failed read to 0. The resulting cold-start rescan
writes lower blocks over the cursor, and TLC finds that step when
`DbFailures` is on.

**Oracle budget.** `NoOvercount` only speaks of the file. A thread between
its load and its write holds the count it will write, so the invariant is
strengthened:
- `InFlight` bounds that count by the calls granted on its date, plus one;
- `Priced` keeps `tokens = calls * TokensPerCall` in every copy;
- the lemma `WithinCap` turns the two limit tests into `calls <= Cap`.

`MarkerAssumption` states that a truncated or missing file is not a budget.

**Auth nonces.** `NoReplay` needs two further facts:
- `Consumed`: a signature that got a JWT signed an issued nonce that is no
  longer pending;
- `Fresh`: no pending nonce exceeds the count issued, so `get_nonce` never
  hands out a consumed UUID again.

**Only model-checked.** Two kinds of property stay with TLC only:
- Liveness (`EventuallyIndexed`, `PollEventuallyIndexed`,
  `ListingConverges`). These need fairness and ENABLED, which TLAPS's
  backends cannot discharge here.
- The properties of the violation runs (`BudgetRespected`,
  `ListingNoClobber`, `ReplayIdempotent`, `NoVoteAfterClose`,
  `NoLostAnnouncement`, the young-chain poll). These are false of the code,
  and TLC's counterexample is the result.

Every safety invariant and action property of a passing run has a theorem.

## 5. Findings documented without a run of their own

The run budget keeps one violation run per question. These were found with
the same models and are listed among the hazards in PROJECT.json:
- with `PgStore`, no ProposalCreated is ever projected (SQLite upsert syntax
  on a Postgres pool);
- with the schema `ensure_schema` leaves (`BatchesTitled = FALSE`), items are
  queued in a batch that has no row;
- an address file written after boot is never read (the task returned);
- a failed statement is dropped and the cursor moves past its log, in the
  pipelines and in `poll_loop`;
- `poll_loop` re-inserts the rows of block `last` on every pass;
- a cold start of the exchange pipeline after a torn write re-seeds the
  cursor;
- GET /nonce for an address overwrites a pending nonce, failing the honest
  login in flight;
- an article nobody votes on after its window is never closed (auto-close
  runs only inside `vote`);
- the bots fanout re-sends an item after a restart between send and write,
  and the oracle poller re-enqueues a batch after a restart before its
  cursor write.

## 6. Plan for the rest of the project

1. **`UpgradeQueueIngest`**: the upgrade-queue pipeline, composed with
   governance over the shared `release_batches` tables.
2. `ExchangeIngest` against `IndexedCursor`: its cursor half holds, but
   its store half does not (`ex_clobber`: a replay un-projects a row).
3. **`AbiDecode`**: `u256_at` and `decode_string`, checked against a
   reference decoding.
4. **`ModuleGraph`**: the `normalize` closure of `press_common`, checked
   against a reference transitive closure.
5. The oracle rate limiter (`allow_key`) and the Telegram subscriptions of
   the bots.

## 7. Not modelled

- The HTTP routes of the indexer: one SQL statement each, no state of
  their own.
- `press_indexer`: it overwrites two numbers.
- The deployers: shell-outs to forge and cast.
- The proxies and text-scoring services: stateless.
- The bots' Telegram subscriptions, bindings, config, council and mission
  handlers, and `press_bots`.
- `allow_key`, the per-key rate limiter of `oracle_service`.
- Inside the governance pipeline: the grant and vote-fee branches. Their
  topics are not defined and not in the filter, so the branches are dead
  code.
