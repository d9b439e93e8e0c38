# FairCoin bridge: TLA+ specifications and proofs

The bridge (`src/services/bridge`) takes FAIR on FairCoin and mints WFAIR on
Base, takes burned WFAIR and pays FAIR, sells FAIR for other tokens, and spends
its fees and the pool's income on buybacks and masternode rewards. It is one Bun
process, restarted by systemd, over MongoDB (documents), Redis (BullMQ queues)
and two chains. This directory holds TLA+ modules of that code, the TLC
configurations that check them, and TLAPS proofs.

Paths below are relative to `src/services/bridge/src/` unless they start with
`src/` or are in the repository's root.

## 1. Inventory

| part | code | state it keeps | operations |
|---|---|---|---|
| deposit API, HD derivation | `api/deposit.ts`, `hd/derive.ts` | `hdstate.nextIndex`, AWAITING documents, `addressCache` in memory | `POST /intent`: allocate an index, derive, cache, create the document |
| fair-watcher | `workers/fair-watcher.ts`, `models/deposit.ts` | `deposits`, `EventCursor "faircoin"` | load addresses; per tick reconcile orphans, read tip and cursor, scan blocks, admit or refuse each output (minimum, daily cap, TVL cap), queue the mint, save the cursor |
| mint worker, mint signer | `workers/orchestrator.ts`, `signer/base.ts` | `deposits.status`, `baseMintTxHash`, `safeTxHash` | claim, broadcast, record, finalise (`direct_eoa`); hash, record, propose, check (`safe_proposal`) |
| base-watcher | `workers/base-watcher.ts`, `models/withdrawal.ts` | `withdrawals`, `EventCursor "base"` | reconcile orphans, read tip and cursor, fetch `BridgeBurn` logs by window, admit or refuse each burn, queue the release, save the cursor |
| release worker, release signer | `signer/fair.ts` | `withdrawals.status`, `fairTxid` | validate, claim, `sendToAddress`, record the txid, BROADCAST, reconcile, audit, link to buy order |
| queues | `queues.ts` (BullMQ) | jobs in Redis | add under a job id, attempts 5 with backoff, stalled-job check, trimming of completed jobs |
| buy orders | `api/buy.ts`, `workers/buy-watcher.ts`, `signer/buy.ts`, `models/buy-order.ts` | `buyorders` | quote, expire, detect payment, queue; gas budget, allowance, swap, reconcile, burn, deliver |
| buyback worker | `workers/buyback-worker.ts`, `api/admin.ts` | `buybackcycles` | claim or resume a cycle, approve, swap, bridge-burn by shares, mark failed |
| masternode rewards | `workers/masternode-reward-worker.ts`, `api/admin.ts` | `masternoderewardcycles` | resume or skip, read pool, compute shares, pay masternodes one by one |
| WFAIR | `src/contracts/src/WFAIR.sol`, `src/contracts/script/Deploy.s.sol` | balances, allowances, roles, pause | `mint`, `mintForDeposit`, `bridgeBurn`, `burn`, transfers, approvals, `pause`, `unpause` |
| pool seeding | `src/services/bridge/scripts/seed-pool.ts` | none: each run reads what earlier runs did from Base | mint the seed, approve the position manager, create the pool, mint the position, verify the supply |
| reserves snapshot | `workers/reserves-snapshot.ts`, `models/reserves-snapshot.ts` | `reserves` | read the node's balance and the supply in parallel, store one document |
| process | `index.ts`, `lib/mongo.ts`, `lib/redis.ts`, `workers/orchestrator.ts`, `api/server.ts` | the connections, `AbortController`, the loops' promises | boot, serve, shut down await by await |
| health, read-only API, RPC clients, libraries | `api/*`, `rpc/*`, `lib/*` | none | request plumbing |

How the parts meet: the API and the fair-watcher share the address cache in
memory and the AWAITING document in MongoDB; a watcher hands a deposit or
withdrawal to its signer twice, as a document and as a job, and the two are not
written atomically; the signer claims the document by `findOneAndUpdate`, acts on
the outside world, then records what it did. Every outside call can fail, be
answered late or not at all, and the process can die between any two awaits.

What is hard here:

* an irrevocable act (a FairCoin payment, a mint) and the write that remembers it
  are two steps; retries, stalled jobs and restarts come in between;
* a document without its job and a job without its document; the reconcilers that
  repair the first kind run beside the worker that is using the same documents;
* cursors that must neither skip nor repeat a block through failures and SIGTERM;
* checks of caps that read sums other actors change, in mixed units (sats before
  the fee, wei after it) and by a clock that is not the one the cap is about;
* state in memory (the address cache, `MINT_AUTH_MODE`) that a restart replaces;
* both directions, the rewards and the operator move one pile of coins, and the
  snapshot of it is two reads of two systems;
* a stop has to wait for ticks, jobs and requests before it takes their
  connections away, and the loops sleep for up to a week.

`PROJECT.json` lists each hazard at its line with the property that watches it.

What makes each part correct: a burn is paid, and a deposit minted, only if it is
confirmed and admitted, and never again once the payment is on file; every burn
and every paid output the cursor passed has a document; every document gets
settled or ends where an operator sees it; caps bound what a day and the pool admit,
up to what section 11 names; a buy order delivers what was paid for once; a buyback
or reward cycle spends its budget once; the coins cover the WFAIR and every claim; a
seeding that reports success minted once; whatever is running has its connections,
and a process that was stopped or killed serves again.

## 2. Plan

| module | models | status |
|---|---|---|
| `BridgeAmounts` | fee and conversion | done |
| `JobQueue` | a BullMQ job | done |
| `PayoutLedger` | abstract: what a payout pipeline promises | done |
| `Withdrawals`, `BaseWatcher`, `ReleaseSigner` | withdrawal direction, by part | done |
| `BurnRelease` | their composition in a process | done |
| `BridgeLemmas` | fees, the moves of a job, sums over a finite set | done |
| `BurnReleaseProofs` | its inductive invariant, its safety properties, and that it implements `PayoutLedger` | done: eight theorems |
| `Deposits`, `FairWatcher`, `MintSigner` | deposit direction, by part | done |
| `DepositMint` | their composition in a process | done |
| `MasternodeRewards` | cycle resume, payments masternode by masternode, two spenders | done |
| `Buyback` | cycle claim and resume, swap and shares, two spenders | done |
| `BuyOrder` | quote, watcher, worker, swap, burn and the link of the release; reuses `JobQueue` | done |
| `Wfair` | the token, one operator per function | done |
| `SeedPool` | runs of the seeding script over `Wfair` and a chain others act on | done |
| `Reserves` | two `PayoutLedger`s, rewards, refunds and sweeps over one balance, and its snapshots | done |
| `Lifecycle` | a process from boot to exit | done |
| `DepositMintProofs` | the same for the deposit direction, with both caps | done: nine theorems |
| `BuyOrderProofs` | its inductive invariant and its safety properties, for any number of orders | done: five theorems |
| `BuybackProofs` | the same for the buybacks, for any number of cycles and of overlapping ticks | done: six theorems |
| `ReservesProofs` | the books of both directions, `Backed`, the reasons of an alarm | done: four theorems |
| `MasternodeRewardsProofs` | the same for the rewards, for any number of masternodes, of cycles and of overlapping ticks | done: five theorems |
| `OperationsProofs` | of `Lifecycle`: connections outlive work, and no tick after the abort; of `SeedPool`: one mint and one position, and the price range | done: seven theorems |

A module whose `TypeOK` is in no run states it for its proofs: an invariant of a run
is worth a run's time only if a mutant of the code can break it.

Every invariant and action property of the passing runs is proved; liveness is left to
TLC (section 12). `SeedPool` names its specification `SeedSpec`, its types `SeedTypeOK`
and its faults `mishaps`, so that one module of proofs can extend it and `Lifecycle`.

## 3. The withdrawal direction

`Withdrawals` declares what the watcher and the signer share: `row` (the
`withdrawals` collection, indexed by the burn, since the unique index on
`(baseBurnTxHash, logIndex)` allows one document per burn), `job` (the release
queue, whose job ids are per burn), `mode` (the process) and `errors`.

`BaseWatcher` has the variables of `startBaseWatcher`'s loop in one record `w`
(`pc`, the logs still to handle, the window, the tip read) and one action for
each awaited call whose moment matters: `ReadOrphans`, `ReenqueueOrphan`,
`ReadTip`, `FetchWindow`, `InspectLog` (`processLog` up to its verdict),
`CreateRow`, `EnqueueRelease`, `SaveCursor`, `TickError`. The abort signal is
looked at where the code looks at it, at the head of the loops; after an abort
inside a window `SaveCursor` still runs, as in the code.

`ReleaseSigner` has the worker in `s`. `sends[b]` counts the payments the
FairCoin node made for burn `b`; a txid is the ordinal of its payment.
`LoadRow`, `ValidateDestination`, `ClaimRelease`, `SendToAddress`, `RecordTxid`,
`MarkBroadcast`, `ReconcileRelease`, `WriteAudit`, `LinkRelease` and `EndJob`
follow `signRelease` and `signNodeWallet`; `StepFails`, `SendRefused` and
`SendUnanswered` are a call that rejects without effect, the node's refusal, and
a payment whose answer is lost. `lost[b]` (history) counts the payments that only
the dead attempt knew of.

`BurnRelease` adds the process (`Crash`, `Stop`, `Exit`, `Start`), the chain and
time, and states the properties.

## 4. The deposit direction

`Deposits` declares `intent` (one per HD index: allocated, open as an AWAITING
document, used by an output, or dropped), `row` (the document of each output),
`job`, the cache `known`, `mode`, `upsets`, the Base transactions `tx[d]` and the
WFAIR `supply`, with the API's three actions. A document has its age since
`createdAt`; an output that takes an open intent inherits the intent's age,
because `findOneAndUpdate` turns the AWAITING document into the deposit's. The
unique index on `(fairTxid, fairVout)` is sparse, but the schema stores `null` in
both fields, and a sparse index skips only absent fields: while one AWAITING
document is open the next `create` is refused (`SlotTaken`).

`FairWatcher` follows `startFairWatcher` and `processBlock`. `InspectVout` is the
part of `processBlock` up to the TVL check; the two halves of its `Promise.all`
are two actions, `ReadSupply` and `ReadInFlight`, in either order; then
`ConfirmDeposit` or `RefuseDeposit`, then `EnqueueMint`.

`MintSigner` follows `signMint` in both modes. In `direct_eoa` mode a transaction
is sent (`Broadcast`), recorded (`RecordHash`) and waited for (`FinalizeMint`,
`FinalizeReverted`); in `safe_proposal` mode the hash is recorded first
(`RecordSafeHash`), then proposed. `DepositMint` composes them with the process,
blocks that pay any set of outputs, the mining of transactions (they revert if
the contract is paused by then), pauses, burns and time. `SwitchMode` lets a restart
come up under the other `MINT_AUTH_MODE`: `signMint` then looks at the identifier of
its own mode only, and a deposit the other mode has minted is minted again. That is
the term `switches` in `MintsAccountedFor`.

## 5. The two spenders of fees and pool income

Both workers have a loop and an admin endpoint that call the same `tick`, with
nothing between them but a document per cycle. Each module has the two callers as
`Runners`, a record per runner with the place in the tick (`at`) and what the tick
holds in memory, and the collection of cycles. A tick may begin while the other
runner is in one: `overlaps` counts those ticks, at most `MaxOverlaps`. Nothing in
the code keeps them apart, so the properties say what an overlap may add (a payout
or a transaction made twice, a second open cycle) and that it adds no more; what
holds only without one says `Alone`.

`MasternodeRewards` follows `workers/masternode-reward-worker.ts`: `StartTick`
takes a cycle to resume or goes to `CadenceGate` (an interval since the last one)
and `ReadPool`; `CreateCycle` writes the cycle with its shares; `FetchCycle` reads
it again and the payments go one by one: `ReconcilePayout` for one whose txid is
on file, else `SendPayout`, `PersistPayoutTxid`, `MarkPayoutBroadcast`, or
`MarkPayoutFailed`; `FinaliseCycle` decides COMPLETE or FAILED. `SendFails`,
`WriteFails`, `TickError`, `Crash` are the ways out. `received` is what
`getreceivedbyaddress` returns, which never decreases; `sent` holds what each
masternode was really paid.

`Buyback` follows `workers/buyback-worker.ts`. A cycle has four transactions, step
0 the swap and steps 1 to 3 the `bridgeBurn` of each share; each step is sent,
its hash recorded, its receipt waited for, and taken up again by the next tick
from what is on file. `usdc`, `wfair` and `allowance` are the fee wallet's
balances on Base, `tx[c][k]` every transaction sent for a step.

## 6. Buy orders

`BuyOrder` has one document per order (`order`), its job (`job`, from `JobQueue`),
what its payment address holds (`account`) and the transactions sent from that
address in nonce order (`tx`). `ExpireStaleOrders`, `ListAwaiting`,
`InspectBalance`, `ClaimDetection` and `EnqueueBuy` are the tick of
`workers/buy-watcher.ts`; `LoadOrder`, `ReadBalance`, `EnsureGas`,
`EnsureAllowance`, `SendTx`, `RecordHash`, `AwaitSwap`, `EnterBurn`, `AwaitBurn` are
`processBuy` with `executeSwap` and `executeBurn` (`SendTx`, `RecordHash` serve
both); `SendUnanswered`, `RecordFails`, `StepFails`, `AwaitReverted` its ways out.
A read and the claim that follows it are one step, because concurrency is 1 and
only this worker writes an order's hashes. The customer pays any of `Amounts`, at
any time, also after the quote lapsed. A mined burn passes through `ReleasePaid`
or `ReleaseRefused` (what `BurnRelease` models in full): the base-watcher refuses a
burn over the sender's daily cap, 100 FAIR by default where `BUY_MAX_FAIR` is 1000,
or for an address it finds invalid, and a release job may run out of attempts. After
`ReleasePaid` comes `LinkRelease`, which runs beside the worker that may still wait
for the burn's receipt, or `LinkFails`. The watcher's query has no sort, so a tick
takes any `MaxPerTick` of the open orders.

## 7. The token and the seeding of the pool

`Wfair` has the functions of the contract with the sender as first argument:
`MINTER_ROLE` and `PAUSER_ROLE` are what the constructor grants, `UpdateAllowed` is
the `whenNotPaused` of `_update`, through which every change of a balance goes.

`SeedPool` is `main` of `seed-pool.ts` in one record `s` (`pc`, the state read before
STEP A, `stepASkipped`), run again until a run reports success. `ReadPre`, `SendMint`,
`MintReceipt`, `ReadAllowance`, `SendApprove`, `ApproveReceipt`, `LookForPool`,
`SendCreate`, `CreateReceipt`, `ReadSlot0`, `SendPosition`, `PositionReceipt` are its
awaits; `SendRefused`, `SendUnanswered`, `RevertedReceipt` and `Abort` the ways out of
a run. `txs` are the admin's transactions in nonce order; what a run that was cut off
had sent is still mined. `before` is the chain one block ago, which a replica may
still answer from. Others mint for deposits, burn, create the pool, swap and pause.
The reads of `ReadPre` are parallel calls, each of which another replica may answer:
each is of the latest block or of the one before. `blind` records what a run did
without being able to know better: a mint while an earlier one was in the mempool or
invisible to the replica, a position whose receipt the run did not live to see, or one
sent by a run that had read the supply too old to verify it. The ticks are those of
the script.

## 8. The reserves

`Reserves` puts both directions over one balance: `hot` is the node's wallet, `cold`
the deposit addresses, whose keys the service does not have, `supply` the WFAIR.
Deposits and burns are two instances of `PayoutLedger` with the amounts added, mints
may be mined late or revert, the operator sweeps `cold` to `hot` and refunds by hand
what was refused. `RewardCycle` begins a cycle over all that the reward address ever
received (`getreceivedbyaddress` does not go down), `RewardPayout` pays any of it that
is planned and not yet paid, with the fee of that payment, and `RewardAgain` is what
`MasternodeRewards` has beyond that: a share whose txid a kill or a failed write lost,
paid again by the resumed cycle, the second payment of a tick that overlaps, a fee
beyond the budget. A withdrawal may become FAILED after a payment that was forgotten,
as `ReleaseIsLedger` allows. `ReadFirst` and `StoreSnapshot` are the two answers of
`captureSnapshot`'s `Promise.all`, in either order, with anything in between.

`Backed` says: coins + leaks >= WFAIR + what is owed. The leaks are named, each with
its amount: mints and releases the service forgot it made, the income of the reward
address shared out a second time (`OverShared`), reward payments made again
(`pool.again`), the fees of the network. Where they are nil the peg holds in every
order of events; where they are not, the backing is short by no more than their sum.
`OverShared` is not a remote case: every cycle after the first shares the income of
the earlier ones again, from the coins that back WFAIR, though `rpc/fair.ts:228-231`
says these "must NOT be redistributed to masternodes".

## 9. The process

`Lifecycle` has `stage`, the await that `main` or `shutdown` is at; `aborted`; where
each loop is (`boot` before the first tick, `tick`, `sleep`, `gone`); the BullMQ
workers; the requests, and the handlers whose client has given up (`orphans`), for
which `server.close` does not wait; and the connections in use. `Signal` runs the
abort listeners as `abort()` does, so a sleeping loop returns at once, while one in a
tick reaches `sleep` with a signal that has already fired and sleeps its interval to
the end. `BuybackRefuses` is `validateDestinations` without an answer of the node:
the worker returns until the next restart. `FairWatcherRejects` is a failed
`getKnownDepositAddressSet`, outside of the loop's `try`; the runtime may end the
process for it or not.

## 10. The abstract specification

`PayoutLedger` is what both pipelines promise for each liability: pay only while
no payment is on file, file one payment for good, settle only with a payment on
file, void only without one (or, where the outside system may bounce a payment,
together with it). `ReleaseIsLedger` maps `sends`, `fairTxid` and the status of a
withdrawal to it, `MintIsLedger` the mint transactions, `baseMintTxHash` and the
status of a deposit, as long as the mode stays. TLC checks both as properties of every
step, and `Reserves` builds on the specification in place of the two pipelines.

## 11. Runs

| run | asks | result |
|---|---|---|
| `release_safety` | all safety properties of the withdrawal direction and `ReleaseIsLedger` | hold |
| `release_liveness` | does every confirmed burn settle (`EveryBurnSettles`) | holds |
| `burn_skipped_on_stop` | does progress survive a SIGTERM inside a window | violated |
| `deposit_safety` | the safety properties of the deposit direction, in both modes and over a change of mode | hold |
| `deposit_liveness` | does every confirmed output settle, in both modes (`EveryDepositSettles`), and `MintIsLedger` | hold |
| `rewards` | all properties of the masternode rewards, with at most one overlap of two ticks | hold |
| `buyback` | all properties of the buyback, likewise | hold |
| `buy` | all properties of a buy order, paid in any way | hold |
| `detected_not_queued` | does a detected payment get its job | violated |
| `seed` | can a run of the script be repeated after any failure | holds |
| `reserves` | do the coins cover the claims up to the leaks named, and are the amounts snapshots say are missing explained | hold |
| `lifecycle` | does a stop leave work without connections, does it end, and does the next process serve | holds |

What the safety properties say:

* `PaymentsAccountedFor`, `MintsAccountedFor`: payments made = on file + in the
  signer's hand + forgotten through a kill or a failed call (+ executed by the
  Safe). Retries, stalled jobs, trimmed jobs and re-queued orphans add none.
* `PaidOnlyForConfirmedBurns`, `MintsAreBacked`: nothing is paid before the
  required confirmations, without a document, or for more than was burned; MINTED
  means the transaction on file succeeded.
* `CursorCovers`, `DepositsCovered`: the cursor never passes a burn, or an output
  to a known address, that has no document. For burns this needs the absence of
  SIGTERM, and `burn_skipped_on_stop` shows why; for deposits it does not.
* `DailyCapHolds` of the withdrawals: each burn that counts in the sender's day fits,
  before the fee, into what the cap leaves after the earlier ones, each after the fee,
  since that is what their rows store. So what is released for a day's burns is within
  the cap, and the burns may exceed it by the fees kept on the earlier ones.
* `DailyCapHolds` of the deposits: what a day admits for a Base address, whatever the
  code counts, is within the cap but for outputs that took the document of an intent
  opened a day before, whose `createdAt` is the intent's (`fair-watcher.ts:90`,
  `349-366`). These are in no sum: there is at most one per deposit address, and each is
  within the cap by itself.
* `TvlBounded`: supply plus mints to come exceed the cap only by duplicates the
  service caused by forgetting, and by `slip`, the wei of deposits settled between
  the two reads of the check.
* `ClaimedHasJob`: a SIGNING withdrawal has a job, and a completed job paid.
* `PayoutsAccountedFor`, `TxsAccountedFor`: the same balance of payments made, on
  file, in hand and forgotten for each masternode of a cycle and for each step of
  a buyback cycle.
* `CompleteMeansPaid`, `CompleteMeansDistributed`: COMPLETE is written only when
  every share was paid, or burned to its destination.
* `SpentWithinPool`: all that the node paid for a cycle, with the fee budget of every
  payment and with the payments whose txid was lost, stays within the pool the shares
  were computed from, but for one share more per failed call or kill; with overlaps the
  same once more for each. Over all cycles the pools exceed the income, and `OverShared`
  in `Backed` says by how much.
* `OneOpenCycle`: a cycle is begun only when no other one is open, unless ticks overlap.
* `NoWfairLeft`: when a cycle completes without anything forgotten or reverted, no
  WFAIR of it stays in the fee wallet.
* `DeliveringMeansBurned`: DELIVERING and DELIVERED are written only when the swap
  and the burn on file succeeded, the burn took all that was bought unless a hash was
  lost, and a release on file is that burn's, which was paid and not refused.
* `FailedDeliversNothing`: a FAILED order gets no FAIR and its funds are still at
  the payment address, as long as no hash was forgotten.
* `QueuedOrderEnds`, `BurnedOrderMovesOn`: a queued order ends, and once its burn is
  mined the worker or the link of the release moves it on even when its job is out
  of attempts. Two ends of the release are named exceptions: it is refused, or its link,
  which is best-effort, fails; an order without a job then stays BURNING for good.
* `EveryBurnSettles`, `EveryDepositSettles`: every confirmed burn or output is paid,
  refused, handed to the Safe, or left as a failed job.
* `EveryCycleEnds`, `BuybackEnds`: a cycle that was begun ends COMPLETE or FAILED;
  for the buyback as long as no transaction was forgotten, no ticks overlapped and each
  destination gets something (`EmptyShare`): a lost answer lets the next tick send a
  burn again, for WFAIR that is gone, and an empty share, which `config.ts:134-136` and
  small proceeds allow, is a `bridgeBurn` that `WFAIR.sol:103` rejects on every tick.
  The open cycle is then resumed for ever, and no other begins.
* `DoneMeansSeededOnce`, `HeldOnce`, `EventuallySeeded`: success means one mint and one
  position over all runs (unless someone burned as much WFAIR as was minted twice,
  which the check of the supply cannot see). A second seed is minted only blindly, or
  when a position has taken the first: STEP A looks at the admin's balance, which the
  position empties, so that after a run which aborted at its last check (a deposit was
  minted meanwhile, say) the next one mints again, although `seed-pool.ts:512` calls the
  step idempotent. Repeating the script gets there, unless others disturbed it, a mint
  was blind, or a position went through whose run was cut off or compared the supply
  with one read too old.
* `Backed`, `AlarmHasReason`: section 8. An alarm of a broken peg names an amount: the
  coins at the deposit addresses or come in since custody was read, the WFAIR burned
  since the supply was read, and the leaks cover it together with all that is still
  owed.
* `ConnectionsOutliveWork`, `NoTickAfterAbort`, `ServesAgain`: what runs has MongoDB,
  Redis and the queues, except a handler whose client has given up; a stop waits for at
  most one tick and one sleep of each loop; every stop ends by itself, and then the
  process serves, takes jobs and ticks again, except for a loop that gave up at boot.

What the violated properties show is in `PROJECT.json` under `findings`, each
with the sentence of the repository it contradicts.

### Bounds and why they are enough

Every bound is a constant of the module that uses it.

* Two burns of one sender in one `getLogs` window, or two outputs to one address:
  two are needed to exceed a cap, to leave one behind in a window or a block, and
  for orphans of one to meet work on the other; per-document state does not
  interact beyond sums, `ReconcileLimit` (1 here, so that it bites) and the order
  within a window.
* `MaxTip` lets each burn or output confirm and one more block arrive; amounts are
  chosen so that one item fits a cap and two do not, and so that fee and
  conversion truncate. In `release_safety` the cap of 3970 lies between two burns of
  which the second is counted before the fee (3980) and two after it (3960).
* `Attempts` = 2 (5 in the code) and `MaxStalls` = 1: the first attempt, a retry,
  exhaustion.
* Withdrawals: one failed call, one kill and one SIGTERM, independently. Deposits:
  `MaxUpsets` = 2 of any kind (failed call, kill, SIGTERM, pause, burned supply):
  each pair of them in each order, at any step.
* One change of mode in `deposit_safety`, none in `deposit_liveness`, whose ledger
  is about one mode.
* Rewards and buybacks: two cycles, since what one leaves behind meets the next;
  two masternodes, one of them paid when the other fails; three upsets (a failed
  call, a revert, a kill), enough to lose an answer, fail the retry and die.
* Buy orders: one order, because orders share nothing but the worker's turn and the
  tick, whose `MaxPerTick` only decides when an order is looked at; three upsets, so
  that its two attempts can be exhausted and one more thing go wrong.
  Price 2 with payments of 1 and 2 up to 3 gives parts, the exact price, and more.
* Seeding: two mints, to see the second one, and three upsets: enough to lose a run,
  mislead the next and have somebody interfere. The seed is 100 and rounding takes at
  most 1, since the code compares amounts and never counts them.
* Reserves: one deposit, two burns, two payments of each (the second is the forgotten
  one), two reward cycles over one income, so that the second shares it again, and one
  payment made again (`MaxAgain`); amounts that leave a remainder under fee and
  conversion.
* Lifecycle: the two loops that do something before they tick and one that does not,
  two workers, two requests, three upsets: a signal in a process that another failure
  meets, and one in the next.
* `Day` and `OrphanAge` are counted in `Tick`s; ages stop growing at a day,
  because no code distinguishes beyond it.

### Fairness

Weak fairness of the watchers' next step, of the worker's progress and the stalled
check for each job, of answering a request, of `Exit` and `Start` (systemd,
`Restart=always`), of new blocks, mining, the Safe's signers and time. The loops
sleep and continue after any error, BullMQ retries by itself, so this is what the
code's scheduling gives. Failed calls, kills, stops and pauses are never fair. In
`MasternodeRewards` and `Buyback` only the loop's ticks, and a tick of the endpoint
that was begun, are fair: nobody has to call the endpoint. In `BuyOrder` no customer
has to pay and no quote has to lapse. In `SeedPool` the founder repeats the script,
Base mines and the admin ends a pause. In `Lifecycle` systemd restarts, Redis and
MongoDB are reachable again, timers fire, and a tick, a job and a handler end because
each call in them answers or throws; signals, clients and new jobs are never fair.

## 12. Proofs

Proved, for every value of the constants, are the safety properties of the two
directions with their caps and their refinement of `PayoutLedger`, of the buy orders,
of the buybacks, of the rewards, of the reserves, of the life of a process and of the
seeding of the pool: every invariant and action property a passing run checks.

| module | theorems |
|---|---|
| `BurnReleaseProofs` | `Invariance`, `TypeCorrect`, `PaymentsAreAccountedFor`, `PaymentsAreBacked`, `CursorNeverSkips`, `ClaimsKeepTheirJob`, `DailyCapIsKept`, `ReleaseImplementsLedger` |
| `DepositMintProofs` | `Invariance`, `TypeCorrect`, `MintsAreAccountedFor`, `MintsBackedByDeposits`, `CursorNeverSkips`, `DailyCapIsKept`, `SupplyIsBounded`, `MintImplementsLedger`, `OneModeImplementsLedger` |
| `BuyOrderProofs` | `Invariance`, `TypeCorrect`, `TxsAreAccountedFor`, `DeliveredIsBurned`, `FailedIsUndelivered` |
| `BuybackProofs` | `Invariance`, `TypeCorrect`, `TxsAreAccountedFor`, `OneCycleIsOpen`, `CompleteIsDistributed`, `NothingIsLeft` |
| `ReservesProofs` | `Invariance`, `TypeCorrect`, `BackedAlways`, `AlarmsHaveReasons` |
| `MasternodeRewardsProofs` | `Invariance`, `TypeCorrect`, `PayoutsAreAccountedFor`, `CompleteIsPaid`, `SpendingFitsPool` |
| `OperationsProofs` | `ConnectionsSafe`, `StopIsBounded`, `RangeCoversPrices`, `SeedInvariance`, `SeedTypeCorrect`, `SeedHeldOnce`, `SuccessIsSeededOnce` |

Each has an inductive invariant `IInv` (in `OperationsProofs`, `StageInv` with
`OpenWhileServing`, and `SeedIInv`), because none of the properties is inductive as it stands, with one
lemma for each action and each part of `IInv` that the action can disturb. TLC checked
every `IInv` on the instance of the module's run before it was proved.

**Assumptions.** Those of the modules: constants are naturals, `SatsToWei` is positive,
the fee is at most all of the amount, outputs pay one of the known addresses; the sets
`Deposit` and `Burn` of `Reserves` are finite and disjoint, and the endowment covers the
seeded supply; the `Runners` of `Buyback` and `MasternodeRewards` are finitely many (the code has two
each); the accounts of `Wfair` are finitely many, and in `SeedPool` the admin is none of
the position manager, the pool and the others, and rounding takes less than the seed. TLC
evaluates them on every run.

**Withdrawals.** `IInv` is `TypeOK`, an invariant of each burn `BurnInv`, one of the
watcher `WatcherInv`, and `CoverInv`. `BurnInv` says what the signer's place implies
about the row it works on: that payments are accounted for; that a txid on file is a
payment made; that a row in SIGNING has its job and a row in BROADCAST its txid; that at
`send` the row is SIGNING without a txid, at `record` exactly one payment is in hand;
that a row holds no more sats than were burned and its burn is confirmed. `WatcherInv`
says that the window and the logs still to handle are those of confirmed blocks beyond
the cursor, and `CoverInv` that every burn up to the cursor, or already handled in the
window, has its row. The daily cap has two invariants on top. `CapInv`: the sum of the
sender's day and the burn at hand is within the cap from `processLog`'s check to the
`create`, because no one else writes rows and age only takes rows out of the sum.
`OrderInv`: rows come in log order, so that the burns admitted before a burn are those
before it in the log, over windows that are repeated or cut off by a SIGTERM.

**Refinement of the ledger.** By `IInv` each action of `BurnRelease` is a stutter of
`PayoutLedger` or one of its steps: `SendToAddress` and `SendUnanswered` are Pay,
`RecordTxid` is File, the steps that write BROADCAST are Settle, a burn or a destination
that is refused (FAILED) is Void, and the rest leave the mapped functions alone.
`DepositMint` implements it along every behaviour in which `switches` stays 0
(`MintImplementsLedger`): after a restart under the other `MINT_AUTH_MODE` a deposit is
minted again, so the hypothesis is needed. `OneModeImplementsLedger` is the case
`MaxSwitches` = 0, where it always holds.

**Deposits.** `DepositInv` has for each output the shape of its document (`RowInv`), that
nothing is minted or proposed without admission (`PaidInv`), what `signMint` may rely on
at each call (`MintInv`), the count of mints (`AccountedFor`), and which branch the
signer and the document are on (`ModeInv`). `ScanInv` is about the watcher's locals,
`CoverInv` about what it passed, `KnownInv` says that the address cache misses no address
a depositor may know: it is what `DepositsCovered` needs, since `processBlock` looks at no
other output. `CapInv` is as above, about what the code counts; `LateInv` is about what
it does not: a document is never younger than its output, and one that is older was an
intent's, of which an address has one. `TvlInv` bounds the *exposure*, the supply plus for
each document the mint still owed: minting moves an amount from the second term to the
first, so only an admission makes it grow. The check of an admission adds a `totalSupply`
and a sum of the documents in flight that were read at two moments; what was settled
between them is counted in neither when the supply came first, and that is `slip`.
A burn of supply can only lower it.

**Buy orders.** What the worker knows (`WorkerInv`) is read before an await and used after
it, and holds because no one else writes an order's hashes. `DocInv` says what is behind a
hash on file, `KnownInv` that, while no hash was forgotten, every transaction is on file
or about to be filed; `MoneyInv` follows the money from there: at the address until the
swap, as WFAIR until the burn. `BurnsAllInv` is the amount in the worker's hand, and
`FailedInv` that a FAILED order has nothing under way. `CountInv` counts swaps and burns,
with or without a forgotten hash.

**Buybacks.** `IInv` is in three layers. The first holds however ticks overlap.
`TxsAccountedFor` bounds the transactions made twice by the ticks that overlapped, and to
be inductive it must count those still to come: `CountInv` relates, for each step, the
transactions to the hash on file, those in hand, those forgotten, and the ticks that will
send one more whatever is on file (`Senders`: they looked for a hash when there was none).
Likewise `OneOpenCycle` rests on `OpenInv`, which counts with the open cycles those that a
tick works on, as it will write a status over COMPLETE, and those about to be stored; the
ticks that run are at most one more than overlapped (`RunInv`). The second layer,
`AloneInv`, holds while no ticks overlapped: the tick's copies are what is on file and the
steps behind it are settled. The third, `MoneyInv`, is about behaviours without a
forgotten hash or a failed cycle: the account holds what the open cycle's swap brought
less what its burns took, and what is on file as proceeds is what the swap brought. That a
fresh swap finds the account empty, so that the difference of two balances is the
proceeds, follows from the same equation for the cycle before.

**Rewards.** `IInv` is in two layers, and the first holds however ticks overlap.
`TickInv` says what a tick's copy of the cycle is still worth: the list of payouts never
changes, a txid never goes away, and what the tick has left behind without a failure has
one. `DocInv` says that only listed payouts are paid, that a COMPLETE cycle has a txid for
each, and that the shares and the fees fit the pool. `LossInv` bounds the payments
that a cycle loses: a failed call loses one, a kill at most one per tick that ran, and an
overlap costs two upsets. With `CountInv`, which counts the payments, that gives
`SpentWithinPool`. `CountInv` carries
`PayoutsAccountedFor`: as for the buybacks, it must count, beside the payments made, filed,
in hand and forgotten, the ticks that will send one more whatever is on file (`Senders`),
and bound the surplus by the ticks that overlapped (`RunInv`, with `DownInv` and `RoomInv`
for where ticks begin and cycles are stored). The second layer, `AloneInv`, holds while no
two ticks overlapped: all that is behind a tick is BROADCAST or marked FAILED, so that a
COMPLETE cycle is paid in full.

**Reserves.** Double-entry bookkeeping: `CustodyInv` and `SupplyInv` say that custody and
supply are sums over the deposits and the burns (`Held` and `Issued`, `Paid` and
`Burnt`), less what reward cycles paid, once and again; `DepositInv` and `BurnInv` what one entry may look like. `Backed` then compares
the sums entry by entry: no mint is worth more than its deposit and no release more than
its burn, because the fee and the two conversions round down. `SnapInv` says that an
answered read of custody is short of the coins by no more than came in since and was at
the deposit addresses, and one of the supply beyond it by no more than was burned since:
all other steps between the reads only make the alarm less likely. With the balance of
the books it gives `AlarmHasReason`.

**Sums.** `DailyCapHolds`, `TvlBounded`, `Backed` and `CompleteMeansDistributed` are about
sums over a set. The library's induction theorems take an operator as a parameter, which
none of the provers can instantiate; `BridgeLemmas` does without: a sum is taken over a
function, and an induction over the subsets of a finite set is the choice, by `WFMin`, of
a minimal one among the counterexamples. `TotalAdd`, `TotalRemove`, `TotalChange`,
`TotalMonotonic`, `TotalPlus` and the like follow.

**Life of a process.** `ConnectionsOutliveWork` is not inductive: that nothing works when
the connections close follows from the awaits before. `StageInv` says what each stage has
behind it (`NoRequestsLeft` after `server.close`, `NoLoopsLeft` after the first
`allSettled`, `NoJobsLeft` after the second), what `main` has connected so far
(`BootOpens`, `NothingYet`), that the connections stay open from `Serve` to
`QueuesClosed` (`OpenWhileServing`) and that only a stopping process is aborted. With
`TypeOK` and `HandlersBounded`, on which `TypeOK` rests, it is preserved by every step.

**Seeding.** A success is one run's word for what all runs did, so `SeedIInv` is about all
their transactions. `InNonceOrder` (nothing decided follows what is pending) makes the
receipt of the last one the end of them all. `MintedIsMore` is the admin's account: what
it holds, and at least one unit for each position, came from the seeds minted; so a
position implies a mint. `OnePositionPerSeed` adds that one seed is not enough for two
positions, since each needs the whole seed and the first has begun to spend it.
`SupplyCountsMints` says that the supply at the block of the last receipt has every seed
in it unless WFAIR was burned, so a supply of one seed means one mint; it rests on
`CreditAddsToTotal` and `TransferKeepsSupply`. `SeedsStayInHand` says that a seed which
was minted is with the admin unless a position took it, and `MintsWhenShort` gives
`HeldOnce`: as long as no mint was blind there is at most one on its way, and only while
a position has taken every seed before it. `RangeCoversPrices` is about the ticks: the range the script computes
covers both prices for any spacing. That its ends are multiples of the spacing stays with
the script's own check (`TicksMakeSense`): the provers know the bounds of a remainder, and
not that it is what a division leaves.

Only model-checked: liveness, which is out of this prover's reach, as is ENABLED
(`EveryBurnSettles`, `EveryDepositSettles`, `QueuedOrderEnds`, `BurnedOrderMovesOn`,
`BuybackEnds`, `EveryCycleEnds`, `EventuallySeeded`, `ServesAgain`); and what the violated
runs show.

## 13. Not modelled

* Reorganisations deeper than the confirmations; loss of Redis or MongoDB data.
* Rounding in `satsToFair` and `fairValueToSats` (floating point at the RPC edge).
* Stalled jobs of a process that is alive (a worker that loses its lock runs on):
  the model's worker stalls only when it died. Concurrency is 1, as in the code.
* Gas, and nonces except for the order of a buy order's transactions: a sent
  transaction is pending until mined.
* What follows a mint the Safe executed: no code looks at it again, so the deposit
  stays MINTING.
* DELIVERED overwritten by DELIVERING when the release is linked before the receipt
  of the burn is seen: the model does it, and no property forbids it.
* The price check, limits per client and other currencies of `POST /quote`: a quote
  is given or not.
* The `validateAddress` call that throws (`base-watcher.ts:134-136` treats it as an
  invalid address) is in the model as a verdict that may be negative.
* WFAIR that others send to the fee wallet, which a buyback would count with its proceeds
  or leave there.
* Idle keep-alive connections during `server.close`, and a `disconnect` or `quit` that
  rejects during shutdown: in `Lifecycle` each await of `shutdown` ends once its work has.
* `burnFrom`, `permit` and changes of roles of WFAIR, which no code of the repository
  uses.
* The startup migrations, which change indexes only; a Redis or MongoDB that goes away
  while the process serves, except as failed calls of the pipelines.
* Rate limits, read-only endpoints, address derivation, byte formats, logging, alerts;
  gas and the summary of the seeding script, and liquidity between prices of the pool.
