# onchain-invoice: a verification development

TLA+ models of the settlement core of this repository, the TLC configurations
that check them on small instances, and TLAPS proofs of the results that hold
for every instance. Paths are relative to the repository root.

| module | models | checked by |
| --- | --- | --- |
| `InvoiceDb` | one `invoices` row, its persist-log fold, merchant callbacks | TLC, TLAPS |
| `InvoiceSweep` | payers, chain, API and sweeper workers around that row | TLC, TLAPS |
| `InvoiceLifecycle` | what merchants are promised (abstract) | refined by `InvoiceSweep` |
| `MCInvoiceSweep` | small instances for TLC | |
| `InvoiceSweep_proofs` | inductive invariant, safety, refinement | TLAPS |
| `PersistLog` | one stream of the persist log under crashes | TLC, TLAPS |
| `PersistLog_proofs` | inductive invariant, replay theorems | TLAPS |
| `UserOpQueue` | a wallet operation, the bundlers, the EntryPoint nonce | TLC, TLAPS |
| `WalletOperation` | what a wallet may believe of its operation (abstract) | refined by `UserOpQueue` |
| `UserOpQueue_proofs` | inductive invariant, five properties of the queue, refinement | TLAPS |
| `IdentityStore` | one on-chain identity, its delayed restore, the timelock that owns the store | TLC, TLAPS |
| `IdentityStore_proofs` | inductive invariant, eight properties of the store, refinement | TLAPS |
| `Wallet` | one passkey wallet: owners, guardian recovery, M-of-N entities with veto | TLC, TLAPS |
| `MCWallet` | the two instances checked by TLC, and their symmetry | |
| `WalletPolicy` | who may sign for a wallet, and how that may change (abstract) | refined by `Wallet` |
| `Wallet_proofs` | inductive invariant, eight properties of the wallet, two refinements | TLAPS |
| `DelayedRecovery` | a recovery with a delay (abstract) | refined by `IdentityStore`, `Wallet` and `RecoveryJobs` |
| `RecoveryJobs` | recovery of one wallet off the chain: requests, jobs, activators | TLC, TLAPS |
| `JobQueue` | what is promised of a recovery job (abstract) | refined by `RecoveryJobs` |
| `MCRecoveryJobs` | the settings checked by TLC | |
| `RecoveryJobs_proofs` | inductive invariant, five properties of requests and jobs, two refinements | TLAPS |
| `LegacySweep` | the single-merchant sweep node, its cache and its contracts | TLC, TLAPS |
| `MCLegacySweep` | the two instances checked by TLC | |
| `LegacySweep_proofs` | inductive invariant, three properties of the node | TLAPS |
| `SweeperFee` | the division of a sweep between platform and merchant | TLAPS |
| `SweeperFee_proofs` | four theorems for every amount | TLAPS |

## Inventory

**Settlement path (the core).** A merchant creates an invoice
(`commerce/server/routes.ts`, `db.ts:createInvoice`); its address is a
deterministic forwarder (`contracts/commerce`, a Solana PDA, or a Tron
address). Payers send tokens there. Any number of *sweeper workers*
(`commerce/sweeper/worker.ts`) poll `GET /api/sweeper/invoices`, read the
balance over RPC, claim a lease, report `paid`, sweep on chain, report
`swept`. State: the row (status, `version`, `claimed_by`/`claimed_until`,
amounts), each worker's locals across many awaits, pending transactions,
callbacks. Correct when: the row never claims more than the chain did,
optimistic versions and leases keep concurrent reports from overwriting each
other, each status is announced once, a payment is settled in the end.

**Persist log** (`commerce/server/persist-log.ts`, `invoice-persist-replay.ts`,
`wallet-persist-replay.ts`). Every commit is followed by an append to
`wal.ndjson`; large files are sealed into gzip segments; a replay into an empty
database is the disaster recovery. Correct when a replay yields what happened,
in order, once, and loses nothing that was acknowledged.

**UserOp queue and bundler** (`commerce/bundler/worker.ts`, `wallet_user_ops` in
`db.ts`, `wallet-routes.ts`). Passkey wallets submit ERC-4337 operations;
bundlers simulate, claim, submit and track them. Correct when what the wallet is
told agrees with the EntryPoint and every operation is decided.

**Identity and wallets on chain** (`contracts/wallet`). `IdentityStore`:
methods (passkey, YubiKey, EOA), delayed restore by an operator, timelocked
operator and delay. `Wallet` with `AdminGuardianRecovery`: owners, pause,
timelocked recovery. `AdvancedWalletMixin`: entities, keys, M-of-N threshold,
veto. Correct when no legal sequence of calls locks the owner out or shortens a
delay.

**Wallet activator and recovery** (`commerce/wallet-deployer/worker.ts`,
`wallet-hosted-recovery.ts`, recovery jobs in `db.ts`). Deploys funded wallets;
runs initiate / cancel / execute jobs against the contracts.

**Legacy sweep** (`contracts/Receiver.sol`, `InvoiceSweeper.sol`,
`node/sweep-node.ts`, `node/cache.ts`, `src/web-server.ts`): the earlier
single-merchant product. A node syncs invoices from the merchant's web server into
SQLite, reads the receiver's record and its `InvoicePaid` logs, sweeps what has
arrived and posts it to the web server; anyone else may sweep too. Its state: the
tables `invoices`, `paid_invoices`, `sweep_attempts`, `chain_progress`, and the
locals of every tick in progress. Correct when the cache and the web server agree
with the receiver, no log is missed, and what is paid is swept and reported.

**Edges**: SDKs, UI, shop plugins, faucet, rate limits, e-mail, captcha,
deployment. `PROJECT.json` lists every part with its status, and the hazards
with their lines.

### How parts interact

Workers, bundlers and the activator are separate processes that talk to one API
process over signed HTTP and to chains over RPC. The API is single-threaded and
its SQLite calls are synchronous, so a database method is one atomic step; the
interleavings are between HTTP requests, at each `await` of a worker, between a
transaction's broadcast and its receipt, and between a database commit and the
log append. What is hard: leases that run out while their holder waits for a
receipt, replies lost after the server acted, reports retried with an adopted
version, crashes anywhere, replays of the log under workers' feet, transactions
that outlive the process that sent them.

The models meet at `DelayedRecovery`. The recovery jobs run against either of two
contracts, of which `RecoveryJobs` keeps only `restore`; `IdentityStore` and
`Wallet` are shown to implement the very specification that the chain of
`RecoveryJobs` is shown to follow, so that what one model takes for granted of a
recovery (one at a time, due only after its delay, added as announced) is what the
two others prove of the contracts.

## Settlement pipeline: `InvoiceDb`, `InvoiceSweep`, `InvoiceLifecycle`

`InvoiceDb` holds `row`, and one operation per database method: `ClaimInvoice`
(the `WHERE` of the `UPDATE` is `ClaimAllowed`), `TrackPaid`, `TrackSwept`,
`TrackError` (`trackInvoice`, guarded by `TrackAllowed`), `LeaseExpires`,
`RestorePersistedInvoice`. `replayed` is the value the left fold of
`applyInvoicePersistEvent` over the log has reached; `notified` counts the
callbacks `applyTrack` posts (`becamePaidLike`).

`InvoiceSweep` adds the chain (`received`, `balance`, `txs`) and, per worker, a
program counter with the locals that live across awaits (`listed` is the version
in the fetched list, `ver` the version of the request in flight, `claimed` that
of the claim). One action per segment of `tick` between two awaits: `FetchInvoices`,
`PrepareInvoice`, `TrackPaidServed`, `PaidReply` (the route re-reads the row
after awaiting the callback), `ClaimServed`, `Conflict`, `Broadcast`,
`SweepRefused`, `Receipt`, `TrackSweptServed`, `TrackErrorServed`. Money leaves the
address by a worker's transaction (`Mine`) or, on EVM, by anybody's: `sweep` and
`bulkSweep` of `CommerceInvoiceSweeper` ask for no key (lines 77 and 104), take any
part of the balance and pay the merchant. `AnyoneSweeps` is that call; no worker
reports it, and once the balance is zero every later tick ends at `worker.ts:552`,
so the row never becomes `swept` although the merchant has the money. EVM invoices
are tracked `paid` before the claim; Tron and Solana claim first. On Solana the
program takes the whole token account and `confirmTransaction` reports an error
nobody reads; on Tron nobody waits for the transaction. Faults (`RpcFails`,
`ReceiptLost`, `RequestLost`, `ReplyLost`, `ServerBusy`, `Crash`, `Restore`) are
budgeted by `MaxFaults`; lease expiry and retries are not faults and cost nothing.

Abstractions: amounts are small naturals and fees are left out (`SweeperFee` shows
that a fee only splits an amount); one invoice (a tick handles its list one by one); the clock is one bit,
`leaseLive`; the server's commit and its log append are one step here and two in
`PersistLog`; a restore is into a fresh database with the workers restarted,
while their old transactions live on.

| run | question | bounds, and why they suffice |
| --- | --- | --- |
| `sweep_safety` | types; an EVM `swept` row names a confirmed transaction of its amount; no phantom payment; log = row; one callback per status; settled amounts are final; the lifecycle is implemented, whatever strangers sweep | 2 keyed workers (takeover needs two), 2 payments (stale balance), 2 transactions (competing sweeps), 2 retries, 1 fault of any kind, EVM and Solana; 4.2 million states. Symmetry in the workers, no liveness |
| `sweep_liveness` | a payment is eventually swept and reported, unless strangers took all of it and no worker swept anything | 1 keyed worker, 1 observer, all rails, 2 RPC or 5xx failures, strangers' sweeps of any part at any time; 462,490 states |
| `lease_race` | "Claim leases prevent double-sweep races" | violated: the lease is not renewed while waiting for a receipt |
| `lost_report` | detect → … → track swept | violated for a worker's own sweep: a lost `swept` report is never repeated, the balance being zero by then |

`paid` itself means less than "Full payment detected on-chain"
(`docs/platform-integration.md:128`): `prepareInvoice` compares the balance with
zero only (`worker.ts:552`), never with the price, so the model has no price, and
`PaidIsBacked` says what holds: some payment was really made.

Two workers that compete do not break `SweptTxConfirmed` although `lease_race`
shows two sweeps in flight: the forwarder reverts a sweep above its balance, and
a reverted EVM transaction throws in `wait()`. The safety run leaves Tron out
because its `swept` means less: `sweepTronOne` reports a transfer it has only
broadcast (`worker.ts:776`), though `docs/platform-integration.md:130` says "Funds
swept to merchant". Proofs say where the rail matters.

Fairness: each worker's tick (`start` loops for ever, one weak fairness per
worker) and the chain including or dropping what it accepted. Nothing is assumed
of payers, strangers, faults or lease expiry. Liveness needs enough unused transaction ids;
`MaxTx` = 3 covers every behaviour with the run's fault budget.

### What is proved

`InvoiceSweep_proofs` proves for any number of workers, payments, transactions,
retries and faults: `TypeCorrect`, `SweptIsConfirmed`, `PaymentsAreReal`,
`LogRestoresRow`, `CallbackOnce`, `SettledStaysFinal`, `LeaseIsExclusive`, and
`ImplementsLifecycle` (assuming Tron is not among the rails). Assumptions are
the modules' `ASSUME`s on the constants.

None of these is inductive alone; `IInv` adds what each needs:

* `VersionInv`, the heart of optimistic locking: a worker's version is never
  ahead of the row, and one that still *matches* was read with a row that was
  not swept. This is what makes every accepted late report harmless, and why
  `AfterConflict` must stop at a swept row.
* `ChainInv`: the books of the address, and that on EVM and Solana a mined sweep
  means money left it.
* `WorkerInv`: a busy worker's amount is positive and was really paid; its
  transaction carries that amount, and is confirmed once it reports on EVM.
* `TxInv`: a waiting worker's transaction id is a real one. `TypeOK` itself needs
  it, because a Tron report reads the transaction's amount.
* `RowInv`, `LeaseInv`, `NotifyInv`: the row against the chain; a swept row has
  no lease; the counters of statuses not yet reached are zero.

The refinement maps `stage` to the status (both paid statuses to `paid`) and
`paidOut` to `received - balance`; `LifecycleStep` shows that each step is a
lifecycle step or a stutter, `PaidOutGrows` and `SweptNotAfterSwept` being the
facts about the chain and the row it uses.

Liveness and the Tron rail's reports are model-checked only.

## Persist log: `PersistLog`

`pc` walks through commit, `appendSync`, `maybeSealSync` and the four file
operations of `sealSync`. `Stop` is a kill between two of them, or an error that
`append` catches; `TearLine` and `TearSegment` are interrupted writes.
`Replayed` is `iterPersistEvents`: segments in order, then the WAL up to the
first line that does not parse. The age test of `maybeSealSync` reads the mtime
of the file just written and so never fires; only size rotates. Compressed
segments are kept as one concatenated sequence, since they are only read one
after the other.

* `persist_log` (6 events, 2 lines a segment, 3 faults: three seals with a fault
  in each): `ReplayIsHistory`, `AckedSurvive`.
* `persist_seal`: `NothingIsLost` is violated by a kill between `renameSync` and
  `writeFileSync`; `wal.rotating` is never read and the next seal overwrites it.

`PersistLog_proofs` proves `ReplayInOrder` and `AckedAreKept` for any segment
size and any faults. `LogInv` adds the order across the rotating file and the WAL
being empty while lines move (`OrderInv`), and where acknowledged events are until
a fault cuts something short (`KeptInv`). `FirstTornExists` gives the first
unreadable line its meaning by the well-foundedness of `<` on the naturals.
`AckedSurvive` is conditional on `hurt`: what a torn write or a seal cut short
loses is what `persist_seal` shows.

## UserOp queue: `UserOpQueue`

The wallet's request is two steps (`Ask`, then `CreateWalletUserOp` or
`RequeueWalletUserOp`) with awaits between. Each bundler lists `pending` and
`claimed` operations, checks and simulates, claims, reports `submitted`, sends
`handleOps`, waits, reports. `op` is the EntryPoint's nonce: the call runs once,
`done` or `reverted`; a second transaction is `void`. A loop that met a conflict
or 5xx goes on or gives up, which abstracts `maxRetries`.

One run, `userop_queue` (2 bundlers, 3 requests, so that an operation can be
requeued twice; 3 faults of any kind, lease expiry among them; 306,934 states):

* `OperationSpec`: the row, its versions and its bundlers implement
  `WalletOperation`, in which an operation is queued, sent, executed by the chain
  and included, or refused. `stage` is the status with `claimed` seen as queued
  and `failed` and `rejected` as refused, `fate` is `op`. It says of every step what
  three invariants say of every state: `IncludedIsExecuted` (what is shown as
  included was executed and did not revert), `IncludedIsFinal`, and
  `RefusedNotExecuted` (what is shown as refused was not executed). The last has an
  exception, `unannounced`: `processUserOp` does not look at `trackWithRetry`'s
  result (`worker.ts:215`), so an operation may be broadcast although its
  `submitted` report was not accepted, execute, and be rejected later by a
  simulation that finds its nonce used.
* `OpIsDecided`: every operation is decided unless something disturbed it. Two
  limits are in the code, not in the fairness: a bundler that dies after
  `submitted` leaves a row nobody lists, and a failed operation that is requeued
  may be claimed on a simulation made before it ran. A `handleOps` that is mined and
  reverts as a whole while the nonce is open is covered by the fault `CallLost` only. Fairness: each bundler's
  tick (its loop runs as long as the process) and mining.

`UserOpQueue_proofs` proves `ImplementsOperation`, the three invariants above, and
that a live claim is not taken from its bundler (`LiveClaimNotStolen`), for any
number of bundlers, requests and faults. `QueueInv` adds to the invariants:

* `VersionInv`: a version in a bundler's hands is not ahead of the row (but for
  `AheadByOne`: the report after a receipt is sent with the claim's version plus
  one even if the `submitted` report was never served), and while it still
  matches, the operation is not included. `IncludedIsFinal` and
  `LiveClaimNotStolen` follow from it;
* `SentInv`: an operation broadcast while its row said so stays `submitted` by
  its bundler until that bundler reports, so nobody can refuse it meanwhile;
* `TxInv`, `ReportInv`: what the EntryPoint did, a transaction did, and a report
  says what its receipt said; `NewInv`, `LeaseInv`.

For the refinement each action is one of the operation's or a stutter; that the
chain executes only what is sent or unannounced is `SentInv` and `TxInv` again.

Liveness is model-checked only.

## Identity store: `IdentityStore`

One identity (others share nothing with it but the operator and the delay) and
the timelock in one module, because the interesting questions span both
contracts: `restoreDelay` and `recoveryOperator` may change while a restore is
pending. `identity`, `methods`, `methodIds`, `pending` are the four mappings at
this identity; `operatorChange` and `delayChange` the two slots of the timelock.
One action per external function; `_addMethod` with `_storeMethod` is
`StoreMethod`, shared by `AddMethod`, `AddMethodByEoa`, `RestoreAddMethod` and
`ExecuteRestore`; a revert is a disabled action, so `ExecuteRestore` cannot
happen when `_addMethod` would revert. `asked`, `restored` and `proposed` are
history.

Abstractions: a method is its own id; a signature exists whenever its holder
wants one, and since `AddMethod`, `RemoveMethod` and `CancelRestore` carry no
nonce an old one is as good as a new one, so authorised calls are free while any
method is on the identity; ill-formed keys always revert and are left out;
`setProposer` changes nobody's delay.

* `identity_store` (one method of each kind under a limit of two, so the limit,
  the last method and the swap of the list all occur; delays 0 and 2, timelock 1,
  time to 3, so that a shortened delay takes effect inside a longer restore and a
  change is re-scheduled; 584,964 states): `CountsAgree`, `NeverLockedOut`,
  `RestoreWaits`, `CancelWins`, `ChangesWait`, the refinement `RecoverySpec` of
  `DelayedRecovery` (`members` are the methods, `candidate` the pending one, `due`
  when `executeAfter` has come: what is due stays so although the delay may be
  changed), and the liveness property `RestoreResolved`. Fairness: time
  passes, and somebody goes on calling `executeRestore` while it is possible. The
  latter is an assumption about outsiders, the member or the operator who wants the
  restore, to whom the call is open like to all; the code does not provide it. The
  activator calls it only in a tick that found a pending job (`worker.ts:280`) and
  for wallets with an included initiate job (`worker.ts:617`), so it may never
  execute a restore that a separate operator started; `DueIsExecuted` of
  `RecoveryJobs` is what it does provide. Without such a caller a due restore stays
  pending; what `RestoreResolved` shows is that no scheduled operator or delay, no
  limit and no order of calls keeps a willing caller from getting it through.
* `restore_stuck`: `ReadyCanExecute` ("Pending, ready to execute: anyone
  `executeRestore`") is violated by a restore for a method that is on the
  identity; it reverts for ever and blocks every other restore until a method
  holder cancels it. `RestoreResolved` states what remains true.

`IdentityStore_proofs` proves all of the safety properties and
`ImplementsRecovery` for any sets of methods and operators, any delays and limit. `StoreInv` adds what they rest on:
`PendingInv` (the pending restore is the one last asked for, still wanted, and its
`executeAfter` was computed from the delay of that moment), `ScheduleInv` (the
same for scheduled changes) and `ExistInv`. `CountsAgree` needs the two list
lemmas `AppendId` and `SwapAndPopId`, and the facts on cardinalities of the
library; that the counters never exceed the limit, so that `uint8` arithmetic does
not wrap, follows from them (`CountsFit`). `NothingPendingWhenDisabled` and
`DisableIsPermanent` (after `disableRestore` nothing is restored) are proved only.

## Wallet: `Wallet`

One `Wallet` proxy in both of its modes. In simple mode `owners` and `ownerIds`
are the mapping and the list of `P256OwnerRegistry`; `pendingOwner`, `paused` and
`recoverable` belong to the guardian's recovery (`AdminGuardianRecovery`, whose
one call pauses the wallet and schedules the owner). In advanced mode `entities`,
`entityBit`, `entityAtBit`, `entityBitmap`, `vetoBitmap`, `keys`, `keyCount` and
`threshold` are the mixin's storage; bitmaps are sets of bits. One action per
external function, a revert being a disabled action: `RemoveEntity` is the whole
of `_removeEntity` with the compaction of `_removeEntityInternal`, `Register` a
run of `_registerEntity`, `ConfigureMultisig` the whole batch with its final
`_assertEntitiesUsable`, `Reconfigure` any batch of at most `MaxBatch` changes.
`scheduledAt` is history.

Abstractions: a key is its own id, whatever its type; `BySelf` (the modifiers
`onlyEntryPointOrSelf whenNotPaused`) lets the wallet call itself whenever the
keys that exist can satisfy its own policy (`CanSign`, which is
`_rawSignatureValidation` with everybody signing who can); the unsigned
`cancelPendingOwner` is for a pending owner without a pause, a state
`PausedHasWayOut` excludes, and `unpause` has no caller; time moves only while a
recovery is pending. `BySelf` asks for consent at each call, while the code
validates the signatures of a batch once, before its first call; a batch whose
earlier call takes away the consent for its later ones is therefore left out.

Key counts wrap as the unchecked `uint8` of `_addKeyInternal` does
(`AdvancedWalletMixin.sol:236`): `KeyWrap` is 256 in the code, and nothing is assumed
of how many keys there are. An entity with `KeyWrap` keys counts as one without:
`setVeto` refuses it, `configureMultisig` reverts, and `removeEntity` lets it go with
keys left behind (`RemoveEntity(e, gone)` needs only that what it takes along makes
the count 0), which count again when it is registered anew.

`wallet` (10,922 states up to symmetry) checks two instances in one run (`MCWallet`,
whose variable `wraps` chooses). One has 2 keys (an owner and one to add, restore
or use in several entities) and 3 entities (the removed one, the last one that takes
its bit, and one that must not be touched). The other has 2 entities and 3 keys with
`KeyWrap` = 3, so that counts wrap to 0, keys stay behind and come back. Both have
batches of 2 and a timelock of 1. No action and no property names a key or an
entity, and what is checked is safety, so permuting them is sound.

* `PausedHasWayOut`: a paused wallet has a pending owner to execute or cancel;
  recovery and advanced mode exclude each other. This is what bounds the harm of
  `executePendingOwner` reverting for a key that became an owner meanwhile.
* `BitsAgree`: bits, tables and counters describe the same entities after any
  sequence of compactions, and each key count is the number of keys up to the
  counter's width, also of entities that left keys behind.
* `VetoCanBeGiven`: every veto bit is that of an entity with a key.
* `LockoutNeedsKeyless`: if every entity has a key, the wallet can satisfy its
  own policy. The condition is needed: `addEntity` registers an entity without
  keys that counts toward `entityCount`, so `setThreshold` and `removeEntity`
  accept a threshold nobody can reach; only `configureMultisig` asks. A wrapped counter is
  no way into it: it makes an entity look keyless that has keys, never the reverse.
* `PolicySpec`: the contract implements `WalletPolicy`, which has sets of owners,
  members and vetoers in place of lists, bits and counters (`Vetoers` are the
  entities whose bit is in the veto bitmap). A compaction that moved a bit without
  its veto, or the veto of another, would give or take a right there. The policy
  says openly that a member may leave with `KeyWrap` keys or more left behind.
* `RecoverySpec`: the guardian's recovery is a `DelayedRecovery`, with the owners
  as `members`.

`Wallet_proofs` proves all of these for any keys, entities, limits, batches and any
width of the key counter, and three more: `OwnersAgree` (list and mapping hold the same owners), `FrozenWhilePaused`
(during a recovery owners change only by its execution, after the timelock, by the
announced key), and `SignaturesCount` (the signatures of some entities are valid
exactly if the policy accepts those entities: as many bits as entities, and a veto
bit exactly if one of them may veto).
`WalletInv` is the conjunction of `OwnerPart` and `PolicyPart`; beside the
checked invariants it needs `PendingInv` (a pending owner is a key whose
`executableAt` is the timelock after it was scheduled) and `PolicyInv` (in
advanced mode the threshold is between 1 and the number of entities). The work is
in `RegisterPairs` and the lemmas on the removal of an entity, which show that
bits and entities stay in one-to-one correspondence, and in counting: `SameSize`,
`ExchangeSize`, the facts on cardinalities of the library, and for counters that
wrap `WrapUnique`, `WrapTurns` and `WrapAdd`, which derive from the meaning of `%`
that counting on from a wrapped count is counting on. `ImplementsPolicy`
rests on the same pairing: `RemoveEntityVetoers` shows that compaction takes the
veto of the entity that leaves and nobody else's, and `SelfIfAgreed` that whenever
the contract lets the wallet call itself, the policy's members agree.

## Recovery off the chain: `RecoveryJobs`

One wallet's recovery from the hosted request to the chain. Requests and jobs are
the two tables of `db.ts` (`requests` and `jobOf` are `status` and `job_id`);
`restore` stands for `Wallet.pendingOwner` or `IdentityStore.pendingRestores`,
whichever the wallet has, with one bit for the timelock. `Approve`, `Reject`,
`VerifyRecoveryEmail`, `CancelRequest`, `ClientInitiate`, `ClientCancel`,
`OperatorStarts` and `OperatorReports` are the handlers of the server (each one
synchronous where it touches the database). Each activator process runs
`processRecoveryJobs`: `Fetch` (with the set of wallets that have a cancel job),
then for each job `Claim`, `RunInitiate` / `RunCancel` / `RunExecute`,
`SendExecute` and `Track`, at last `maybeQueueExecutes` (`StartSweep`, `Sweep`).
`Track` includes `syncRequestFromJob`. The catch of `processRecoveryJobs` tracks
`failed` at the version it claimed; an error in the catch ends the tick, which is
what `inCatch` follows.

Versions are abstracted exactly: since a version only grows, an expected version
matches if and only if the row did not change since it was read, and `known` is
the set of jobs of which a process holds the current version. Claim owners and
leases are left out because a claimed job is never listed, so an expired lease
has no reader. A cancel job's signature is abstracted to the restores it is good
for: that of a partner's wallet is over the digest of the restore pending when it
was made; an identity's authorization names the identity only; the hosted cancel
of a passkey wallet signs the server's challenge, which no wallet accepts.
Requests of an EOA never become jobs and are left out.

`POST /initiated` (`OperatorReports`, `identity-routes.ts:865-889`) asks for a session
and for a wallet with an identity, and neither for the chain nor for who is calling:
anybody may report a request, in any state, with or without a restore. A partner's
cancel may fall back on the server's challenge (`wallet-client-routes.ts:831-846`)
and then queues a signature no wallet accepts (`ClientCancel`). A funded passkey
wallet that is not deployed makes `runInitiate` throw (`worker.ts:430`) and its job
`failed` (`RunInitiate`, `wallet`).

`listWalletRecoveryJobs` gives the 100 oldest jobs of a status on a chain
(`db.ts:3042`). The model follows one wallet; jobs of others come and go in that
list, so each listing leaves this wallet's oldest jobs some number of places, `Room`
at least (`Oldest`, chosen anew for each `Fetch` and `StartSweep`). What the limit
costs is part of the properties: a wallet beyond its places is not promised
anything, and `Room` = 0 is possible. In particular included jobs never leave their
list, so after 100 of them on a chain `maybeQueueExecutes` ("recent initiate jobs")
never sees a newer one, and its due restore is executed only by an execute job or an
outsider.

`recovery_jobs` (417,989 states): one request beside a partner, so that two
recoveries can meet; 2 jobs in a list with room for one, so that the older one may
keep the younger out; 2 processes, 1 fault (a chain call that fails, a
lost answer to a claim or a track, a crash), and the three settings of
`MCRecoveryJobs`: a passkey wallet without funds and with a timelock, an identity
the activator restores at once, an identity a separate operator restores after a
delay.

* `QueueSpec`: the table implements `JobQueue`, in which a job has one taker at a
  time, acts on the chain once or not at all, is put back only while it has done
  nothing, and is decided for good by an outcome that says what it did. `failed`
  promises nothing there, because the activator's catch says `failed` also when the
  chain call went through and its report was lost. The history `runs` counts a
  job's acts. It implies `AtMostOnce` (no second restore after a cancel) and
  `JobFinal` (a decided job stays as decided).
* `RecoverySpec`: whatever jobs, strangers and operator do, what happens on the
  chain is a `DelayedRecovery`, as `IdentityStore` and `Wallet` implement it. This
  is the check on `restore` standing for either contract.
* `ClaimedIsHeld`: a claimed job is in one process's hands, until a fault. After
  one it may stay claimed for good: `listWalletRecoveryJobs` lists `pending`
  only, so the lease that `claimWalletRecoveryJob` would honour is never tried.
* `RequestFollowsChain`: `archived` is backed by the chain, an execute job of that
  request having executed a restore, although `/initiated` overwrites status and job
  whatever they are. `on_chain` means less: the request's restore was started, or
  somebody reported so, and an execute job was queued for it that runs into whatever
  the chain has. `cancelled` means least: it says that a cancellation was asked for, also where the job can only
  fail (a passkey wallet's hosted cancel).
* `JobDecided`: without faults every job is decided, unless it waits for funds
  or for the operator, or older jobs that wait so take the places there may be for
  it (`Starved`).
* `DueIsExecuted`: a due restore of an included initiate job that is among the
  oldest `Room` of its list is executed once a tick finds some pending job. `docs/wallet-client-api.md:227` promises it "After
  the timelock", but `processRecoveryJobs` returns before `maybeQueueExecutes`
  when no job is pending (`worker.ts:280`), hence the condition.

Fairness: each activator's tick (`start` loops for ever) and the passing of the
timelock; nothing is assumed of users, guardian, operator or faults.

`RecoveryJobs_proofs` proves the safety properties, both refinements
(`ImplementsQueue`, `ImplementsRecovery`), `AtMostOnce` and `JobFinal` for any
number of processes, requests, jobs and faults. `RecoveryInv` adds to them what
optimistic locking is good for. `KnownInv`: of the jobs whose current version a
process knows, those that are claimed are its own, and nobody else knows their
version. `RunsInv`: a job that waits has done nothing. `RunOk`: what a process has
done of the job it holds, in particular that it puts back or rejects only a job that
has not acted and reports `included` only one that has, which is what the queue
asks. `HeldInv`: without faults, a claimed job has a holder.
Each handler changes the table in one of four ways, and each way has its lemma:
it appends a job (`AppendKeeps`), moves a process only (`LocalKeeps`), acts on the
chain (`RanKeeps`), or gives one job a status (`ChangeKeeps`); each of these is a
step of the queue or none (`Kept`), and what remains is one lemma per action. `JobDecided` and `DueIsExecuted` are liveness and stay with TLC.

## Legacy sweep node: `LegacySweep`

The node on one EVM chain with the contracts it sweeps. `start` calls `runOnce` at
every interval and never waits for it, so `Ticks` is a set of runs that may overlap;
each has a program counter and the locals that live across awaits (`todo`, the list
it walks through; `cur` and `seen`, the invoice in hand and the amount read for it;
`logs`, `from` and `latest` of the scan). A tick syncs (`SyncPage`,
`SyncInvoices`), reconciles each invoice with the receiver (`Reconcile`,
`AskReceiver`, `Align`, `Tell`, `RecordReconciled`), scans logs by chunks
(`GetHead`, `GetLogs`, `StoreLog`, `MakeRow`, `AdvanceScan`) and sweeps
(`NextSweep`, `LookAtReceiver`, `Send`, `Mined`, `ReportSweep`, `RecordSwept`).
`balance` and `payment` are an invoice's forwarder and `Receiver.invoicePayments`;
`SweepInBlock` is a block with one sweep, or with a whole `bulkExecute`, by the node
or by `AnyoneSweeps`; `PayReceiver` is a payer who calls the receiver itself. A
`Forwarder` takes any caller and any id, and the receiver checks only that the data
hash to the id (`Forwarder.sol:23-41`, `Receiver.sol:114-129`), so `AnyoneSweeps` may
have the forwarder of one invoice pay for another (`payment.from` remembers whose it
was): the first stays unpaid with an empty address, and the second is paid with
somebody else's money. The node itself always names the invoice whose forwarder it
is. `final` is the last block that ever had enough confirmations;
`Reorganise` replaces blocks after it. `exact` are the invoices with an `amount`,
the others have a `minAmount`.

Abstractions: `ReportSweep` and `Tell` arrive at a web server that takes every post
(`InvoiceWebServer` of this repository serves no `/invoices/:id/track`; a merchant
extends it), and `reports` keeps the amount of the last one. Transfers to an
invoice's address are not replaced by reorganisations. The receiver's hook `_executeInvoice` does not revert
(`BasicReceiver`). All is paid in one token. Several chains, the Tron paths and page and batch limits
are left out; `recordSweepAttempt` matters only when the status is `swept`.

`legacy_sweep` (671,243 states) checks two instances in one run (`MCLegacySweep`,
whose variable `overlapping` chooses). In both, blocks are few and the last one is
unconfirmed, and chunks are of one block, so that a scan takes several, overlaps and
may fall back when a slow tick writes an earlier block.

* Overlapping ticks: two of them, one invoice with or without an exact amount, two
  payments of which either may go to the receiver or come after the sweep, one
  fault of any kind (`MaxFaults`), a reorganisation being one.
* Two invoices: ticks one at a time, one invoice with an exact amount that is paid
  once at most, one without, whose money and ids anybody may mix up, one by one or
  in one `bulkExecute`; one reorganisation, of one block (a deeper one is several of
  `Reorganise`), which may take back a bulk sweep as a whole.

* `NodeFollowsChain`: unless a reorganisation took the payment back, reports carry
  the receiver's amount, from whichever forwarder it came and which no second
  payment replaces, and an invoice the node is done with is paid and reported,
  or its report was lost. The last clause is the code's: `trySweepEvm` does not
  look at the answer to its post (`sweep-node.ts:557`) and the invoice is recorded
  swept, so nobody repeats the report. Nothing is said of whose money it was: that
  an invoice's record equals what was sent to its address does not hold. A second payment after a sweep stays in the
  forwarder for good: `_assignPayment` reverts and the node is done.
* `ScanComplete`: every payment in a block that counts as scanned is in the cache,
  although overlapping ticks write `last_scanned_block` as they come, also backwards.
* `PaymentsArrive`: a cached invoice with enough in its address is paid; one that is
  paid, and cached or confirmed, is reported; unless a reorganisation interferes,
  its exact amount was missed, its money was recorded for another (`Diverted`), a report was lost, or its row could not be made from
  its log (`dropped`).

Fairness: each tick's steps (`setInterval`; calls are answered or fail, and
transactions are mined) and new blocks. `NewBlock` leaves room below `MaxHeight` for
the blocks that pay, so that the bound is never what stops a sweep.

`LegacySweep_proofs` proves the three invariants for any invoices, ticks,
confirmations, overlap, chunks and faults. `LegacyInv` rests on the difference
between final blocks and the head. What a tick has read of blocks up to `final`
stays right however long it waits (`ScanOk`); a payment it saw at the head is there
until a reorganisation puts its invoice into `undone` (`HoldOk`, `SaidOk`).
`ChainMoves` says what every step of the chain guarantees, `CacheGrows` what every
step of another tick does; `WaitingKeeps` derives from the two that waiting ticks
keep what they know, and one lemma per action does the rest. Liveness stays with TLC.

## The platform's fee: `SweeperFee`

`QuoteFee` is `quoteFee` of `CommerceInvoiceSweeper` and `ToMerchant` what `sweep`
pays out: a share in basis points, rounded down, at least the token's minimum, at
most the amount. There are no states to check; `SweeperFee_proofs` proves for every
amount, every rate that `setFeeBps` accepts and every minimum:

* `NothingLost`: the fee never exceeds the amount, so `FeeExceedsAmount` is
  unreachable, and fee and payout add up to the amount;
* `FeeIsLimited`: above the minimum, the fee is at most the rate, and a tenth;
* `BothGrow`: neither part shrinks when the amount grows;
* `SplittingSavesAUnit`: sweeping in two parts saves one unit at most.

An amount whose product with the rate exceeds `uint256` reverts and is left out.
The theorems rest on `ShareIs`, which gives `\div` its meaning.

## Not modelled, and why

Listed with reasons in `PROJECT.json`. In short: pure presentation and client
code; cryptographic checks (a signature is valid or not, and only valid callers
act); gas and prices; the HTTP layer's validation; wallet-event replay
(the log it reads is modelled); the Tron paths of the legacy product, whose
contracts are copies for another chain.

## Plan

1. `IdentityWallet` (signers and threshold of its super mode, `Wallet`'s
   multisig without bits).
2. An abstract log that `PersistLog` implements, and one account of the receiver and
   all its forwarders together as the abstraction of `LegacySweep`.
3. Several invoices under the 250-row limit of `listWorkerInvoices` and the
   `LIMIT` of the legacy cache, for starvation.

## Running

`tlc -workers 2 -config <run>.cfg <module>` for each run of `PROJECT.json`
(`CHECK_DEADLOCK FALSE` except for `IdentityStore`, which never stops: the payers, events, requests and faults of an
instance are finite, and a finished instance stops). `tlapm M.tla`
checks the proofs of each module `M` whose name ends in `_proofs`.
Definitions whose name carries a suffix such as `_NoVersion` are altered copies of
the definition that follows them; replacing the original by one must violate the
property it is listed with under `mutants`.
