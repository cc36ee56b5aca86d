# A TLA+ verification of Shielder

Shielder is a shielded pool: users move tokens into a contract on an EVM chain
and hold them there in private accounts. An account is a chain of notes. Every
operation (open, deposit, withdraw) spends the latest note of an account and
adds the next one to a Merkle tree; a zero-knowledge proof shows that this was
done right without showing whose account it was. Around the contract are a
TypeScript SDK that keeps the secrets and the account states of a user, a
relayer that submits withdrawals for a fee, a command line client, a prover in
a trusted execution environment, and tools.

This directory holds TLA+ modules translated from that code, configurations
that check them with TLC on small instances, and proofs checked by TLAPS.
`PROJECT.json` maps every definition to the lines it stands for.

    tlc -workers 2 -config shielder_funds.cfg MCShielder     # one run
    tlapm ShielderProofs.tla                                 # one file of proofs

## 1. Inventory

| component | state | operations | talks to |
|---|---|---|---|
| Shielder contract (`contracts/*.sol`) | Merkle tree and root history, nullifiers, token balances, fees, fee receiver, revoker key, pause flag, owner | `newAccount*`, `deposit*`, `withdraw*`, `pause`, `unpause`, setters, two-step ownership | verifiers, ERC20 tokens, receivers of native transfers, ArbSys |
| Merkle tree (`MerkleTree.sol`) | node map, root, next leaf, root history | `_addNote`, `getMerklePath` | Poseidon2 |
| Account derivation (`shielder-account`, TS `state/`) | index, nonce, balance, current note | derive secrets, apply an event | the contract's log |
| TypeScript SDK (`ts/shielder-sdk`) | storage per device, one mutex per client | `shield`, `withdraw`, `withdrawManual`, `syncShielder` | contract, relayer, proof generation |
| Relayer (`crates/shielder-relayer`) | quote cache, price cache, bounded task queue, workers, a shared dry-run switch, recharge channel, balances | quote, relay, garbage collection, recharge, health check | chain node, price provider |
| Rust account and contract client (`shielder-account`, `shielder-contract`) | account: nonce, balance, history of actions | prepare a call and its proof, send, dry-run, register an action, recovery | contract |
| Command line client (`shielder-cli`) | one encrypted state file: accounts, settings, cached fees | settings, new account, deposit, withdraw, recover | contract, relayer |
| Anonymity revoker (`ar-cli`) | database of events and viewing keys with two checkpoints, key file | generate, index, collect keys, revoke, reveal | chain node |
| Prover (`tee/`, `shielder_bindings`, `ts/shielder-sdk-crypto-wasm*`) | bounded task pool, connections, key pair of the environment | prove, public key, ping, verify | the environment over vsock |
| Integration tests (`integration-tests`) | a deployment, an account, a call | deploy, prepare, change, send, assert | contract in an EVM |
| Generated and auxiliary code | verifiers, WASM and mobile bindings, scanners, load tests | | |

**What is hard here.** Nothing in the contract runs concurrently, but calls
arrive in any order, with proofs made against any past root, from callers who
choose every secret; the fees and the pause flag may change between the making
of a proof and its execution; the circuits compute in a field, so that an amount
out of range wraps. In the SDK every `await` is a point at which another call of
the same device, or another device with the same seed, may act: a state read
before the proof is made is used after it; a wait for a receipt may time out
while the transaction is still on its way; the device may stop between sending
and storing. In the relayer, quotes are stored and swept concurrently, a bounded
queue feeds several workers, and workers and the recharger wait for each other; a
health check is shared by callers who may leave in the middle of it. Invocations of
the command line client share a file without a lock, and the commands of the revoker
share a database and are started over at their checkpoints. The prover's host gives
up on requests that the environment still computes, and the environment may come
back with another key.

**What makes each part correct.** The contract holds at least what all unspent
notes can withdraw, an account behaves as a purse that only its own steps change,
no note is spent twice, and unspent value can leave. The tree computes the root of
all inserted notes and hands out paths that verify. What the SDK stores is on
chain, moves only forward, is complete after a sync, and every call ends. The
relayer honours the quotes it gives, and answers every request it admits. A state
file holds a prefix of what is on chain, and recovery brings it up to date. The
revoker's database has everything below its checkpoints. Every request to the prover
ends, with the answer to that very request if it has one.

The full lists of components and hazards, each hazard at its line and with the
properties that would catch it, are in `PROJECT.json`.

## 2. Plan

The contract carries the money and comes first; then what clients make of its
log; then the services.

| order | module | question | state |
|---|---|---|---|
| 1 | `Shielder`, `ShieldedLedger`, `ShielderLedger` | is the contract solvent, does an account behave as a purse | checked and proved |
| 2 | `MerkleTree` | does the incremental tree compute the root and the paths | checked and proved |
| 3 | `ShielderSdk` | is the stored state of a user right under concurrency, crashes, late transactions | checked and proved |
| 4 | `QuoteCache`, `RpcMonitor`, composed in `RelayerServices` | are quotes honoured, prices fresh, and how many callers ask the node at once | checked and proved |
| 5 | `Relayer` | is a withdrawal sent once, is everybody answered and paid | checked and proved |
| 6 | `ShielderCalls` | the calls as the Rust client makes them and the contract answers them: operators shared by the next three | checked through them |
| 7 | `IntegrationTests`, `ContractTests` | do the repository's tests hold of the model; do client and contract agree on fees, notes and what a proof binds | checked |
| 8 | `ShielderCli` | is a state file a prefix of the chain, does recovery rebuild it | checked and proved |
| 9 | `ArCli` | is everything below a checkpoint known, and is it matched in the end | checked and proved |
| 10 | `ProverCircuits`, `ClientCircuits`, `ProverServer` | does each request end with its own answer, and is it what the client would have computed by itself | checked and proved |

The plan is carried out. What could be added: theorems about the free test of
`ContractTests`, whose safety properties are checked only, and the parts of section 7.

## 3. The modules and the code

**`Shielder`** is `contracts/Shielder.sol` with the contracts it inherits. The
variables are the storage of the contract (`notes`, `merkleRoots`, `nullifiers`,
`feeBps`, `feeReceiver`, `arPubkey`, `paused`, `owner`), what it holds
(`balance`), the log (`events`) and the two block numbers of an Arbitrum chain
(`block`). There is one action per entry point: `newAccountNative`,
`depositERC20` and so on, each a whole transaction, with the checks, the
transfers in the order of the code, the note, the nullifier and the event. A
transaction that reverts changes nothing and is no step. Hashes do not collide,
so a note is the record it commits to, a nullifier hash is the nullifier, the
prenullifier of an account is its id, and a root is the number of leaves under
it, which `MerkleTree` justifies (`RootsArePrefixes`). The circuits are a crate
outside the repository; each appears as the relation that its public inputs and
the tests of the contract imply, over a field that wraps. Callers choose every
secret: any id, any next nullifier (also one equal to an id), any leaf, any root
of the history, any amount, amounts that wrap included. ERC20 tokens move exactly
the amount asked for, and neither tokens nor receivers call back into the
contract (the code leaves the receiver of a native transfer too little gas for
that, and trusts the tokens).

**`ShieldedLedger`** is the abstract specification: an account is a purse opened
once for one token, a purse grows only by what comes in and the till shrinks only
by what is taken from a purse. **`ShielderLedger`** instantiates it: the purse of
an id is its latest note, the till is what the contract holds.

**`MerkleTree`** is `contracts/MerkleTree.sol`, for every arity: node ids, the
loop of `_addNote` that rehashes the path of a new leaf (`Rounds`: the rounds of the
loop, as a recursive function of their number), the root history and `getMerklePath`
(`Ancestors`: the nodes it passes). `ReferenceRoot` computes the same root from all the
leaves up, level by level.

**`ShielderSdk`** is the account state of the TypeScript SDK. Each device has its
`storage` and its mutex (`lock`, a queue, as `async-mutex` serves in order); each
call is a program counter whose steps are the pieces of code between two awaits:
`Start` and `InitStorage` (`ensureInitialized`), `Read`, `Create`, `Include`,
`Receipt` (`shield`, `withdraw`, `handleCalldata`, `waitAndSync`), `NextAccount`,
`Probe`, `Synced` (`syncAllAccounts`), `Load`, `Find`, `Save`
(`syncSingleAccount`). The contract takes a transaction when its nonce is the
next of its account. `GiveUp` ends the wait for a receipt and leaves an orphan
transaction that may be included later, by `IncludeOrphan`; `Crash` stops a
device at any await. `Rejected` is everything an await may throw: the storage or
the node rejects, or the callback `onNewTransaction` throws; inside the mutex the
call releases it. `reported` is a history variable: the calls of the callback,
without one whose transaction was not saved after it (`Unsaved`: the callback threw,
the write was rejected or the device stopped), as this one is made again. Amounts are
one unit; what is stored is compared with what is on chain.

**`QuoteCache`** is the quote side of the relayer: the price feed with its
expirations, `_quote_fees`, the cache keyed by the prices, `is_quote_valid` and
the garbage collector. Each access is two steps, since the code reads the clock
and then waits for the lock. `shown` and `backed` are history variables: what
clients were told, and how long the prices behind a quote were good.

**`RpcMonitor`** is the health check of the node. A caller that finds the record too
old moves the time of the last check under the lock (`IsHealthy`), asks the node
without it (`HealthyNoTimeout`, `CheckTimesOut`) and reads the record (`Health`); the
others only read. `ClientLeaves` drops a caller anywhere. `asOf` and `abandoned` are
history. Nothing is assumed of validity and timeout, ten seconds each by default. A
check may outlast its timeout by `MaxDelay`, counted from the moment it moved the time:
the timer starts later, at `rpc_monitor.rs:77`, and fires when the runtime gets to it.
**`RelayerServices`** puts the two caches of the server side by
side; they share no state, so a behaviour has the traffic of one of them (`traffic`).

**`Relayer`** is the other side: the checks of version and pocket money, the bounded
queue, `relay_worker`, the shared counter of `OptionalDryRun` as a number modulo
`CounterModulus`, the bounded channel to the recharging worker, and that worker.
A call to the node may fail, and a submission that fails may have been sent; so may a
recharge whose watch fails. A client may go away, which drops its handler and not its
task. `submitted`, `streak`, `gifts` and `unwatched` are history variables.

**`ShielderCalls`** is a library of operators. From `shielder-account`: the account, its
nullifiers and note, `register_action`, and the three calls with the proof that is
prepared for them. From the contract: every check of a call in the order of the code,
so that `CallError` is the *first* error, then the transfers, the note, the nullifier
and the event. Where `Shielder` lets callers choose every secret, here they are what the
client derives; a proof is the public input it was made for and whether its witness was
good, so that changing a bound field makes it fail.

**`IntegrationTests`** turns a test into a sequence of steps (`Deploy`, `Prepare`,
`Change`, `Invoke`, `Expect...`) and has one action per kind of step;
**`ContractTests`** has the tests themselves, by their names in
`integration-tests/src/shielder/calls` and the other files of the crate, for each token,
fee and memo they are instantiated with, and the test "free", which takes the same steps
in any order. Amounts are the ones of the tests, with a smaller largest amount.

**`ShielderCli`**: every invocation is a process that reads the state file, works on its
copy and writes it back if it succeeds, truncating it first (`BeginSave`, `EndSave`).
`Stop` ends it anywhere. There is an action for each stretch of a command between two
requests: `PrepareNewAccountCall`, `PrepareDepositCall`, `PrepareWithdrawCall`,
`approve_erc20`, `SendCall`, `Receipt`, `recover_state` and so on. Transactions wait in a
mempool; `Mine` puts one or two into a block, with those of another user and of the
owner, and executes them with `ShielderCalls`. `Refused` is every command that ends with
an error. `log` is a history variable: the events of each account, which the properties
compare the files with. The module assumes of the commands that they are the ones there
are, and of `MaxAmount` that the account some behaviours start with fits into it.

**`ArCli`**: `IndexEvents`, `CollectKeys` and `Revoke` are three program counters over one
database; each SQL statement is a step (`process_logs` writes the rows of a batch,
`IndexCheckpoint` its checkpoint). `Kill` stops a command, `retry_with_backoff` starts it
over after a rate limit; a lagging node returns no block to `CollectKeys` and fewer logs
to `IndexEvents`. Calls and events that a command passed and was never given are in the
history variables `skipped` and `missed`; they leave them when a later run, which starts
at the checkpoint, is given them. The end of a range, where a command does nothing more,
is part of the step before it, and so is the wait before a retry. The key is written big
end first and read back reversed (`to_bytes_be`, `from_file`). *Assumption on the
operator:* a command is not given again before it has ended. The code does not prevent it.
A second `IndexEvents` that began at an older checkpoint would erase keys below the
present one and set the checkpoint back, against `KeysErasedOnlyAtCheckpoint`; different
commands do run at the same time.

**`ProverCircuits`** is what the environment does with bytes
(`tee/crates/shielder-prover-tee/src/circuits`). `prove` and `pub_inputs` of a circuit have
a struct literal each, with the same text; each is an operator of its own (`WithdrawToProve`,
`WithdrawToPublish`), and so is the structure of the public inputs
(`WithdrawPubInputsBytes`). **`ClientCircuits`** has the other copies: the bindings
(`crates/shielder_bindings/src/circuits`), whose functions take every value by position;
the wasm package, which passes them and reads the public inputs under the names of the SDK
(`WasmWithdraw`, `WasmWithdrawVerify`); and the light package, which names the witness it
sends and reads the public inputs of the answer (`WithdrawWitness`,
`TeeWithdrawPubInputs`). The circuits themselves are external: an instance is the record of
its public inputs. `Satisfies` is the reference, in terms of the client's values.
**`ProverServer`** has the host: handlers, the
bounded pool with its two timeouts, one connection per request; and the environment:
connections that wait for a thread, `Answer`, panics, `Crash` and `NewServer` with another
key. A connection may fail to open at any time.

## 4. Runs

| run | instance | shows |
|---|---|---|
| `shielder_accounts` | 2 ids, 3 nullifiers of which one is an id, 4 leaves, field of 8, amounts 0..3 and -1 | `ImplementsLedger`, `OneNullifierPerNote` |
| `shielder_funds` | 2 ids, 2 tokens, 3 leaves, amounts of 2, fees of 0 and 1/4, pocket money, receivers of payments and fees: alice, and the contract itself, which refuses native ones; owner operations, donations, Arbitrum blocks | `TypeOK`, `Solvency`, `SumOfBalancesInRange`, `FundsCanLeave`, `NullifierBlockHoldsItsEvent`, `NullifiersWriteOnce` |
| `merkle_tree` | arity 3, height 2, two commitments | `RootIsReference`, `RootsArePrefixes`, `PathsVerify` |
| `sdk_devices` | 2 devices with one call each that may stop or be rejected, 2 tokens, 3 events, fresh storages, one orphan | `StoredStateIsOnChain`, `SyncCoversChain` |
| `sdk_concurrent` | 2 calls on one device that may stop, rejections, 2 events, one orphan, one stranger, fairness | `StorageOnlyAdvances`, `ReportedOnce`, `CallsEnd` |
| `relayer_services` | quotes: 2 requests, a fetched and a static token, 4 instants, validities of 1; health: 3 callers, validity and timeout of 2, timers late by 1, 9 instants | `QuotesHonoured`, `AcceptedPricesFresh`, `FewChecksAtOnce`, `StaleOnlyDuringCheck` |
| `relayer` | 2 requests, 2 workers, queue of 1, threshold 1, counter modulo 2, recharge below 2, fairness | `SubmittedOnce`, `RechargedOneByOne`, `SkipsOnlyAfterSuccesses`, `RequestsAnswered`, `WorkersRecharged` |
| `contract_tests` | all scripts, and 7 free steps | `TestsPass`, `AccountIsOnChain`, `FundsFollowAccount`, `AcceptedAsPrepared` |
| `cli` | 2 processes, 2 files, 2 commands on a fresh or a used state, one transaction of another user, one change of the fees, one stop | `LocalIsPrefix`, `RecoveryCoversChain`, `RecoveryFindsAction` |
| `ar_cli` | 3 blocks, batches of 2, one account with calls that revert or go through a router, one fault, fairness | `EventsBelowCheckpoint`, `KeysBelowCheckpoint`, `KeysErasedOnlyAtCheckpoint`, `EventsAreMatched` |
| `prover` | 3 requests, 4 calls of the light client (good, without its note, too short a path), pool of 2, one thread, one restart, fairness | `AnswersOwnRequest`, `AnsweredProofsVerify`, `ConnectionsBounded`, `RequestsEnd` |
| `sdk_foreign_token` | see findings | a violation |

**Why the bounds are enough to be of interest.** Four leaves are two accounts
with a spent and an unspent note each, or one account with three spent ones; the
field of 8 with amounts up to 3 keeps the inequality of the code (twice the
largest amount is below the modulus) and lets a subtraction wrap. In `shielder_funds`
the amount is 2, so that a fee of a quarter is rounded up from a half to one and what is
left of a note is 1, which a fee of one uses up; the receiver that refuses native
transfers, also as the receiver of fees, is the contract itself. Nine leaves fill a
tree of two levels and pass every carry of the node ids; arity three is the
smallest at which the offset between parent and child differs from the binary
one. Three events let two devices race for one nonce, open a second account, and
a device stop, retry and meet its own late transaction; two are enough for two
calls that sync one account at the same time, and for one of them to report, fail before
the save and leave the report to the other. No action reads `reported`, so
`sdk_devices` identifies states that differ in it only. The clock of
the quotes goes past the end of a quote made from a price that was about to
expire, with a step to spare; different prices are different entries of the cache,
so that one price is enough. The clock of the health check lets three checks follow
each other, of which one may be abandoned; validity and timeout are equal, as they are by
default, and the timers late by one, so that two checks do overlap and a third may not. Two requests at two workers share the
counter, wrap it, and leave one request in the queue while a worker waits for room in
the channel of reports; below a threshold of 2, with relays that cost 1, a worker may
be reported twice before its first recharge is mined. Seven free steps are two calls
with a change, a change of fees or of the key between the making of a call and its
sending, or a call sent twice. Two commands are enough for a race on one file, for a
command on an old file after another device has acted, and for a recovery of what a
stopped command left on chain; four transactions in flight give blocks with a reverted
call in front. Three blocks are two batches, of which the second is cut short. Three
requests at a pool of two keep one waiting, and one thread keeps a second computation
behind one whose client is gone; the values of a call all differ, so that two of them
cannot be swapped unnoticed. All bounds are constants of the modules.

**Deadlock.** The tree stops when it is full, and the relayer has nothing to do
once each request, which is made once, is answered; there deadlock is no error. In the
other runs a state without a successor is an error. `ShielderCli` and `ProverServer` and
`ContractTests` have a step that changes nothing for the state in which everything is
over, and only for that one; since the bounds make every behaviour of `ShielderCli`
finite, the absence of deadlock says that every command ends.

**Fairness.** `ShielderSdk!Fairness`: a call that can go on does (JavaScript runs
every ready continuation, and RPC calls return or fail), and the block under
construction is mined. Nothing is assumed of the user, of other users and of late
transactions. `Relayer!Fairness`: spawned tasks run, calls to the node return or
fail, and recharges that were sent are mined. The last is needed because
`watch()` has no timeout: a recharge that is never mined stops the recharging
worker, then the workers in front of its channel, then the queue.
`WorkersRecharged` allows for a recharge that is logged as failed: the report is
gone then, and the worker is looked at again only after its next relay.
`ProverServer!Spec`: the host gives free slots to waiting requests and its two timers
fire; nothing at all is assumed of the environment, which may never answer.
`ArCli!Spec`: the operator generates a key and gives the three commands again and again,
and each goes on unless it is killed, which happens at most `MaxFaults` times.

## 5. Proofs

The theorems hold for every value of the constants that satisfies the assumptions of
the module, which TLC evaluates in every run of it. What each theorem says is in
`PROJECT.json` and above it in the module; this section says why it holds.

**The contract: `ShielderProofs`.** For every number of accounts,
tokens, leaves, blocks and amounts. `ConstantsAssumption`: the constants are numbers and
sets of the right kind, twice the largest amount is below the modulus, a fee is at most
the whole amount, the contract refuses plain native transfers, as it has no receive
function. `NoTokenAssumption`: no token is the absence of one.

- `TypeCorrect`, `Solvent`, `SumInRange` come from one inductive invariant,
  `IInv == TypeOK /\ Solvency /\ SumOfBalancesInRange`. The three need each other:
  a withdrawal takes what its note had only if the subtraction did not wrap, which
  follows from the range of the balance, which follows from the sum; the balance of
  the contract stays a natural number because the note that is spent is covered.
- The sum of the unspent notes is a running total over the leaves whose existence
  is stated (`SpendableAtMost`), not a recursive function: `SumGrows` appends a
  leaf, `SumDrops` takes a value out of the middle and lowers the rest, and
  `TotalAfterNewNote` and `TotalAfterSpend` put these to notes and nullifiers. A
  nullifier that is used for several notes is spent for all of them, so that the
  total drops by at least the balance of one.
- `CeilDivBound` shows that rounding up never makes a fee larger than its amount.
- `WrittenOnce` and `PauseHolds` are action properties, from `StepShape`: the
  effect of every kind of step on tree, nullifiers and log.
- `NullifiersCount` needs that the set of registered nullifiers is finite
  (`CountInv`); `BlockOfNullifier` needs that on other chains the two block numbers
  agree (`LogInv`).
- `LedgerImplemented` is the refinement: Init and every step map to the ledger.
  The invariant `ChainInv` says that only the latest leaf of an account can be
  unspent, that the prenullifier of an opened account is registered, and that an
  opened account has a latest leaf.

- `FundsAlwaysLeave`: the latest root is always in the history (`LastRootKnown`), the
  unspent note is within the total, so that the contract holds its balance
  (`OneWithinTotal`), and each of the transfers of a withdrawal leaves enough for the next
  (`TransfersPossible`).

`PauseHolds` is stated of every step and has no run of its own.

**The tree: `MerkleTreeProofs`.** For every arity above one, every height above zero and every
list of notes (`TreeAssumption`; the hash is injective because it is the sequence of what is hashed).

- The definitions are recursive functions (powers of the arity, nodes of the reference,
  rounds of the loop), and so are the proofs inductive. The library's induction theorems
  have an operator as a parameter, which the provers cannot instantiate; `Induction` is the
  same fact about a *set* of numbers, from `Least`, and is enough to show that a recursive
  function exists and what it computes (`PowerDef` and its like).
- `TreeInvInvariant`: at every moment the stored nodes are those of the reference tree over
  the notes added so far, zero beyond them. A new note changes, in the reference, exactly
  the nodes above it, and these are the ones the loop rehashes: after each round the map is
  right up to that level (`Climb`). `Quotient` and its corollaries are the arithmetic of
  parents and children, with the offset that shows above arity two.
- `RootIsReferenceInvariant` is then a reading of the root; `RootsArePrefixesInvariant`
  needs that lists of different lengths have different roots (`RootsDiffer`: go down to
  the leaf at which they differ); `PathsVerifyInvariant` walks up the path and meets the
  children of every node on the way.

**The SDK: `ShielderSdkProofs`.** For every number of devices, calls, tokens and
transactions. The first three theorems have the hypothesis `StorageFoundOrOneCall`: every
device has used its storage before, or runs one call at a time. Without it they are false, as
`ensureInitialized` may write over what another call has stored (see the findings); each of
the two SDK runs satisfies one half of it. The fourth has `OneCallPerDevice`, the half that
`sdk_devices` satisfies: two calls of `shield` may open two accounts of one token.

- `StorageIsOnChain`, `ReportsComeOnce`: the state that is stored, or worked on between the
  load and the save, is a note on chain. What makes this inductive is the mutex. Only its
  holder is between load and save (`Exclusive`), and there its state is still the stored one
  or the successor of it (`InStep`), however long it waited: so the save puts it where it
  belongs. `Updated` and `Saved` say what `saveRawAccount` does to the sequence of accounts.
  `ReportsComeOnce` has an invariant of its own on top, `ReportsAre`: what stands in
  `reported` are the transactions up to the stored states, once each, and last the one the
  holder of the mutex is about to save, if it is; a holder that fails or stops there takes
  exactly that one away.
- `StorageAdvances` is the action property, from the same invariant (`StepAdvances`).
- `SyncsCoverChain` needs a second invariant, `SyncInv`, which says what the chain looks like
  when all accounts come from one seed. The notes of an account are numbered without gaps in
  the order of the log (`Numbered`), accounts are opened in the order of their indices
  (`InOrder`), each for a token of its own (`OneToken`). This is kept although devices do not
  know of each other because whatever is about to be sent, or was sent and forgotten, either
  goes on with an account of its token or opens one after accounts of other tokens only
  (`Backed`), and the contract refuses the second of two that open the same index. Along the
  sync, every account before the cursor has what was on chain when the sync began (`Covered`),
  and the account that the registry finds by token is the one at the cursor (`AtCursor`,
  `CursorAccount`, from `DistinctTokens`). The sync leaves an account when it sees no
  successor of its state, and ends when it sees no account at the cursor: `CountAtMost` (a
  missing note bounds the number of notes, by an injection) and `InOrder` turn what it does
  not see into how much there is. The theorem uses the assumption that the account of
  strangers is none of the user's indices (`SdkAssumption`).
- `Least`: a set of natural numbers has a least one, from the well-foundedness of finite
  sets; the prover cannot use induction in its usual form.

**The relayer: `RelayerProofs`.** For every number of requests and workers, every length of
the queue, every threshold and width of the counter, whatever relays and recharges cost.

- `RelayerTypes`: no balance is negative, a busy worker has a task, the counter stays within
  its width.
- `WithdrawalsSentOnce`: a task is at one place, at one position of the queue or with one
  worker that still means to send it (`OnePlace`), and a request for which there is such a
  place was not sent yet, nor answered (`Unsent`).
- `RechargesOneByOne`: all recharges of a worker that are on their way were given up, but
  for the one that is watched (`GivenUp`).
- `DryRunsSkippedRightly`: the counter, which all workers share and which wraps around, is
  never ahead of the successes since the last failure.

**Quotes and health checks: `RelayerServicesProofs`.** For every set of requests, tokens,
prices and callers, every validity, every timeout and every delay of the timers.

- `PricesStayFresh`, `QuotesStayGood`: an entry of the cache outlasts its prices by at most
  the validity (`CacheBacked`), and an entry that is gone, or shorter than what a client was
  told, is over (`ShownKept`). The second is what the garbage collector could break, which
  reads the clock before it waits for the lock: what it removes had ended when it read.
- `ChecksStayFew`: two checks that are under way began more than the validity apart, since
  the first moved the time under the lock, and both began within timeout and delay of
  now; dividing the ages of the checks by the validity and one maps them one to one into
  the slots of the bound.
- `RecordsStayFresh`: the record is that of the last check unless this one is not over or
  was dropped (`RecordOfLast`).

**The revoker's tool: `ArCliProofs`.** For every set of accounts, batch size, first block and
number of blocks, however often commands are stopped. It is assumed that the key is not the
empty sequence of bytes and that no account is the value that stands for an unknown key.

- `EventsAreIndexed`, `KeysAreCollected`: besides what is below the checkpoints, whatever is
  below the block a running command is at is in the database (`IndexFetched`,
  `CollectDone`), and within a batch an event has its row, is still to be written or was not
  given (`IndexBatch`). What the node did not show is exempt only if no run was shown it: a
  second run at the checkpoint cannot lose what the first one found. The checkpoint moves
  to what was covered when the height was read, not to the height of the chain then.
  `KeyReadBack`: a key that is written and read back is the same key.
- `KeysStayBelowCheckpoint`, the action property: a batch begins at or above the checkpoint.

**The command line client: `ShielderCliProofs`.** For every number of invocations and state
files, every set of commands, every fee and every bound (`AmountsAssumption`,
`CliAssumption`), on a chain that other users and the owner use too.

- The invariant `CliInv` has three layers. Of the chain (`ChainOK`): the nullifier of an
  account's action number n is spent exactly if the log has more than n actions of it
  (`Counted`), a mined call that did not revert stands in the log at the place its nullifier
  says and in the block the contract stored with the nullifier (`MinedRight`), and every
  spent nullifier has one such call (`Owned`, `Alone`). Of what clients keep (`StateOK`):
  every account, in a file or in memory, is the replay of a prefix of its events (`Local`).
  Of a running invocation (`Steady`, `Waits`): the call it prepared spends
  the nullifier of its account's next action, or the prenullifier if it is to open it;
  the transaction it waits for, if it is mined and did not revert, *is* the next action of
  the account it holds, with the amount and the fee it computed.
- The last is why registering its own numbers is right. A call that spends a nullifier that
  is not the account's next is refused (`AcceptedIsNext`), so that of invocations that race
  with copies of one file one is accepted and the others revert; and a proof made for a fee
  other than the contract's fails (`CallAccepted`), so that a fee that was kept for too
  long cannot get into the account.
- Logs only grow (`Grows`), and the replay of a prefix does not depend on what comes later
  (`ReplayStable`), so that `Mine`, which changes everything at once, keeps all of this
  (`PartialStep` for each transaction of a block, `BlockStep` for the block).
- `RecoveryFindsActionInvariant`: the search stops at the first reverted call or at the
  call that spent the nullifier, in the block that is stored with it (`SearchEnds`,
  `SearchIsRight`). `RecoveryCoversChainInvariant`: a search without a result means that
  the nullifier is not spent, hence that the account has as many actions as the log
  (`SearchForNext`), which is no less than when the recovery began.

**The prover: `ProverServerProofs`.** For every number of requests, slots, threads and
restarts and every set of payloads, each for one of the three circuits.

- `AnswersAreOwn`: what stands on a connection answers the request that was sent there under
  some key the environment has had (`Answered`), a connection that the host has open belongs
  to one running task and carries its request (`Linked`), the queue has each waiting request
  once (`Queued`, with `RemoveQueued` for a request that leaves the middle of it).
- `ProofsAreGood`: from that, and from the conversions, circuit by circuit (`DepositGood`,
  `WithdrawGood`, `NewAccountGood`). For all values of a call, the light client's witness,
  the environment's two struct literals, its structure of public inputs and the client's
  reading of it give field by field what the wasm package makes of the same values by
  itself, through the positions of the bindings (`ProofsVerify`); a public input that is
  written as bytes and read back is the same; and the circuit's demand on the witness is
  the reference's on the values. Swapping two fields in any one of the copies makes it
  false; two such swaps are mutants.
- `PoolBoundsConnections`: distinct open connections belong to distinct running tasks,
  of which there are at most as many as slots (`Slots`).

**Only model-checked.** All liveness (`CallsEnd`, `RequestsAnswered`, `WorkersRecharged`,
`EventsAreMatched`, `RequestsEnd`): fairness and ENABLED are beyond the prover.
`ContractTests` (`TestsPass`, `AccountIsOnChain`, `FundsFollowAccount`,
`AcceptedAsPrepared`): its scripts are single behaviours with the numbers of the tests,
which TLC runs to the end; there is nothing to generalise but the free test.

## 6. Findings

`sdk_foreign_token` ends in a violation, with its trace: `getNewStateByBlock`
(`chainStateTransition.ts:58`) throws at the first event of another token in the block,
whoever made it, and the account can never be synced past that block.

Behaviours met while modelling, which the passing runs state as they are or keep clear of:

- Two calls of `shield` for one new token on one device: between the read that says there
  is no account (`client/actions.ts:62`) and the read of the next index (`:197`) the other
  call may store the account. A second account of the token is opened, which no sync
  stores, as the storage is searched by token. `SyncCoversChain` is checked and proved with one call
  per device for this reason (and does not speak of a sync that throws).
- `ensureInitialized` (`storage/storageSchema.ts:122`) writes an empty storage outside the
  mutex, over what another call may have stored. The next sync finds it again.
  `sdk_concurrent` starts with initialised storages.
- `get_shielder_action` (`shielder-contract/src/recovery.rs:51`) gives up at a reverted
  call of the contract that comes before the one it looks for in the block, whoever made
  it. `RecoveryFindsAction` says that this is the only such case.
- `IndexEvents` begins at its checkpoint and erases the viewing keys of that block;
  `KeysErasedOnlyAtCheckpoint` says that it erases no others, and `EventsAreMatched` that
  the next `Revoke` puts them back.
- `CollectKeys` passes over a block the node does not return, and never comes back to it
  unless it is the last, at which the next run starts (`KeysBelowCheckpoint`); `IndexEvents`
  passes over logs that a lagging node does not have, in the same way
  (`EventsBelowCheckpoint`).
- Two invocations of `IndexEvents` at the same time would erase viewing keys below the
  checkpoint; the model has one at a time (section 3).
- Two health checks may overlap. `rpc_monitor.rs:33` says that the time is moved "to avoid
  concurrent updates by multiple threads", but the timer of a check starts later (`:77`),
  and by default runs as long as the record is valid: just past ten seconds a second caller
  begins a check while the first one is still pending. `FewChecksAtOnce` bounds them.
- A transaction whose callback throws or whose save is rejected (`synchronizer.ts:64, 67`)
  is reported again by the next sync. `ReportedOnce` says that this is the only such case.
- The command line client keeps a protocol fee for ever; once the owner has changed it,
  the calls made with it are refused, and the file has to be made anew.
- The revoker's tool decrypts with one key: what was encrypted to another, before or after
  a change of the contract's key, decrypts to a point that is nobody's, without an error.
- The row of an event is found by the hash of its transaction, so that two calls in one
  transaction of a router leave one row.
- A dry run that fails for want of funds is not reported to the recharging worker;
  `WorkersRecharged` speaks of submissions.
- A run timeout frees a slot of the prover's host while the environment still computes.
- A health check whose caller leaves is not made up for before the next validity is over
  (`StaleOnlyDuringCheck`).

## 7. Not modelled

- Reentrancy, tokens with fees on transfer or callbacks, upgrades.
- The circuits and verifiers, `halo2-verifier`, `powers-of-tau`, hashing and encryption
  (`content-encryption`, the state file, viewing keys as ciphertexts): cryptography. What
  uses them has injective hashes and proofs as described above.
- Reorganisations of the chain (`validateAccountState` of the SDK always passes).
- In the SDK: fees, memos, proving, the history scan (`getShielderTransactions`), chain
  access, the mobile package, workers, hashers and secrets of the wasm packages.
- In the relayer: metrics, request traces, configuration, `fee.rs` (decimal arithmetic
  without state), the balance monitor, which refreshes numbers for the metrics in a loop;
  nonces of the workers' transactions, which are kept by the provider library.
- In the Rust clients: prompts, parsing of arguments, providers and signers.
- In the prover: attestation, framing of the bytes on a connection.
- In the tests: gas numbers, test vectors of Poseidon, `evm-utils`, which runs an EVM.
- `memo-scan`, `fee-estimator`, `stress-testing`, `token-distributor`: tools that read
  logs, estimate gas or send traffic, without a protocol of their own.
