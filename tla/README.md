# Verification of the mandated vault factory and its trading client

TLA+ models, model-checking runs and machine-checked proofs for this repository:
the Solidity vault system under `src/src/` and the Python trading client under
`src/predict/`. Paths below start at the repository root's `src/` directory.

## 1. The system

### 1.1 Parts, state and operations

| Part | Source | State | Operations that change it |
| --- | --- | --- | --- |
| MandatedVaultClone | `src/src/MandatedVaultClone.sol` | authority, pending authority, authority epoch; used nonces, nonce thresholds, revoked mandates; epoch start and high-water mark; ERC-4626 assets and shares, native balance | `initialize`, `proposeAuthority`, `acceptAuthority`, `resetEpoch`, `invalidateNonce`, `invalidateNoncesBelow`, `revokeMandate`, `execute`, `deposit`/`mint`/`withdraw`/`redeem`, `receive`, `sweepNative` |
| Mandate rules | `src/src/libs/*.sol`, extension parsing in the vault | none | pure checks of a mandate, a batch, an extensions blob and the circuit breaker |
| VaultFactory | `src/src/VaultFactory.sol` | vault count, registry, vaults by creator, the code at the CREATE2 addresses | `createVault` (and `initialize` of what it cloned) |
| Adapters | `src/src/adapters/*.sol` | token balances and allowances in flight | swap, supply, redeem |
| Position journal | `src/predict/lib/position_storage.py` | `positions.json`, `positions.tmp`, a lock per process | `upsert`, `seed`, `list_positions` |
| Trading | `src/predict/lib/trade_service.py`, `api.py`, `auth.py` | one buy in flight, the exchange's orders, a cached JWT | `buy`: create the order (with retries), poll it, journal it |
| Positions view | `src/predict/lib/positions_service.py` | none (reads the journal, then the exchange, then prices) | list, show |
| MCP bridge | `src/predict/lib/mandated_mcp_bridge.py` | a child process, request ids, its output stream | connect, request, close, the tool calls |
| Funding and wallet | `src/predict/lib/funding_service.py`, `wallet_manager.py` | balances, approvals, the fund-and-action session | deposit, withdraw, approve, orchestration |
| Configuration | `src/predict/lib/config.py` | none | which wallet mode permits which command |
| Markets | `src/predict/lib/market_service.py`, `pnl.py`, `orderbook.py` | none (reads an exchange that moves) | trending, search, details |
| Hedging | `src/predict/lib/hedge_service.py`, `coverage.py`, `llm_client.py` | a task per candidate, a semaphore of three, a model client per pair | scan, analyze |
| Preflight probes | `src/predict/scripts/poc_*.py` | a verdict file each, a bridge while it asks | read the inputs, ask the runtime, judge, write the artifact |
| Command line | `src/predict/scripts/predictclaw.py` and the scripts it runs | a child process | dispatch, pass on its exit status |
| Deployment | `src/scripts`, `src/script` | deployment files | broadcast, verify |

### 1.2 How they interact

The factory clones the vault and initialises it in the same transaction. An
executor calls `execute` of a vault with a mandate its authority signed; the
vault calls the adapters of the batch, which may call back into every entry
point of the vault, of the token and of the authority contract before the
vault measures what the batch did. Depositors and anybody who sends tokens move
the same balance between executions. The trading client is a command-line
program: each command is a process that talks to the exchange over HTTP, to the
vault tooling over a child process, and shares the journal file with every
other command that runs.

### 1.3 What is hard

* **Re-entrancy.** Only `execute` and the share operations look at the guard.
  The administrative entry points do not: an adapter that is itself the
  authority, or the pending one, can transfer the authority, reset the epoch,
  revoke or sweep in the middle of a batch.
* **Reverts.** A failing batch undoes everything since the transaction began,
  nonces and epochs included, and nothing else.
* **Histories.** Authorities change and change back; nonces are spent per
  authority, mandates are bound to an epoch; losses add up over executions,
  deposits, donations and resets.
* **Arithmetic.** Basis points in integers, checked products near the word size,
  rounding of share conversions.
* **Concurrent processes** that read, modify and replace one file; **retries** of
  a request that may already have been carried out; **crashes** between an order
  and its journal entry; a peer that never answers.

`PROJECT.json` lists these hazards with their lines and the properties that
would catch them.

### 1.4 What makes each part correct

* Vault: a nonce authorises one execution; a mandate that was retired stays
  retired; one epoch belongs to one authority; an execution stays inside the
  signed perimeter and inside the signed losses, alone, per epoch and per share.
* Factory: what was predicted is what is deployed, by its creator only, once,
  initialised with the requested authority; the registry counts what it lists.
* Journal: as long as no two processes write at once, readers see whole files and a
  finished upsert is not lost; whatever they do, nothing is found but what was handed
  in, no id twice.
* Trading: a journalled order exists at the exchange; what a buy reports is in the
  journal, unless writes overlapped; a retried request places no second order.
* Wallet: a withdrawal spends what was checked and keeps the gas; reports are true;
  a plan belongs to one reading; an opened bridge is closed.
* Bridge: an answer reaches the request that asked; a refused or broken handshake leaves
  no server behind.
* Markets and hedging: a search misses nothing but what moves past it; a pair that is
  called a hedge wins on one side in every possible outcome; the ranking is the complete
  list of the kept pairs, in order; no model client is left open.
* Positions view: a position has one row, a stored one is listed, unless writes
  overlapped, and its profit is of what the account holds (of a limit order, no more
  than that).
* Probes and command line: a PASS is earned by answers that fit together, a probe
  exits with 0 only if the artifact is its own PASS, and every command ends.

## 2. Modules

| Module | Models | Kind |
| --- | --- | --- |
| `MandateRules` | `MandateLib`, `AdapterLib`, `DrawdownLib`, extension parsing | pure operators |
| `MandatedVault` | the vault clone, its token and its callers | state machine |
| `VaultInvariant` | the inductive invariant of `MandatedVault` | state predicates |
| `Custody` | what the vault promises: executions as single bounded steps | abstract specification |
| `VaultCustody` | the vault as an implementation of `Custody` | refinement mapping |
| `VaultSafetyProofs` | the types and safety properties of the vault, its perimeter and its native currency, the refinement of `Custody` | proofs |
| `MCVault` | values of the constants for the runs `vault_*` | model checking |
| `VaultFactory` | the factory, its registry, the clones at CREATE2 addresses | state machine |
| `VaultFactoryProofs` | registry, prediction, initialization | proofs |
| `JournalRules` | positions and the list operation of `upsert` | pure operators |
| `Journal` | what the journal promises its writers: whole upserts and seeds while writes of processes do not overlap, remnants afterwards | abstract specification |
| `PositionStorage` | the journal on files, with lock, threads, processes, crashes | state machine |
| `PositionStorageProofs` | the journal between any number of processes, the refinement | proofs |
| `MCStorage` | threads, processes and requests of the runs `storage` and `storage_torn_file` | model checking |
| `Trading` | `buy` with the API client below it, the exchange; a writer of `Journal` | state machine |
| `TradingProofs` | one order per buy, a true journal, true reports, the use of `Journal` | proofs |
| `MCTrading` | the positions of the buyers in the run `buys` | model checking |
| `McpBridge` | the bridge, its subprocess client and the MCP server | state machine |
| `McpBridgeProofs` | answers, ownership of the child, failing closed | proofs |
| `Configuration` | accepted environments, wallet modes, accounts | pure operators |
| `Wallet` | the wallet commands on the chain and the vault tooling | state machine |
| `WalletProofs` | withdrawals, reports and funding plans | proofs |
| `MCWallet` | environments and servers of the runs `wallet` and `overlay_documented` | model checking |
| `Markets` | the markets commands against a ranking that moves | state machine |
| `Hedging` | `scan` and `analyze`, extends `Markets` | state machine |
| `HedgingProofs` | types, coherent searches, hedges, rankings and model clients | proofs |
| `PositionsView` | `positions` and `position <id>` while buys write the `Journal`, extends `Markets` | state machine |
| `Preflight` | the four probes | state machine |
| `Commands` | the command line; composes `Hedging`, `PositionsView`, `Preflight` | state machine |
| `CommandsProofs` | verdicts and exit statuses of the probes, the positions view, the use of `Journal`, what holds of the scripts as children | proofs |
| `MCCommands` | markets, buys and inputs of the run `commands` | model checking |

### 2.1 Correspondence: `MandateRules`

One operator per check, in the order of the code; `ValidateFields`,
`ValidateAllowlists` and `ParseExtensions` combine them as the functions of those
names do. Hashes are modelled by what they commit to: a mandate is its own hash,
`payloadDigest` is the sequence of actions, a Merkle root is the set of its leaves
(a valid proof exists exactly for the members), `extensionsHash` is the blob. A
blob has a size, may fail to decode, and holds extensions whose data may fail to
decode. `CodeHash` is a constant function. The depth limit of Merkle proofs (64)
and the widths of the mandate's fields are left out.

The arithmetic of the circuit breaker is that of the code: integer products,
compared, with `Fits` for the overflow check of Solidity 0.8 (`MaxUint256` is a
constant, so that a run can make the word small).

### 2.2 Correspondence: `MandatedVault`

| Variable | Code |
| --- | --- |
| `store` | the storage variables of lines 95-104, one field each |
| `chain` | `totalAssets()`, `totalSupply()`, the native balance, and whether some spender still holds an allowance of the asset |
| `now` | `block.timestamp` |
| `entered` | the reentrancy guard |
| `frame` | the locals of the running `execute` (`authority_`, `maxSingleAbsoluteLoss_`, `preAssets`, the loop index) and the state a revert restores |
| `events` | the `MandateExecuted` log |
| `ghost` | an observer, read by no guard: the assets each epoch opened with, and who proposed the pending authority |

Every entry point is one action with the guards of its `revert`s. `execute` is
`Execute` (validation, nonce, snapshot, epoch initialisation, first call), then any
interleaving of callbacks, `NextAction` for every further call, and
`PostExecution` (the circuit breaker, the mark, the event) or `Revert`, which
restores `frame.store` and `frame.chain`. `Revert` is enabled at any point of an
execution: a failing action, a breaker error or the gas. A refused call changes
nothing and is no step. While an execution runs only contracts can be
`msg.sender` (`CanCall`), since every call is made by code.

External: the asset token (`TokenTransfer`, `TokenApprove`, `PullApproved`,
`AssetsArrive`), OpenZeppelin's ERC-4626 conversions with one virtual share and
asset, and block time. An allowance left behind by a batch can be used after it.

Left out: who owns which shares (the sum is what the vault's properties are
about), ERC-20 approvals of shares, fee-on-transfer tokens, the callback of the
recipient of `sweepNative` (its effects are later steps), the truncation of the
timestamp to 48 bits, gas, and the vault itself as an adapter of its own batch.

`Custody` says what all this amounts to for the holders of shares and for the
authority, in five variables: the authority and its epoch, the mandates that can no longer be
executed, the fund (assets, shares, whether an allowance is left), and what was
executed under whom. Its steps are the business of the authority (`Administer`), an
executed mandate (`Perform`: once, in its epoch, within its single and its absolute
loss, without a share issued or burned), a `Trade` (deposits, withdrawals, gifts: no
share is worth less afterwards) and the use of an allowance. `VaultCustody` maps the
vault to it: while an execution runs, the custody is the one a revert would restore
(`Committed`, `CommittedChain`). Callbacks and reverts are therefore stutters, a
commit is one `Perform`, and what an adapter did to the authority or the
allowances in the middle of the batch becomes part of that step. `Custody` leaves out the
native balance, the cumulative limit and who may execute what, which are properties of their own.

### 2.3 Correspondence: `VaultFactory`

`createVault` makes no outside call that could call back, so it is one step:
the clone appears, is initialized, and is registered, or nothing happens. The
salt is the tuple of what `_computeSalt` hashes and the address of a clone is its
salt (factory and implementation are fixed). `CloneElsewhere` stands for anybody
cloning the implementation without the factory; such a clone is uninitialized
and anybody may `Initialize` it. `code` holds what `initialize` left in each clone.

### 2.4 Correspondence: `JournalRules`, `Journal`, `PositionStorage`

`Journal` is the abstract specification. A writer enters with a position and finishes;
finishing is one whole `upsert` of what the journal holds at that moment, or a whole `seed`.
The writers of one process take turns. `history` is what was handed in so far, and
whether two processes ever wrote at the same time (`overlapped`). From then on the file may be torn,
entries may be lost or come back and an upsert may fail, and the journal is no
longer followed: a reader may find any `Remnants`, positions that were handed in,
no id twice (`Readable`). `Trading` and `PositionsView` instantiate `Journal`, so that what they
rely on is what the files do.

`PositionStorage` refines it, with any number of threads and processes, for its writers
and for its readers (`ImplementsJournal`). A file name
(`path` for `positions.json`, `tmp` for `positions.tmp`) refers to an inode, an
open file keeps its inode when the name moves on, and an inode is `Torn` between
the truncation by `open(..., "w")` and the write of its text. An `upsert` is
`Acquire`, `Open`, `Load`, `Create`, `Fill`, `Replace`; `list_positions` is `Open`,
`Load` without the lock; `sync_fixture_positions` reads first and seeds later.
`_storage_lock` is one variable per process. `Crash` ends a process at any step and
leaves the files. `Replace` fails if another process moved the temporary file.

Left out: power loss (the code calls no `fsync`), legacy field names in
`from_dict`, a full disk.

### 2.5 Correspondence: `Trading`

A buyer is one run of the `buy` command. `call` says which request it is at
(market, book, sign-in message, JWT, post, poll) and `attempt` how often
`_request_json` sent it. `Outcome` is the decision of `_request_json` after each
attempt: again, raise, or return. `SignedHash` is the order's identity: the order
is signed once, before the first attempt. `Prepared`, `Created`, `Polled` and
`Persist` are what `buy` does with a returned answer. The exchange answers what it
likes; an order posted twice with one signature is one order (the exchange
identifies orders by their hash); a post that was given up can still arrive
(`LatePost`).

Every buy is a process, and a writer of `Journal`: `Persist` enters, `Persisted` finishes,
`PersistFails` is an upsert whose `replace()` does not find the file another command
moved, and a command may die in between. Once two buys wrote at the same time the
journal holds anything of what was handed in. `JournalIsTrue` holds even then;
`ReportedIsJournalled` has the premise that no writes overlapped, which nothing in the code
ensures (3.4). `latest` is an observer: who stored each position last.

Left out: amounts and prices, the fixture path. What a buy does before it signs anything,
the check of the balance in the overlay included, is in `Wallet`.

### 2.6 Correspondence: `McpBridge`

`bridge` and `client` are the fields of the two classes, `at` is the `await` the
coroutine stands at. `Ask`/`Write` are `request` and `_write_message`; `Skip`,
`ReadFails`, `EndOfFile`, `Return` are the outcomes of one `_read_message` in the
loop of `request`, with what `start`, `connect` or `_call_tool` does next; `Raise`
is their error path. `Close`, `WaitTimesOut`, `Exited`, `Reap` are `close`, up to the
stderr task whose `ValueError` comes out of `close` when a line was too long for
its reader. A message is either good, unusable, an error, a notification or no
message at all; framing (lines or `Content-Length`) only decides which.
`serial` numbers requests across clients, so that the properties can tell answers
apart; no guard reads it.

Left out: arguments and results of the tools, and a coroutine that is
cancelled from outside (Ctrl-C), which `except Exception` does not catch.

### 2.7 Correspondence: `Configuration`, `Wallet`

An environment is the set of what is set in it. `Accepted` is the validator of
`PredictConfig`, one operator per mode; a configuration is constructed before
anything else, so that a refused environment ends every command at `Start`. The
funding address, the signer and the address the exchange knows are three
operators (`FundingAddress`, `SignerAddress`, `AuthSigner`), as in the code they are
three properties of two classes; `WithdrawalsAreCovered` is about their agreement.

A command is one process. `Opening` is where `get_status`, `get_deposit_details`,
`approve`, `withdraw` and `buy` branch on the mode. In the overlay `buy` reads the balance
and, if it is too small, connects and asks for the same plan as `status`, only to be
refused with it; otherwise it is at `Trade`, which stands for all of `Trading`. `ReadBnb`, `ReadUsdt`, `ReadApprovals` are
reads of the chain, `Check` the refusals of `withdraw`, `TransferMined` and
`TransferRefused` the ends of `_transfer_usdt` and `_transfer_bnb`, `SetApprovals` one
of the two calls of `set_all_approvals`. `Bootstrap`, `Predict`, `HealthCheck` and
`Prepare` are the calls of `resolve_mandated_vault`, `ResolveRoot` and the five
`PlanCall`s the rest of the orchestration. `Leave` goes through the
`finally: await bridge.close()`. `Fail` is any call that raises, a refused asset or
destination among them. `McpBridge` is one action here, `Connect`, since it shows
that a bridge is open with its tools or not at all.

The vault a command speaks of is that of the address, if one is configured. With an address and
all six derivation fields the code asks for the health of that vault and, if it has
none, prepares the creation of the derived one, which it never looked up
(`src/predict/lib/wallet_manager.py:689-711`); either may be there or appear
(`Concerned`). `ReportsAreTrue` therefore says of a prepared vault that the
command was told that the vault it speaks of is not there, and that the prepared
one is this vault only if no address is configured.

The chain is external: balances of the three accounts, the approvals of the
funding account, the epochs of the vaults. A transaction
costs its signer `Gas`. In Predict Account mode the Kernel account spends and its
owner pays the gas, although `withdraw` looks for the headroom in the former.
The SDK reports whether a transaction succeeded. The plain transfer of BNB, which
the code writes itself, is reported as a success whatever its receipt says:
`ReportsAreTrue` makes this one exception (`IsPlain`), and so the code's behaviour is
recorded, not excused.

Left out: the fixture SDK (constant answers), decimals of amounts, the several
reads within an approval snapshot, session steps after the first (no command
takes them), and the destination's balance.

### 2.8 Correspondence: `Markets`

A command reads one market ranking in one request (`Trending`: `get_trending`, and the
wide list of `analyze`) or page after page (`SearchPage`), then every market it found
(`Enrich`), then prints (`Show`) or hands the summaries to hedging. Between any two
requests a market may overtake another (`Overtakes`) or close (`Closes`); `risen` and
`fallen` remember which ones moved, for `SearchIsCoherent` only. The ranking is a
sequence of markets, which is all that pages by position can tell apart. A list
comprehension is `Picked(list, Ascending(places))`: the elements at the places that
pass its condition, in their order. `Kept` and `SortedPortfolios` (in `Hedging`), `NewRows` and `Present` (in
`PositionsView`) are written so too: a definition by cardinality can be reasoned about
where a recursive one cannot.

Prices are in ticks, `Unit` of them being a price of 1. `Marks` follows the order of
the cases in the code: both sides of the book, the last sale, one side, a half. The
middle of a spread may lie between ticks, and the code rounds floats; the model
takes either neighbour. `from_env()` and the refusal of pure vault mode are `Refused`;
`ReadingFails` is any request that raises.

### 2.9 Correspondence: `Hedging`

A task compares one summary with the first. `Begin` is the entry of the semaphore and
the opening of a client, `Asked` one attempt of `complete_json` (an answer, an answer of
the wrong form, or an error, after which `AskedAgain` repeats until the last attempt), `Ended` the
`finally: await client.close()`. `Gathered` is `gather()` with all results; `Raised` is its
first error, after which `asyncio.run()` cancels what is left (`Cancelled`).
`PortfolioFor` is what a task returns, `Kept` the tasks whose portfolios exist and pass the
filters; which of them ended first is not in the state `Gathered` leaves, as
`gather()` returns results in the order of its arguments. `Coverage`, `Tier`, `PortfolioOf`, `IsOffered`, `IsWanted` and `SortedPortfolios` are the
arithmetic and the order of `coverage.py`, in integers: a coverage of 95 % is compared
as `95 * Unit`, where the code compares floats.

Left out: what the prompt and the answer say (`Relations` is all that is made of
them), the length of the pauses, titles and tables.

### 2.10 Correspondence: `PositionsView`

The command reads the journal (`StartView`), then the exchange (`ReadRemote`), then a
price for each row (`Merge`), filters and prints (`Present`). A row per stored position
comes first, then one per remote position whose token no stored one has. Until
the exchange has been read, buys of other processes are posted, filled, stored and
lost and holdings change elsewhere; afterwards what they do cannot be seen any more.
The buys write as in `Trading` (`Store`, `Stored`, `StoreFails`, `Lose`), and the listing reads
what `Journal` lets a reader find (`Snapshot`): that a stored buy is listed
(`EachPositionOnce`) has the premise that no writes overlapped, that nothing is listed
twice has not. A position is stored with the amount of the command as what was paid: USDT
for a market order, the number of shares for a limit order (`Limited`).
`stored` and `stored late` tell whether the journal entry was there when the journal was
read; no guard of the listing looks at it. An answer of the exchange may name the
token or not, in any order.

### 2.11 Correspondence: `Preflight`

`Start` reads the inputs and collects the reasons against a PASS that need no runtime;
`MayCollect` says which of them stop the dialogue. `Calls(p)` is the dialogue of a probe;
`Ask` hears any answer of the kinds `Replies` distinguishes (what was asked for or
something else), `CallFails` is any exception, `Conclude` and `Judge` turn answers into
reasons and a verdict, `Write` leaves the artifact, `Report` the exit status. In between the
crediting probe prints, which may fail, and every probe may be interrupted: its own PASS is then
left with status 1. `Unexpected`,
`FailSafeFails` and `Interrupt` are the ways through and past `except Exception` in
`main()`. The artifact may be one of an earlier run, of this one, or half written.
Reasons are abstracted to their causes and recorded evidence to what it lacks, besides
the amounts and the delay that the crediting probe computes with.

### 2.12 Correspondence: `Commands`

`Dispatch` is `main()` of `predictclaw.py`: a child, help, or usage with status 1. `MarketsRun`,
`PositionsRun` and `ProbeRuns` are steps of the child, `Surroundings` what others do
meanwhile, `Finish` its exit status. The children `wallet` and `trade` are modelled in `Wallet`
and `Trading` and may end here with either status; a probe is run by itself and not
from the command line, and shares the module for its exit status.

Left out: options and their validation, output, `.env`.

## 3. Runs

| Run | Shows | Bounds |
| --- | --- | --- |
| `vault_authority` | nonces, epochs, revocations and pending transfers under callbacks and reverts; the inductive invariant | two accounts (one a contract that is adapter and authority), four mandates in three epochs, two nonces, thresholds 1 and 2, three executions |
| `vault_losses` | the circuit breaker: single, absolute, cumulative, per share, from the epoch's opening; a product that overflows; the refinement of `Custody` | four units of asset, one share, limits of one half, one absolute limit, two epochs, two executions, an authority contract that may reset mid-batch, `MaxUint256` = 39999 |
| `vault_perimeter` | executors, payloads, allowlists, extensions, native value | 18 mandates against 8 batches and every blob, native balance of one wei |
| `vault_peak` | expected violation: see 3.3 | two executions, one epoch |
| `factory` | registry, prediction, initialization | two callers, two labels, two authorities, one foreign clone |
| `storage` | the inductive invariant of the journal, the refinement of `Journal` (while writes overlap and while they do not), every operation ends | two threads of one process and one of another, three operations, two ids, one crash |
| `storage_torn_file` | expected violation: see 3.3 | two processes with a thread each |
| `buys` | one order per buy, journal and exchange agree, every buy ends | two buyers of one position, 2 attempts (3 in the code) and 1 poll (15): a repetition and an order that settles too late need no more; the two may store at once, one after the other, or die doing so |
| `bridge` | answers, orphans, failing closed, ends | three tools in the roles the code distinguishes, two servers, six requests, one unasked message |
| `wallet` | withdrawals, reports, the funding plan, bridges closed, commands end | two commands (buys included), two amounts, eight environments (of which three are refused), two servers, one move of others |
| `overlay_documented` | expected violation: see 3.3 | one command |
| `commands` | coherent searches, hedges, positions and profits, verdicts, exit statuses; every command ends | see 3.1 |

The vault and factory properties are about safety only. `vault_authority` keeps
deadlock checking: invalidating a nonce is always possible. In the other vault
runs the amounts and the clock keep the system moving, or an execution can
revert. The other runs say `CHECK_DEADLOCK FALSE`: addresses are used up, commands end.

### 3.1 Bounds

The bounds (`MaxAssets`, `MaxSupply`, `MaxEth`, `MaxTime`, `MaxEpoch`, `MaxPeriods`,
`MaxExecutions`, and `MaxMoves` of the wallet) are guards of the actions they bound and
none of them is in the code. They are enough because the cases need few actors and steps: a nonce
replay needs two executions and one transfer; A to B to A needs three epochs;
a violated cumulative limit needs two executions with the mark between them; an
overridden extension needs two extensions. The proofs of section 4 do not depend
on any of them. `MaxEpoch` also stands for the `uint64` of the epoch, which is
incremented unchecked.

The wallet counts in units of the gas headroom; a transaction costs one (the code
does not know its cost, and the proofs assume only that it is at most the
headroom). `MaxBalance` and `Purses` are what accounts hold at first and after
somebody else spent; three units allow a withdrawal that is just covered, and one
that no longer is after another command's or somebody else's transfer. Of the two
amounts one is below and one above the target of a funding plan (4), so that plans of
buys exist which pay for the buy and which do not. Its eight
environments are chosen by what `Configuration` tells apart: none, an inferred and a
contradictory EOA, the overlay with all derivation fields, with the address alone
and as documented, and a mandated vault given by its address and predicted. The
proofs hold for every environment.

`commands` ranks four markets of which the query is found in three, reads at most two
pages of two, and the ranking moves once: a market then rises past, falls behind, or
moves up from, a page already read. Two workers and three candidates make one task
wait for the semaphore, also when another fails; two attempts of the model (3
in the code) have a first and a last. A price of 1 is four ticks, and the quotes
reach three of the five cases of the mark price (the middle, the last sale, one side),
and the rounding of a middle. Two buys of one token, one at the market and one with a limit,
show a position
stored before, while and after the listing reads, two that are stored at once, a partial fill and a second
buy; a holding may be closed or sold elsewhere. The probes get complete inputs and
inputs with one thing wrong, a runtime that lacks any set of tools, and every answer. The run has
1 328 043 distinct states.

### 3.2 Fairness

* `PositionStorage!LiveSpec`: every thread that can take a step takes one (weak
  fairness of `Step(t)`), which is what threads and a `with` lock give; a crash needs
  no fairness.
* `Trading!LiveSpec`: weak fairness of each buyer's own steps. `TransportError` is
  always possible while a request is under way, because httpx has timeouts, so
  nothing is asked of the exchange.
* `McpBridge!ClientSpec`: weak fairness of the coroutine's steps; `wait_for` and
  `kill` make the first half of `CallsEnd` independent of the server. `request` has
  no timeout: the second half therefore has the premise that the server answers
  what it reads, and excepts a server blocked on a stderr nobody reads.
* `Wallet!LiveSpec`: weak fairness of each command's own steps. Every call may
  also fail, so that this asks only that nodes and tools answer or fail; for the
  tools that is `CallsEnd`, with its premise. Nothing is asked of the others.
* `CommandsSpec`: weak fairness of `Progress`, the steps of the child and of its
  event loop. Every request may fail (httpx has timeouts), so that nothing is asked
  of the exchange, the model or the runtime; the ranking may stop moving. A probe's
  calls to the runtime have no timeout: as in the wallet, they answer or fail.

### 3.3 Disagreements with the repository's texts

`src/docs/erc-8192-spec.md:483` says the cumulative drawdown "is always measured
from the peak value within the epoch". The code (and the rule the same
paragraph states) raises the mark from `postAssets` only. If assets arrive
between two executions, the next execution measures them as `preAssets` but
never makes them the mark. `vault_peak` finds an epoch in which the vault falls to
a quarter of a peak one of its executions measured, under a cumulative limit of
one half. What does hold is `NoThousandCuts` and `BaselineProtected`: the limit
counts from the best result of an execution and from the opening of the epoch.

`src/predict/tests/test_storage.py:17` names a test
`test_storage_writes_atomically_and_round_trips_records`. The temporary file has one
name for all processes and the lock is one of a process. `storage_torn_file` finds
two commands of which one truncates `positions.tmp` after the other filled it, and
the other moves the empty file over `positions.json`; readers take that for an
empty journal. As long as no two processes write at the same time the claim holds,
and is proved for any number of them (`FileStaysWhole`).

`src/predict/README.md:209` recommends an environment for the overlay of vault and
Predict Account: the address of a deployed vault, its asset and its authority
(lines 212-223; the paragraph below offers the six derivation fields instead of
the address). The validator refuses it, because two of the six fields are set
and not all; with neither of the two, it is accepted and the orchestration
raises. `overlay_documented` shows the command ending at its start. What works is
the address together with all six fields, or the six alone.

### 3.4 What a reader should know of the code

These are no disagreements with a text, but consequences of the code that the models
make visible.

* The follow-up probe demands a plan of kind `predict.createOrder` that is not deferred
  (`src/predict/scripts/poc_predict_follow_up_autonomy.py:479-492`); the orchestration
  it calls always asks for `predict-order-submission` with a deferred payload
  (`src/predict/lib/wallet_manager.py:854-863`). A runtime that plans what it is asked
  never lets it pass. `Preflight` lets the runtime answer anything, so that the
  judgement is checked nevertheless.
* A PASS of the session probe says that the sources of a plan agree with each other and with
  the transfer, not with the amount the probe was started with.
* A probe that is interrupted, or that can write neither artifact, leaves an earlier PASS
  in place. `StatusIsOfTheArtifact` is about the exit status, which is then 1.
* The price of a market in a listing of markets
  (`src/predict/lib/market_service.py:181-202`) and in a listing of positions
  (`src/predict/lib/positions_service.py:208-240`) follow different rules when a side of
  the book is missing.
* The profit of a position takes the quantity from the exchange and the payment from the
  last stored buy: after a second or a partial buy it is not the account's profit, which is
  why `ProfitIsOfTheHolding` has the premise of one filled buy.
* A limit order's amount is a number of shares (`src/predict/lib/trade_service.py:184`), and
  that number is stored as `notional_usdt` (line 240), 1 USDT for each share: the profit
  shown is too low by what the shares cost less. `ProfitIsOfTheHolding` says for them
  only that it is not too high.
* A position is stored `OPEN` whatever the status of its order.
* Of two processes that write the journal at once one may undo the other's entry, or fail after its
  order was placed. What `buy` reported is then in no journal and in no listing: the premise
  `~history.overlapped` of `ReportedIsJournalled` and `EachPositionOnce` cannot be dropped.
* With a vault address and all derivation fields configured, a command that finds no
  health at the address prepares the creation of the derived vault, which may be there.
* A probe may exit with 1 and leave its PASS: an interrupt after the artifact is written, or the
  `print` of the crediting probe. Only the other direction is claimed.
* A buy that lacks funds in the overlay is told to run `wallet deposit` and to execute the
  plan it gets (`src/predict/lib/trade_service.py:470-471`). That plan tops the account up
  to a fixed target of 5 USDT (`src/predict/lib/wallet_manager.py:832-835`), so that it
  never pays for a buy of more; `PlanIsOfOneReading` has the premise `amount <= Target`.
* The plain transfer of BNB is reported as sent whatever its receipt says.

## 4. Proofs

`VaultSafetyProofs` begins with `Spec => []TypeOK`: one lemma per group of actions,
the types of the rules' results, the fields of the frame. It proves the inductive
invariant `VaultInv` and from it the safety properties. None of them is inductive alone:

* While an execution runs, a revert may bring back the storage it began with, so
  every part of the invariant is stated twice, for `store` and for `Committed`, the
  storage a revert would leave.
* `Running` relates the two: storage only *grows* during an execution (`Grows`:
  epochs, nonces, revocations, thresholds), the cached authority is the one the
  execution began with, its nonce is marked, and the supply has not changed.
* `Spent` ties the log to storage (every event's nonce is marked), which gives
  `NonceAtMostOnce`, `EpochBarrier` and `ExecutedOnceThenRetired`.
* `Marked` ties the log to the mark (it covers the results and the opening of its
  epoch), which with the arithmetic lemma `BreakerBound` gives `NoThousandCuts` and
  `BaselineProtected`. `PerShare` turns the single-execution limit into
  `ShareValueKept`.
* `Ordinary` collects what administration, balance changes and the clock have in
  common, so that one lemma, `OrdinaryKeepsInv`, covers them; beginning, continuing,
  reverting and committing an execution have a lemma each.

`SignedPerimeter` is proved from a second invariant, `PerimeterInv`: the frame of a
running execution is what its validation accepted (`Mandated`), and so is every event
(`InPerimeter`). Validation says something of each extension by itself; that no later
extension overrides an earlier one is `KnownAreApplied`, from `IdsAscend`: neighbouring
ids ascend, so all do (the least counterexample has a predecessor that is none).

`NativeKept` follows from `NativeInv`: while the epoch of the authority is that of the
beginning and the authority has no code, nobody who is called can be the
authority, so no sweep is possible, and validation lets no call carry value.

The refinement of `Custody` adds little to `VaultInv`: that the mandate of a running
execution is one of `Mandates` (`Presented`). `CommitPerforms` takes the bounds of
`Perform` from the circuit breaker and the retirement of the mandate from its marked nonce, or
from the epoch if an adapter moved that; `RunningIsHidden` shows that everything else
in an execution is a stutter. Trades need arithmetic: each of the four conversions
rounds against whoever calls it (`FloorDiv`, `CeilCovers`), so that the assets per
share, the virtual one of each counted in, never fall (`IssueIsFair`, `BurnIsFair`).

Assumptions: `AccountsAssumption`, `LimitsAssumption`, `VaultAssumption`,
`BoundsAssumption` (constants have their types, the executors' contracts are
accounts). No bound is assumed small, and no property needs overflow to be absent.

`VaultFactoryProofs`: `RegistryConsistent`, `PredictionKept` and `InitializedOnce`,
from an invariant that adds that the clones at the factory's addresses are exactly
the registered ones and hold what their salt commits to. The count is a
cardinality, so that the proof also carries that the registry is finite.

`PositionStorageProofs`: the inductive invariant `StorageInv`, for any number of threads and
processes, has two parts. The first holds whatever they do: only a thread between `with
_storage_lock` and its end holds the lock of its process, and every journal in a file
or in a local variable is made of positions that were handed in, no id twice
(`OnlyRemnants`). It gives `IdsStayUnique` and `LocksAreReleased` (also when `replace()` fails). The second holds as long as
no two processes wrote at once (`Undisturbed`): one thread is inside, nobody but that writer has the temporary file open
(`FilesAreApart`), and what will be moved is the journal of its thread. It gives
`FileStaysWhole`, `NoUpsertIsLost` and `ReadersSeeWholeFiles`, whose statements have that premise. The
refinement, `StorageImplementsJournal`, has no premise: `Acquire` maps to `Enter`, `Replace` to `Finish` or
`Fail`, a crash to `Die`, every other step to a stutter, and what is visible is always
`Readable`.

`TradingProofs`: `TradingInv`. `OneOrderPerBuy` counts orders by buyer; what bounds the count is
that a buy signs once, before its first attempt, so that every order the exchange
knows, and every post still on the way, has that one signature. `JournalIsTrue` and
`ReportedIsJournalled` need that a buyer believes an order filled only if it is
(`Truthful`), which the exchange never takes back, and the former that everything handed in
is true, as remnants are of that. `BuysUseTheJournal` shows that `Trading`
implements `Journal`, which closes the gap to the files: a step of a buy is a step of a
writer, or a stutter.

`McpBridgeProofs`: the inductive invariant `BridgeInv`. `AnswersMatch` needs that ids
only grow, so that among all requests the server knows, the pending id belongs to
the pending request alone (`IdsTell`); `IdleIsClean` needs what the
coroutine holds at each `await` (`Control`) and whose child is running
(`ServerOwned`); `CallsAreOffered` needs that the tools of the bridge are those of
its present server (`ToolsListed`).

`WalletProofs`: `WalletInv` is the types and `Underway`, what a command that goes on
has been checked for: an accepted environment, a signer if it withdraws, and at
the transfer the checks of `withdraw`. Types alone do not carry over a transfer
(balances are naturals because a mined transfer was funded). From it and the
lemma `OnePurse` (in an accepted environment with a signer, the account that pays
is the account whose balances were read) follows `WithdrawalsAreCovered`.

For the reports, `ReportInv` adds to `WalletInv`, per command, where it may be
(`Answering`), that what it has seen was so (`Reported`) and that its plan is made from
one reading (`Planned`), and of a buy that it asks for a plan only after it has seen funds
missing (`Buying`). Approvals are only given and epochs only grow, which is why what
a command has seen stays true.

`HedgingProofs` begins with lists. A list that is defined by how many elements are ahead of
each (`Ascending`, `SortedPortfolios`) needs that the numbers of those ahead, in a strict
total order of a finite set, are 0, 1, 2, ... each once (`Ranks`, by pigeonhole from the
cardinality theorems, without induction). From it follow what `Picked` and `Ascending`
do and that a sorted list has every member once and in order (`RankedList`). Three
invariants stand on that:

* `MarketsInv`. `SearchIsCoherent` is about the end of a search; while it goes on,
  `Gleaned(Skip(page))` says it of the pages read so far: every matching market
  ranked within them has been found unless it has risen, what was found twice has fallen, and what is
  ranked behind these pages and has not fallen has not been found. A swap of neighbours and a
  closed market keep that for any border, which is why the number of moves does not
  matter.
* `ClientsInv`: a task has its client open exactly while it holds the semaphore, the
  holders are at most as many as it admits, and there are none outside the pairing.
* `HedgeInv`: what the command answers is the list of the kept pairs in the order of
  the key (`PortfoliosOrdered`), which is total because equal keys are told apart by
  their place (`Compared`). Tiers are told by coverages, so that the key orders by coverage
  first. `HedgesHold` then needs only the two sides of one pair.

`CommandsProofs`: `CommandsSpec` implements `PreflightSpec`, `HedgingSpec` and `PositionsSpec` (a step of
the command line is one of the script it runs, or of the buys around it, or a stutter to
it), so that what is proved of a script by itself holds when it is run as a command
(`ChildrenHedgeWell`).

`PassIsEarned` speaks of a probe that is
over; `ProbeInv` says what leads there. What was wrong with the inputs stays a reason
until the verdict (`InputsKept`); while there is no reason against it, every answer
heard so far is in favour, and a session that heard all its answers has no gap
(`Favourable`); the verdict to be written is earned, and only the last write makes an
artifact of the run (`Told`).

For the positions, `PositionsInv` says where a row comes from. Every row shown is the row of
a stored position or of a remote one that none claims, and no two are the same one
(`RowsShown`, which survives the filter and the choice of one row because those only
pick rows). What was handed in, and so what was read of the journal, is of buys, with their orders (`HandedOfBuys`, `OfBuys`);
what was read of the exchange is so, each token once (`AsHeld`), in whatever order and
with whatever ids it answers (`AnswersAreHeld`). Two rows of a token are then a
stored and a remote one that does not name it (`RowsAreSingle`). That what was stored is
listed is carried, while writes do not overlap, from the journal to what was read of it
(`StoredAreThere`) to the rows (`StoredHasARow`). `CommandsShareTheJournal` shows that the command line
implements `Journal` too.

Other assumptions: `FactoryAssumption`, `StorageAssumption`, `BridgeAssumption`,
`TradingAssumption`, `WalletAssumption` (which has `Gas <= Headroom`, and that `None` is no mode,
account, outcome or number), `MarketsAssumption` (`None` is no price
and no result), `HedgingAssumption` (there is a worker and an
attempt, and `None` is no relation), `PositionsAssumption`, `PreflightAssumption`. No bound of
a run is assumed.

`PROJECT.json` lists, besides the theorems about properties of the runs, some that no
run checks by name: `BuysUseTheJournal`, `CommandsShareTheJournal`, `TypeCorrect`, `InitializesOnce`, `NonceIsConsumedOnce`, `ProposalsAreCurrent`, `FileStaysWhole`,
`NoUpsertIsLost`, `ReadersSeeWholeFiles`, `LocksAreReleased`, `TradingInvariant`, `HedgingTypes`, `ChildrenHedgeWell`,
`CommandsRunProbes`, `CommandsRunHedges`, `CommandsRunViews`.

Model-checked only: liveness (`OperationsEnd`, `BuysEnd`, `CallsEnd`, `CommandsEnd`,
`EveryCommandEnds`), which is beyond the prover. Every invariant and every action property of
a passing run is also proved.

No liveness is claimed for vault and factory: nobody is obliged to call them.

## 5. Plan

Order of work, the most important behaviour first:

1. `MandateRules`, `MandatedVault`, their runs and proofs (done).
2. `VaultFactory`: CREATE2 salts, front-running, registry, with proofs (done).
3. `Journal` and `PositionStorage`: lock, temporary file and rename, crashes and
   concurrent processes, the refinement, with proofs (done).
4. `Trading`: one buy through retries, polling and the journal (done).
5. `McpBridge`: requests, answers, the end of the child process, with proofs (done).
6. Configuration and wallet: which environment permits which command, the vault
   behind the bridge, the funding plan, approvals and withdrawals, with proofs (done).
7. The reading commands, hedging, the probes and the command line (done).
8. Proofs of the perimeter and the native currency of the vault, of the trading
   invariants, of the wallet's reports and plans, of the probes and of the clients of the
   language model (done).
9. Proofs of the searches, the hedges, the rankings, the positions view and the types of the
   commands (done).
10. `Custody`, what the vault promises, as an abstract specification that `MandatedVault`
    implements, with its proof (done).

## 6. Not modelled

* The adapters (`src/src/adapters`). To the vault an adapter is any code that moves tokens and
  calls back, which `MandatedVault` covers; what is their own (who may call them, slippage)
  is about swaps and money markets whose code is not here.
* The amounts of an order (`src/predict/lib/orderbook.py`): decimal arithmetic over a
  book; its refusals are the failing branch of `Prepared` in `Trading`.
* `src/predict/lib/hedge_matching.py` and `src/predict/lib/openrouter_client.py`: only tests use
  them. The prompts are text.
* Fixture clients and mocks: constant data for tests.
* Deployment scripts: they sequence external tools.
* Redaction, formatting, tables, legacy field names of stored positions, `.env`.
