# bc-forge in TLA+

bc-forge is a token platform on Soroban (Stellar): a set of Rust contracts, an
indexer that follows their events, a TypeScript SDK, a command line tool and
React components.  This directory models the parts in which the order of events
decides whether the system is correct, checks the models with TLC and proves the
properties that matter most with TLAPS.

## The system

| Part | State | Operations | What is hard about it |
|---|---|---|---|
| token (`contracts/token`) | balances, supply, cap, allowances, lockups, nonces, pause flag, metadata, fees | initialize, mint, transfer, burn, approve, `*_from`, lock/withdraw_locked, batch_mint, batch_transfer, execute_from_contract, set_max_supply, pause/unpause | lists that fail half-way, self-transfers, locks against every debit path, allowances that expire, arithmetic at `i128::MAX` |
| admin: roles (`contracts/admin/src/rbac.rs`) | configured admin, role bit mask per address | set_admin, grant_role, revoke_role, renounce_role | Admin implies every role, "last SuperAdmin" guards |
| admin: privilege (`privilege.rs`) | one proposal per privileged action | propose, cancel, consume | clocks, re-submission, effect functions of another crate |
| admin: multisig (`multisig.rs`) | pool, threshold, legacy proposals, role proposals, upgrade proposals | create, approve, cancel, execute (5 ways), submit/approve upgrade | two clocks (ledgers, seconds), pool and threshold changing between votes |
| lifecycle, rate-limit, ttl | pause flag; counters; rent | pause, check, extend | each entry point must ask; counters written before a refusal |
| vesting | schedules, milestones, authorized claimers | create, release, revoke, set_milestones, claim_on_behalf_of | releases against a vault, milestones replaced |
| split | invoices, failed payouts | create, release, retry | partial payouts, retries |
| wrapper, yield_vault, flash_loan_guard | shares, assets, queued withdrawals, last deposit ledger | wrap, deposit, withdraw, claim, distribute | rounding, cooldown queue, same-ledger rule |
| indexer (`indexer/src`) | event rows, holders, supply points, cursor, checkpoints, webhooks | poll loop, processEvent, reconcile, deliver, page | restarts between any two writes, duplicate events, reorganisations, swallowed database errors |
| sdk (`sdk/src`) | a transaction in flight, a read cache, a listener's cursor | about 140 methods of three clients, submit, retry, listen | lost answers, two layers of retries, rebuilt transactions, stale reads |
| react (`react/src`) | wallet machine, session, clients, hook state, submissions | connect, disconnect, setNetwork, restore, fetch, refetch, submit | answers out of order, overlapping calls, unmounting |
| cli, migrations (`cli/src`, `migrations`) | registry, artifact, history, configuration, address book; transactions | deploy, register, upgrade, rollback, orchestrate, account, migrate | several processes on one file, kills, partial deployments, re-runs |
| scripts | - | release tooling | - |

The admin, lifecycle, rate-limit and ttl crates are libraries: every contract
links them and their state lives in the contract's own storage.  Contracts call
each other (vesting, split and wrapper call a token); the indexer reads events;
SDK, CLI and React send transactions, React through the SDK.

The host runs contract calls one at a time.  A call that returns an error or
panics is undone completely (`overflow-checks` is on, so an arithmetic overflow is
a panic).  A contract model's action is therefore a call that succeeds; its guard
is what the call checks.  In the TypeScript parts an action is the code between
two awaits, two system calls or two database transactions.

## Modules

| Module | Stands for |
|---|---|
| `Rbac` | the role state of the admin crate and the operations on it; extended by the contracts that link the crate |
| `Token` | the token contract |
| `TokenLedger` | what the token promises an observer between calls |
| `Privilege` | the privileged-action timelock with `set_fee_config` and `transfer_ownership` |
| `Multisig` | pool, threshold, legacy and role proposals, upgrades |
| `Vesting`, `Split` | the vesting and the split contract |
| `Indexer` | the indexer's loop and database |
| `IndexerApi` | `Indexer` with its webhooks and the clients that page through its tables |
| `SdkMethods` | the methods of the three SDK clients, the contracts' interfaces, the error tables |
| `SdkTx` | one SDK call from the method to the ledger and back, and the cached reads beside it |
| `SdkEvents` | the SDK's event listeners and decoders |
| `Sdk` | an application that makes a call and listens (`SdkTx`, `SdkEvents`) |
| `ReadHooks` | the React hooks that read, and the hooks whose transactions make them refetch |
| `Wallet`, `Submission` | the wallet provider; `useTransactionSubmission` |
| `App` | a page with both |
| `CliDocs`, `Cli` | the documents the command line keeps; its commands and the RBAC migration |
| `TokenProofs`, `SdkProofs`, `AppProofs`, `ReadHooksProofs`, `CliProofs` | theorems about the module of that name |
| `AdminProofs` | theorems about `Privilege` and `Multisig` |
| `BooksProofs` | theorems about `Vesting`, about `Split`, and about `Indexer` with `IndexerApi` |
| `SumProofs` | lemmas they share: sums over a finite function |
| `MC...` | constants for TLC |

Definitions after a comment "Mutant" are deliberately wrong variants of the
definition that follows; no specification uses them.  They record a slip in the
code that the property would notice.

### Rbac

`roles[a]` is the set of role bits of `a`; `HasRole` is `has_role` (the Admin bit
implies the others), `IsAdminOrPauser` reads raw bits as the code does.  Zero
addresses are rejected by every entry point and are not in `Addr`.  The separate
storage keys older contracts used per role are read as a fall-back and hold the
same roles, so they are not modelled.

### Token

A call with one effect is one action.  The three list calls are run step by step:
`...Begin` makes the checks before the loop and saves what a rollback restores,
`CallItem` is one iteration, `CallCommit` and `CallAbort` end the call.  While a list
runs no other call does (`Idle`).  `CallAbort` is taken when an element fails its
check and, since the rate limiter is not modelled, may be taken at any element the
limiter is asked about.  `MaxInt` stands for `i128::MAX`; additions beyond it are
disabled, as they panic.

`TokenLedger` knows nothing of lists, allowances or roles: its steps are an issue
under the cap, a payment debiting one account out of its unlocked balance, a
redemption, a lock change and a configuration change.  `Token` implements it with
the refinement mapping that shows the saved state while a list is running, so a
list is one step, or none when it is rolled back.
The ledger says who may be debited, when and by how much; that the parts add up is
`Conservation`.  The two together make a payment keep the sum of the balances and an
issue credit exactly what it adds to the supply.  That an error undoes the whole of
a list is the host's doing and is assumed (`CallAbort`).

Not in the model: metadata, treasury and fee exemptions (stored and returned, read
by no other call), `rescue_tokens` (moves another contract's tokens).

### Privilege

`proposal[p]` is the stored proposal of action `p`; a `TransferOwnership(a)` action is
the address `a`.  `SetFeeConfig` carries no configuration in the code, so whoever
executes picks one.  `proposed`, `effected` and `cancelled` count what happened, for
the properties.  The role calls and `set_admin_pool` run beside the timelock since
they decide who may propose and who is the last SuperAdmin.  Names that `Multisig` has
too carry a prefix (`PrivilegeSpec`, `RotateAdminPool`, ...), so that one module can hold
the proofs of both.

### Multisig

`props[i]` joins the three storage entries of one legacy proposal (`Proposal`,
`ProposalTimelock`, `RoleGrantProposal`).  `seq` and `now` are the ledger number and
the timestamp; expiry is measured in the first and the timelock in the second.  The
model covers the library's whole interface: the token contract itself exports
`create_proposal`, `create_role_proposal`, `approve_proposal`, `execute_role_proposal`,
`set_admin_pool` and `execute_upgrade`; `mark_executed`, `cancel_legacy_proposal`,
`execute_upgrade_batch`, `emergency_execute_upgrade` (and, in `Privilege`,
`renounce_role`) are public functions of the crate a contract may export.

### Vesting

`schedules[i]` joins `StoredVestingSchedule` and its milestones.  `vault` is the
contract's balance at the token and `wallet` what it paid to whom; `returned` and
`reshaped` are history.  Each call is one action: the loop over a beneficiary's
schedules writes each of them from itself alone, so its order does not matter, and
the one transfer follows it.  A claim or a revocation the vault cannot pay is undone.
Tokens sent to the vault by others are left out; they can only hide a shortfall.
`calculateVestedAmount` is not the contract's but the React page's own arithmetic
(`react/src/hooks.ts`); `PageIsBacked` compares the two.

### Split

`invoice`, `failed` and the contract's `balance` at the token, with `paid`, `creates` and
`releases` as history.  The loop of `release_payment` is `PayAll`, a recursive function of
the number of recipients done, since each payout sees the balance and the failure records
its predecessors left.  The contract has no entry
point that sets its first admin (its tests call the admin crate from inside the
contract), so the model starts where the admin is set.

### Indexer and IndexerApi

`chain` is the network, a sequence of ledgers whose hash names the fork they were
closed on; a reorganisation replaces a suffix.  `cursor`, `checkpoints`, `rows`,
`holders`, `supply` are the tables; `pc`, `lastLedger`, `startLedger`, `endLedger`,
`coordinates`, `events` are the loop's variables and are lost by a restart, which may
happen at any `pc`.  One action is one RPC call or one database transaction: storing an event's row
with its aggregates is one, publishing it the next, moving the cursor with the
checkpoints another.  The faults are RPC calls that fail or answer with part of a page,
database writes that fail, an operator who resets the cursor by hand, and a database
left by an older version, with a cursor at some ledger (`old`) and without hashes.  Every
answer of `getLedgers` may end early: while the hashes of an older database are filled in,
while a range is fetched, and while a cursor is reconciled, where a missing ledger counts
as one with another hash.  `getEvents` is asked once per range, so an answer is its first
`PageLimit` events.  A reorganisation may drop a transaction, put it into an earlier or a
later ledger, or bring in a new one.  `lost` and `rewound` are history: the events the loop
went past or pruned and left without a row, and whether rows have been pruned.
`IndexerApi` adds the webhook rows, the deliveries that run beside the loop (`jobs`),
the POSTs a target took (`posts`) and one client that pages through a table (`walk`)
while the loop inserts and a rewind deletes.  `place` is the order the tables are listed
in, by creation time and id, newest highest; a new row comes first or, with the same
creation time and a lower id, just behind it.  A row that is deleted and indexed again
is a new row with another id, so a client that has the old one has not got the new one
(`Tables`), and a cursor that names the old one names nothing.

### SdkMethods, SdkTx, SdkEvents, Sdk

`SdkMethods` gives each method as a record: the way it goes (invoke, query, cached
read, build, simulate), the entry points it tries, its arguments, and what it answers
when all fail; beside it the interfaces of the contracts and the error tables.
`SdkTx` runs one such call: `pc` walks through building, simulating, signing, sending,
polling and the rebuilds after a sequence or fee error, inside `withRetry`.  `txs` holds
the transactions the call put on the network and whether a request about each went
unanswered (`silent`).  The network loses requests and answers, applies late, raises its
fee and takes other transactions of the account.  `readers` are cached reads.
`SdkEvents` has the log of emitted events, the listener's cursor, the transactions it
has seen, and what its callback took; a page is handed over in the order of the chain
(`InChainOrder`).  An argument is modelled by the shape it is sent in (`Encoded`) and a
parameter by the shape the contract decodes (`Decodes`): a symbol is not a union, and a map
with unsorted keys is not a struct.  A call whose arguments do not decode is refused like
one to a missing entry point (`CanTake`).  A return value may fail to decode after the
transaction was executed; the transaction is then `garbled`, and the failure runs through
`withRetry`, as in the code.  The bytes of the values are left out; a decoder of events is
modelled by the number of fields it accepts.

### ReadHooks

A hook is a record of what distinguishes it from the others (which answers it lets
through, what it clears, which input it refuses, whether it polls, caches or listens);
the records are read off the hooks' code one by one.  `inst` is the state of one
mounted hook, or two for hooks with a module-level cache, `calls` the requests under
way, `version` what the contract's state has become.  `failData` says whether a failed
fetch clears the data; `useBalance`, `useAccountBalance` and `useTokenAllowance` keep it.  Renders with another input,
polls, refetches, unmounting, confirmations and answers interleave.

### Wallet, Submission, App

`nets[g]` and `signer[g]` are the clients built so far and the adapter each holds; hooks
of an earlier render keep using an earlier client.  `task[a]` is where the connect call
with attempt number `a` stands; `waiting` are the connects that wait for the Albedo script
and have no number yet.  `quit` and `crossed` are history: a disconnect after which nothing
was asked for (a connect that was waiting for the script was asked for before it), and how
a call went on out of turn: after its hardware probe ("probe"), from a client that a
network switch replaced ("client"), or out of the script wait after a disconnect
("script").  `Submission` has the shown state `ui` and who answered for its confirmation
(`by`), the run numbers, and the transactions `sent` to the network; `blind` are the runs
that lost sight of one.  An action either has a `pollStatus` of its own (`hasPollStatus`) or
leaves the polling to the client, which may be unable to (`canPoll`); its send returns a hash,
or an object, which is taken for a success without polling when there is no `pollStatus`.

### CliDocs and Cli

`files` are the documents on disk, each a function from the keys its commands
distinguish; `Torn` is a file truncated and not yet filled.  `proc[p]` is a process in the middle of a
command; between two awaits or two system calls any other process may run, and any
process may be killed.  `pool` holds the transactions sent and neither applied nor
dropped, `chain.done` what was applied.  The contract is fresh, initialized, or owned by a
legacy admin without a role.  Operators may name any contract, so `chain.serves` says which
calls it accepts: `Calls` are all the commands make, `OwnCalls` those that the contracts of
this repository accept with the arguments that are sent.  `Given` and `Named` are the
contracts a command line names to connect and the ids it gives to an export.  `told`, `owed`
and `spoiled` are history: everything commands reported, the contents their completed writes add up to, and the documents of
which two writers overlapped or a writer was killed.

## What the runs check

A run's property is often a conjunction of named parts that make one point; the
parts are defined and explained in the module.

* `token_calls` - two accounts; lists of up to two elements, locks, pause and caps as long as
  nobody has been given an allowance or a role, and beyond that either expiring allowances
  or role changes, with lists of one, two tokens and two ledgers (`Explored` in `MCToken`).
  `IndInv` (types and bounds, `LockedCovered`, `ListCallInv`, `UninitializedEmpty`),
  `Conservation` (balances add up to the supply, also inside a list and in what a
  rollback restores),
  `BatchTransferFunded` (the check before the loop is enough), the refinement
  `LedgerSpec` and `DebitsAreAuthorized`.
* `privilege_timelock` - two addresses, two submissions per action, a delay of one.
  `IndInv` (`ProposalsAccounted`, `LiveWaits`, `EffectsAreSpaced`), `LiveUntilConsumed`,
  `OwnershipMoves`.
* `multisig_flow` - two proposals, three addresses, three pools.
  `ExecutedAsProposed` (`OneShot`, `GrantsComeFromProposals`, `ClocksRun`), `ProposalsMoveForward`,
  `UpgradesWait`.
* `vesting_claims` - two schedules of three tokens over two ledgers, three milestone
  lists, one delegation.  `Consistent` (`Accounted`, `CliffHolds`, `WellFormed`),
  `RevocationDivides`, `PageIsBacked`.
* `split_payouts` - two invoices of three tokens for two recipients, paid out of at
  most five tokens, each id created at most twice; one list names a recipient twice.
  `PaidOrOnRecord` (`InvoicesInOrder`, `FailuresAreIsolated`), `FullMeansPaid`.
* `indexer_service` - nine scenarios: the loop by itself with reorganisations, a fault, a
  restart and a cursor reset, on a new and on an older database, with full pages, and
  with a transaction that moves twice; the service with webhooks; a paging client beside a
  rewind or beside insertions.
  `AggregatesMatchRows` (`HoldersMatchRowsUntilRewind`, `SupplyMatchesHolders`,
  `HoldersAddUp`, `UndisturbedChain`, `RowsAreAPrefix`), `CheckpointedIsIndexed`
  (`NothingStepsOver`, `CheckpointsReachDown`, and what makes them inductive),
  `ClientsAreServed` (`WalkSeesEveryRow`, `CursorDividesTheRows`, `PostsAreWarranted`, `JobsAreOpen`),
  `PublishedOnce`, `ServiceProgresses` (`CatchesUp`, `DeliveriesEnd`).
* `react_reads` - every read hook whose record differs, each beside a submitting hook,
  two inputs, three calls, one confirmed transaction.  `ShowsItsInput`
  (`SettledMeansCurrent`, `DisconnectedShowsNothing`, and what makes them inductive,
  `PromisesAreKept` and `CallsKnowTheirInput`), `AnswersAreTimely`
  (`ForcedIsFresh`, `QuietAfterUnmount`), `ComesToRest` (`LoadingEnds`, `AnnouncedIsShown`).
* `sdk_app` - every method, two attempts in each of the two loops; either a shared
  account with rising fees, or two cached reads beside the call, or one with a pinned ledger, or a listener of each
  kind over three ledgers of events.  `SendsAreJustified` (`RepeatsOnlyAfterSilence`,
  `OneIsOpen`, `FeeIsBounded`), `ResultIsTheOutcome`, `ReadYourWrites` (with `CacheIsFresh`),
  `InterfaceMatchesContracts`, `DeliveredInOrder` (`InOrderOnce`, `NothingSkipped`,
  `ListenersRemember`), `AppProgresses` (`CallSettles`, `EverythingArrives`).
* `react_app` - up to three events of user or browser on five kinds of page
  (restoring, with other tabs, full or blocked storage), two submissions with one retry
  and two polls.  `SignerIsShown`, `DisconnectHolds`, `SubmissionsLandOnce`,
  `OnlyTheCurrentRunShows`, `PageSettles`.
* `cli` - two processes, two or three commands, one menu of commands for each file or
  contract they share, with a contract of this repository or one that accepts every call,
  one kill, up to three lost answers.  `ReportsAreTrue`
  (`ReportedIsApplied`, `HistoryWasInstalled`, `ArtifactsAreReady`, `ProcessesAreJustified`),
  `FilesAreKept` (`RegistryNeverTorn`, `NothingForgotten`, `WritersAreOrderly`), `CommandEnds`.

Two runs refute what the repository says of itself.  In `vesting_overrelease` it is a comment: `vested_amount` is said to be clamped
so that a "milestone can accelerate but never over-release"
(`vesting/src/lib.rs:198`), but milestones set after a revocation pay a schedule's
tokens out twice.

In `cli_migration` it is the upgrade guide.  The migration script is "a one-shot, idempotent
operation" (`docs/UPGRADE_GUIDE.md:315`) that "Verifies the admin now has the SuperAdmin role"
(`:311`), so run again until it succeeds it should report that role (`MigrationConverges`).  Over
a contract of this repository it never does, with nothing failing and an operator who
repeats it for ever: its first query, `has_admin`, is exported by no contract.

### Exceptions the properties state

Many properties hold with exceptions the code has.  Each is in the property's formula and
in its comment, so that a new one would be noticed.

| Property | Does not hold |
|---|---|
| `HoldersMatchRowsUntilRewind`, `HoldersAddUp`, `PublishedOnce` | after a rewind, which prunes rows and leaves balances |
| `NothingStepsOver` | for an event beyond the page of `getEvents`, one whose write failed, a second one of its transaction in the same table, one whose row a rewind pruned after its transaction had moved below; for the ledgers of an older version's database |
| `CheckpointsReachDown` | after a rewind; below where an older version had stopped; for a cursor set by hand |
| `UndisturbedChain` | rows are pruned without a reorganisation after an answer that ended early, and after a cursor set by hand into an older version's ledgers |
| `SupplyMatchesHolders`, `RowsAreAPrefix` | after a reorganisation, a rewind or a lost event |
| `CatchesUp` | while the ledger the process started from is off the chain |
| `WalkSeesEveryRow` | for rows deleted meanwhile, and when the cursor's own row was deleted |
| `RepeatsOnlyAfterSilence`, `ResultIsTheOutcome` | a request about the transaction got no answer, or its return value did not decode |
| `FeeIsBounded` | the resource fee is added once more |
| `ReadYourWrites` | for a read at a pinned ledger, or at none, when another read was in flight or the transaction came in signed |
| `CallsMatchContract` | for the entries of `NotExported` (no contract has them) and of `Misencoded` (a role or a list of recipients does not decode) |
| `NothingSkipped` | for pages that end inside a ledger, callbacks that throw, second events of a transaction |
| `SettledMeansCurrent` | data: when the fetch for the input failed and the hook keeps the data it had (`FailureKeepsData`); all of it: for hooks that do not number their requests, and after an `approveAndRefetch` beside a newer fetch or input |
| `NoHiddenSigner` | after a superseded call whose hardware probe answered, or a call of a replaced client, went on |
| `DisconnectHolds` | after the answer of a hardware probe, or a connect that was waiting for the Albedo script, came in |
| `ConfirmedIsApplied` | nothing can poll for the hash; the send returned an object and the action has no `pollStatus` |
| `ReportedIsApplied` | for the reports of `Unchecked`: pause, links, the SuperAdmin of a skipped verification, exported ids |
| `ArtifactsAreReady` | for ids given to `export-deployments` |
| `NothingForgotten` | a second writer overlapped, a writer was killed, or `deploy --out` replaced the document |

### Bounds

Contracts: two accounts are enough for every pair of sender and receiver, including
the same one; amounts 0, 1 and 2 with a `MaxInt` of 3 reach the overflow and the
empty balance; two list elements reach "first applied, second fails"; three ledgers
reach before, at and after an expiration or an unlock time.  In `Multisig` three
addresses allow a rotation that keeps one member, two proposals allow a batch, and
the ledger bound reaches one past the expiry.  In `Vesting` three ledgers reach
before, at and after a cliff and the end itself, from which on nothing changes, and
three tokens over two ledgers make the line round down.  In `Split` five tokens pay one
invoice of three and part of a second, and five releases reach the limit of three
failures.  For a list that names a recipient twice `FailuresAreIsolated` says nothing: the
second failure overwrites the record of the first.

Indexer: three or four ledgers in ranges of two (`Batch = 1`) give a range that is split, a
range that is extended, and a fork below, at and above the cursor; one of each fault meets
every step of the loop.  A `PageLimit` of four events is less than the six of two
transactions in one range and enough for each alone; a `Lookback` of two is less than the
ledgers there are, so a scan may end above a fork.  ReadHooks: two inputs and three calls are what a stale answer
needs (old call, new call, refetch).  SDK: two attempts in each loop reach "repeated",
"rebuilt and repeated" and "gave up".  App: three events reach connect, disconnect or
switch in between, and connect again.  CLI: two writers are enough to lose an update,
three commands for upgrade, upgrade, rollback.  `smoke-test --watch`, which repeats the test
until it is interrupted, is outside the model.

Deadlock is checked in `indexer_service` only, whose loop never ends.  Elsewhere the
models stop with every counter at its bound: a contract nobody calls does nothing, and
a call, a page and a command end.

### Fairness

* `IndexerApi`: weak fairness of the loop (it has no exit, and every await in it is
  bounded) and of deliveries (a POST is abandoned after ten seconds).  Nothing is
  assumed of the network, clients or faults.
* `ReadHooks`: a request ends, with an answer, an error or a timeout.
* `Sdk`: the steps of the call and of the listener; their requests time out, their
  polls are counted and their timers fire.
* `App`: the wallets answer, the stages of a submission return and timers fire.  The
  code does not bound a user's answer in the wallet window; `PageSettles` says that
  the page does not hang by itself.
* `Cli`: a started command runs on unless it is killed, the network settles what it
  has taken.  The code sets no time-out on `getTransaction` and on the `stellar` processes it
  starts, so `CommandEnds` rests on each of them returning.  For `MigrationConverges` the
  operator runs the migration again; it is refuted all the same.
* Contracts: none.  A contract runs only when somebody calls it, so no liveness is
  stated.

## What is proved

For every value of the constants that satisfies the `ASSUME`s of the modules: any set of
addresses (finite where sums are taken), roles, amounts, delays, fees, readers,
schedules, proposals and bounds.  An inductive invariant is always part of a property
some run checks, so TLC has seen it on the run's instance.

`TokenProofs`

* `IndInvHolds`, and from it `TokenTypeCorrect`, `LocksStayCovered`,
  `ListCallsKeepBounds`; `SupplyIsConserved`, `TransfersStayFunded` - invariants.
* `PauseFreezes`, `LocksAreHeld`, `MintsStayUnderCap`, `DebitsNeedAuthority` - action
  properties.
* `TokenImplementsLedger` - the refinement.

The inductive invariant is `TypeOK`, `LockedCovered`, `ListCallInv` and
`UninitializedEmpty`.  `LockedCovered` alone is not inductive: a rollback restores
saved balances, so the lock must also be covered by those, and a list must be known
to have debited nobody but its caller; that is `ListCallInv`.  `UninitializedEmpty`
(no balance and no supply before `initialize`) is needed because `initialize` writes a
supply of 0 and a cap.  For the same reason `Conservation` is stated of the saved
balances and supply too.  It assumes that `Addr` is finite: a contract's storage holds
finitely many balances.

`SumProofs` has what these proofs need of `SumFunction`, the sum over a function with a
finite domain: that it exists and is unique, its type, and how changing, adding or
removing one argument changes it.  The library's induction theorems take an operator
as a parameter, which no installed prover can instantiate.  The lemmas argue by a least
counterexample instead: strict inclusion between the finite subsets of a set is well
founded, so a non-empty set of subsets on which a claim fails has a minimal member,
and one element less refutes it.

`AdminProofs`, on `Privilege`

* `IndInvHolds`, and from it `PrivilegeTypeCorrect`, `ProposalsStayAccounted`,
  `EffectsStaySpaced` - invariants.
* `LiveEndsByUse`, `OwnershipMovesByProposal` - action properties.

`EffectsAreSpaced` needs `LiveWaits`: a live proposal's time lies one delay behind
everything its action has done so far.

`AdminProofs`, on `Multisig`

* `ProposalsTakeEffectOnce` - invariant.
* `ProposalsOnlyMoveForward`, `UpgradesWaitTheirDelay` - action properties.

`OneShot` counts the executed proposals, so each way to execute must take exactly one
index out of the rest, and a batch exactly as many as it has.  `UpgradesWait` rests on
`ClocksRun`: the timestamp follows the ledger number, and a timelock that runs was set
no earlier than a delay after its proposal was made.

`BooksProofs`, on `Vesting`

* `InvHolds`, and from it `BooksBalance`, `RevocationsDivide`, `PageStaysBacked`.

`Consistent` and `RevocationDivides` are inductive together.  That a payout stays under
the total needs "what is released was vested", which is kept only because vesting is
monotonic in the ledger number; this rests on the order of start, cliff and end and on
positive tranches (`WellFormed`), and on integer division being monotonic.  The books
are sums over all schedules and over all wallets and use `SumProofs`.

`BooksProofs`, on `Split`

* `SharesArePaidOrOnRecord`, `FullInvoicesArePaid` - invariants.

Both are about one invoice at a time (`GoodInvoice`).  What the loop does is proved of
`PayAll` for every list of recipients: the function exists, and its claims hold for every
number of recipients done, because a least number for which one fails would be refuted by
its predecessor.  The claims are that records and balances keep their types
(`LoopTyped`), that the sum the loop keeps is what left the balance and what the recipients
got (`LoopPays`), and, when nobody is named twice, that each of them was paid his share, has
it on record, or had used up his retries (`LoopIsolates`).  `InvoicesInOrder` carries from
`create_invoice` to the loop that shares are positive and add up to the total, without
which the sum could reach the total with somebody unpaid.

`BooksProofs`, on `Indexer` and `IndexerApi`

* `CheckpointsAreIndexed`, `AggregatesStayRight`, `ClientsAlwaysServed` - invariants.
* `EventsArePublishedOnce` - action property.

For any finite set of accounts, any transactions with any lists of events, any batch
size, page and lookback, and any numbers of ledgers, reorganisations, faults, restarts, resets,
webhooks and walks.

That a checkpointed ledger has its events stored (`NothingStepsOver`) is a promise made
long before the checkpoint is written.  `RangeIsUnderWay` makes it for the ledgers of the
range: an event of one that is still on the chain has its row, was dropped, or is still
in `events`; when `events` is empty the range may be committed.  It survives a
reorganisation, which can only take ledgers off the chain, because the hash of a ledger
names its fork.  It survives a rewind to a common ledger because what the rewind prunes
either belongs to ledgers whose checkpoints go too, or to a transaction that has moved below
the common ledger, and then the event is among the lost.  What the page of `getEvents` cut
off is lost from the moment the page is taken.  `CheckpointsReachDown`
needs the cursor and the loop's copies of it related at every `pc`
(`LedgersWereAnswered`, `RangeIsFetched`).

Until a rewind what was published has a row, so an event without one has not been handed
out; this gives `PublishedOnce`.  The balances are sums over the rows, and each row is
stored with its deltas; the supply is not a sum but the number the latest event reports.
The two agree on a chain without a reorganisation because the rows are those of the
events up to some event of the chain (`RowsAreAPrefix`) and the events under way come in
its order (`UndisturbedChain`), so the reported number counts exactly the mints and burns
that have rows.  That such a chain is not rewound is proved for answers that are complete
and a cursor that was not set into an older version's ledgers (`Calm`): then every
checkpoint is found in the answer of the ledgers it came from.  `getEvents` is a recursive function of the last ledger; that it returns
the events of the range, each in its place and in order, is proved by a least ledger for
which it does not.

A walk is complete because its cursor divides the rows that were there at its beginning:
those above it have been seen (`CursorDividesTheRows`).  A row that is inserted goes
above every cursor or just behind the first row; neither moves a row across one.  For the
webhooks, `JobsAreOpen` says that what is to be done for a target has not been done: its
earlier attempt failed, and while the targets are loaded none has been called.

`SdkProofs`

* `CallInvHolds`, and from it `SendsStayJustified`, `ResultsAreOutcomes`, `WritesAreRead`.
* `EventsArriveInOrder` - the invariant of the listeners.

The argument is `OneIsOpen`: a transaction that may still take effect, or has, and is not
`Uncertain` (no request about it went unanswered, and its value decoded) is the last one signed, and the call is polling
for it or has reported its success.  So nothing is rebuilt, retried or given up on while
one is open, through both layers of retries.  For reads it is `CacheIsFresh`: the
contract's state changes only together with the ledger number, so what is cached
under the latest ledger is of now; the number of executed transactions never goes
down.

That a listener hands over every event in order, once, and skips only what is excused is
not inductive: an event is passed over because its transaction was seen, so the listener
must be known to have seen it for a reason.  `ListenersRemember` says which: a seen
transaction had an event that is behind the listener by now or one its callback threw on,
and what was handed over is behind the ledger it asks from.  Then the next page begins
above everything handed over and the order carries over from page to page.

`AppProofs`

* `SubmissionsStayHonest`, `SubmitTypeCorrect`, `SignerStaysShown`, `DisconnectsHold` -
  invariants.
* `SupersededRunsAreSilent` - action property.

`RunsKnowWhatTheySent` strengthens the first: which of its transactions may still land
is known of a run at every stage, unless it is blind; and a confirmation for which nobody
was asked carries the reason (`by`).  For the wallet,
`CallsKnowTheirClient` relates every call under way to the client and the adapter it was
begun with, and `WalletTypeOK` says how many client, adapter and attempt numbers are
left, so that the model's bounds on them are never what stops a step.

`ReadHooksProofs`

* `HooksShowTheirInput` - invariant.
* `AnswersComeInTime` - action property.

What a hook shows is its input's, but for the data a failed fetch keeps, because of what its calls know (`CallsKnowTheirInput`): a
call carries the request number of its start, every fetch takes the next one, so the
call with the present number asked for the present input, unless an `approveAndRefetch`
fetched for the input of its closure.  A balance hook that loses its input takes a number
without a call, so no answer passes.  A forced metadata fetch is answered in time because
promises are numbered and sent at one moment (`PromisesAreKept`).  A version is made by
a submission that settles, so versions and open submissions together stay under the
number submitted.  The functions on pages (`Fetch`, `Effect`, `Call`,
`notifyTransactionConfirmed`) have a lemma each, which the actions cite.  Of the table of
hooks the proof uses a few facts (`HookFacts`), by cases over its 21 rows.  Assumed: the
inputs that cannot be fetched, and null, are no keys, null is no value, and the pairs
are of hooks in the tables.

`CliProofs`

* `ReportsAlwaysTrue`, `FilesAlwaysKept` - invariants, inductive together (`IndInv`).

A report is true because of what the process knew when it made it.  `ProcessesAreJustified`
says at every stage of every command which facts are on the chain by then; a fact on the
chain stays there, and an answer a process waits for is about a transaction that is in
the pool or done.  Reports that no answer stands behind (`Unchecked`) are carried like the
others and promise nothing.  For the files, `WritersAreOrderly` says what a process carries between
its read and its write: a whole document with its command's additions (`Merging`), and, as
long as no second writer or kill interfered, that the process that has truncated a file is
alone and read exactly what the completed writes add up to (`WriterIsAlone`).  Each command
has a lemma per stage; the steps the commands share (reading, truncating, filling,
being killed) are proved once.

Only model-checked, and why:

* all liveness (`PageSettles`, `AppProgresses`, `ServiceProgresses`, `ComesToRest`,
  `CommandEnds`): fairness and `ENABLED` are out of the prover's reach;
* `InterfaceMatchesContracts`: a comparison of tables, which TLC evaluates in full.

## Where code and comment differ

Met while the models were written; the models follow the code.

Contracts

* `renounce_role(Admin)` and `revoke_role(Admin)` are not covered by the
  last-SuperAdmin guard (`rbac.rs:656`), so nobody may be left who can grant roles, against "recovery
  must never depend on a chain with no one able to grant roles" (`privilege.rs:215`).
* `emergency_execute_upgrade` (`multisig.rs:1240`) executes cancelled and expired
  proposals, against "a cancelled or expired proposal can never be approved or executed
  again" (`admin/src/lib.rs:197`), and compares the number of approvals with the size of
  today's pool (`:1266`), so approvals of former members make up the count that is to
  come "from **every** admin-pool member" (`:1214`).
* A proposal lives 600 ledgers, about 50 minutes, and its timelock lasts 24 hours
  (`multisig.rs:38`): `execute_upgrade` cannot succeed before the expiry.
* A release in which every payout fails leaves the invoice Pending; a retry pays the
  recipient without touching the status, and the next release pays it again
  (`split/src/lib.rs:139`, against the test at `split/src/test.rs:118`).
* `create_invoice` overwrites an existing id and keeps its failed payouts
  (`split/src/lib.rs:241`); a failed retry counts its attempt and undoes the count with its error (`:230`).
* `set_max_supply` accepts a cap below the supply, although `get_max_supply` "can ever
  have" (`token/src/lib.rs:734`) reads as a bound.
* Revoking or renouncing Admin leaves a configured admin without the Admin bit
  (`rbac.rs:697`), which `pause` says it always holds (`token/src/lib.rs:931`).
* Ownership proposals are keyed with their new owner (`privilege.rs:74`), so two are
  live at once, against "One live proposal per action kind" (`privilege.rs:70`).
* A matured transfer to an address that holds the Admin bit panics in `set_admin`.
* Raising the threshold after the clock started removes the review window after the
  completing vote; lowering it leaves a quorate proposal without a clock
  (`multisig.rs:704`).  `UpgradesWait` states the delay that does hold.
* A proposal still executes in its expiry ledger (`multisig.rs:646` against `:36`);
  `set_admin_pool` counts a repeated member twice (`:197`); an upgrade may use up a role
  proposal (`:834`).
* The token's own `upgrade` (`token/src/lib.rs:981`) needs a SuperAdmin and no proposal;
  it replaces the contract's code and no state, and is not an action here.

Indexer

* `lastLedger` is read once at start (`indexer.ts:37`): a fresh process never
  reconciles until it is restarted, and `startLedger` is not wound back after a
  reconciliation.  `CatchesUp` is stated for a start ledger that stays on the chain.
* A rewind prunes rows and leaves holders and supply; deposits, wrapper updates, claims
  and distributions are not pruned at all.  "a re-index cannot apply an event twice"
  (`indexer.ts:152`) holds until a rewind.
* The documented cursor reset (`indexer/README.md:638`) keeps the old hash, and the
  loop then stays where it is.
* Rows are unique by transaction, so the second event of a family in one transaction is
  dropped; database errors are logged and the cursor moves on.
* `getEvents` is asked without a limit and its cursor is not followed (`indexer.ts:97-106`):
  the events of a range beyond the RPC's page are never indexed, and the cursor moves past them.
* A ledger that is missing in the RPC's answer counts as a mismatch (`cursor.ts:83-94`), so an
  answer that ends early rewinds a chain on which nothing has changed; the pruned events are
  then indexed again and their balances applied a second time.
* A kill between the commit and the publication loses the event for streams and
  webhooks, which are never told of a rewind either; if loading the webhooks fails, the
  event is lost for all of them.  A rewind that deletes the row of a page cursor breaks
  the walk.  `/healthz` reports no lag after a restart until the first poll.

SDK

* Plain errors of the wallet path are retried, against "Don't retry on simulation errors or
  missing signer errors" (`client.ts:2251`); the vault and wrapper clients retry every
  error and submit under the default passphrase.
* `assembleTransaction` adds the resource fee once more to a raised fee, which may
  pass `maxFeeCap`; `submitSignedTransaction` does not clear the read cache; the return value
  is decoded inside `withRetry` (`client.ts:2202`, `vaultClient.ts:621`, `wrapperClient.ts:744`), so a
  value that does not decode repeats an executed call, and at last reports it as an error.
* A role is sent as a symbol (`client.ts:149`; "The contract encodes `Role` as a symbol"), but `Role`
  is a union and is decoded from a vector (`rbac.rs:36`); `batchMint` sends the fields of a
  recipient in an order that is not the sorted one of a struct (`client.ts:570`).  Both are
  refused by the contract (`Misencoded`).
* Methods whose entry points no contract exports are listed in `NotExported`;
  `compound_fees` is in no contract and `is_paused` not in the wrapper.  `getRateLimitStatus`
  therefore always answers its default, and `getFlashLoanLockStatus` always "not locked".
* Token codes 18 to 22 are named as admin errors; several React hooks name every
  contract's codes by the token's table.
* The event types `lock`, `unlock` and `clawback` are not the token's; the wrapper's
  delegated transfers and burns do not decode.  The second event of one transaction is
  dropped by `onMint`, `onTransfer` and `onVaultDeposit`; a page that ends in the middle of a ledger
  loses the rest of it; a callback that throws makes `subscribeEvents` deliver again and
  the others lose the rest of the ledger; an unsubscribed listener still delivers the page under way.

React

* A disconnect or a newer connect during a hardware probe is overwritten afterwards
  (`context.tsx:928`, against the comments at `:1003`, `:1017` and `:1060`).  A connect that waits for
  the Albedo script does not look whether the user has disconnected meanwhile (`:994-996`).  A call
  of a client that was replaced sets the page's state and only its own client's signer
  (`:882`, `:951`, `:996`).  A network switch without a
  session to restore leaves the page connected with a client that has no signer.  Restoring
  an Albedo session does not wait for the script and clears the session.
* Hooks other than `useBalance` that number their requests do not count an input that
  becomes empty, `approveAndRefetch` ends loading unconditionally, and hooks that only track mounting show late
  answers of old inputs.  A failed fetch leaves the data of the earlier input beside the
  error of the present one in three hooks (`hooks.ts:960`, `:1703`, `:1967`).  The batch cache has no client in its key.
* A poll that times out, or a transaction that failed on the ledger, is retried as a
  new transaction; without anything to poll, "confirmed" is not checked; an object result
  without `success` counts as success and is not polled for unless the action has a
  `pollStatus`, although the client could (`hooks.ts:3269-3291`).
* The page's vested amount ignores milestones and revocations; `PageIsBacked` states
  when the contract can pay it.

CLI and migration

* `upgrade` sends one argument where the contract takes two, so no contract of this
  repository accepts it.  `getLastGoodHash` returns the
  previous hash of the last entry, which the next entry copies, so the target of a
  rollback is always the first upgraded hash (`upgrade-history.ts:23`); rollbacks and
  upgrades that land after the time-out are not entered; a torn history is replaced.
* `set_admin_contract`, `set_token` and `set_fee_contract` are in no contract, and connect reports
  and records its links as verified whatever happened; orchestrate connects after a failed
  initialization; with `--no-verify` or `--skip-verify` a SuperAdmin is reported as initialized and "Verified ... TRUE"
  (`orchestrator/init-superadmin.ts:186-194`, `orchestrator/orchestrator.ts:55-58`).
* `export-deployments` writes the ids of `--vault-id` and `--fee-id` into the artifact and the aliases
  without asking the chain for them.
* Configuration and registry are read before and written after awaits or by two
  processes, so an update may be lost; a failed deployment forgets its ids; `deploy --out`
  replaces the registry's aliases; pause and unpause report "confirmed" for a transaction that failed.
* The migration calls `has_admin` and `migrate_admin`, which no contract exports (they are functions
  of the admin crate), and `has_role`, which the token does (`token/src/lib.rs:1145`), with a symbol
  for the union `Role`.  `Cli` takes `initialize` as accepted when the contract is fresh; the token
  also asks for its own address's authorization (`token/src/lib.rs:579`).  A contract that exported them all would not help: `has_role` does not
  read the `SuperAdmin` entry that `migrate_admin` writes (`rbac.rs:408`).

## Not modelled

The wrapper, the yield vault and the flash loan guard (shares, rounding, queued
withdrawals), the rate limiter's windows, the `UpgradeProposal` family of the multisig
crate (nothing executes it yet): planned, below.  The ttl crate (storage rent changes no
value), metadata and fee exemptions.  The indexer's read-only routes, stream transport
and HTTP rate limiter.  XDR encoding, generated bindings, the mock client, `apy.ts`
(floating point).  React screens and components (markup over the hooks), the time
limit on a hardware signature, the wait for the Freighter script.  CLI commands that
print or generate text, release scripts.

## Plan

1. `Wrapper`: shares against assets with integer division, queued withdrawals, the
   emergency cap, and an abstract vault it implements.
2. `RateLimit`: windows and counters, composed with `Token` in place of the
   nondeterministic refusal.
3. `Multisig`: the `UpgradeProposal` family.
