# Vendimint in TLA+

Specifications of [vendimint](../src), a protocol by which a *manager* device
takes possession of vending *machines* and collects the payments they receive.
The modules model the parts of the crate that carry its own protocol logic:
claiming a machine, the path of a payment, the configuration of machines, the
document both devices share, and the federation wallet. TLC checks them on small
instances; TLAPS proves the safety properties for every instance.

File names below are relative to `src/vendimint/src/`.

## The system

| Component | State | Operations | Correct when |
|---|---|---|---|
| Machine claim protocol, `vendimint_iroh/machine.rs` | `claimed_manager_pubkey` under a mutex, its key file, an mpsc channel of capacity 1 for claim requests | `ClaimHandler::accept` (one task per connection), `get_machine_state`, `await_next_incoming_claim_request`, `new`, `shutdown` | one manager owns the machine, both users agreed, nobody else gets the document; the mutex is always released |
| Machine document, `get_or_create_machine_doc` | ticket file, iroh-docs document | open or create, without a lock, by claim handlers, state reads and KV calls | all callers get the same document, and it is never replaced |
| Manager claim task, `vendimint_iroh/manager.rs` `claim_machine` | one ticket file per machine, imported documents | ping, receive the ticket, import, save | an accepted claim ends with the ticket on disk |
| Machine payments, `machine.rs` | the wallet's claimable contracts, the shared document | `receive_payment`; the syncer's fetch, write, remove | a paid contract is never lost |
| Manager sweep, `manager.rs` `sweep_payments` | its replica of every machine's document, downloaded contents, its balance | fetch, claim, remove | a contract is removed only once credited; every payment is credited |
| Configuration sync, `update_federation`, `update_machine_configs` | default federation, one configuration entry per document | called by the application and by the syncer | machines converge to the default federation |
| Wallet, `fedimint_wallet.rs` | mnemonic, a directory per federation, default-federation file, clients under an RwLock, directory mutex, view task | `new`, `set_default_federation`, `get_default_federation`, readers, `view_update_task` | the seed is never replaced, the default federation has a client, no lock is waited on for ever |
| KV store, `shared.rs` and the `*_kv_*` methods | entries of the shared document, contents | get, set, list | reads return what was written, by whom, not older than one's own write; the devices converge; no key of the store touches a contract |
| Document keys, `shared.rs` | none | build, parse | parsing undoes building, no key is in two namespaces |
| PIN and amounts, `shared.rs`, `fedimint_wallet.rs` | none | pure functions | |

The parts meet in three places. A manager connects to a machine and the two
sides run the claim protocol over one QUIC connection, each waiting for its
user. Afterwards they share an iroh document: configuration flows from the
manager to the machine, claimable contracts from the machine to the manager,
removals back. On each device the syncer task, the application's calls and the
view task share the wallet and its two locks.

What is hard to test here: several claims at once while a mutex is held across
two users' decisions; a process that stops between any two steps; files that are
truncated and then filled; connections lost while a ticket is under way; a
federation that is switched while an invoice is unpaid; a machine that goes
offline half-way through a sync; a directory that is listed while it is written;
two updates of the machines that overlap; entries, contents and clocks of two
devices in any order; forced view updates that race the periodic one.
`PROJECT.json` lists each of these under `hazards`, at the line where it bites.

## Modules

| Module | Models | Uses |
|---|---|---|
| `MachineDoc` | `get_or_create_machine_doc`: read, create, truncate, write, per caller | |
| `Claim` | handlers, mutex, channel, application, manager's claim tasks, network, crashes, shutdown and restart | instantiates `MachineDoc` |
| `Pairing` | what `Claim` promises: one owner, agreed on by both, the only holder of the document | implemented by `Claim` |
| `Payments` | invoices, machine syncer, document replicas, manager sweep, faults | |
| `Custody` | what `Payments` promises: a contract moves machine -> document -> manager and is never out of sight | implemented by `Payments` |
| `Wallet` | `Wallet::new`, `set_default_federation`, readers, view task, both locks, crashes and dropped calls | |
| `Vault` | what the wallet's data directory promises: one seed, federations joined one at a time under it, a default whose join is over | implemented by `Wallet` |
| `ConfigSync` | the default federation, the manager's directory of tickets and the claim tasks that write it, the syncer, `update_federation`, both replicas of the configurations | |
| `Rollout` | what `ConfigSync` promises: a machine gets only a federation that an update read as the recorded default | implemented by `ConfigSync` |
| `DocKeys` | the keys of a document as bytes: namespaces, building, parsing | |
| `SharedDoc` | the document as both devices use it: KV methods under any keys, configuration, contracts, the sweep, replication, clocks | extends `DocKeys` |
| `MCClaim`, `MCWallet`, `MCSharedDoc` | symmetry sets and keys for TLC | extend the modules above |
| `ClaimProofs`, `PaymentsProofs`, `WalletProofs`, `ConfigSyncProofs`, `DocKeysProofs`, `SharedDocProofs` | invariants, lemmas, theorems | extend the modules above |

The modules share no variables; each takes from the others what it needs as
free choices. `ConfigSync` starts a claim task where `Claim` has delivered the
ticket, its rewriting of the default file is the end of `Wallet`'s
`set_default_federation`, and what `Payments` calls `ConfigArrives` is its
result. `SharedDoc` shows, entry by entry, the document that `Payments` and
`ConfigSync` see through one key each.

Each action is one uninterrupted stretch of the code between two points where
another task, process or failure can intervene; program-counter variables
(`hpc`, `mpc`, `dpc`, `rpc`, `spc`, `vpc`, `gpc`) say where each task is. The
variables are commented with the field or file they stand for, and
`PROJECT.json` maps every definition to its lines. Operators whose comment says
*Mutant of* are deliberate bugs, used by no specification: each shows that one
property notices it.

### Claim

`HandlerRefuse` ... `HandlerKeyError` are `ClaimHandler::accept` from acquiring
the mutex to closing the connection. The two halves of `tokio::fs::write` are
separate (`HandlerTruncate`, `HandlerPersist`), because a crash between them
leaves an empty file, which `MachineProtocol::new` reads as "unclaimed".
`ManagerAccept` ... `ManagerConnLost` are the spawned claim task, with the
ignored errors of `docs.import` and of the file write. `Crash` loses all memory
and restarts; `Shutdown` aborts tasks, but a file write already handed to the
blocking pool is finished. A connection that the machine closes normally
(`finished`) has delivered the ticket: `stopped()` returned. One that is lost
(`closed`) may or may not have.

The PIN is left out: it only informs the users, whose decisions are free choices.
Managers run this code, so the ping they send is the right one; to another one
the handler returns an error (`machine.rs` lines 125-130), with the effect that
`Disconnect` and `HandlerConnLost` have together.

### Payments

The machine's syncer is `MachineReadConfig`, `MachineFetch`, `MachineWrite` (one
contract each), `MachineRemove`; the manager's sweep is `SweepFetch`,
`SweepClaim`, `SweepClaimed`, `SweepRemove`; every failing call has its action,
and `MachineDown` and `ManagerCrash` may come at any point. A document entry
holds the times of the newest content and of the newest removal of a key; a
query shows the key when the content is newer, as iroh-docs does.

### Wallet

`MnemonicCreate` ... `BootUp` are `Wallet::new` with
`connect_to_joined_federations`; `SetCall` ... `SetDropped` are
`set_default_federation`, whose directory mutex is held to the end; `ReadCall`
... `ReadLeave` are the methods that use a client under the read lock, and
`update_machine_configs`, which first reads the default; `ViewForce` ...
`ViewPublish` are the view task. The RwLock is tokio's: a waiting writer keeps
later readers out. `WaitsFor` says who waits for whom, for a lock or for the
answer of the view task; the constant `View` is that task's name in it.
`Status` maps the wallet to `Vault`: a directory without a client in it is
`open` while a call is joining and `cut` once that join was interrupted.

### ConfigSync

`UpdateFederation`, `DefaultWrite` and `DefaultWriteError` are
`update_federation` up to the end of `set_default_federation`; `ReadDefault` ...
`UpdateEnd` are `update_machine_configs`, run by the syncer and by every caller,
one step per file or entry read and written. `ListEntry` and `ListPanic` are
the loop of `list_machines`, which reads one ticket file after the other and
unwraps what it reads; `ClaimImport` ... `ClaimSaveError` are the claim tasks
that write those files, in two halves, and ignore errors. `SweepList`,
`SweepOpen` and `SweepError` are the part of the sweep that depends on the
tickets. A panic ends the task it happens in: for the syncer that is for good,
until `Restart`. `get_machine_config` uses `cfgG`, the machine reads `cfgM`.
In `Rollout` an update is only the federation it works on: errors, panics and
restarts all become `End`, the half-written default file becomes `Forget`.

### SharedDoc

A replica is a set of entries. An entry *covers* the earlier ones of its author
whose keys begin with its own key: writing the key `a` removes the author's entry
of `ab`, there and, on arrival, in the other replica, and an `ab` that arrives
later is not taken (iroh-docs). `Insert` is `set_bytes` or `del`; `Latest` is the
entry of each key that a query goes by, `Shown` what it returns of them.
`Receive` takes one entry from the other replica and `Download` one content, so
both arrive in any order. Each device stamps with its own clock and `Tick` lets
the clocks drift. Keys are any sequences of bytes and identifiers have `IdLen`
bytes (32 in the program).

`SweepFetch`, `SweepClaim`, `SweepFail` and `remove_contract` are
`sweep_payments`: the list is fetched, each contract is claimed, and only those
whose claim has just returned `Ok` are removed. A claim may fail after the
federation took it, a spent contract may be refused, and `SweepAbort` is a removal
that fails or a manager that stops. So a contract is claimed in the end
(`ContractsClaimed`), but it may stay listed for ever: if the machine's clock is
ahead the first removal does not hide it, the next removal needs another claim
that returns `Ok`, and the federation may refuse a spent contract each time. The
code has a TODO for it (`manager.rs` line 183), and the payment is credited.

## Runs

| Run | Bounds | Shows |
|---|---|---|
| `claim` | 2 managers, 3 connections, 1 KV task, 1 state reader, 1 fault | `HolderIsOwner`, `SameDocument`, `MutexFollowsHolder`, `DocumentStable`, implements `Pairing` |
| `claim_live` | 2 managers, 2 connections, 1 state reader, 1 fault | `ClaimCompletes`, `ClaimsEnd`, `StateReadable` |
| `claim_torn` | as `claim`, the rewriting of the key may be interrupted | **violated**: `SingleHolder` |
| `claim_docrace` | 1 connection, 1 KV task used before the claim | **violated**: `OneDocument` |
| `payments` | 1 machine, 1 federation, 2 contracts, 2 faults | `NoPaymentLost`, `RemovedOnlyIfCredited`, implements `Custody`, `PaymentsCredited` |
| `payments_switch` | 1 machine, 2 federations, no fault | **violated**: `PaymentsCredited` |
| `payments_offline` | 2 machines, one of which may stay offline | **violated**: `PaymentsCredited` |
| `config` | 2 machines, 2 federations, 1 caller and the syncer, 2 calls, 2 claims, 1 fault | `KeyFits`, `NoSetBack`, implements `Rollout`, `Converges`, `SweepsRun` |
| `config_panic` | 2 machines, 1 federation, 1 call, 2 claims, no fault | **violated**: `AllSynced` |
| `shared_doc` | 2 keys, 2 values, 1 contract, 3 writes, clocks 1 apart | `KvFaithful`, `KvKept`, `KvAgree`, `ListedExist`, `ContractKept`, `ReadsForward`, `KvConverges`, `ContractsClaimed` |
| `wallet` | 2 federations, 2 callers, 1 reader, 2 faults | `SecretKept`, `LookupFound`, `NoDeadlock`, `ViewFresh`, implements `Vault`, `CallsReturn`, `Reopens` |
| `wallet_join` | 2 federations, 2 callers, 1 fault | **violated**: `Connected` |

Why the bounds are enough. Two managers are what exclusion needs; the third
connection lets the owner claim again while the other manager tries. One fault
already stops any side at any point, and further crashes only repeat it; a
document is created at most once per crash, so `MaxDocs = 2` never blocks the
runs that pass. Two contracts let one write or claim of an iteration fail while
the other succeeds. In `config` two claims are two machines, or the owner's
second claim of one, which rewrites its ticket; the second call changes the
default while the first, or the syncer, is at work. In `shared_doc` three writes
are a value and two that compete with it, or a contract that is written again
after its removal, under clocks in either order. One of its two keys begins with
the other; the longer one, written without the store's prefix, would begin the
contracts' keys, and with the prefix it has the length of a contract's key. In
`wallet` the second fault allows an interrupted join to be followed by a crash. Deadlock is checked in all passing runs but two: in
`config` a syncer that panicked is dead and the calls and claims come to their
bound, in `shared_doc` two devices that have exchanged everything are at rest.
The safety results do not depend on the bounds: they are also proved.

### Fairness

Tokio polls every ready task, so every step of a task that needs only itself is
weakly fair. Its mutex is first-in first-out: a task that waits for a mutex that
is released again and again gets it, hence strong fairness on acquiring it. In
`Claim` the application answers the requests it is given in a loop, as the
documentation of `await_next_incoming_claim_request` demands, and the manager's
user decides. In `Payments` both syncers loop, a machine outside `MayStayDown`
comes back, and while it is online entries and contents get through. In
`ConfigSync` every task is polled, claim tasks run to their end and entries reach
the machine; in `SharedDoc` the devices are online together again and again, the
sweep goes on, and the federation does not refuse an unspent contract for ever:
strong fairness of claiming it, because every sweep may fail or be cut short in
between. Nothing is assumed of claims of a spent contract. In `Wallet`
a forced view update is chosen in the end, because `select!` starts a fresh
timeout in every iteration while a request is ready at once; a reader leaves,
because an invoice expires. No call, payment, switch or fault is ever forced.

### What the violated runs show

* `claim_torn`: a repeated claim by the owner rewrites the key file; a crash
  inside the write makes the machine unclaimed, and another manager can claim it
  and is handed the same document.
* `claim_docrace`: a KV call on a machine that is not claimed yet races the
  claim handler; each creates a document.
* `payments_switch`: the machine's syncer looks only at the federation it is
  configured for now; what is paid under the previous one stays where it is.
* `payments_offline`: one content that cannot be read ends the sweep of all
  machines.
* `config_panic`: the manager's syncer lists the tickets while a claim task has
  truncated one of them, and panics; machines are neither swept nor configured
  until the program is started again. `Converges` is the same property with the
  times after such a panic left out, and holds.
* `wallet_join`: a join that fails leaves its directory, which the next call
  takes for a connected federation.

A comment in a test (`vendimint_iroh/mod.rs`, lines 532-534) disagrees with the
assertions below it; it is about the test only and no property is drawn from it.

## Theorems

Proved by TLAPS for any sets of managers, connections, machines, contracts,
federations and tasks, and any number of faults.

| Theorem | States | Assumes |
|---|---|---|
| `ClaimTypeCorrect` | types of `Claim` | |
| `MutexCorrect` | `MutexFollowsHolder` | |
| `OwnershipCorrect` | `HolderIsOwner` | `~TearsRewrite` |
| `DocumentCorrect` | `SameDocument` | `~KvBeforeClaim` |
| `DocumentShared` | `OneDocument` | `~KvBeforeClaim` |
| `DocumentNeverReplaced` | `DocumentStable` | `~KvBeforeClaim` |
| `ClaimImplementsPairing` | `PairingSpec` | `~TearsRewrite` |
| `PaymentsTypeCorrect` | types of `Payments` | |
| `PaymentsSafe` | `NoPaymentLost` | |
| `RemovalSafe` | `RemovedOnlyIfCredited` | |
| `PaymentsImplementCustody` | `CustodySpec` | |
| `WalletTypeCorrect` | types of `Wallet` | |
| `SecretSafe` | `SecretKept` | |
| `LookupSafe` | `LookupFound` | |
| `ViewSafe` | `ViewFresh` | |
| `DeadlockFree` | `NoDeadlock` | |
| `WalletImplementsVault` | `VaultSpec` | |
| `ConfigTypeCorrect` | types of `ConfigSync` | |
| `ConfigKeySafe` | `KeyFits` | |
| `NeverSetBack` | `NoSetBack` | |
| `ConfigImplementsRollout` | `RolloutSpec` | |
| `ParseAfterCreate` | parsing a contract's key returns its federation and contract | |
| `UserKeyAfterFullKey` | a read returns the caller's key | |
| `NamespacesApart` | no key is in two namespaces | |
| `DocTypeCorrect` | types of `SharedDoc` | |
| `KvIsFaithful` | `KvFaithful` | |
| `KvIsKept` | `KvKept` | |
| `ContractsAreKept` | `ContractKept` | |
| `KvAgreesWhenQuiet` | `KvAgree` | |
| `ReadsNeverGoBack` | `ReadsForward` | |
| `OnlyContractsListed` | `ListedExist` | |

The assumptions are exactly what `claim_torn` and `claim_docrace` drop, and
those runs show that they are needed. The constants' own assumptions
(`ClaimAssumption`, `PaymentsAssumption`, `WalletAssumption`, `ConfigAssumption`,
`DocAssumption`, `IdLenAssumption`) only say that the special values are distinct
from the others, that bounds are numbers and keys are sequences of bytes.

*Claim.* None of the properties is inductive. The invariant has five layers,
each proved from those before it: `TypeOK`; `MutexInv`, who is inside the mutex
and inside `get_or_create_machine_doc`; `Consented`, what both users must have
said for a connection to have got so far; `Owned`, that memory, key file and
handlers beyond the mutex agree on the owner; `Documented`, that everything that
names a document names the one in the ticket file. `Owned` needs the mutex,
because only its holder may write the key; `Documented` needs it too, because
while the machine is unclaimed only the mutex holder may create the document.

*Payments.* The invariant `Chain` says of each link what the previous one still
has: what the machine is about to write is in its wallet, what it is about to
remove is in the document, what the manager is about to remove is credited, and
the manager's replica is never ahead of the machine's on contents.

*Wallet.* Seven layers: types, and that a call under way has a federation;
`Locking`, one call inside the mutex and only in an open wallet; `Seeded`, a
directory exists only under a complete mnemonic; `Joined`, in an open wallet a
directory nobody is joining has a client or an interrupted join, and neither the
default file nor a reader names a federation that is being joined; `Answered`,
after an answer of the view task no client was added; `Held`, who owns which
lock at which point; `Placed`, an empty directory is that of the join under way
or of an interrupted one, and a call past its join has its directory.
`DeadlockFree` orders the tasks so that each waits only for later ones: those
that want the directory mutex, those that wait for the view, those that want the
clients lock to read, those that want it to write, those that work. The order
exists because, by `Held`, who has the mutex does not want it and who has the
write lock waits for nothing; a write guard kept over `force_update_view` would
break it. `WalletImplementsVault` uses `Locking` where a directory is created,
and `Placed` where the default is written and where a call is dropped: what a
call records was joined or cut short, and a dropped call cuts at most its own
join.

*ConfigSync.* Two layers: types together with `Equipped`, what a task at each
point has in hand; and `Fitting`, that the key a task has is that of the
federation it works on, in the configurations and in every update under way.
`NeverSetBack` needs the first: a task takes a federation only from the default
file, under the directory mutex, and gives it up when it leaves. So does
`ConfigImplementsRollout`: nearly every step only lets updates end, a task that
reads the default starts one, and `SetConfig` sends a federation that is worked
on. It says what may arrive, not in which order: two overlapping updates may set
a machine back, which is why `NoSetBack` has its premise.

*SharedDoc.* `KvWritten`, `Keyed` and `ContractWritten` say of every entry in any
replica where it came from; they rest on the key theorems, since an entry is told
by its key alone. `BeginsWithin` is the lemma behind the rest: of the keys the
program writes, one begins another only inside the store. `KvKept` needs three
more facts: in a replica no entry covers another (`Uncovered`), no entry is ahead
of its author's clock, and an author keeps an entry that covers its own write
(`OwnKept`), which is of the same key or of a shorter one it wrote itself. Of the
two entries a key may have, the one that wins is then not older than the write,
and not a removal. `ContractKept` needs that the machine keeps its entry of what
it wrote, which `BeginsWithin` gives, and that the manager has removals only of
spent contracts (`RemovedClaimed`), since the sweep removes only what it has
claimed (`DoneClaimed`). `ReadsForward` follows from `Uncovered`: an entry gives
way only to a later one of its author or to one that beats it, or is dropped with
a longer key of the store. `KvAgree` adds `SameStamp`, that an author never uses
a time twice; without it two quiet replicas could cover each other's entries and
differ. `ReadsForward` does not say that reads are the same on both devices, nor
that a value stays: a later entry of the other device takes its place.

Only model-checked: the liveness properties (`ClaimCompletes`, `ClaimsEnd`,
`StateReadable`, `PaymentsCredited`, `CallsReturn`, `Reopens`, `Converges`,
`SweepsRun`, `KvConverges`, `ContractsClaimed`), which are outside the prover's reach.

## Assumed of other code

* iroh-docs returns, per key, the entry with the latest timestamp, hides empty
  ones, and reconciles replicas; opening a document that was never imported is
  an error. `Payments` takes the clocks of the two devices to agree; `SharedDoc`
  does not, and shows what a skewed clock may do to a removal.
* A device's clock does not run back, or iroh-docs refuses the write.
* A write or a removal of a key also removes its author's earlier entries whose
  keys begin with it, and an entry so covered is not taken when it arrives
  (iroh-docs).
* A claim that returns `Ok` has credited the contract; one that fails may have.
* The federation does not refuse a valid claim of an unspent contract for ever.
* QUIC streams are reliable while the connection lives, and `stopped()` returns
  only when the peer has the bytes.
* A completed file or database write survives a crash.
* tokio's mutex and RwLock are fair, and an aborted task's blocking file write
  is finished.
* Joining a federation commits its client to the database in one transaction.

## Not modelled

`SharedProtocol::new` and network set-up (its one piece of state, `secret.key`,
is written once, with the same non-atomic write as the mnemonic in `Wallet`);
ecash sweeping (the mint client's state); the claim PIN and the formatting of
amounts, which keep no state; the tests and the `fedimintd` and `fedimint-cli`
wrappers; `leave_federation`, which has no caller (it takes the two locks of the
wallet in the opposite order of `set_default_federation`, which would matter if
it got one). `PROJECT.json` has a reason for each.

Two machines with two contracts and `PaymentsCredited` are too many states for
one run; what concerns the interplay of two machines is in the proofs of
`PaymentsProofs` and in `payments_offline`.

## Plan

1. A run of `Claim` in which the application stops answering once the machine is
   claimed: the hazard at `machine.rs` line 120.
2. `Payments` over `Rollout` instead of `ConfigArrives`, so that a machine may be
   set back while invoices are open. The safety proofs use nothing of `cfg`; for
   `PaymentsCredited` it needs `Converges` as an assumption.
3. `leave_federation`, once the application calls it.
