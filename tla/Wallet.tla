------------------------------- MODULE Wallet -------------------------------
(***************************************************************************)
(* The wallet of a machine or a manager: opening it, joining federations   *)
(* and recording the default one, the lock around the federation clients,  *)
(* and the task that publishes the wallet's view                           *)
(* (vendimint/src/fedimint_wallet.rs).                                     *)
(*                                                                         *)
(* One wallet and the tasks that use it.  Simplifications:                 *)
(*  - A federation's directory is absent, "empty" (the database is there,  *)
(*    no client was initialised in it) or "joined".                        *)
(*  - An absent, an empty and a torn default federation file all make      *)
(*    update_machine_configs return: None stands for the three.            *)
(*  - The published view is the set of connected federations; a view that  *)
(*    did not change is published again, which no subscriber can tell.     *)
(*  - leave_federation has no caller and is left out.                      *)
(***************************************************************************)
EXTENDS Naturals, FiniteSets

CONSTANTS
    Federations,
    Setters,      \* tasks that call set_default_federation
    Readers,      \* tasks that use a client under the read lock
    Opening,      \* the task inside Wallet::new
    View,         \* view_update_task
    None,
    MaxSeeds,     \* bound: mnemonics generated
    MaxFaults     \* bound: crashes, failing operations, dropped calls

ASSUME WalletAssumption ==
    /\ None \notin Federations
    /\ Setters \cap Readers = {}
    /\ {Opening, View, None} \cap (Setters \cup Readers) = {}
    /\ Opening # View /\ Opening # None /\ View # None
    /\ MaxSeeds \in Nat
    /\ MaxFaults \in Nat

VARIABLES
    \* on disk
    mnemonic,     \* mnemonic.txt: "none", "torn" or "good"
    seed,         \* number of the mnemonic in it; the next one is seed + 1
    dir,          \* each federation's data directory
    under,        \* the seed a joined directory was initialised with
    defaultFile,  \* default_federation.txt
    \* in memory
    boot,         \* where Wallet::new is; "up" once it has returned
    secret,       \* the seed behind root_secret
    dirLock,      \* holder of the mutex around fedimint_clients_data_dir
    clients,      \* federations with a client
    writer,       \* holder of the write lock on clients
    spc, want,    \* where each set_default_federation is, its federation
    rpc, rwant,   \* where each reader is, the default federation it read
    vpc,          \* where view_update_task is
    vreq,         \* the forced update it is serving, or None
    pending,      \* forced updates in the channel
    view,         \* the value of the watch channel
    \* history and environment
    interrupted,  \* federations whose join failed or was cut short
    faults

diskVars == <<mnemonic, seed, dir, under, defaultFile>>
taskVars == <<spc, want, rpc, rwant>>
viewVars == <<vpc, vreq, pending, view>>
lockVars == <<dirLock, writer>>
vars == <<diskVars, boot, secret, clients, lockVars, taskVars, viewVars,
          interrupted, faults>>

BootSteps == {"down", "seedw", "seed", "lock", "open", "view", "up"}
SetSteps == {"idle", "dir", "join", "write", "force", "file", "filew"}
ReadSteps == {"idle", "dir", "wait", "hold"}

TypeOK ==
    /\ mnemonic \in {"none", "torn", "good"}
    /\ seed \in 0..MaxSeeds
    /\ dir \in [Federations -> {"none", "empty", "joined"}]
    /\ under \in [Federations -> 0..MaxSeeds]
    /\ defaultFile \in Federations \cup {None}
    /\ boot \in BootSteps
    /\ secret \in 0..MaxSeeds
    /\ dirLock \in Setters \cup {Opening, None}
    /\ clients \in SUBSET Federations
    /\ writer \in {Opening, None}
    /\ spc \in [Setters -> SetSteps]
    /\ want \in [Setters -> Federations \cup {None}]
    /\ rpc \in [Readers -> ReadSteps]
    /\ rwant \in [Readers -> Federations \cup {None}]
    /\ vpc \in {"idle", "read", "compute"}
    /\ vreq \in Setters \cup {Opening, None}
    /\ pending \in SUBSET (Setters \cup {Opening})
    /\ view \in SUBSET Federations
    /\ interrupted \in SUBSET Federations
    /\ faults \in 0..MaxFaults

Init ==
    /\ mnemonic = "none"
    /\ seed = 0
    /\ dir = [f \in Federations |-> "none"]
    /\ under = [f \in Federations |-> 0]
    /\ defaultFile = None
    /\ boot = "down"
    /\ secret = 0
    /\ dirLock = None
    /\ clients = {}
    /\ writer = None
    /\ spc = [s \in Setters |-> "idle"]
    /\ want = [s \in Setters |-> None]
    /\ rpc = [r \in Readers |-> "idle"]
    /\ rwant = [r \in Readers |-> None]
    /\ vpc = "idle"
    /\ vreq = None
    /\ pending = {}
    /\ view = {}
    /\ interrupted = {}
    /\ faults = 0

Fault == faults < MaxFaults /\ faults' = faults + 1

(***************************************************************************)
(* tokio's RwLock.  It is first-in first-out: a writer that waits keeps    *)
(* later readers out.                                                      *)
(***************************************************************************)
Reading == vpc = "compute" \/ \E r \in Readers : rpc[r] = "hold"
WriterWaits == boot = "lock" \/ \E s \in Setters : spc[s] = "write"
MayRead == writer = None /\ ~WriterWaits
MayWrite == writer = None /\ ~Reading

Step(s, from, to) == spc[s] = from /\ spc' = [spc EXCEPT ![s] = to]
Read(r, from, to) == rpc[r] = from /\ rpc' = [rpc EXCEPT ![r] = to]
-----------------------------------------------------------------------------
(***************************************************************************)
(* Wallet::new: the mnemonic, then connect_to_joined_federations.          *)
(***************************************************************************)
\* No mnemonic yet: tokio::fs::write creates the file empty ...
MnemonicCreate ==
    /\ boot = "down"
    /\ mnemonic = "none"
    /\ mnemonic' = "torn"
    /\ boot' = "seedw"
    /\ UNCHANGED <<seed, dir, under, defaultFile, secret, clients, lockVars,
                   taskVars, viewVars, interrupted, faults>>

\* ... and fills it.
MnemonicWrite ==
    /\ boot = "seedw"
    /\ seed < MaxSeeds
    /\ mnemonic' = "good"
    /\ seed' = seed + 1
    /\ boot' = "seed"
    /\ UNCHANGED <<dir, under, defaultFile, secret, clients, lockVars,
                   taskVars, viewVars, interrupted, faults>>

\* Mutant of MnemonicFound: a new mnemonic at every start.
MnemonicAnew ==
    /\ boot = "down"
    /\ mnemonic # "none"
    /\ mnemonic' = "torn"
    /\ boot' = "seedw"
    /\ UNCHANGED <<seed, dir, under, defaultFile, secret, clients, lockVars,
                   taskVars, viewVars, interrupted, faults>>

MnemonicFound ==
    /\ boot = "down"
    /\ mnemonic # "none"
    /\ boot' = "seed"
    /\ UNCHANGED <<diskVars, secret, clients, lockVars, taskVars, viewVars,
                   interrupted, faults>>

\* The mnemonic is read and the directory locked and listed.
MnemonicRead ==
    /\ boot = "seed"
    /\ mnemonic = "good"
    /\ secret' = seed
    /\ dirLock' = Opening
    /\ boot' = "lock"
    /\ UNCHANGED <<diskVars, clients, writer, taskVars, viewVars, interrupted,
                   faults>>

BootLock ==
    /\ boot = "lock"
    /\ MayWrite
    /\ writer' = Opening
    /\ boot' = "open"
    /\ UNCHANGED <<diskVars, secret, clients, dirLock, taskVars, viewVars,
                   interrupted, faults>>

Present == {f \in Federations : dir[f] # "none"}

\* Mutant of BootOpen: the write lock is kept during force_update_view.
BootOpenLocked ==
    /\ boot = "open"
    /\ \A f \in Present : dir[f] = "joined"
    /\ clients' = Present
    /\ pending' = pending \cup {Opening}
    /\ boot' = "view"
    /\ UNCHANGED <<diskVars, secret, lockVars, taskVars, vpc, vreq, view,
                   interrupted, faults>>

\* Every client is opened; force_update_view drops the lock and asks.
BootOpen ==
    /\ boot = "open"
    /\ \A f \in Present : dir[f] = "joined"
    /\ clients' = Present
    /\ writer' = None
    /\ pending' = pending \cup {Opening}
    /\ boot' = "view"
    /\ UNCHANGED <<diskVars, secret, dirLock, taskVars, vpc, vreq, view,
                   interrupted, faults>>

BootUp ==
    /\ boot = "view"
    /\ Opening \notin pending
    /\ vreq # Opening
    /\ dirLock' = None
    /\ boot' = "up"
    /\ UNCHANGED <<diskVars, secret, clients, writer, taskVars, viewVars,
                   interrupted, faults>>

\* The process is gone, or Wallet::new has failed: only files remain.
Stop ==
    /\ boot' = "down"
    /\ secret' = 0
    /\ dirLock' = None
    /\ clients' = {}
    /\ writer' = None
    /\ spc' = [s \in Setters |-> "idle"]
    /\ want' = [s \in Setters |-> None]
    /\ rpc' = [r \in Readers |-> "idle"]
    /\ rwant' = [r \in Readers |-> None]
    /\ vpc' = "idle"
    /\ vreq' = None
    /\ pending' = {}
    /\ view' = {}
    /\ UNCHANGED diskVars

\* expect("Valid mnemonic") panics; a directory is not initialised.
BootFails ==
    /\ \/ boot = "seed" /\ mnemonic = "torn"
       \/ boot = "open" /\ \E f \in Present : dir[f] = "empty"
    /\ Stop
    /\ UNCHANGED <<interrupted, faults>>

Crash ==
    /\ boot # "down"
    /\ Fault
    /\ Stop
    /\ interrupted' = interrupted
                        \cup {want[s] : s \in {t \in Setters : spc[t] = "join"}}
-----------------------------------------------------------------------------
(***************************************************************************)
(* set_default_federation.  The data directory mutex is held from the      *)
(* check to the end of the call.                                           *)
(***************************************************************************)
SetCall(s, f) ==
    /\ boot = "up"
    /\ Step(s, "idle", "dir")
    /\ want' = [want EXCEPT ![s] = f]
    /\ UNCHANGED <<diskVars, boot, secret, clients, lockVars, rpc, rwant,
                   viewVars, interrupted, faults>>

\* Mutant of SetShort: the directory is looked at without the mutex.
SetShortUnlocked(s) ==
    /\ Step(s, "dir", "file")
    /\ dir[want[s]] # "none"
    /\ UNCHANGED <<diskVars, boot, secret, clients, lockVars, want, rpc,
                   rwant, viewVars, interrupted, faults>>

\* The directory is there: "we're already connected to this federation".
SetShort(s) ==
    /\ Step(s, "dir", "file")
    /\ dirLock = None
    /\ dir[want[s]] # "none"
    /\ dirLock' = s
    /\ UNCHANGED <<diskVars, boot, secret, clients, writer, want, rpc, rwant,
                   viewVars, interrupted, faults>>

\* RocksDb::build(..).open() creates the directory.
SetOpenDb(s) ==
    /\ Step(s, "dir", "join")
    /\ dirLock = None
    /\ dir[want[s]] = "none"
    /\ dirLock' = s
    /\ dir' = [dir EXCEPT ![want[s]] = "empty"]
    /\ UNCHANGED <<mnemonic, seed, under, defaultFile, boot, secret, clients,
                   writer, want, rpc, rwant, viewVars, interrupted, faults>>

\* build_client_from_invite_code downloads the configuration and joins.
SetJoin(s) ==
    /\ Step(s, "join", "write")
    /\ dir' = [dir EXCEPT ![want[s]] = "joined"]
    /\ under' = [under EXCEPT ![want[s]] = secret]
    /\ UNCHANGED <<mnemonic, seed, defaultFile, boot, secret, clients,
                   lockVars, want, rpc, rwant, viewVars, interrupted, faults>>

\* It fails: the error is returned, the directory stays.
SetJoinError(s) ==
    /\ Fault
    /\ Step(s, "join", "idle")
    /\ dirLock' = None
    /\ want' = [want EXCEPT ![s] = None]
    /\ interrupted' = interrupted \cup {want[s]}
    /\ UNCHANGED <<diskVars, boot, secret, clients, writer, rpc, rwant,
                   viewVars>>

\* Mutant of SetInsert: the write lock is kept during force_update_view.
SetInsertLocked(s) ==
    /\ Step(s, "write", "force")
    /\ MayWrite
    /\ clients' = clients \cup {want[s]}
    /\ writer' = s
    /\ pending' = pending \cup {s}
    /\ UNCHANGED <<diskVars, boot, secret, dirLock, want, rpc, rwant, vpc,
                   vreq, view, interrupted, faults>>

\* The write lock is taken, the client inserted, the lock dropped by
\* force_update_view, which then sends its request and waits.
SetInsert(s) ==
    /\ Step(s, "write", "force")
    /\ MayWrite
    /\ clients' = clients \cup {want[s]}
    /\ pending' = pending \cup {s}
    /\ UNCHANGED <<diskVars, boot, secret, lockVars, want, rpc, rwant, vpc,
                   vreq, view, interrupted, faults>>

SetViewed(s) ==
    /\ Step(s, "force", "file")
    /\ s \notin pending
    /\ vreq # s
    /\ UNCHANGED <<diskVars, boot, secret, clients, lockVars, want, rpc,
                   rwant, viewVars, interrupted, faults>>

\* The two halves of tokio::fs::write.
SetTruncate(s) ==
    /\ Step(s, "file", "filew")
    /\ defaultFile' = None
    /\ UNCHANGED <<mnemonic, seed, dir, under, boot, secret, clients,
                   lockVars, want, rpc, rwant, viewVars, interrupted, faults>>

\* Mutant of SetWrite: the caller is recorded, not the invite code.
SetWriteCaller(s) ==
    /\ Step(s, "filew", "idle")
    /\ defaultFile' = s
    /\ dirLock' = None
    /\ want' = [want EXCEPT ![s] = None]
    /\ UNCHANGED <<mnemonic, seed, dir, under, boot, secret, clients, writer,
                   rpc, rwant, viewVars, interrupted, faults>>

SetWrite(s) ==
    /\ Step(s, "filew", "idle")
    /\ defaultFile' = want[s]
    /\ dirLock' = None
    /\ want' = [want EXCEPT ![s] = None]
    /\ UNCHANGED <<mnemonic, seed, dir, under, boot, secret, clients, writer,
                   rpc, rwant, viewVars, interrupted, faults>>

SetWriteError(s) ==
    /\ Fault
    /\ Step(s, "filew", "idle")
    /\ dirLock' = None
    /\ want' = [want EXCEPT ![s] = None]
    /\ UNCHANGED <<diskVars, boot, secret, clients, writer, rpc, rwant,
                   viewVars, interrupted>>

\* The call is dropped: the syncer is aborted, or the application gives up.
\* Locks are released; a file write that has begun is finished by the
\* blocking pool; the view task serves the request for nobody.
SetDropped(s) ==
    /\ Fault
    /\ spc[s] # "idle"
    /\ spc' = [spc EXCEPT ![s] = "idle"]
    /\ want' = [want EXCEPT ![s] = None]
    /\ dirLock' = IF dirLock = s THEN None ELSE dirLock
    /\ defaultFile' = IF spc[s] = "filew" THEN want[s] ELSE defaultFile
    /\ interrupted' = IF spc[s] \in {"join", "write"}
                        THEN interrupted \cup {want[s]} ELSE interrupted
    /\ pending' = pending \ {s}
    /\ vreq' = IF vreq = s THEN None ELSE vreq
    /\ UNCHANGED <<mnemonic, seed, dir, under, boot, secret, clients, writer,
                   rpc, rwant, vpc, view>>
-----------------------------------------------------------------------------
(***************************************************************************)
(* Readers: receive_payment, await_receive_payment_final_state,            *)
(* get_claimable_contracts and the other methods that look up a client and *)
(* use it under the read lock; and update_machine_configs, which looks up  *)
(* the client of the federation get_default_federation returned.           *)
(***************************************************************************)
ReadCall(r) ==
    /\ boot = "up"
    /\ Read(r, "idle", "wait")
    /\ UNCHANGED <<diskVars, boot, secret, clients, lockVars, spc, want,
                   rwant, viewVars, interrupted, faults>>

DefaultCall(r) ==
    /\ boot = "up"
    /\ Read(r, "idle", "dir")
    /\ UNCHANGED <<diskVars, boot, secret, clients, lockVars, spc, want,
                   rwant, viewVars, interrupted, faults>>

\* The mutex is taken, the file read, the mutex dropped.
DefaultRead(r) ==
    /\ dirLock = None
    /\ defaultFile # None
    /\ Read(r, "dir", "wait")
    /\ rwant' = [rwant EXCEPT ![r] = defaultFile]
    /\ UNCHANGED <<diskVars, boot, secret, clients, lockVars, spc, want,
                   viewVars, interrupted, faults>>

\* No file, or one that cannot be parsed: update_machine_configs returns.
DefaultNone(r) ==
    /\ dirLock = None
    /\ defaultFile = None
    /\ Read(r, "dir", "idle")
    /\ UNCHANGED <<diskVars, boot, secret, clients, lockVars, spc, want,
                   rwant, viewVars, interrupted, faults>>

ReadEnter(r) ==
    /\ MayRead
    /\ Read(r, "wait", "hold")
    /\ UNCHANGED <<diskVars, boot, secret, clients, lockVars, spc, want,
                   rwant, viewVars, interrupted, faults>>

ReadLeave(r) ==
    /\ Read(r, "hold", "idle")
    /\ rwant' = [rwant EXCEPT ![r] = None]
    /\ UNCHANGED <<diskVars, boot, secret, clients, lockVars, spc, want,
                   viewVars, interrupted, faults>>
-----------------------------------------------------------------------------
(***************************************************************************)
(* view_update_task: a forced update or a timeout, then the current state  *)
(* under the read lock, then the new view and the answer to the caller.    *)
(***************************************************************************)
\* Mutant of ViewForce: the caller is answered on receipt.
ViewForceEarly(s) ==
    /\ vpc = "idle"
    /\ s \in pending
    /\ pending' = pending \ {s}
    /\ vreq' = None
    /\ vpc' = "read"
    /\ UNCHANGED <<diskVars, boot, secret, clients, lockVars, taskVars, view,
                   interrupted, faults>>

ViewForce(s) ==
    /\ vpc = "idle"
    /\ s \in pending
    /\ pending' = pending \ {s}
    /\ vreq' = s
    /\ vpc' = "read"
    /\ UNCHANGED <<diskVars, boot, secret, clients, lockVars, taskVars, view,
                   interrupted, faults>>

ViewTimeout ==
    /\ boot # "down"
    /\ vpc = "idle"
    /\ vpc' = "read"
    /\ UNCHANGED <<diskVars, boot, secret, clients, lockVars, taskVars, vreq,
                   pending, view, interrupted, faults>>

ViewEnter ==
    /\ vpc = "read"
    /\ MayRead
    /\ vpc' = "compute"
    /\ UNCHANGED <<diskVars, boot, secret, clients, lockVars, taskVars, vreq,
                   pending, view, interrupted, faults>>

\* The names and balances of the view are left out.
CurrentState == clients

ViewPublish ==
    /\ vpc = "compute"
    /\ vpc' = "idle"
    /\ view' = CurrentState
    /\ vreq' = None
    /\ UNCHANGED <<diskVars, boot, secret, clients, lockVars, taskVars,
                   pending, interrupted, faults>>
-----------------------------------------------------------------------------
BootNext ==
    \/ MnemonicCreate
    \/ MnemonicWrite
    \/ MnemonicFound
    \/ MnemonicRead
    \/ BootLock
    \/ BootOpen
    \/ BootUp
    \/ BootFails

SetRun(s) ==
    \/ SetJoin(s)
    \/ SetInsert(s)
    \/ SetViewed(s)
    \/ SetTruncate(s)
    \/ SetWrite(s)

SetNext(s) ==
    \/ \E f \in Federations : SetCall(s, f)
    \/ SetShort(s)
    \/ SetOpenDb(s)
    \/ SetRun(s)
    \/ SetJoinError(s)
    \/ SetWriteError(s)
    \/ SetDropped(s)

ReadNext(r) ==
    \/ ReadCall(r)
    \/ DefaultCall(r)
    \/ DefaultRead(r)
    \/ DefaultNone(r)
    \/ ReadEnter(r)
    \/ ReadLeave(r)

ViewNext ==
    \/ \E s \in Setters \cup {Opening} : ViewForce(s)
    \/ ViewTimeout
    \/ ViewEnter
    \/ ViewPublish

Next ==
    \/ BootNext
    \/ Crash
    \/ \E s \in Setters : SetNext(s)
    \/ \E r \in Readers : ReadNext(r)
    \/ ViewNext

Spec == Init /\ [][Next]_vars
-----------------------------------------------------------------------------
(***************************************************************************)
(* Safety.                                                                 *)
(***************************************************************************)
(***************************************************************************)
(* Every joined federation was joined with the secret of the mnemonic on   *)
(* disk: no sequence of crashes and restarts of Wallet::new replaces the   *)
(* mnemonic that funds depend on.                                          *)
(***************************************************************************)
SecretKept ==
    \A f \in Federations :
        dir[f] = "joined" => mnemonic = "good" /\ under[f] = seed

(***************************************************************************)
(* A task that read the default federation and then looks up its client    *)
(* finds it, although the two are under different locks; so                *)
(* update_machine_configs does not return for want of a client.  The one   *)
(* exception are federations whose join was interrupted.                   *)
(***************************************************************************)
LookupFound ==
    \A r \in Readers :
        rpc[r] = "hold" /\ rwant[r] # None
            => rwant[r] \in clients \cup interrupted

(***************************************************************************)
(* Never does each task of a group wait for another one of the group: for  *)
(* the directory mutex, for the lock around the clients (a writer for who  *)
(* is in, a reader also for a writer that waits), or for the answer of the *)
(* view task, which itself needs that lock.                                *)
(***************************************************************************)
Tasks == Setters \cup Readers \cup {Opening, View}

WantsDir(x) == \/ x \in Setters /\ spc[x] = "dir"
               \/ x \in Readers /\ rpc[x] = "dir"
WantsWrite(x) == \/ x \in Setters /\ spc[x] = "write"
                 \/ x = Opening /\ boot = "lock"
WantsRead(x) == \/ x \in Readers /\ rpc[x] = "wait"
                \/ x = View /\ vpc = "read"
WantsView(x) == /\ \/ x \in Setters /\ spc[x] = "force"
                   \/ x = Opening /\ boot = "view"
                /\ x \in pending \cup {vreq}
Reads(y) == \/ y \in Readers /\ rpc[y] = "hold"
            \/ y = View /\ vpc = "compute"

WaitsFor(x, y) ==
    \/ WantsDir(x) /\ y = dirLock
    \/ WantsWrite(x) /\ (y = writer \/ Reads(y))
    \/ WantsRead(x) /\ (y = writer \/ WantsWrite(y))
    \/ WantsView(x) /\ y = View

Waiting == {x \in Tasks : \E y \in Tasks : WaitsFor(x, y)}

NoDeadlock ==
    \A S \in SUBSET Waiting :
        S # {} => \E x \in S : \A y \in S : ~WaitsFor(x, y)

(***************************************************************************)
(* set_default_federation records a federation the wallet is connected to: *)
(* "Short-circuit if we're already connected to this federation".          *)
(***************************************************************************)
Connected ==
    \A s \in Setters : spc[s] \in {"file", "filew"} => want[s] \in clients

(***************************************************************************)
(* force_update_view returns only when the published view is the latest:   *)
(* "any streams opened by get_update_stream have yielded the latest view". *)
(***************************************************************************)
ViewFresh ==
    [][/\ \A s \in Setters :
            spc[s] = "force" /\ spc'[s] = "file" => view = clients
       /\ boot = "view" /\ boot' = "up" => view = clients]_vars

(***************************************************************************)
(* What is on disk follows Vault, whatever tasks run, crash or are dropped *)
(* at any point: set_default_federation and Wallet::new implement it.      *)
(***************************************************************************)
Status(f) == IF dir[f] # "empty" THEN dir[f]
             ELSE IF f \in interrupted THEN "cut" ELSE "open"

Abs == INSTANCE Vault WITH
           seed <- IF mnemonic = "good" THEN seed ELSE 0,
           status <- [f \in Federations |-> Status(f)],
           default <- defaultFile
VaultSpec == Abs!Spec
-----------------------------------------------------------------------------
(***************************************************************************)
(* Liveness.  The runtime polls every ready task; the mutex is first-in    *)
(* first-out, and select! starts a new timeout in each iteration while a   *)
(* request in the channel is ready at once: hence strong fairness for      *)
(* these two.  A reader leaves: even await_receive_payment_final_state     *)
(* ends when the invoice expires.  The process is started again after a    *)
(* crash.  Nothing is assumed about calls and faults.                      *)
(***************************************************************************)
Fairness ==
    /\ WF_vars(BootNext)
    /\ \A s \in Setters : /\ SF_vars(SetShort(s) \/ SetOpenDb(s))
                          /\ WF_vars(SetRun(s))
    /\ \A r \in Readers : /\ SF_vars(DefaultRead(r) \/ DefaultNone(r))
                          /\ WF_vars(ReadEnter(r))
                          /\ WF_vars(ReadLeave(r))
    /\ SF_vars(\E s \in Setters \cup {Opening} : ViewForce(s))
    /\ WF_vars(ViewEnter)
    /\ WF_vars(ViewPublish)

LiveSpec == Spec /\ Fairness

(***************************************************************************)
(* Every call returns: the nesting of the directory mutex, the write lock  *)
(* and the wait for the view task, which needs the read lock, does not     *)
(* deadlock.                                                               *)
(***************************************************************************)
CallsReturn ==
    /\ \A s \in Setters : spc[s] = "dir" ~> spc[s] = "idle"
    /\ \A r \in Readers : rpc[r] \in {"dir", "wait"} ~> rpc[r] = "idle"

(***************************************************************************)
(* A wallet whose mnemonic was written once opens again after any crash,   *)
(* unless a join was interrupted.                                          *)
(***************************************************************************)
Reopens == mnemonic = "good" ~> (boot = "up" \/ interrupted # {})
=============================================================================
