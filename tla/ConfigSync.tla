----------------------------- MODULE ConfigSync -----------------------------
(***************************************************************************)
(* How the manager's default federation reaches the machines               *)
(* (vendimint/src/manager.rs, vendimint_iroh/{manager,machine}.rs).        *)
(*                                                                         *)
(* update_machine_configs is run by the manager's syncer task, in a loop,  *)
(* and by every call of update_federation, while claim tasks save tickets  *)
(* into the directory it lists.  Simplifications:                          *)
(*  - An invite code is its federation: that is all the code compares.     *)
(*  - Of set_default_federation only the rewriting of the default file,    *)
(*    under the directory mutex, is here: the rest is in Wallet.  Of the   *)
(*    sweep only its listing and opening of documents: see Payments.       *)
(*  - A claim task starts where it has received the ticket: see Claim.     *)
(*  - Opening a document that was not imported is an error.                *)
(*  - The manager alone writes configurations, so a machine's replica is   *)
(*    an earlier state of the manager's.                                   *)
(***************************************************************************)
EXTENDS Naturals

CONSTANTS
    Machines,
    Federations,
    Callers,     \* tasks that call update_federation
    Syncer,      \* the manager's syncer task
    None,
    Torn,        \* content of a file that was truncated and not yet written
    MaxCalls,    \* bound: calls of update_federation
    MaxClaims,   \* bound: accepted claims
    MaxFaults    \* bound: crashes and failing operations

ASSUME ConfigAssumption ==
    /\ None \notin Federations \cup Machines
    /\ Torn \notin Federations \cup {None}
    /\ Syncer \notin Callers
    /\ MaxCalls \in Nat /\ MaxClaims \in Nat /\ MaxFaults \in Nat

Tasks == Callers \cup {Syncer}

\* A machine's configuration; get_machine_config returns None for NoConfig.
Config == [fed : Federations, key : Federations]
NoConfig == [fed |-> None, key |-> None]

VARIABLES
    default,   \* content of default_federation.txt
    ticket,    \* each machine's file in machine_doc_tickets
    imported,  \* machines whose document the manager can open
    cfgG,      \* each machine's configuration in the manager's replica
    cfgM,      \* ... and in the machine's
    kpc,       \* where the claim task of a machine is
    pc,        \* where each task is
    fed,       \* the federation its update works on
    key,       \* the federation whose claim key it got
    dir,       \* directory entries list_machines has still to read
    todo,      \* machines listed and not dealt with
    at,        \* machine whose configuration is being set
    panicked,  \* history: the syncer task hit the unwrap of list_machines
    calls, claims, faults

files == <<default, ticket, imported>>
configs == <<cfgG, cfgM>>
locals == <<fed, key, dir, todo, at>>
bounds == <<calls, claims, faults>>
vars == <<files, configs, kpc, pc, locals, panicked, bounds>>

TypeOK ==
    /\ default \in Federations \cup {None, Torn}
    /\ ticket \in [Machines -> {"absent", "torn", "good"}]
    /\ imported \in SUBSET Machines
    /\ cfgG \in [Machines -> Config \cup {NoConfig}]
    /\ cfgM \in [Machines -> Config \cup {NoConfig}]
    /\ kpc \in [Machines -> {"idle", "import", "save", "write"}]
    /\ pc \in [Tasks -> {"idle", "write", "sweep", "open", "default", "key",
                         "dir", "list", "each", "set", "dead"}]
    /\ fed \in [Tasks -> Federations \cup {None}]
    /\ key \in [Tasks -> Federations \cup {None}]
    /\ dir \in [Tasks -> SUBSET Machines]
    /\ todo \in [Tasks -> SUBSET Machines]
    /\ at \in [Tasks -> Machines \cup {None}]
    /\ panicked \in BOOLEAN
    /\ calls \in 0..MaxCalls
    /\ claims \in 0..MaxClaims
    /\ faults \in 0..MaxFaults

Init ==
    /\ default = None
    /\ ticket = [m \in Machines |-> "absent"]
    /\ imported = {}
    /\ cfgG = [m \in Machines |-> NoConfig]
    /\ cfgM = [m \in Machines |-> NoConfig]
    /\ kpc = [m \in Machines |-> "idle"]
    /\ pc = [t \in Tasks |-> "idle"]
    /\ fed = [t \in Tasks |-> None]
    /\ key = [t \in Tasks |-> None]
    /\ dir = [t \in Tasks |-> {}]
    /\ todo = [t \in Tasks |-> {}]
    /\ at = [t \in Tasks |-> None]
    /\ panicked = FALSE
    /\ calls = 0
    /\ claims = 0
    /\ faults = 0

Fault == faults < MaxFaults /\ faults' = faults + 1

\* Task t goes from one point to another.
Step(t, from, to) == pc[t] = from /\ pc' = [pc EXCEPT ![t] = to]

\* It goes out of the function it is in: its local variables are gone.
Leave(t, from, to) ==
    /\ Step(t, from, to)
    /\ fed' = [fed EXCEPT ![t] = None]
    /\ key' = [key EXCEPT ![t] = None]
    /\ dir' = [dir EXCEPT ![t] = {}]
    /\ todo' = [todo EXCEPT ![t] = {}]
    /\ at' = [at EXCEPT ![t] = None]

\* The directory mutex of the wallet is free: no call is writing the default.
Unlocked == \A t \in Tasks : pc[t] # "write"
-----------------------------------------------------------------------------
(***************************************************************************)
(* update_federation: set_default_federation rewrites the file in two      *)
(* steps, then the caller updates the machines itself.                     *)
(***************************************************************************)
UpdateFederation(c, f) ==
    /\ calls < MaxCalls
    /\ calls' = calls + 1
    /\ Unlocked
    /\ Step(c, "idle", "write")
    /\ fed' = [fed EXCEPT ![c] = f]
    /\ default' = Torn
    /\ UNCHANGED <<ticket, imported, configs, kpc, key, dir, todo, at,
                   panicked, claims, faults>>

DefaultWrite(c) ==
    /\ Step(c, "write", "default")
    /\ default' = fed[c]
    /\ UNCHANGED <<ticket, imported, configs, kpc, locals, panicked, bounds>>

\* Mutants of DefaultWriteError: the task keeps what the file holds; the
\* error is ignored, and the update goes on with the federation it was given.
DefaultWriteErrorMissing(c) ==
    /\ Fault
    /\ Step(c, "write", "idle")
    /\ fed' = [fed EXCEPT ![c] = default]
    /\ UNCHANGED <<files, configs, kpc, key, dir, todo, at, panicked, calls,
                   claims>>

DefaultWriteErrorIgnored(c) ==
    /\ Fault
    /\ Step(c, "write", "key")
    /\ UNCHANGED <<files, configs, kpc, locals, panicked, calls, claims>>

\* The call returns the error; the file stays truncated.
DefaultWriteError(c) ==
    /\ Fault
    /\ Leave(c, "write", "idle")
    /\ UNCHANGED <<files, configs, kpc, panicked, calls, claims>>
-----------------------------------------------------------------------------
(***************************************************************************)
(* The syncer's loop: sweep_payments, as far as it depends on the tickets, *)
(* then update_machine_configs.                                            *)
(***************************************************************************)
ListDir(t, from, to) ==
    /\ Step(t, from, to)
    /\ dir' = [dir EXCEPT ![t] = {m \in Machines : ticket[m] # "absent"}]
    /\ todo' = [todo EXCEPT ![t] = {}]
    /\ UNCHANGED <<files, configs, kpc, fed, key, at, panicked, bounds>>

SweepList == ListDir(Syncer, "idle", "sweep")

\* get_claimable_contracts opens every machine's document ...
SweepOpen ==
    /\ todo[Syncer] \subseteq imported
    /\ Leave(Syncer, "open", "default")
    /\ UNCHANGED <<files, configs, kpc, panicked, bounds>>

\* Mutant of SweepError: the error ends the syncer's loop.
SweepErrorEnds ==
    /\ ~ todo[Syncer] \subseteq imported
    /\ Leave(Syncer, "open", "dead")
    /\ UNCHANGED <<files, configs, kpc, panicked, bounds>>

\* ... and the sweep of all of them returns if one cannot be opened.
SweepError ==
    /\ ~ todo[Syncer] \subseteq imported
    /\ Leave(Syncer, "open", "default")
    /\ UNCHANGED <<files, configs, kpc, panicked, bounds>>
-----------------------------------------------------------------------------
(***************************************************************************)
(* update_machine_configs: the default, its claim key, the machines.       *)
(***************************************************************************)
ReadDefault(t) ==
    /\ Unlocked
    /\ default \in Federations
    /\ Step(t, "default", "key")
    /\ fed' = [fed EXCEPT ![t] = default]
    /\ UNCHANGED <<files, configs, kpc, key, dir, todo, at, panicked, bounds>>

\* There is no default, or its file does not parse.
ReadNoDefault(t) ==
    /\ Unlocked
    /\ default \notin Federations
    /\ Leave(t, "default", "idle")
    /\ UNCHANGED <<files, configs, kpc, panicked, bounds>>

\* Mutant of ReadKey: the key is that of the default federation by now.
ReadKeyOfDefault(t) ==
    /\ Step(t, "key", "dir")
    /\ key' = [key EXCEPT ![t] =
                 IF default \in Federations THEN default ELSE fed[t]]
    /\ UNCHANGED <<files, configs, kpc, fed, dir, todo, at, panicked, bounds>>

ReadKey(t) ==
    /\ Step(t, "key", "dir")
    /\ key' = [key EXCEPT ![t] = fed[t]]
    /\ UNCHANGED <<files, configs, kpc, fed, dir, todo, at, panicked, bounds>>

\* The default, the client or the directory cannot be read.
ReadError(t) ==
    /\ Fault
    /\ pc[t] \in {"default", "key", "dir"}
    /\ Leave(t, pc[t], "idle")
    /\ UNCHANGED <<files, configs, kpc, panicked, calls, claims>>

UpdateList(t) == ListDir(t, "dir", "list")

\* list_machines reads the tickets one after the other ...
ListEntry(t, m) ==
    /\ pc[t] \in {"sweep", "list"}
    /\ m \in dir[t]
    /\ ticket[m] = "good"
    /\ dir' = [dir EXCEPT ![t] = @ \ {m}]
    /\ todo' = [todo EXCEPT ![t] = @ \cup {m}]
    /\ UNCHANGED <<files, configs, kpc, pc, fed, key, at, panicked, bounds>>

\* ... and unwraps: one that does not parse kills the task that reads it.
ListPanic(t, m) ==
    /\ pc[t] \in {"sweep", "list"}
    /\ m \in dir[t]
    /\ ticket[m] = "torn"
    /\ Leave(t, pc[t], IF t = Syncer THEN "dead" ELSE "idle")
    /\ panicked' = (panicked \/ t = Syncer)
    /\ UNCHANGED <<files, configs, kpc, bounds>>

ListEnd(t) ==
    /\ pc[t] \in {"sweep", "list"}
    /\ dir[t] = {}
    /\ Step(t, pc[t], IF pc[t] = "sweep" THEN "open" ELSE "each")
    /\ UNCHANGED <<files, configs, kpc, locals, panicked, bounds>>

\* Can the manager get at m's document?
Readable(m) == ticket[m] = "good" /\ m \in imported

\* Mutant of NeedsUpdate: only a machine without a configuration needs one.
NeedsUpdateUnset(m, f) == cfgG[m] = NoConfig

NeedsUpdate(m, f) == cfgG[m].fed # f

\* A machine whose configuration cannot be read, or is right, is skipped.
SkipMachine(t, m) ==
    /\ pc[t] = "each"
    /\ m \in todo[t]
    /\ ~Readable(m) \/ ~NeedsUpdate(m, fed[t])
    /\ todo' = [todo EXCEPT ![t] = @ \ {m}]
    /\ UNCHANGED <<files, configs, kpc, pc, fed, key, dir, at, panicked,
                   bounds>>

CheckMachine(t, m) ==
    /\ m \in todo[t]
    /\ Readable(m) /\ NeedsUpdate(m, fed[t])
    /\ Step(t, "each", "set")
    /\ todo' = [todo EXCEPT ![t] = @ \ {m}]
    /\ at' = [at EXCEPT ![t] = m]
    /\ UNCHANGED <<files, configs, kpc, fed, key, dir, panicked, bounds>>

SetConfig(t) ==
    /\ Step(t, "set", "each")
    /\ Readable(at[t])
    /\ cfgG' = [cfgG EXCEPT ![at[t]] = [fed |-> fed[t], key |-> key[t]]]
    /\ at' = [at EXCEPT ![t] = None]
    /\ UNCHANGED <<files, cfgM, kpc, fed, key, dir, todo, panicked, bounds>>

\* The ticket is being rewritten: the error is ignored.
SetError(t) ==
    /\ Step(t, "set", "each")
    /\ ~Readable(at[t])
    /\ at' = [at EXCEPT ![t] = None]
    /\ UNCHANGED <<files, configs, kpc, fed, key, dir, todo, panicked, bounds>>

UpdateEnd(t) ==
    /\ todo[t] = {}
    /\ Leave(t, "each", "idle")
    /\ UNCHANGED <<files, configs, kpc, panicked, bounds>>
-----------------------------------------------------------------------------
(***************************************************************************)
(* The machine's replica catches up, and the content is downloaded.        *)
(***************************************************************************)
ConfigArrives(m) ==
    /\ m \in imported
    /\ cfgM[m] # cfgG[m]
    /\ cfgM' = [cfgM EXCEPT ![m] = cfgG[m]]
    /\ UNCHANGED <<files, cfgG, kpc, pc, locals, panicked, bounds>>
-----------------------------------------------------------------------------
(***************************************************************************)
(* The end of a claim, first or repeated: the document is imported and the *)
(* ticket saved; the errors of both are ignored.                           *)
(***************************************************************************)
ClaimStep(m, from, to) == kpc[m] = from /\ kpc' = [kpc EXCEPT ![m] = to]

ClaimStart(m) ==
    /\ claims < MaxClaims
    /\ claims' = claims + 1
    /\ ClaimStep(m, "idle", "import")
    /\ UNCHANGED <<files, configs, pc, locals, panicked, calls, faults>>

ClaimImport(m) ==
    /\ ClaimStep(m, "import", "save")
    /\ imported' = imported \cup {m}
    /\ UNCHANGED <<default, ticket, configs, pc, locals, panicked, bounds>>

ClaimImportError(m) ==
    /\ Fault
    /\ ClaimStep(m, "import", "save")
    /\ UNCHANGED <<files, configs, pc, locals, panicked, calls, claims>>

ClaimTruncate(m) ==
    /\ ClaimStep(m, "save", "write")
    /\ ticket' = [ticket EXCEPT ![m] = "torn"]
    /\ UNCHANGED <<default, imported, configs, pc, locals, panicked, bounds>>

ClaimWrite(m) ==
    /\ ClaimStep(m, "write", "idle")
    /\ ticket' = [ticket EXCEPT ![m] = "good"]
    /\ UNCHANGED <<default, imported, configs, pc, locals, panicked, bounds>>

ClaimSaveError(m) ==
    /\ Fault
    /\ kpc[m] \in {"save", "write"}
    /\ ClaimStep(m, kpc[m], "idle")
    /\ UNCHANGED <<files, configs, pc, locals, panicked, calls, claims>>

\* The manager stops at any point and starts again, with a new syncer task.
Restart ==
    /\ Fault
    /\ pc' = [t \in Tasks |-> "idle"]
    /\ fed' = [t \in Tasks |-> None]
    /\ key' = [t \in Tasks |-> None]
    /\ dir' = [t \in Tasks |-> {}]
    /\ todo' = [t \in Tasks |-> {}]
    /\ at' = [t \in Tasks |-> None]
    /\ kpc' = [m \in Machines |-> "idle"]
    /\ panicked' = FALSE
    /\ UNCHANGED <<files, configs, calls, claims>>
-----------------------------------------------------------------------------
\* What a task does by itself.
TaskStep(t) ==
    \/ DefaultWrite(t)
    \/ ReadDefault(t)
    \/ ReadNoDefault(t)
    \/ ReadKey(t)
    \/ UpdateList(t)
    \/ \E m \in Machines : \/ ListEntry(t, m)
                           \/ ListPanic(t, m)
                           \/ SkipMachine(t, m)
                           \/ CheckMachine(t, m)
    \/ ListEnd(t)
    \/ SetConfig(t)
    \/ SetError(t)
    \/ UpdateEnd(t)

SyncerStep ==
    \/ SweepList
    \/ SweepOpen
    \/ SweepError
    \/ TaskStep(Syncer)

ClaimTask(m) == ClaimImport(m) \/ ClaimTruncate(m) \/ ClaimWrite(m)

Next ==
    \/ SyncerStep
    \/ \E c \in Callers : \/ TaskStep(c)
                          \/ DefaultWriteError(c)
                          \/ \E f \in Federations : UpdateFederation(c, f)
    \/ \E t \in Tasks : ReadError(t)
    \/ \E m \in Machines : \/ ConfigArrives(m)
                           \/ ClaimStart(m)
                           \/ ClaimTask(m)
                           \/ ClaimImportError(m)
                           \/ ClaimSaveError(m)
    \/ Restart

Spec == Init /\ [][Next]_vars

(***************************************************************************)
(* The runtime polls every task, claim tasks run to their end, and entries *)
(* reach a machine.  No call, claim or fault is forced.                    *)
(***************************************************************************)
Fairness ==
    /\ WF_vars(SyncerStep)
    /\ \A c \in Callers : WF_vars(TaskStep(c))
    /\ \A m \in Machines : WF_vars(ClaimTask(m)) /\ WF_vars(ConfigArrives(m))

LiveSpec == Spec /\ Fairness
-----------------------------------------------------------------------------
(***************************************************************************)
(* A configuration, in either replica, never pairs a federation with the   *)
(* claim key of another: the manager could not claim what is paid there.   *)
(* update_machine_configs reads the two one after the other, and the       *)
(* default may change in between.                                          *)
(***************************************************************************)
KeyFits ==
    \A m \in Machines :
        cfgG[m].key = cfgG[m].fed /\ cfgM[m].key = cfgM[m].fed

(***************************************************************************)
(* Once every update under way works on the current default, this stays so *)
(* and no machine is set back to another federation, until the default     *)
(* changes.  (An update that started before a change may set one back.)    *)
(***************************************************************************)
Updating(t) == pc[t] \in {"key", "dir", "list", "each", "set"}
Calm == \A t \in Tasks : Updating(t) => fed[t] = default
Current(m) == default # None /\ cfgG[m].fed = default
NoSetBack ==
    [][Calm /\ default' = default =>
         Calm' /\ \A m \in Machines : Current(m) => Current(m)']_vars

(***************************************************************************)
(* The configuration sync implements Rollout: however calls, the syncer,   *)
(* errors and restarts overlap, a machine only gets a federation that was  *)
(* recorded as the default when the update that sets it read it.           *)
(***************************************************************************)
Abs == INSTANCE Rollout WITH
           chosen <- IF default \in Federations THEN default ELSE None,
           working <- {fed[t] : t \in {u \in Tasks : Updating(u)}},
           sent <- [m \in Machines |-> cfgG[m].fed],
           held <- [m \in Machines |-> cfgM[m].fed]
RolloutSpec == Abs!Spec

\* m has been claimed, and there is a default federation.
Due(m) == default \in Federations /\ Readable(m)
Synced(m) == cfgM[m].fed = default

(***************************************************************************)
(* "All claimed machines are asynchronously synced to the federation":     *)
(* whatever calls, claims, errors and restarts overlap, a claimed machine  *)
(* ends up with the default federation -- unless the syncer panicked.      *)
(***************************************************************************)
Converges ==
    \A m \in Machines : <>[](Due(m) /\ ~panicked) => <>[]Synced(m)

\* The same without that exemption.
AllSynced == \A m \in Machines : <>[]Due(m) => <>[]Synced(m)

(***************************************************************************)
(* The syncer opens all documents again and again, unless it panicked or   *)
(* a listed machine's document was never imported.                         *)
(***************************************************************************)
Listable == \A m \in Machines : ticket[m] = "absent" \/ Readable(m)
SweepsRun == <>[](Listable /\ ~panicked) => []<><<SweepOpen>>_vars
=============================================================================
