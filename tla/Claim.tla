------------------------------- MODULE Claim -------------------------------
(***************************************************************************)
(* Claiming a machine: the machine's ClaimHandler and its mutex, the       *)
(* claim-request channel read by the machine's application, the manager's  *)
(* claim task, and the files both sides keep                               *)
(* (vendimint/src/vendimint_iroh/{machine,manager}.rs).                    *)
(*                                                                         *)
(* One machine, any number of managers and connections.  Simplifications:  *)
(*  - A connection is used for one claim; its QUIC streams are the two     *)
(*    messages of the protocol, `ping` and `ticket`.  The PIN is left out: *)
(*    it is shown to the users, whose decisions are free choices here.     *)
(*  - Managers run this code, so the ping they send is the right one.  To  *)
(*    another ping the handler returns an error, and its connection ends:  *)
(*    Disconnect and HandlerConnLost have the same effect.                 *)
(*  - A file that is absent, empty or torn is read as "no value" by the    *)
(*    machine (`.ok()`), so None and NoDoc stand for all three.            *)
(*  - A machine crash includes the restart that follows it.                *)
(***************************************************************************)
EXTENDS Naturals, FiniteSets

CONSTANTS
    Managers,       \* managers, by public key
    Conns,          \* connections to the claim protocol
    Apps,           \* tasks of the machine's application using the KV store
    Readers,        \* tasks that call get_machine_state (syncer, application)
    None,           \* no manager / no task
    MaxDocs,        \* bound: documents created
    MaxFaults,      \* bound: crashes, shutdowns, lost connections, I/O errors
    TearsRewrite,   \* may a fault interrupt the REwriting of the manager key?
    KvBeforeClaim   \* may the application use the KV store while unclaimed?

Callers == Conns \cup Apps \cup Readers

ASSUME ClaimAssumption ==
    /\ MaxDocs \in Nat
    /\ MaxFaults \in Nat
    /\ TearsRewrite \in BOOLEAN
    /\ KvBeforeClaim \in BOOLEAN
    /\ None \notin Managers
    /\ None \notin Callers
    /\ Conns \cap Readers = {}
    /\ Conns \cap Apps = {}
    /\ Apps \cap Readers = {}

VARIABLES
    \* the machine
    phase,      \* "up", or "shut" after MachineProtocol::shutdown
    mem,        \* claimed_manager_pubkey: the manager, or None
    keyFile,    \* machine_manager_public_key.json
    lock,       \* holder of the mutex around claimed_manager_pubkey
    chan,       \* the request buffered in the mpsc channel (capacity 1)
    hand,       \* the request the application holds and must answer
    answer,     \* the application's answer on each connection
    hpc,        \* where the ClaimHandler of each connection is
    rpc,        \* where each get_machine_state call is
    \* the managers
    mpc,        \* where the claim task of each connection is
    choice,     \* the manager's user's decision on each connection
    held,       \* documents imported into each manager's store
    ticketFile, \* the ticket file each manager keeps for the machine
    \* the network
    peer,       \* manager at the other end of each connection
    conn,       \* state of each connection
    ping,       \* has the manager's opening ping been sent?
    ticket,     \* the document ticket sent to the manager
    \* the environment
    faults,
    \* get_or_create_machine_doc
    docFile, docsMade, dpc, got

INSTANCE MachineDoc

machineVars == <<phase, mem, keyFile, lock, chan, hand, answer, hpc, rpc>>
managerVars == <<mpc, choice, held, ticketFile>>
netVars == <<peer, conn, ping, ticket>>
docVars == <<docFile, docsMade, dpc, got>>
vars == <<machineVars, managerVars, netVars, faults, docVars>>

Votes == {"none", "yes", "no"}
HandlerSteps == {"none", "lock", "send", "wait", "accept", "doc", "key",
                 "keyw", "ticket", "stopped", "end"}
TaskSteps == {"idle", "decide", "ping", "await", "save", "done"}
ConnStates == {"none", "open", "closed", "finished"}
ReadSteps == {"idle", "wait", "read"}

\* Handler steps at which the connection's handler holds the mutex.
Locked == {"send", "wait", "accept", "doc", "key", "keyw"}

TypeOK ==
    /\ phase \in {"up", "shut"}
    /\ mem \in Managers \cup {None}
    /\ keyFile \in Managers \cup {None}
    /\ lock \in Conns \cup Readers \cup {None}
    /\ chan \in Conns \cup {None}
    /\ hand \in Conns \cup {None}
    /\ answer \in [Conns -> Votes]
    /\ hpc \in [Conns -> HandlerSteps]
    /\ rpc \in [Readers -> ReadSteps]
    /\ mpc \in [Conns -> TaskSteps]
    /\ choice \in [Conns -> Votes]
    /\ held \in [Managers -> SUBSET DocIds]
    /\ ticketFile \in [Managers -> DocIds \cup {NoDoc}]
    /\ peer \in [Conns -> Managers \cup {None}]
    /\ conn \in [Conns -> ConnStates]
    /\ ping \in [Conns -> BOOLEAN]
    /\ ticket \in [Conns -> DocIds \cup {NoDoc}]
    /\ faults \in 0..MaxFaults
    /\ DocTypeOK

Init ==
    /\ phase = "up"
    /\ mem = None
    /\ keyFile = None
    /\ lock = None
    /\ chan = None
    /\ hand = None
    /\ answer = [c \in Conns |-> "none"]
    /\ hpc = [c \in Conns |-> "none"]
    /\ rpc = [r \in Readers |-> "idle"]
    /\ mpc = [c \in Conns |-> "idle"]
    /\ choice = [c \in Conns |-> "none"]
    /\ held = [m \in Managers |-> {}]
    /\ ticketFile = [m \in Managers |-> NoDoc]
    /\ peer = [c \in Conns |-> None]
    /\ conn = [c \in Conns |-> "none"]
    /\ ping = [c \in Conns |-> FALSE]
    /\ ticket = [c \in Conns |-> NoDoc]
    /\ faults = 0
    /\ DocInit

Fault == faults < MaxFaults /\ faults' = faults + 1
Step(c, from, to) == hpc[c] = from /\ hpc' = [hpc EXCEPT ![c] = to]
Task(c, from, to) == mpc[c] = from /\ mpc' = [mpc EXCEPT ![c] = to]
Close(c, why) == conn' = [conn EXCEPT ![c] = IF @ = "open" THEN why ELSE @]
-----------------------------------------------------------------------------
(***************************************************************************)
(* ManagerProtocol::claim_machine connects and spawns the claim task; the  *)
(* machine's router spawns a ClaimHandler for the connection.              *)
(***************************************************************************)
Connect(c, m) ==
    /\ phase = "up"
    /\ conn[c] = "none"
    /\ conn' = [conn EXCEPT ![c] = "open"]
    /\ peer' = [peer EXCEPT ![c] = m]
    /\ Step(c, "none", "lock")
    /\ Task(c, "idle", "decide")
    /\ UNCHANGED <<phase, mem, keyFile, lock, chan, hand, answer, rpc, choice,
                   held, ticketFile, ping, ticket, faults, docVars>>
-----------------------------------------------------------------------------
(***************************************************************************)
(* ClaimHandler::accept.                                                   *)
(***************************************************************************)
\* Mutant of HandlerRefuse: the connection is not closed.
HandlerRefuseSilent(c) ==
    /\ lock = None
    /\ mem \notin {None, peer[c]}
    /\ Step(c, "lock", "end")
    /\ UNCHANGED <<phase, mem, keyFile, lock, chan, hand, answer, rpc,
                   managerVars, netVars, faults, docVars>>

\* The mutex is acquired, the machine belongs to another manager: refuse.
HandlerRefuse(c) ==
    /\ lock = None
    /\ mem \notin {None, peer[c]}
    /\ Step(c, "lock", "end")
    /\ Close(c, "closed")
    /\ UNCHANGED <<phase, mem, keyFile, lock, chan, hand, answer, rpc,
                   managerVars, peer, ping, ticket, faults, docVars>>

\* Mutant of HandlerLock: the claimed_manager_pubkey is not compared.
HandlerLockAnyone(c) ==
    /\ lock = None
    /\ Step(c, "lock", "send")
    /\ lock' = c
    /\ UNCHANGED <<phase, mem, keyFile, chan, hand, answer, rpc, managerVars,
                   netVars, faults, docVars>>

\* The machine is unclaimed, or claimed by this very manager.
HandlerLock(c) ==
    /\ lock = None
    /\ mem \in {None, peer[c]}
    /\ Step(c, "lock", "send")
    /\ lock' = c
    /\ UNCHANGED <<phase, mem, keyFile, chan, hand, answer, rpc, managerVars,
                   netVars, faults, docVars>>

\* Mutant of HandlerRequest: the mutex is dropped during the user's answer.
HandlerRequestUnlocked(c) ==
    /\ chan = None
    /\ Step(c, "send", "wait")
    /\ chan' = c
    /\ lock' = None
    /\ UNCHANGED <<phase, mem, keyFile, hand, answer, rpc, managerVars,
                   netVars, faults, docVars>>

\* The request enters the channel once there is room for it.
HandlerRequest(c) ==
    /\ chan = None
    /\ Step(c, "send", "wait")
    /\ chan' = c
    /\ UNCHANGED <<phase, mem, keyFile, lock, hand, answer, rpc, managerVars,
                   netVars, faults, docVars>>

\* Mutant of HandlerRejected: the mutex is kept.
HandlerRejectedLocked(c) ==
    /\ answer[c] = "no"
    /\ Step(c, "wait", "end")
    /\ Close(c, "closed")
    /\ UNCHANGED <<phase, mem, keyFile, lock, chan, hand, answer, rpc,
                   managerVars, peer, ping, ticket, faults, docVars>>

HandlerRejected(c) ==
    /\ answer[c] = "no"
    /\ Step(c, "wait", "end")
    /\ lock' = None
    /\ Close(c, "closed")
    /\ UNCHANGED <<phase, mem, keyFile, chan, hand, answer, rpc, managerVars,
                   peer, ping, ticket, faults, docVars>>

HandlerGranted(c) ==
    /\ answer[c] = "yes"
    /\ Step(c, "wait", "accept")
    /\ UNCHANGED <<phase, mem, keyFile, lock, chan, hand, answer, rpc,
                   managerVars, netVars, faults, docVars>>

\* Mutant of HandlerPing: the manager's ping is not awaited.
HandlerPingUnread(c) ==
    /\ Step(c, "accept", "doc")
    /\ DocCall(c)
    /\ UNCHANGED <<phase, mem, keyFile, lock, chan, hand, answer, rpc,
                   managerVars, netVars, faults>>

\* accept_bi and read_to_end return the manager's ping: go on to the document.
HandlerPing(c) ==
    /\ ping[c]
    /\ Step(c, "accept", "doc")
    /\ DocCall(c)
    /\ UNCHANGED <<phase, mem, keyFile, lock, chan, hand, answer, rpc,
                   managerVars, netVars, faults>>

\* The document is there and its ticket has been made; `got` remembers it.
HandlerShare(c) ==
    /\ dpc[c] = "done"
    /\ Step(c, "doc", "key")
    /\ UNCHANGED <<phase, mem, keyFile, lock, chan, hand, answer, rpc,
                   managerVars, netVars, faults, docVars>>

\* tokio::fs::write of the manager's key empties the file ...
HandlerTruncate(c) ==
    /\ Step(c, "key", "keyw")
    /\ keyFile' = None
    /\ UNCHANGED <<phase, mem, lock, chan, hand, answer, rpc, managerVars,
                   netVars, faults, docVars>>

\* Mutant of HandlerPersist: the connection is stored, not its remote_id.
HandlerPersistConn(c) ==
    /\ Step(c, "keyw", "ticket")
    /\ keyFile' = c
    /\ mem' = c
    /\ lock' = None
    /\ UNCHANGED <<phase, chan, hand, answer, rpc, managerVars, netVars,
                   faults, docVars>>

\* ... and fills it; then the key is set in memory and the mutex dropped.
HandlerPersist(c) ==
    /\ Step(c, "keyw", "ticket")
    /\ keyFile' = peer[c]
    /\ mem' = peer[c]
    /\ lock' = None
    /\ UNCHANGED <<phase, chan, hand, answer, rpc, managerVars, netVars,
                   faults, docVars>>

\* write_all and finish: the ticket is on its way.
HandlerSend(c) ==
    /\ conn[c] = "open"
    /\ Step(c, "ticket", "stopped")
    /\ ticket' = [ticket EXCEPT ![c] = got[c]]
    /\ DocReturn(c)
    /\ UNCHANGED <<phase, mem, keyFile, lock, chan, hand, answer, rpc,
                   managerVars, peer, conn, ping, faults>>

\* stopped() returns once the manager's side has all the bytes: close.
HandlerFinish(c) ==
    /\ conn[c] = "open"
    /\ Step(c, "stopped", "end")
    /\ Close(c, "finished")
    /\ UNCHANGED <<phase, mem, keyFile, lock, chan, hand, answer, rpc,
                   managerVars, peer, ping, ticket, faults, docVars>>

\* Mutant of HandlerConnLost: the guard is leaked on the error path.
HandlerConnLostLocked(c) ==
    /\ conn[c] # "open"
    /\ \E from \in {"accept", "ticket", "stopped"} : Step(c, from, "end")
    /\ IF dpc[c] = "done" THEN DocReturn(c) ELSE UNCHANGED docVars
    /\ UNCHANGED <<phase, mem, keyFile, lock, chan, hand, answer, rpc,
                   managerVars, netVars, faults>>

\* A stream operation fails because the connection is gone: return the error.
HandlerConnLost(c) ==
    /\ conn[c] # "open"
    /\ \E from \in {"accept", "ticket", "stopped"} : Step(c, from, "end")
    /\ lock' = IF lock = c THEN None ELSE lock
    /\ IF dpc[c] = "done" THEN DocReturn(c) ELSE UNCHANGED docVars
    /\ UNCHANGED <<phase, mem, keyFile, chan, hand, answer, rpc, managerVars,
                   netVars, faults>>

\* The document cannot be opened or created: the handler returns the error.
HandlerDocError(c) ==
    /\ Fault
    /\ Step(c, "doc", "end")
    /\ DocFail(c)
    /\ lock' = None
    /\ Close(c, "closed")
    /\ UNCHANGED <<phase, mem, keyFile, chan, hand, answer, rpc, managerVars,
                   peer, ping, ticket>>

\* The key cannot be written: the file stays empty, memory as it was.
HandlerKeyError(c) ==
    /\ Fault
    /\ TearsRewrite \/ mem = None
    /\ Step(c, "keyw", "end")
    /\ lock' = None
    /\ Close(c, "closed")
    /\ DocReturn(c)
    /\ UNCHANGED <<phase, mem, keyFile, chan, hand, answer, rpc, managerVars,
                   peer, ping, ticket>>
-----------------------------------------------------------------------------
(***************************************************************************)
(* The machine's application: await_next_incoming_claim_request in a loop, *)
(* get_machine_state, and the KV methods (each of which opens the document *)
(* without taking the mutex).                                              *)
(***************************************************************************)
\* recv() still returns a buffered request after shutdown.
AppReceive ==
    /\ chan # None
    /\ hand = None
    /\ hand' = chan
    /\ chan' = None
    /\ UNCHANGED <<phase, mem, keyFile, lock, answer, hpc, rpc, managerVars,
                   netVars, faults, docVars>>

\* Sending true, or sending false or dropping the sender.
AppAnswer(v) ==
    /\ hand # None
    /\ answer' = [answer EXCEPT ![hand] = v]
    /\ hand' = None
    /\ UNCHANGED <<phase, mem, keyFile, lock, chan, hpc, rpc, managerVars,
                   netVars, faults, docVars>>

ReaderCall(r) ==
    /\ phase = "up"
    /\ rpc[r] = "idle"
    /\ rpc' = [rpc EXCEPT ![r] = "wait"]
    /\ UNCHANGED <<phase, mem, keyFile, lock, chan, hand, answer, hpc,
                   managerVars, netVars, faults, docVars>>

ReaderUnclaimed(r) ==
    /\ rpc[r] = "wait"
    /\ lock = None
    /\ mem = None
    /\ rpc' = [rpc EXCEPT ![r] = "idle"]
    /\ UNCHANGED <<phase, mem, keyFile, lock, chan, hand, answer, hpc,
                   managerVars, netVars, faults, docVars>>

\* Claimed: the mutex is held while the configuration is read from the doc.
ReaderClaimed(r) ==
    /\ rpc[r] = "wait"
    /\ lock = None
    /\ mem # None
    /\ lock' = r
    /\ rpc' = [rpc EXCEPT ![r] = "read"]
    /\ DocCall(r)
    /\ UNCHANGED <<phase, mem, keyFile, chan, hand, answer, hpc, managerVars,
                   netVars, faults>>

ReaderDone(r) ==
    /\ rpc[r] = "read"
    /\ DocReturn(r)
    /\ rpc' = [rpc EXCEPT ![r] = "idle"]
    /\ lock' = None
    /\ UNCHANGED <<phase, mem, keyFile, chan, hand, answer, hpc, managerVars,
                   netVars, faults>>

\* get_machine_config fails: the error is returned and the mutex dropped.
ReaderError(r) ==
    /\ Fault
    /\ rpc[r] = "read"
    /\ DocFail(r)
    /\ rpc' = [rpc EXCEPT ![r] = "idle"]
    /\ lock' = None
    /\ UNCHANGED <<phase, mem, keyFile, chan, hand, answer, hpc, managerVars,
                   netVars>>

AppKv(a) ==
    /\ phase = "up"
    /\ KvBeforeClaim \/ mem # None
    /\ DocCall(a)
    /\ UNCHANGED <<machineVars, managerVars, netVars, faults>>

AppKvDone(a) ==
    /\ DocReturn(a)
    /\ UNCHANGED <<machineVars, managerVars, netVars, faults>>

AppKvError(a) ==
    /\ Fault
    /\ DocFail(a)
    /\ UNCHANGED <<machineVars, managerVars, netVars>>

\* One step of whoever is inside get_or_create_machine_doc.
OpenDoc(x) ==
    /\ DocStep(x)
    /\ UNCHANGED <<machineVars, managerVars, netVars, faults>>
-----------------------------------------------------------------------------
(***************************************************************************)
(* The claim task spawned by ManagerProtocol::claim_machine.               *)
(***************************************************************************)
ManagerAccept(c) ==
    /\ Task(c, "decide", "ping")
    /\ choice' = [choice EXCEPT ![c] = "yes"]
    /\ UNCHANGED <<machineVars, held, ticketFile, netVars, faults, docVars>>

ManagerReject(c) ==
    /\ Task(c, "decide", "done")
    /\ choice' = [choice EXCEPT ![c] = "no"]
    /\ Close(c, "closed")
    /\ UNCHANGED <<machineVars, held, ticketFile, peer, ping, ticket, faults,
                   docVars>>

\* open_bi, the magic bytes, finish, stopped.
ManagerPing(c) ==
    /\ conn[c] = "open"
    /\ Task(c, "ping", "await")
    /\ ping' = [ping EXCEPT ![c] = TRUE]
    /\ UNCHANGED <<machineVars, choice, held, ticketFile, peer, conn, ticket,
                   faults, docVars>>

\* The ticket arrived whole: import the document.
ManagerImport(c) ==
    /\ ticket[c] # NoDoc
    /\ Task(c, "await", "save")
    /\ held' = [held EXCEPT ![peer[c]] = @ \cup {ticket[c]}]
    /\ UNCHANGED <<machineVars, choice, ticketFile, netVars, faults, docVars>>

\* The import's error is ignored: the ticket is saved all the same.
ManagerImportError(c) ==
    /\ Fault
    /\ ticket[c] # NoDoc
    /\ Task(c, "await", "save")
    /\ UNCHANGED <<machineVars, choice, held, ticketFile, netVars, docVars>>

\* Mutant of ManagerSave: the ticket is imported but not saved.
ManagerSaveNothing(c) ==
    /\ Task(c, "save", "done")
    /\ Close(c, "closed")
    /\ UNCHANGED <<machineVars, choice, held, ticketFile, peer, ping, ticket,
                   faults, docVars>>

ManagerSave(c) ==
    /\ Task(c, "save", "done")
    /\ ticketFile' = [ticketFile EXCEPT ![peer[c]] = ticket[c]]
    /\ Close(c, "closed")
    /\ UNCHANGED <<machineVars, choice, held, peer, ping, ticket, faults,
                   docVars>>

\* The write fails half-way and its error is ignored too.
ManagerSaveError(c) ==
    /\ Fault
    /\ Task(c, "save", "done")
    /\ ticketFile' = [ticketFile EXCEPT ![peer[c]] = NoDoc]
    /\ Close(c, "closed")
    /\ UNCHANGED <<machineVars, choice, held, peer, ping, ticket, docVars>>

\* A stream operation fails on a connection that is gone.  Bytes that were
\* under way when it was lost may or may not arrive.
ManagerConnLost(c) ==
    /\ conn[c] = "closed"
    /\ \E from \in {"ping", "await"} : Task(c, from, "done")
    /\ UNCHANGED <<machineVars, choice, held, ticketFile, netVars, faults,
                   docVars>>
-----------------------------------------------------------------------------
(***************************************************************************)
(* Faults, shutdown and restart.                                           *)
(***************************************************************************)
Disconnect(c) ==
    /\ Fault
    /\ conn[c] = "open"
    /\ Close(c, "closed")
    /\ UNCHANGED <<machineVars, managerVars, peer, ping, ticket, docVars>>

\* A manager process stops; what it has on disk is all it keeps.
ManagerCrash(m) ==
    /\ Fault
    /\ mpc' = [c \in Conns |-> IF peer[c] = m THEN "done" ELSE mpc[c]]
    /\ conn' = [c \in Conns |-> IF peer[c] = m /\ conn[c] = "open"
                                  THEN "closed" ELSE conn[c]]
    /\ UNCHANGED <<machineVars, choice, held, ticketFile, peer, ping, ticket,
                   docVars>>

\* The tasks, the mutex, the channel and the connections of a machine that
\* stops are gone.
MachineStops ==
    /\ lock' = None
    /\ hpc' = [c \in Conns |-> IF hpc[c] = "none" THEN "none" ELSE "end"]
    /\ rpc' = [r \in Readers |-> "idle"]
    /\ conn' = [c \in Conns |-> IF conn[c] = "open" THEN "closed" ELSE conn[c]]
    /\ UNCHANGED <<answer, managerVars, peer, ping, ticket>>

Rewriting == mem # None /\ \E c \in Conns : hpc[c] = "keyw"

\* MachineProtocol::new: the key is read from the file, the channel is new.
Boot ==
    /\ phase' = "up"
    /\ mem' = keyFile
    /\ chan' = None
    /\ hand' = None
    /\ UNCHANGED keyFile

Crash ==
    /\ Fault
    /\ TearsRewrite \/ ~Rewriting
    /\ MachineStops
    /\ Boot
    /\ DocCrash

\* Machine::shutdown aborts the handlers; a key write that has begun is
\* finished by the blocking pool, but memory is not updated.
Shutdown ==
    /\ phase = "up"
    /\ Fault
    /\ phase' = "shut"
    /\ MachineStops
    /\ keyFile' = IF lock \in Conns /\ hpc[lock] = "keyw" THEN peer[lock]
                                                          ELSE keyFile
    /\ DocAbort
    /\ UNCHANGED <<mem, chan, hand>>

Restart ==
    /\ phase = "shut"
    /\ Boot
    /\ UNCHANGED <<lock, hpc, rpc, answer, managerVars, netVars, faults,
                   docVars>>
-----------------------------------------------------------------------------
HandlerNext(c) ==
    \/ HandlerRefuse(c)
    \/ HandlerLock(c)
    \/ HandlerRequest(c)
    \/ HandlerRejected(c)
    \/ HandlerGranted(c)
    \/ HandlerPing(c)
    \/ HandlerShare(c)
    \/ HandlerTruncate(c)
    \/ HandlerPersist(c)
    \/ HandlerSend(c)
    \/ HandlerFinish(c)
    \/ HandlerConnLost(c)
    \/ HandlerDocError(c)
    \/ HandlerKeyError(c)

ManagerNext(c) ==
    \/ ManagerAccept(c)
    \/ ManagerReject(c)
    \/ ManagerPing(c)
    \/ ManagerImport(c)
    \/ ManagerImportError(c)
    \/ ManagerSave(c)
    \/ ManagerSaveError(c)
    \/ ManagerConnLost(c)

ReaderNext(r) ==
    \/ ReaderCall(r)
    \/ ReaderUnclaimed(r)
    \/ ReaderClaimed(r)
    \/ ReaderDone(r)
    \/ ReaderError(r)

Next ==
    \/ \E c \in Conns, m \in Managers : Connect(c, m)
    \/ \E c \in Conns : HandlerNext(c) \/ ManagerNext(c) \/ Disconnect(c)
    \/ AppReceive
    \/ \E v \in {"yes", "no"} : AppAnswer(v)
    \/ \E r \in Readers : ReaderNext(r)
    \/ \E a \in Apps : AppKv(a) \/ AppKvDone(a) \/ AppKvError(a)
    \/ \E x \in Callers : OpenDoc(x)
    \/ \E m \in Managers : ManagerCrash(m)
    \/ Crash
    \/ Shutdown
    \/ Restart

Spec == Init /\ [][Next]_vars
-----------------------------------------------------------------------------
(***************************************************************************)
(* Safety.                                                                 *)
(***************************************************************************)
\* The managers that were handed the machine's document.
Holders == {m \in Managers : held[m] # {} \/ ticketFile[m] # NoDoc}

\* The managers whose claim was accepted on both sides of one connection.
Agreed == {m \in Managers :
             \E c \in Conns : /\ peer[c] = m
                              /\ choice[c] = "yes"
                              /\ answer[c] = "yes"}

(***************************************************************************)
(* A manager that was handed the document is the manager the machine is    *)
(* claimed by, whatever crashes, lost connections and concurrent claims    *)
(* happened: "machine can only be claimed by a single manager".            *)
(***************************************************************************)
HolderIsOwner == \A m \in Holders : mem = m

(***************************************************************************)
(* The ticket a manager saved names the document the machine itself opens. *)
(* If they differ, configuration and payments never meet.                  *)
(***************************************************************************)
SameDocument ==
    \A m \in Managers : ticketFile[m] # NoDoc => ticketFile[m] = docFile

(***************************************************************************)
(* No two managers hold the machine's document.                            *)
(***************************************************************************)
SingleHolder == \A m, n \in Holders : m = n

(***************************************************************************)
(* get_or_create_machine_doc "creates an iroh doc (or returns the existing *)
(* one)": callers that have a document have the same one.                  *)
(***************************************************************************)
OneDocument ==
    \A x, y \in Callers : dpc[x] = "done" /\ dpc[y] = "done" => got[x] = got[y]

(***************************************************************************)
(* The mutex is held exactly while its holder is in a critical section, so *)
(* every error path of the handler and of get_machine_state releases it.   *)
(***************************************************************************)
MutexFollowsHolder ==
    /\ \A c \in Conns : lock = c <=> hpc[c] \in Locked
    /\ \A r \in Readers : lock = r <=> rpc[r] = "read"

(***************************************************************************)
(* Once the ticket file names a document it names that one for ever: the   *)
(* unlocked check-then-act never replaces a document already in use.       *)
(***************************************************************************)
DocumentStable == [][docFile # NoDoc => docFile' = docFile]_vars

(***************************************************************************)
(* The claim protocol implements Pairing: one owner, for ever, agreed on   *)
(* by both sides, and nobody else is handed the document.                  *)
(***************************************************************************)
Abs == INSTANCE Pairing WITH agreed <- Agreed, owner <- mem, holders <- Holders
PairingSpec == Abs!Spec
-----------------------------------------------------------------------------
(***************************************************************************)
(* Liveness.  The tokio runtime polls every ready task, and its mutex is   *)
(* first-in first-out: a task waiting for a mutex that is released again   *)
(* and again gets it in the end, hence strong fairness on acquiring it.    *)
(* The application calls await_next_incoming_claim_request in a loop and   *)
(* answers, as its documentation demands, and the manager's user decides.  *)
(* No fault and no new call is ever forced.                                *)
(***************************************************************************)
HandlerEnter(c) == HandlerRefuse(c) \/ HandlerLock(c)

HandlerRun(c) ==
    \/ HandlerRequest(c)
    \/ HandlerRejected(c)
    \/ HandlerGranted(c)
    \/ HandlerPing(c)
    \/ HandlerShare(c)
    \/ HandlerTruncate(c)
    \/ HandlerPersist(c)
    \/ HandlerSend(c)
    \/ HandlerFinish(c)
    \/ HandlerConnLost(c)

ManagerRun(c) ==
    \/ ManagerPing(c)
    \/ ManagerImport(c)
    \/ ManagerSave(c)
    \/ ManagerConnLost(c)

ReaderEnter(r) == ReaderUnclaimed(r) \/ ReaderClaimed(r)

Fairness ==
    /\ \A c \in Conns : /\ SF_vars(HandlerEnter(c))
                        /\ WF_vars(HandlerRun(c))
                        /\ WF_vars(ManagerAccept(c) \/ ManagerReject(c))
                        /\ WF_vars(ManagerRun(c))
    /\ WF_vars(AppReceive)
    /\ WF_vars(\E v \in {"yes", "no"} : AppAnswer(v))
    /\ \A r \in Readers : SF_vars(ReaderEnter(r)) /\ WF_vars(ReaderDone(r))
    /\ \A x \in Callers : WF_vars(OpenDoc(x))

LiveSpec == Spec /\ Fairness

(***************************************************************************)
(* A claim both sides accepted ends with the manager holding the ticket,   *)
(* unless a fault intervenes.                                              *)
(***************************************************************************)
ClaimCompletes ==
    \A c \in Conns, m \in Managers :
        (peer[c] = m /\ choice[c] = "yes" /\ answer[c] = "yes")
            ~> (ticketFile[m] # NoDoc \/ faults > 0)

(***************************************************************************)
(* Every handler and every claim task ends, whatever the faults: nobody    *)
(* waits for ever on the mutex, the channel or the other side.             *)
(***************************************************************************)
ClaimsEnd ==
    \A c \in Conns : conn[c] = "open" ~> (hpc[c] = "end" /\ mpc[c] = "done")

(***************************************************************************)
(* A get_machine_state call returns although claim handlers keep the mutex *)
(* across their waits for two users.                                       *)
(***************************************************************************)
StateReadable == \A r \in Readers : rpc[r] = "wait" ~> rpc[r] = "idle"
=============================================================================
