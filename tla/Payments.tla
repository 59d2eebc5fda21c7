------------------------------ MODULE Payments ------------------------------
(***************************************************************************)
(* The path of a payment: a machine issues an invoice under the federation *)
(* it is configured for; the paid contract lands in the machine's wallet;  *)
(* the machine's syncer copies it to the document shared with the manager; *)
(* the manager's syncer claims it and removes it from the document         *)
(* (vendimint/src/{machine,manager}.rs, vendimint_iroh/{machine,manager}.rs*)
(* and fedimint_wallet.rs).                                                *)
(*                                                                         *)
(* Claimed machines and one manager.  Simplifications:                     *)
(*  - A machine follows the default.  That an update under way across a    *)
(*    change may set it back for a while is in ConfigSync; no safety proof *)
(*    uses what cfg is.                                                    *)
(*  - A contract is a document key.  The machine writes its content under  *)
(*    that key, the manager an empty value (del).  A replica keeps, per    *)
(*    key, the time of the newest write of either kind, and a query shows  *)
(*    a key whose newest write is a content (iroh-docs).  The two clocks   *)
(*    agree: a later write has a later time.                               *)
(*  - Replicas exchange entries, and the manager downloads contents, while *)
(*    the machine is online.                                               *)
(*  - Claiming a contract credits the manager once; claiming it again may  *)
(*    succeed or fail (the federation decides).                            *)
(*  - A failing set_default_federation makes the syncer retry: stuttering. *)
(***************************************************************************)
EXTENDS Naturals, FiniteSets

CONSTANTS
    Machines,
    Federations,
    Contracts,
    None,
    MayStayDown,   \* machines that may go offline and never come back
    MaxFaults,     \* bound: crashes and failing operations
    MaxSwitches    \* bound: update_federation calls

ASSUME PaymentsAssumption ==
    /\ None \notin Federations
    /\ None \notin Machines
    /\ MayStayDown \subseteq Machines
    /\ MaxFaults \in Nat
    /\ MaxSwitches \in Nat

VARIABLES
    \* configuration
    target,     \* the manager's default federation
    cfg,        \* the federation in each machine's replica of its config
    joined,     \* federations each machine has a client for
    switches,
    \* machines
    up,         \* is the machine online?
    req,        \* federation read by a receive_payment under way
    home,       \* machine that issued a contract
    fed,        \* federation a contract was issued under
    paid,       \* contracts whose invoice was paid
    wallet,     \* claimable contracts in the machines' wallets
    mpc,        \* where each machine's syncer is
    mfed,       \* the federation its iteration works on
    mtodo,      \* contracts fetched and not written yet
    mdone,      \* contracts written, to be removed from the wallet
    \* documents
    docM,       \* each contract's entry in its machine's replica
    docG,       \* ... and in the manager's replica
    blobs,      \* contents the manager has downloaded
    \* manager
    gpc,        \* where the manager's syncer is
    gtodo,      \* contracts fetched and not claimed yet
    gdone,      \* contracts claimed, to be removed from the document
    credited,   \* contracts whose funds the manager has
    faults

configVars == <<target, cfg, joined, switches>>
invoiceVars == <<req, home, fed, paid>>
machineVars == <<wallet, mpc, mfed, mtodo, mdone>>
docEntries == <<docM, docG, blobs>>
managerVars == <<gpc, gtodo, gdone, credited>>
vars == <<configVars, up, invoiceVars, machineVars, docEntries, managerVars,
          faults>>

\* An entry: when its content and when its removal were last written.
Entry == [put : Nat, del : Nat]
NoEntry == [put |-> 0, del |-> 0]
Visible(e) == e.put > e.del

Later(a, b) == IF a > b THEN a ELSE b
Merge(d, e) == [put |-> Later(d.put, e.put), del |-> Later(d.del, e.del)]

\* The time of the next write to k: after every earlier one.
Now(k) == 1 + Later(Merge(docM[k], docG[k]).put, Merge(docM[k], docG[k]).del)

TypeOK ==
    /\ target \in Federations \cup {None}
    /\ cfg \in [Machines -> Federations \cup {None}]
    /\ joined \in [Machines -> SUBSET Federations]
    /\ switches \in 0..MaxSwitches
    /\ up \in [Machines -> BOOLEAN]
    /\ req \in [Machines -> Federations \cup {None}]
    /\ home \in [Contracts -> Machines \cup {None}]
    /\ fed \in [Contracts -> Federations \cup {None}]
    /\ paid \in SUBSET Contracts
    /\ wallet \in SUBSET Contracts
    /\ mpc \in [Machines -> {"idle", "fetch", "write"}]
    /\ mfed \in [Machines -> Federations \cup {None}]
    /\ mtodo \in [Machines -> SUBSET Contracts]
    /\ mdone \in [Machines -> SUBSET Contracts]
    /\ docM \in [Contracts -> Entry]
    /\ docG \in [Contracts -> Entry]
    /\ blobs \in SUBSET Contracts
    /\ gpc \in {"idle", "claim", "remove"}
    /\ gtodo \in SUBSET Contracts
    /\ gdone \in SUBSET Contracts
    /\ credited \in SUBSET Contracts
    /\ faults \in 0..MaxFaults

Init ==
    /\ target = None
    /\ cfg = [i \in Machines |-> None]
    /\ joined = [i \in Machines |-> {}]
    /\ switches = 0
    /\ up = [i \in Machines |-> TRUE]
    /\ req = [i \in Machines |-> None]
    /\ home = [k \in Contracts |-> None]
    /\ fed = [k \in Contracts |-> None]
    /\ paid = {}
    /\ wallet = {}
    /\ mpc = [i \in Machines |-> "idle"]
    /\ mfed = [i \in Machines |-> None]
    /\ mtodo = [i \in Machines |-> {}]
    /\ mdone = [i \in Machines |-> {}]
    /\ docM = [k \in Contracts |-> NoEntry]
    /\ docG = [k \in Contracts |-> NoEntry]
    /\ blobs = {}
    /\ gpc = "idle"
    /\ gtodo = {}
    /\ gdone = {}
    /\ credited = {}
    /\ faults = 0

Fault == faults < MaxFaults /\ faults' = faults + 1
-----------------------------------------------------------------------------
(***************************************************************************)
(* Configuration: update_federation on the manager; the entry it writes    *)
(* for every machine reaches each machine's replica when it is online.     *)
(***************************************************************************)
UpdateFederation(f) ==
    /\ f # target
    /\ switches < MaxSwitches
    /\ switches' = switches + 1
    /\ target' = f
    /\ UNCHANGED <<cfg, joined, up, invoiceVars, machineVars, docEntries,
                   managerVars, faults>>

ConfigArrives(i) ==
    /\ up[i]
    /\ cfg[i] # target
    /\ cfg' = [cfg EXCEPT ![i] = target]
    /\ UNCHANGED <<target, joined, switches, up, invoiceVars, machineVars,
                   docEntries, managerVars, faults>>
-----------------------------------------------------------------------------
(***************************************************************************)
(* Machine::receive_payment reads the configuration, then asks the wallet  *)
(* of that federation for an invoice; the configuration may have changed.  *)
(***************************************************************************)
ReceiveStart(i) ==
    /\ up[i]
    /\ req[i] = None
    /\ cfg[i] # None
    /\ req' = [req EXCEPT ![i] = cfg[i]]
    /\ UNCHANGED <<configVars, up, home, fed, paid, machineVars, docEntries,
                   managerVars, faults>>

ReceiveIssue(i, k) ==
    /\ req[i] \in joined[i]
    /\ home[k] = None
    /\ home' = [home EXCEPT ![k] = i]
    /\ fed' = [fed EXCEPT ![k] = req[i]]
    /\ req' = [req EXCEPT ![i] = None]
    /\ UNCHANGED <<configVars, up, paid, machineVars, docEntries, managerVars,
                   faults>>

\* "Client for federation {federation_id} not found".
ReceiveError(i) ==
    /\ req[i] # None
    /\ req[i] \notin joined[i]
    /\ req' = [req EXCEPT ![i] = None]
    /\ UNCHANGED <<configVars, up, home, fed, paid, machineVars, docEntries,
                   managerVars, faults>>

\* The invoice is paid and the machine's client records the contract.
Pay(k) ==
    /\ home[k] # None
    /\ up[home[k]]
    /\ k \notin paid
    /\ paid' = paid \cup {k}
    /\ wallet' = wallet \cup {k}
    /\ UNCHANGED <<configVars, up, req, home, fed, mpc, mfed, mtodo, mdone,
                   docEntries, managerVars, faults>>
-----------------------------------------------------------------------------
(***************************************************************************)
(* The machine's syncer: the loop of Machine::new and                      *)
(* make_completed_payments_syncable.                                       *)
(***************************************************************************)
\* Mutants of MachineReadConfig: an unconfigured machine goes on; only a
\* changed configuration is acted upon.
MachineReadNoConfig(i) ==
    /\ up[i]
    /\ mpc[i] = "idle"
    /\ mpc' = [mpc EXCEPT ![i] = "fetch"]
    /\ mfed' = [mfed EXCEPT ![i] = cfg[i]]
    /\ joined' = [joined EXCEPT ![i] = @ \cup {cfg[i]}]
    /\ UNCHANGED <<target, cfg, switches, up, invoiceVars, wallet, mtodo,
                   mdone, docEntries, managerVars, faults>>

MachineReadNewConfig(i) ==
    /\ up[i]
    /\ mpc[i] = "idle"
    /\ cfg[i] \notin joined[i] \cup {None}
    /\ mpc' = [mpc EXCEPT ![i] = "fetch"]
    /\ mfed' = [mfed EXCEPT ![i] = cfg[i]]
    /\ joined' = [joined EXCEPT ![i] = @ \cup {cfg[i]}]
    /\ UNCHANGED <<target, cfg, switches, up, invoiceVars, wallet, mtodo,
                   mdone, docEntries, managerVars, faults>>

\* get_machine_state and set_default_federation, which joins if it has to.
MachineReadConfig(i) ==
    /\ up[i]
    /\ mpc[i] = "idle"
    /\ cfg[i] # None
    /\ mpc' = [mpc EXCEPT ![i] = "fetch"]
    /\ mfed' = [mfed EXCEPT ![i] = cfg[i]]
    /\ joined' = [joined EXCEPT ![i] = @ \cup {cfg[i]}]
    /\ UNCHANGED <<target, cfg, switches, up, invoiceVars, wallet, mtodo,
                   mdone, docEntries, managerVars, faults>>

\* Mutant of MachineFetch: the contracts are taken out of the wallet.
MachineFetchTakes(i) ==
    /\ mpc[i] = "fetch"
    /\ mtodo' = [mtodo EXCEPT ![i] =
                   {k \in wallet : home[k] = i /\ fed[k] = mfed[i]}]
    /\ wallet' = {k \in wallet : home[k] # i \/ fed[k] # mfed[i]}
    /\ mpc' = [mpc EXCEPT ![i] = "write"]
    /\ UNCHANGED <<configVars, up, invoiceVars, mfed, mdone, docEntries,
                   managerVars, faults>>

\* 1. The claimable contracts of that federation, and of no other.
MachineFetch(i) ==
    /\ mpc[i] = "fetch"
    /\ mtodo' = [mtodo EXCEPT ![i] =
                   {k \in wallet : home[k] = i /\ fed[k] = mfed[i]}]
    /\ mpc' = [mpc EXCEPT ![i] = "write"]
    /\ UNCHANGED <<configVars, up, invoiceVars, wallet, mfed, mdone,
                   docEntries, managerVars, faults>>

\* 2. Each is written to the shared document ...
MachineWrite(i, k) ==
    /\ k \in mtodo[i]
    /\ mtodo' = [mtodo EXCEPT ![i] = @ \ {k}]
    /\ mdone' = [mdone EXCEPT ![i] = @ \cup {k}]
    /\ docM' = [docM EXCEPT ![k].put = Now(k)]
    /\ UNCHANGED <<configVars, up, invoiceVars, wallet, mpc, mfed, docG, blobs,
                   managerVars, faults>>

\* Mutant of MachineWriteError: a failed write counts as written.
MachineWriteErrorIgnored(i, k) ==
    /\ Fault
    /\ k \in mtodo[i]
    /\ mtodo' = [mtodo EXCEPT ![i] = @ \ {k}]
    /\ mdone' = [mdone EXCEPT ![i] = @ \cup {k}]
    /\ UNCHANGED <<configVars, up, invoiceVars, wallet, mpc, mfed, docEntries,
                   managerVars>>

\* ... or is skipped when the write fails.
MachineWriteError(i, k) ==
    /\ Fault
    /\ k \in mtodo[i]
    /\ mtodo' = [mtodo EXCEPT ![i] = @ \ {k}]
    /\ UNCHANGED <<configVars, up, invoiceVars, wallet, mpc, mfed, mdone,
                   docEntries, managerVars>>

\* 3. The ones that were written leave the wallet.
MachineRemove(i) ==
    /\ mpc[i] = "write"
    /\ mtodo[i] = {}
    /\ wallet' = wallet \ mdone[i]
    /\ mdone' = [mdone EXCEPT ![i] = {}]
    /\ mpc' = [mpc EXCEPT ![i] = "idle"]
    /\ UNCHANGED <<configVars, up, invoiceVars, mfed, mtodo, docEntries,
                   managerVars, faults>>

\* A crash, a shutdown or an abort of the syncer, at any point.
MachineDown(i) ==
    /\ Fault
    /\ up[i]
    /\ up' = [up EXCEPT ![i] = FALSE]
    /\ req' = [req EXCEPT ![i] = None]
    /\ mpc' = [mpc EXCEPT ![i] = "idle"]
    /\ mtodo' = [mtodo EXCEPT ![i] = {}]
    /\ mdone' = [mdone EXCEPT ![i] = {}]
    /\ UNCHANGED <<configVars, home, fed, paid, wallet, mfed, docEntries,
                   managerVars>>

MachineUp(i) ==
    /\ ~up[i]
    /\ up' = [up EXCEPT ![i] = TRUE]
    /\ UNCHANGED <<configVars, invoiceVars, machineVars, docEntries,
                   managerVars, faults>>
-----------------------------------------------------------------------------
(***************************************************************************)
(* The shared documents: entries are exchanged both ways, then the manager *)
(* downloads the contents it is missing.                                   *)
(***************************************************************************)
Exchange(k) ==
    /\ home[k] # None
    /\ up[home[k]]
    /\ docM[k] # docG[k]
    /\ docM' = [docM EXCEPT ![k] = Merge(docM[k], docG[k])]
    /\ docG' = [docG EXCEPT ![k] = Merge(docM[k], docG[k])]
    /\ UNCHANGED <<configVars, up, invoiceVars, machineVars, blobs,
                   managerVars, faults>>

Download(k) ==
    /\ home[k] # None
    /\ up[home[k]]
    /\ Visible(docG[k])
    /\ k \notin blobs
    /\ blobs' = blobs \cup {k}
    /\ UNCHANGED <<configVars, up, invoiceVars, machineVars, docM, docG,
                   managerVars, faults>>
-----------------------------------------------------------------------------
(***************************************************************************)
(* The manager's syncer: sweep_payments.                                   *)
(***************************************************************************)
Sweepable == {k \in Contracts : Visible(docG[k])}

\* 1. The contracts of all machines' documents.  One content that is not
\* there makes get_claimable_contracts, and so the whole sweep, return.
SweepFetch ==
    /\ gpc = "idle"
    /\ Sweepable # {}
    /\ Sweepable \subseteq blobs
    /\ gtodo' = Sweepable
    /\ gpc' = "claim"
    /\ UNCHANGED <<configVars, up, invoiceVars, machineVars, docEntries, gdone,
                   credited, faults>>

\* 2. Each is claimed ...
SweepClaim(k) ==
    /\ k \in gtodo
    /\ gtodo' = gtodo \ {k}
    /\ gdone' = gdone \cup {k}
    /\ credited' = credited \cup {k}
    /\ UNCHANGED <<configVars, up, invoiceVars, machineVars, docEntries, gpc,
                   faults>>

\* Mutant of SweepClaimError: failed contracts are removed as well.
SweepClaimErrorDropped(k) ==
    /\ Fault
    /\ k \in gtodo
    /\ gtodo' = gtodo \ {k}
    /\ gdone' = gdone \cup {k}
    /\ UNCHANGED <<configVars, up, invoiceVars, machineVars, docEntries, gpc,
                   credited>>

\* ... or the claim returns an error, perhaps after the federation took it;
SweepClaimError(k) ==
    /\ Fault
    /\ k \in gtodo
    /\ gtodo' = gtodo \ {k}
    /\ credited' \in {credited, credited \cup {k}}
    /\ UNCHANGED <<configVars, up, invoiceVars, machineVars, docEntries, gpc,
                   gdone>>

\* a contract that was already claimed may be refused every time.
SweepClaimSpent(k) ==
    /\ k \in gtodo
    /\ k \in credited
    /\ gtodo' = gtodo \ {k}
    /\ UNCHANGED <<configVars, up, invoiceVars, machineVars, docEntries, gpc,
                   gdone, credited, faults>>

SweepClaimed ==
    /\ gpc = "claim"
    /\ gtodo = {}
    /\ gpc' = IF gdone = {} THEN "idle" ELSE "remove"
    /\ UNCHANGED <<configVars, up, invoiceVars, machineVars, docEntries, gtodo,
                   gdone, credited, faults>>

\* 3. remove_claimable_contracts deletes the claimed ones key by key ...
SweepRemove(k) ==
    /\ gpc = "remove"
    /\ k \in gdone
    /\ docG' = [docG EXCEPT ![k].del = Now(k)]
    /\ gdone' = gdone \ {k}
    /\ gpc' = IF gdone = {k} THEN "idle" ELSE "remove"
    /\ UNCHANGED <<configVars, up, invoiceVars, machineVars, docM, blobs,
                   gtodo, credited, faults>>

\* ... and stops at the first error.
SweepRemoveError ==
    /\ Fault
    /\ gpc = "remove"
    /\ gdone' = {}
    /\ gpc' = "idle"
    /\ UNCHANGED <<configVars, up, invoiceVars, machineVars, docEntries, gtodo,
                   credited>>

\* A crash, a shutdown or an abort of the manager's syncer.
ManagerCrash ==
    /\ Fault
    /\ gpc' = "idle"
    /\ gtodo' = {}
    /\ gdone' = {}
    /\ UNCHANGED <<configVars, up, invoiceVars, machineVars, docEntries,
                   credited>>
-----------------------------------------------------------------------------
MachineNext(i) ==
    \/ ConfigArrives(i)
    \/ ReceiveStart(i)
    \/ \E k \in Contracts : ReceiveIssue(i, k)
    \/ ReceiveError(i)
    \/ MachineReadConfig(i)
    \/ MachineFetch(i)
    \/ \E k \in Contracts : MachineWrite(i, k) \/ MachineWriteError(i, k)
    \/ MachineRemove(i)
    \/ MachineDown(i)
    \/ MachineUp(i)

ManagerNext ==
    \/ \E f \in Federations : UpdateFederation(f)
    \/ SweepFetch
    \/ \E k \in Contracts : \/ SweepClaim(k)
                            \/ SweepClaimError(k)
                            \/ SweepClaimSpent(k)
                            \/ SweepRemove(k)
    \/ SweepClaimed
    \/ SweepRemoveError
    \/ ManagerCrash

Next ==
    \/ \E i \in Machines : MachineNext(i)
    \/ \E k \in Contracts : Pay(k) \/ Exchange(k) \/ Download(k)
    \/ ManagerNext

Spec == Init /\ [][Next]_vars
-----------------------------------------------------------------------------
(***************************************************************************)
(* Safety.                                                                 *)
(***************************************************************************)
\* Where a contract is: with the last party in the chain that has it.
Where(k) ==
    IF k \in credited THEN "manager"
    ELSE IF Visible(docM[k]) THEN "shared"
    ELSE IF k \in wallet THEN "machine"
    ELSE IF k \in paid THEN "lost"
    ELSE "unpaid"

(***************************************************************************)
(* A paid contract that is not credited yet is in the machine's wallet or  *)
(* visible in the machine's replica: no crash between the steps of either  *)
(* syncer ("safe to cancel/abort at any time") loses a payment.            *)
(***************************************************************************)
NoPaymentLost == \A k \in paid \ credited : k \in wallet \/ Visible(docM[k])

(***************************************************************************)
(* The manager never removes, in either replica, a contract it has not     *)
(* been credited for.                                                      *)
(***************************************************************************)
RemovedOnlyIfCredited ==
    \A k \in Contracts : docM[k].del > 0 \/ docG[k].del > 0 => k \in credited

(***************************************************************************)
(* The payment path implements Custody.                                    *)
(***************************************************************************)
Abs == INSTANCE Custody WITH where <- [k \in Contracts |-> Where(k)]
CustodySpec == Abs!Spec
-----------------------------------------------------------------------------
(***************************************************************************)
(* Liveness.  Both syncers loop for as long as their process runs and the  *)
(* runtime polls them; a machine that is not in MayStayDown comes back;    *)
(* while a machine is online, entries and contents get through.  Nothing   *)
(* is assumed about users, payers and faults.                              *)
(***************************************************************************)
Fairness ==
    /\ \A i \in Machines :
         /\ WF_vars(ConfigArrives(i))
         /\ WF_vars(MachineReadConfig(i))
         /\ WF_vars(MachineFetch(i))
         /\ WF_vars(\E k \in Contracts : MachineWrite(i, k))
         /\ WF_vars(MachineRemove(i))
    /\ \A i \in Machines \ MayStayDown : WF_vars(MachineUp(i))
    /\ \A k \in Contracts :
         /\ WF_vars(Exchange(k))
         /\ WF_vars(Download(k))
         /\ WF_vars(SweepClaim(k) \/ SweepClaimSpent(k))
    /\ WF_vars(SweepFetch)
    /\ WF_vars(SweepClaimed)
    /\ WF_vars(\E k \in Contracts : SweepRemove(k))

LiveSpec == Spec /\ Fairness

(***************************************************************************)
(* "If the invoice is paid, the funds will be automatically credited to    *)
(* the wallet of the manager": for every machine that keeps coming back    *)
(* online, a paid contract is credited in the end.                         *)
(***************************************************************************)
PaymentsCredited ==
    \A k \in Contracts, i \in Machines \ MayStayDown :
        (k \in paid /\ home[k] = i) ~> (k \in credited)
=============================================================================
