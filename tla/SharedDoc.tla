----------------------------- MODULE SharedDoc -----------------------------
(***************************************************************************)
(* The document a machine shares with its manager, as both use it: a       *)
(* key-value store, the machine's configuration, and claimable contracts   *)
(* (vendimint_iroh/{shared,machine,manager}.rs).                           *)
(*                                                                         *)
(* Simplifications:                                                        *)
(*  - A replica is a set of entries, at most one per key and author; each  *)
(*    device is one author.  A query shows, of each key, the entry with    *)
(*    the latest time, unless it is a removal (iroh-docs).  Entries with   *)
(*    the same time are ordered by author.                                 *)
(*  - A device stamps entries with its own clock, which never runs back;   *)
(*    nothing relates the two clocks.                                      *)
(*  - An entry covers the earlier ones of its author whose keys begin with *)
(*    its key, its own key included: a replica drops them, or does not     *)
(*    take them if they arrive later (iroh-docs).                          *)
(*  - Contents travel separately from entries, and entries in any order.   *)
(*  - The manager's sweep fetches the list, claims each contract at the    *)
(*    federation and removes those claimed.  The federation may refuse a   *)
(*    contract that is spent, and a claim may fail after it went through.  *)
(***************************************************************************)
EXTENDS DocKeys, FiniteSets

CONSTANTS
    Machine, Manager,
    First,        \* the device whose entry shows if two have the same time
    UserKeys,     \* keys of the key-value store
    Values,       \* contents
    Empty,        \* the content of a removal
    Contracts,    \* pairs of a federation and a contract
    MaxWrites,    \* bound: values and contracts written
    MaxTime       \* bound: how far a clock moves without a write

Devices == {Machine, Manager}
Other(d) == IF d = Machine THEN Manager ELSE Machine

ASSUME DocAssumption ==
    /\ Machine # Manager
    /\ First \in Devices
    /\ Empty \notin Values
    /\ UserKeys \subseteq Seq(Byte)
    /\ Contracts \subseteq [fed : Id, contract : Id]
    /\ MaxWrites \in Nat /\ MaxTime \in Nat

VARIABLES
    rep,     \* each device's replica of the document
    blobs,   \* contents each device has
    clock,   \* each device's clock
    todo,    \* the sweep's contracts: fetched and not yet tried,
    done,    \* and claimed, to be removed
    wrote,   \* history: values written with set_kv_value, and by whom
    given,   \* history: contracts the machine wrote
    claimed, \* history: contracts spent at the federation
    writes

sweep == <<todo, done>>
history == <<wrote, given>>
vars == <<rep, blobs, clock, sweep, history, claimed, writes>>

Entry == [key : Seq(Byte), author : Devices, time : Nat,
          val : Values \cup {Empty}]
KvEntry == [key : Seq(Byte), value : Values, author : Devices, timestamp : Nat]

TypeOK ==
    /\ rep \in [Devices -> SUBSET Entry]
    /\ blobs \in [Devices -> SUBSET Values]
    /\ clock \in [Devices -> Nat]
    /\ todo \in SUBSET Contracts /\ done \in SUBSET Contracts
    /\ wrote \in SUBSET KvEntry
    /\ given \in SUBSET Contracts /\ claimed \in SUBSET Contracts
    /\ writes \in 0..MaxWrites

Init ==
    /\ rep = [d \in Devices |-> {}]
    /\ blobs = [d \in Devices |-> {}]
    /\ clock = [d \in Devices |-> 0]
    /\ todo = {} /\ done = {}
    /\ wrote = {} /\ given = {} /\ claimed = {}
    /\ writes = 0
-----------------------------------------------------------------------------
(***************************************************************************)
(* Queries.                                                                *)
(***************************************************************************)
Beats(x, y) == x.time > y.time \/ (x.time = y.time /\ x.author = First)

Rivals(d, e) == {x \in rep[d] : x.key = e.key /\ x.author # e.author}

\* The entry of each key that a query goes by.
Latest(d) == {e \in rep[d] : \A x \in Rivals(d, e) : Beats(e, x)}

\* Mutant of Shown: a device's own entries come first.
ShownOwn(d) ==
    {e \in rep[d] : e.val # Empty /\ \A x \in Rivals(d, e) : e.author = d}

\* Without the removed ones.
Shown(d) == {e \in Latest(d) : e.val # Empty}

\* Mutant of from_iroh_entry: the reader takes itself for the author.
from_iroh_entry_own(d, e) ==
    [key |-> UserKey(e.key), value |-> e.val, author |-> d,
     timestamp |-> e.time]

\* An entry that the reader did not write was written by the other device.
from_iroh_entry(d, e) ==
    [key |-> UserKey(e.key), value |-> e.val,
     author |-> IF e.author = d THEN d ELSE Other(d), timestamp |-> e.time]

KvShown(d) == {e \in Shown(d) : IsPrefix(KV_PREFIX, e.key)}

\* What get_kv_entries returns, if all its contents are there.
get_kv_entries(d) == {from_iroh_entry(d, e) : e \in KvShown(d)}

\* Mutant of get_kv_value: it asks for the caller's key as it is.
get_kv_value_bare(d, u) ==
    {from_iroh_entry(d, e) : e \in {x \in Shown(d) : x.key = u}}

get_kv_value(d, u) ==
    {from_iroh_entry(d, e) : e \in {x \in Shown(d) : x.key = FullKey(u)}}

KvReadable(d) == \A e \in KvShown(d) : e.val \in blobs[d]

\* What get_claimable_contracts returns, if all its contents are there.
ContractsShown == {e \in Shown(Manager) : IsContractKey(e.key)}
Listed == {ParseContractKey(e.key) : e \in ContractsShown}
ListReadable == \A e \in ContractsShown : e.val \in blobs[Manager]
-----------------------------------------------------------------------------
(***************************************************************************)
(* Writes.                                                                 *)
(***************************************************************************)
Covers(x, e) ==
    x.author = e.author /\ IsPrefix(x.key, e.key) /\ x.time >= e.time

Put(S, e) == {x \in S : ~Covers(e, x)} \cup {e}

Insert(d, k, v) ==
    /\ clock' = [clock EXCEPT ![d] = @ + 1]
    /\ rep' = [rep EXCEPT ![d] = Put(@, [key |-> k, author |-> d,
                                         time |-> clock[d] + 1, val |-> v])]

SetBytes(d, k, v) ==
    /\ writes < MaxWrites
    /\ writes' = writes + 1
    /\ Insert(d, k, v)
    /\ blobs' = [blobs EXCEPT ![d] = @ \cup {v}]

\* Mutant of set_kv_value: the key is written outside the store's namespace.
set_kv_value_bare(d, u, v) ==
    /\ SetBytes(d, u, v)
    /\ wrote' = wrote \cup {[key |-> u, value |-> v, author |-> d,
                             timestamp |-> clock[d] + 1]}
    /\ UNCHANGED <<sweep, given, claimed>>

set_kv_value(d, u, v) ==
    /\ SetBytes(d, FullKey(u), v)
    /\ wrote' = wrote \cup {[key |-> u, value |-> v, author |-> d,
                             timestamp |-> clock[d] + 1]}
    /\ UNCHANGED <<sweep, given, claimed>>

set_machine_config(v) ==
    /\ SetBytes(Manager, MACHINE_CONFIG_KEY, v)
    /\ UNCHANGED <<sweep, history, claimed>>

write_payment(c, v) ==
    /\ SetBytes(Machine, ContractKey(c.fed, c.contract), v)
    /\ given' = given \cup {c}
    /\ UNCHANGED <<sweep, wrote, claimed>>
-----------------------------------------------------------------------------
(***************************************************************************)
(* The manager's sweep.                                                    *)
(***************************************************************************)
SweepFetch ==
    /\ todo = {} /\ done = {}
    /\ ListReadable /\ Listed # {}
    /\ todo' = Listed
    /\ UNCHANGED <<rep, blobs, clock, done, history, claimed, writes>>

SweepClaim(c) ==
    /\ c \in todo
    /\ todo' = todo \ {c}
    /\ done' = done \cup {c}
    /\ claimed' = claimed \cup {c}
    /\ UNCHANGED <<rep, blobs, clock, history, writes>>

\* Mutant of SweepFail: the failed contract is removed as well.
SweepFailDropped(c) ==
    /\ c \in todo
    /\ todo' = todo \ {c}
    /\ done' = done \cup {c}
    /\ UNCHANGED <<rep, blobs, clock, history, claimed, writes>>

\* The error may come after the federation took the claim.
SweepFail(c) ==
    /\ c \in todo
    /\ todo' = todo \ {c}
    /\ claimed' \in {claimed, claimed \cup {c}}
    /\ UNCHANGED <<rep, blobs, clock, done, history, writes>>

\* Mutant of remove_contract: the entry goes, and no removal is recorded.
remove_contract_local(c) ==
    /\ todo = {} /\ c \in done
    /\ done' = done \ {c}
    /\ rep' = [rep EXCEPT ![Manager] =
                   {x \in @ : x.key # ContractKey(c.fed, c.contract)}]
    /\ UNCHANGED <<blobs, clock, todo, history, claimed, writes>>

\* Mutant of remove_contract: an empty content is written.
remove_contract_set(c) ==
    /\ todo = {} /\ c \in done
    /\ done' = done \ {c}
    /\ SetBytes(Manager, ContractKey(c.fed, c.contract), Empty)
    /\ UNCHANGED <<todo, history, claimed>>

remove_contract(c) ==
    /\ todo = {} /\ c \in done
    /\ done' = done \ {c}
    /\ Insert(Manager, ContractKey(c.fed, c.contract), Empty)
    /\ UNCHANGED <<blobs, todo, history, claimed, writes>>

\* A removal fails, or the manager stops.
SweepAbort ==
    /\ todo \cup done # {}
    /\ todo' = {} /\ done' = {}
    /\ UNCHANGED <<rep, blobs, clock, history, claimed, writes>>
-----------------------------------------------------------------------------
(***************************************************************************)
(* Replication.                                                            *)
(***************************************************************************)
Receive(d, e) ==
    /\ e \in rep[Other(d)]
    /\ \A x \in rep[d] : ~Covers(x, e)
    /\ rep' = [rep EXCEPT ![d] = Put(@, e)]
    /\ UNCHANGED <<blobs, clock, sweep, history, claimed, writes>>

Download(d, v) ==
    /\ v \in blobs[Other(d)] \ blobs[d]
    /\ \E e \in rep[d] : e.val = v
    /\ blobs' = [blobs EXCEPT ![d] = @ \cup {v}]
    /\ UNCHANGED <<rep, clock, sweep, history, claimed, writes>>

Tick(d) ==
    /\ clock[d] < MaxTime
    /\ clock' = [clock EXCEPT ![d] = @ + 1]
    /\ UNCHANGED <<rep, blobs, sweep, history, claimed, writes>>

Receives(d) == \E e \in rep[Other(d)] : Receive(d, e)
Downloads(d) == \E v \in Values : Download(d, v)
SweepTry(c) == SweepClaim(c) \/ SweepFail(c)

Next ==
    \/ \E d \in Devices, u \in UserKeys, v \in Values : set_kv_value(d, u, v)
    \/ \E v \in Values : set_machine_config(v)
    \/ SweepFetch \/ SweepAbort
    \/ \E c \in Contracts : \/ SweepTry(c) \/ remove_contract(c)
                            \/ \E v \in Values : write_payment(c, v)
    \/ \E d \in Devices : Receives(d) \/ Downloads(d) \/ Tick(d)

Spec == Init /\ [][Next]_vars

(***************************************************************************)
(* The devices are online together again and again, the sweep goes on, and *)
(* the federation does not refuse an unspent contract for ever.            *)
(***************************************************************************)
Fairness ==
    /\ \A d \in Devices : WF_vars(Receives(d)) /\ WF_vars(Downloads(d))
    /\ WF_vars(SweepFetch)
    /\ \A c \in Contracts :
         /\ WF_vars(SweepTry(c)) /\ WF_vars(remove_contract(c))
         /\ SF_vars(c \notin claimed /\ SweepClaim(c))

LiveSpec == Spec /\ Fairness
-----------------------------------------------------------------------------
(***************************************************************************)
(* Everything get_kv_entries returns, on either device, was written with   *)
(* set_kv_value under that key and value, at that time, by the author it   *)
(* names: no entry of another namespace, no wrong attribution.             *)
(***************************************************************************)
KvFaithful == \A d \in Devices : get_kv_entries(d) \subseteq wrote

(***************************************************************************)
(* A device reads its own write back, or something not older, whatever     *)
(* arrives in between.  Only its own later write of a key that the key     *)
(* begins with removes it: no write of the other device under such a key,  *)
(* and nothing of another namespace.                                       *)
(***************************************************************************)
KvKept ==
    \A w \in wrote :
        \/ \E x \in get_kv_value(w.author, w.key) :
             x.key = w.key /\ x.timestamp >= w.timestamp
        \/ \E v \in wrote :
             /\ v.author = w.author /\ v.timestamp >= w.timestamp
             /\ IsStrictPrefix(v.key, w.key)

(***************************************************************************)
(* Once neither replica has an entry the other would still take, both      *)
(* devices read the same store, with the same authors: in whatever order   *)
(* entries arrived, and however the two clocks differ.                     *)
(***************************************************************************)
Quiet ==
    \A d \in Devices : \A e \in rep[Other(d)] : \E x \in rep[d] : Covers(x, e)

KvAgree == Quiet => get_kv_entries(Machine) = get_kv_entries(Manager)

(***************************************************************************)
(* What a read of a key goes by, a value or a removal, never goes back: an *)
(* earlier entry that arrives late does not replace it, so no old value    *)
(* returns and no removed contract is listed again but by a later write.   *)
(* Only a value of the store may give way to a write of a shorter key.     *)
(***************************************************************************)
ReadsForward ==
    [][\A d \in Devices : \A e \in Latest(d) :
         \/ \E x \in Latest(d)' : x.key = e.key /\ (x = e \/ Beats(x, e))
         \/ /\ IsPrefix(KV_PREFIX, e.key)
            /\ \E x \in rep[d]' : x.key # e.key /\ Covers(x, e)]_vars

(***************************************************************************)
(* A contract the machine wrote stays in its document until it is spent:   *)
(* no key of the store, no configuration, no failed claim and no entry     *)
(* that arrives late takes it out of the document before.                  *)
(***************************************************************************)
ContractKept ==
    \A c \in given \ claimed :
        \E e \in Shown(Machine) : e.key = ContractKey(c.fed, c.contract)

(***************************************************************************)
(* Every contract the machine wrote is claimed in the end, however far     *)
(* apart the clocks are and whichever claims and removals fail.            *)
(***************************************************************************)
ContractsClaimed == \A c \in Contracts : c \in given ~> c \in claimed

(***************************************************************************)
(* The two devices end up with the same entries, contents included.        *)
(***************************************************************************)
KvConverges ==
    <>[](/\ get_kv_entries(Machine) = get_kv_entries(Manager)
         /\ Latest(Machine) = Latest(Manager)
         /\ \A d \in Devices : KvReadable(d))

(***************************************************************************)
(* The manager lists only contracts the machine wrote.                     *)
(***************************************************************************)
ListedExist == Listed \subseteq given
=============================================================================
