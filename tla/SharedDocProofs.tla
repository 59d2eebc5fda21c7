-------------------------- MODULE SharedDocProofs --------------------------
(***************************************************************************)
(* Proofs about SharedDoc, for all keys, values, contracts and clocks, and *)
(* any order in which entries and contents arrive.                         *)
(***************************************************************************)
EXTENDS SharedDoc, DocKeysProofs

\* The keys the program writes.
WrittenKeys ==
    {FullKey(u) : u \in UserKeys} \cup {MACHINE_CONFIG_KEY}
      \cup {ContractKey(c.fed, c.contract) : c \in Contracts}

\* The record set_kv_value left of an entry.
Record(e) == [key |-> UserKey(e.key), value |-> e.val, author |-> e.author,
              timestamp |-> e.time]

\* An entry of the store, in any replica, was written as it is.
KvWritten ==
    \A d \in Devices : \A e \in rep[d] :
        IsPrefix(KV_PREFIX, e.key) => e.val # Empty /\ Record(e) \in wrote

Keyed == \A d \in Devices : \A e \in rep[d] : e.key \in WrittenKeys

\* A replica has no entry that another of its entries covers.
Uncovered == \A d \in Devices : \A x, y \in rep[d] : Covers(x, y) => x = y

\* An author gives no two entries the same time.
SameStamp ==
    \A d, f \in Devices : \A x \in rep[d], y \in rep[f] :
        x.author = y.author /\ x.time = y.time => x = y

\* No entry is ahead of its author's clock.
Stamped == \A d \in Devices : \A e \in rep[d] : e.time <= clock[e.author]

\* An author keeps an entry that covers what it wrote.
KeepsWritten(w, S) ==
    \E e \in S : /\ e.author = w.author /\ e.time >= w.timestamp
                 /\ IsPrefix(KV_PREFIX, e.key)
                 /\ IsPrefix(e.key, FullKey(w.key))
OwnKept == \A w \in wrote : w.key \in UserKeys /\ KeepsWritten(w, rep[w.author])

\* The machine keeps its entry of each contract it wrote,
KeepsGiven(c, S) ==
    \E e \in S : e.author = Machine /\ e.key = ContractKey(c.fed, c.contract)
GivenKept == \A c \in given : KeepsGiven(c, rep[Machine])

\* and removes none itself;
MachineGives ==
    \A d \in Devices : \A e \in rep[d] : e.author = Machine => e.val # Empty

\* the manager removes only those it has claimed.
RemovedClaimed ==
    \A d \in Devices : \A e \in rep[d] : \A c \in Contracts :
        e.author = Manager /\ e.key = ContractKey(c.fed, c.contract)
          => c \in claimed
DoneClaimed == done \subseteq claimed

\* What reads as a contract was written by the machine.
ContractWritten ==
    \A d \in Devices : \A e \in rep[d] : \A c \in Contracts :
        e.val # Empty /\ e.key = ContractKey(c.fed, c.contract) => c \in given

IInv == /\ TypeOK /\ KvWritten /\ Keyed /\ Uncovered
        /\ SameStamp /\ Stamped /\ OwnKept
        /\ GivenKept /\ MachineGives /\ RemovedClaimed /\ DoneClaimed
        /\ ContractWritten
-----------------------------------------------------------------------------
LEMMA KeysTyped ==
  /\ \A u \in UserKeys :
       /\ u \in Seq(Byte) /\ FullKey(u) \in Seq(Byte)
       /\ IsPrefix(KV_PREFIX, FullKey(u)) /\ UserKey(FullKey(u)) = u
       /\ ~IsContractKey(FullKey(u))
  /\ \A c \in Contracts :
       /\ c.fed \in Id /\ c.contract \in Id
       /\ c = [fed |-> c.fed, contract |-> c.contract]
       /\ ContractKey(c.fed, c.contract) \in Seq(Byte)
       /\ IsContractKey(ContractKey(c.fed, c.contract))
       /\ ~IsPrefix(KV_PREFIX, ContractKey(c.fed, c.contract))
  /\ MACHINE_CONFIG_KEY \in Seq(Byte)
  /\ ~IsPrefix(KV_PREFIX, MACHINE_CONFIG_KEY)
  /\ ~IsContractKey(MACHINE_CONFIG_KEY)
<1>1. \A u \in UserKeys : u \in Seq(Byte)
  BY DocAssumption
<1>2. \A c \in Contracts : /\ c.fed \in Id /\ c.contract \in Id
                           /\ c = [fed |-> c.fed, contract |-> c.contract]
  BY DocAssumption
<1>3. \A c \in Contracts :
        /\ ContractKey(c.fed, c.contract) \in Seq(Byte)
        /\ IsContractKey(ContractKey(c.fed, c.contract))
  BY <1>2, ContractKeyBytes, ParseAfterCreate
<1> QED BY <1>1, <1>2, <1>3, UserKeyAfterFullKey, NamespacesApart

LEMMA SameContract ==
  \A b, c \in Contracts :
    ContractKey(b.fed, b.contract) = ContractKey(c.fed, c.contract) => b = c
BY KeysTyped, ParseAfterCreate

LEMMA WrittenTyped ==
  ASSUME NEW k \in WrittenKeys
  PROVE  /\ k \in Seq(Byte) /\ Len(k) >= 2
         /\ IsPrefix(KV_PREFIX, k) => \E u \in UserKeys : k = FullKey(u)
         /\ IsContractKey(k) =>
              \E c \in Contracts : k = ContractKey(c.fed, c.contract)
<1>1. ASSUME NEW u \in UserKeys PROVE Len(FullKey(u)) >= 2
  <2>1. u \in Seq(Byte)
    BY KeysTyped
  <2>2. Len(u) \in Nat /\ Len(FullKey(u)) = 2 + Len(u)
    BY <2>1, FullKeyBytes, LenProperties
  <2> QED BY <2>2
<1>2. ASSUME NEW c \in Contracts
      PROVE  Len(ContractKey(c.fed, c.contract)) >= 2
  <2>1. Len(ContractKey(c.fed, c.contract)) = 2 + 2 * IdLen
    BY KeysTyped, ContractKeyBytes
  <2> QED BY <2>1, IdLenAssumption
<1>3. Len(MACHINE_CONFIG_KEY) >= 2
  BY DEF MACHINE_CONFIG_KEY
<1>4. CASE \E u \in UserKeys : k = FullKey(u)
  BY <1>1, <1>4, KeysTyped
<1>5. CASE k = MACHINE_CONFIG_KEY
  BY <1>3, <1>5, KeysTyped
<1>6. CASE \E c \in Contracts : k = ContractKey(c.fed, c.contract)
  BY <1>2, <1>6, KeysTyped
<1> QED BY <1>4, <1>5, <1>6 DEF WrittenKeys

(***************************************************************************)
(* A key that begins another one is in the same namespace, and only in the *)
(* store can it be a shorter one.                                          *)
(***************************************************************************)
LEMMA BeginsWithin ==
  ASSUME NEW k \in WrittenKeys, NEW l \in WrittenKeys, IsPrefix(k, l)
  PROVE  /\ IsPrefix(KV_PREFIX, k) <=> IsPrefix(KV_PREFIX, l)
         /\ k = l \/ IsPrefix(KV_PREFIX, l)
<1>1. k \in Seq(Byte) /\ l \in Seq(Byte) /\ Len(k) >= 2 /\ Len(l) >= 2
  BY WrittenTyped
<1>2. /\ Len(k) \in Nat /\ Len(l) \in Nat /\ Len(k) <= Len(l)
      /\ \A i \in 1..Len(k) : k[i] = l[i]
  BY <1>1, PrefixPointwise, LenProperties
<1>3. /\ IsPrefix(KV_PREFIX, k) <=> IsPrefix(KV_PREFIX, l)
      /\ IsPrefix(CLAIMABLE_CONTRACT_PREFIX, k)
           <=> IsPrefix(CLAIMABLE_CONTRACT_PREFIX, l)
  BY <1>1, PrefixNamespace DEF KV_PREFIX, CLAIMABLE_CONTRACT_PREFIX
<1>4. CASE Len(k) = Len(l)
  <2>1. k = l
    BY <1>1, <1>2, <1>4, SameBytes
  <2> QED BY <1>3, <2>1
<1>5. CASE Len(k) # Len(l)
  <2>1. l # MACHINE_CONFIG_KEY
    BY <1>1, <1>2, <1>5 DEF MACHINE_CONFIG_KEY
  <2>2. ASSUME NEW c \in Contracts, l = ContractKey(c.fed, c.contract)
        PROVE  FALSE
    <3>1. /\ Len(l) = 2 + 2 * IdLen
          /\ IsPrefix(CLAIMABLE_CONTRACT_PREFIX, l)
      BY <2>2, KeysTyped, ContractKeyBytes DEF IsContractKey
    <3>2. \A u \in UserKeys : k # FullKey(u)
      BY <1>3, <2>2, KeysTyped
    <3>3. k # MACHINE_CONFIG_KEY
      <4>1. k[1] = 1
        BY <1>1, <1>3, <3>1, PrefixBytes DEF CLAIMABLE_CONTRACT_PREFIX
      <4>2. MACHINE_CONFIG_KEY[1] = 2
        BY DEF MACHINE_CONFIG_KEY
      <4> QED BY <4>1, <4>2
    <3>4. PICK b \in Contracts : k = ContractKey(b.fed, b.contract)
      BY <3>2, <3>3 DEF WrittenKeys
    <3>5. Len(k) = 2 + 2 * IdLen
      BY <3>4, KeysTyped, ContractKeyBytes
    <3> QED BY <1>5, <3>1, <3>5
  <2>3. PICK u \in UserKeys : l = FullKey(u)
    BY <2>1, <2>2 DEF WrittenKeys
  <2> QED BY <1>3, <2>3, KeysTyped
<1> QED BY <1>4, <1>5

LEMMA DevicesAre ==
  /\ Machine \in Devices /\ Manager \in Devices /\ Machine # Manager
  /\ \A d \in Devices : Other(d) \in Devices /\ Other(d) # d
  /\ \A d, x \in Devices : x = d \/ x = Other(d)
  /\ Other(Machine) = Manager /\ Other(Manager) = Machine
BY DocAssumption DEF Devices, Other

LEMMA CoverOrder ==
  /\ \A e \in Entry : Covers(e, e)
  /\ \A x, y, z \in Entry : Covers(x, y) /\ Covers(y, z) => Covers(x, z)
  /\ \A x, y \in Entry : x.key = y.key /\ x.author = y.author
                           => Covers(x, y) \/ Covers(y, x)
<1>1. \A e \in Entry : e.key \in Seq(Byte) /\ e.time \in Nat
  BY DEF Entry
<1>2. \A e \in Entry : Covers(e, e)
  BY <1>1, PrefixReflexive DEF Covers
<1>3. ASSUME NEW x \in Entry, NEW y \in Entry, NEW z \in Entry,
             Covers(x, y), Covers(y, z)
      PROVE  Covers(x, z)
  <2>1. /\ x.author = z.author /\ x.time >= y.time /\ y.time >= z.time
        /\ IsPrefix(x.key, y.key) /\ IsPrefix(y.key, z.key)
    BY <1>3 DEF Covers
  <2>2. IsPrefix(x.key, z.key)
    BY <1>1, <2>1, PrefixTransitive
  <2>3. x.time >= z.time
    BY <1>1, <2>1
  <2> QED BY <2>1, <2>2, <2>3 DEF Covers
<1>4. ASSUME NEW x \in Entry, NEW y \in Entry,
             x.key = y.key, x.author = y.author
      PROVE  Covers(x, y) \/ Covers(y, x)
  <2>1. x.time >= y.time \/ y.time >= x.time
    BY <1>1
  <2>2. IsPrefix(x.key, y.key) /\ IsPrefix(y.key, x.key)
    BY <1>1, <1>4, PrefixReflexive
  <2> QED BY <2>1, <2>2, <1>4 DEF Covers
<1> QED BY <1>2, <1>3, <1>4
-----------------------------------------------------------------------------
(***************************************************************************)
(* What an entry that enters a replica, written there or received, does to *)
(* what the replica keeps.                                                 *)
(***************************************************************************)
LEMMA PutKeeps ==
  ASSUME IInv, NEW d \in Devices, NEW new \in Entry,
         new.key \in WrittenKeys, \A x \in rep[d] : ~Covers(x, new),
         rep' = [rep EXCEPT ![d] = Put(@, new)]
  PROVE  /\ rep' \in [Devices -> SUBSET Entry] /\ new \in rep'[d]
         /\ \A x \in Devices : \A e \in rep'[x] :
              e \in rep[x] \/ (e = new /\ x = d)
         /\ Keyed' /\ Uncovered'
         /\ \A w \in wrote : /\ w.key \in UserKeys
                             /\ KeepsWritten(w, rep'[w.author])
         /\ \A c \in given : KeepsGiven(c, rep'[Machine])
<1>1. rep \in [Devices -> SUBSET Entry] /\ given \in SUBSET Contracts
  BY DEF IInv, TypeOK
<1>2. \A x \in Devices : rep'[x] = IF x = d THEN Put(rep[d], new) ELSE rep[x]
  BY <1>1
<1>3. \A x \in Devices : \A e \in rep'[x] :
        e \in rep[x] \/ (e = new /\ x = d)
  BY <1>2 DEF Put
<1>4. new \in rep'[d]
  <2>1. new \in Put(rep[d], new)
    BY DEF Put
  <2>2. rep'[d] = Put(rep[d], new)
    BY <1>2
  <2> QED BY <2>1, <2>2
<1>5. rep' \in [Devices -> SUBSET Entry]
  <2>1. Put(rep[d], new) \in SUBSET Entry
    BY <1>1 DEF Put
  <2> QED BY <2>1, <1>1
<1>6. Keyed'
  BY <1>3 DEF IInv, Keyed
<1>7. Uncovered'
  <2> SUFFICES ASSUME NEW f \in Devices, NEW x \in rep'[f], NEW y \in rep'[f],
                      Covers(x, y)
               PROVE  x = y
    BY DEF Uncovered, Covers
  <2>1. CASE f # d
    BY <2>1, <1>2 DEF IInv, Uncovered
  <2>2. CASE f = d
    <3>1. x \in Put(rep[d], new) /\ y \in Put(rep[d], new)
      BY <2>2, <1>2
    <3> QED BY <3>1 DEF IInv, Uncovered, Put
  <2> QED BY <2>1, <2>2
\* An entry that leaves is covered by the new one.
<1>8. \A x \in Devices : \A e \in rep[x] :
        e \in rep'[x] \/ (x = d /\ Covers(new, e))
  BY <1>2 DEF Put
<1>9. ASSUME NEW w \in wrote
      PROVE  w.key \in UserKeys /\ KeepsWritten(w, rep'[w.author])
  <2>1. /\ w.author \in Devices /\ w.timestamp \in Nat
        /\ w.key \in UserKeys /\ FullKey(w.key) \in Seq(Byte)
    BY KeysTyped DEF IInv, TypeOK, OwnKept, KvEntry
  <2>2. PICK e \in rep[w.author] :
          /\ e.author = w.author /\ e.time >= w.timestamp
          /\ IsPrefix(KV_PREFIX, e.key) /\ IsPrefix(e.key, FullKey(w.key))
    BY DEF IInv, OwnKept, KeepsWritten
  <2>3. CASE e \in rep'[w.author]
    BY <2>1, <2>2, <2>3 DEF KeepsWritten
  <2>4. CASE e \notin rep'[w.author]
    <3>1. /\ w.author = d /\ new.author = w.author
          /\ IsPrefix(new.key, e.key) /\ new.time >= e.time
      BY <2>1, <2>2, <2>4, <1>8 DEF Covers
    <3>2. e.key \in WrittenKeys /\ e \in Entry
      BY <2>1, <1>1 DEF IInv, Keyed
    <3>3. IsPrefix(KV_PREFIX, new.key)
      BY <2>2, <3>1, <3>2, BeginsWithin
    <3>4. IsPrefix(new.key, FullKey(w.key))
      <4>1. new.key \in Seq(Byte) /\ e.key \in Seq(Byte)
        BY <3>2, WrittenTyped
      <4> QED BY <2>1, <2>2, <3>1, <4>1, PrefixTransitive
    <3>5. new.time >= w.timestamp
      BY <2>1, <2>2, <3>1, <3>2 DEF Entry
    <3> QED BY <2>1, <3>1, <3>3, <3>4, <3>5, <1>4 DEF KeepsWritten
  <2> QED BY <2>3, <2>4
<1>10. ASSUME NEW c \in given PROVE KeepsGiven(c, rep'[Machine])
  <2>1. c \in Contracts
    BY <1>1
  <2>2. PICK e \in rep[Machine] :
          e.author = Machine /\ e.key = ContractKey(c.fed, c.contract)
    BY DEF IInv, GivenKept, KeepsGiven
  <2>3. CASE e \in rep'[Machine]
    BY <2>2, <2>3 DEF KeepsGiven
  <2>4. CASE e \notin rep'[Machine]
    <3>1. Machine = d /\ new.author = Machine /\ IsPrefix(new.key, e.key)
      BY <2>2, <2>4, <1>8, DevicesAre DEF Covers
    <3>2. e.key \in WrittenKeys
      BY <2>1, <2>2 DEF WrittenKeys
    <3>3. new.key = e.key
      BY <2>1, <2>2, <3>1, <3>2, BeginsWithin, KeysTyped
    <3> QED BY <2>2, <3>1, <3>3, <1>4 DEF KeepsGiven
  <2> QED BY <2>3, <2>4
<1> QED BY <1>3, <1>4, <1>5, <1>6, <1>7, <1>9, <1>10

(***************************************************************************)
(* A write of the device's own, stamped with its clock.                    *)
(***************************************************************************)
LEMMA InsertUncovered ==
  ASSUME IInv, NEW d \in Devices, NEW new, new.time = clock[d] + 1,
         new.author = d
  PROVE  \A f \in Devices : \A x \in rep[f] :
           /\ x.author = d => x.time < new.time
           /\ ~Covers(x, new)
<1> SUFFICES ASSUME NEW f \in Devices, NEW x \in rep[f], x.author = d
             PROVE  x.time < new.time /\ ~(x.time >= new.time)
  BY DEF Covers
<1>1. x.time \in Nat /\ clock[d] \in Nat
  BY DEF IInv, TypeOK, Entry
<1>2. x.time <= clock[d]
  BY DEF IInv, Stamped
<1> QED BY <1>1, <1>2

LEMMA InsertKeeps ==
  ASSUME IInv, NEW d \in Devices, NEW k \in WrittenKeys,
         NEW v \in Values \cup {Empty}, Insert(d, k, v),
         wrote \subseteq wrote', wrote' \in SUBSET KvEntry,
         IsPrefix(KV_PREFIX, k) =>
           /\ v # Empty
           /\ [key |-> UserKey(k), value |-> v, author |-> d,
               timestamp |-> clock[d] + 1] \in wrote',
         d = Machine => v # Empty,
         \A w \in wrote' \ wrote :
           /\ w.key \in UserKeys /\ k = FullKey(w.key)
           /\ w.author = d /\ w.timestamp = clock[d] + 1,
         given \subseteq given',
         \A c \in given' \ given :
           d = Machine /\ k = ContractKey(c.fed, c.contract),
         v # Empty => \A c \in Contracts :
           k = ContractKey(c.fed, c.contract) => c \in given',
         claimed' = claimed,
         d = Manager => \A c \in Contracts :
           k = ContractKey(c.fed, c.contract) => c \in claimed
  PROVE  /\ rep' \in [Devices -> SUBSET Entry]
         /\ clock' \in [Devices -> Nat]
         /\ KvWritten' /\ Keyed' /\ Uncovered'
         /\ SameStamp' /\ Stamped' /\ OwnKept'
         /\ GivenKept' /\ MachineGives' /\ RemovedClaimed'
         /\ ContractWritten'
<1> DEFINE new == [key |-> k, author |-> d, time |-> clock[d] + 1, val |-> v]
<1>1. /\ rep \in [Devices -> SUBSET Entry] /\ clock \in [Devices -> Nat]
      /\ clock' = [clock EXCEPT ![d] = @ + 1]
      /\ rep' = [rep EXCEPT ![d] = Put(@, new)]
  BY DEF IInv, TypeOK, Insert
<1>2. /\ new \in Entry /\ new.key = k /\ new.author = d
      /\ new.time = clock[d] + 1 /\ new.val = v
  BY <1>1, WrittenTyped DEF Entry
<1> HIDE DEF new
<1>3. \A f \in Devices : \A x \in rep[f] :
        /\ x.author = d => x.time < new.time
        /\ ~Covers(x, new)
  BY <1>2, InsertUncovered
<1>4. /\ rep' \in [Devices -> SUBSET Entry] /\ new \in rep'[d]
      /\ \A x \in Devices : \A e \in rep'[x] :
           e \in rep[x] \/ (e = new /\ x = d)
      /\ Keyed' /\ Uncovered'
      /\ \A w \in wrote : /\ w.key \in UserKeys
                          /\ KeepsWritten(w, rep'[w.author])
      /\ \A c \in given : KeepsGiven(c, rep'[Machine])
  BY <1>1, <1>2, <1>3, PutKeeps
<1>5. clock' \in [Devices -> Nat]
  BY <1>1
<1>6. KvWritten'
  <2> SUFFICES ASSUME NEW x \in Devices, NEW e \in rep'[x],
                      IsPrefix(KV_PREFIX, e.key)
               PROVE  e.val # Empty /\ Record(e) \in wrote'
    BY DEF KvWritten, Record
  <2>1. CASE e \in rep[x]
    BY <2>1 DEF IInv, KvWritten
  <2>2. CASE e = new
    BY <2>2, <1>2 DEF Record
  <2> QED BY <1>4, <2>1, <2>2
<1>7. Stamped'
  <2> SUFFICES ASSUME NEW x \in Devices, NEW e \in rep'[x]
               PROVE  e.time <= clock'[e.author]
    BY DEF Stamped
  <2>1. CASE e \in rep[x]
    <3>1. e.author \in Devices /\ e.time \in Nat
      BY <2>1, <1>1 DEF Entry
    <3>2. e.time <= clock[e.author]
      BY <2>1 DEF IInv, Stamped
    <3>3. clock'[e.author] = clock[e.author]
          \/ clock'[e.author] = clock[e.author] + 1
      BY <3>1, <1>1
    <3>4. clock[e.author] \in Nat
      BY <3>1, <1>1
    <3> QED BY <3>1, <3>2, <3>3, <3>4
  <2>2. CASE e = new
    BY <2>2, <1>1, <1>2
  <2> QED BY <1>4, <2>1, <2>2
<1>8. SameStamp'
  <2> SUFFICES ASSUME NEW x \in Devices, NEW f \in Devices,
                      NEW e \in rep'[x], NEW y \in rep'[f],
                      e.author = y.author, e.time = y.time
               PROVE  e = y
    BY DEF SameStamp
  <2>1. new.time \in Nat
    BY <1>1, <1>2
  <2>2. CASE e \in rep[x] /\ y \in rep[f]
    BY <2>2 DEF IInv, SameStamp
  <2>3. CASE e = new \/ y = new
    BY <2>1, <2>3, <1>2, <1>3, <1>4
  <2> QED BY <1>4, <2>2, <2>3
<1>9. OwnKept'
  <2> SUFFICES ASSUME NEW w \in wrote', w \notin wrote
               PROVE  w.key \in UserKeys /\ KeepsWritten(w, rep'[w.author])
    BY <1>4 DEF OwnKept, KeepsWritten
  <2>1. /\ w.key \in UserKeys /\ k = FullKey(w.key)
        /\ w.author = d /\ w.timestamp = clock[d] + 1 /\ clock[d] \in Nat
    BY <1>1
  <2>2. IsPrefix(KV_PREFIX, k) /\ IsPrefix(k, k)
    BY <2>1, KeysTyped, PrefixReflexive
  <2> QED BY <2>1, <2>2, <1>2, <1>4 DEF KeepsWritten
<1>10. GivenKept'
  <2> SUFFICES ASSUME NEW c \in given', c \notin given
               PROVE  KeepsGiven(c, rep'[Machine])
    BY <1>4 DEF GivenKept, KeepsGiven
  <2> QED BY <1>2, <1>4 DEF KeepsGiven
<1>11. MachineGives'
  BY <1>2, <1>4 DEF IInv, MachineGives
<1>12. RemovedClaimed'
  BY <1>2, <1>4 DEF IInv, RemovedClaimed
<1>13. ContractWritten'
  BY <1>2, <1>4 DEF IInv, ContractWritten
<1> QED BY <1>4, <1>5, <1>6, <1>7, <1>8, <1>9, <1>10, <1>11, <1>12, <1>13

LEMMA ReceiveKeeps ==
  ASSUME IInv, NEW d \in Devices, NEW new, Receive(d, new)
  PROVE  IInv'
<1>1. /\ new \in rep[Other(d)] /\ \A x \in rep[d] : ~Covers(x, new)
      /\ rep' = [rep EXCEPT ![d] = Put(@, new)]
      /\ UNCHANGED <<blobs, clock, todo, done, wrote, given, claimed, writes>>
  BY DEF Receive, sweep, history
<1>2. /\ Other(d) \in Devices /\ new \in Entry /\ new.key \in WrittenKeys
  BY <1>1, DevicesAre DEF IInv, TypeOK, Keyed
<1>3. /\ rep' \in [Devices -> SUBSET Entry]
      /\ \A x \in Devices : \A e \in rep'[x] :
           e \in rep[x] \/ (e = new /\ x = d)
      /\ Keyed' /\ Uncovered'
      /\ \A w \in wrote : /\ w.key \in UserKeys
                          /\ KeepsWritten(w, rep'[w.author])
      /\ \A c \in given : KeepsGiven(c, rep'[Machine])
  BY <1>1, <1>2, PutKeeps
<1>4. TypeOK'
  BY <1>1, <1>3 DEF IInv, TypeOK
<1>5. \A x \in Devices : \A e \in rep'[x] : \E y \in Devices : e \in rep[y]
  BY <1>1, <1>2, <1>3
<1>6. /\ KvWritten' /\ SameStamp' /\ Stamped'
      /\ MachineGives' /\ RemovedClaimed' /\ DoneClaimed'
      /\ ContractWritten'
  BY <1>1, <1>5 DEF IInv, KvWritten, Record, SameStamp, Stamped, MachineGives,
                    RemovedClaimed, DoneClaimed, ContractWritten
<1>7. OwnKept' /\ GivenKept'
  BY <1>1, <1>3 DEF OwnKept, GivenKept, KeepsWritten, KeepsGiven
<1> QED BY <1>3, <1>4, <1>6, <1>7 DEF IInv

\* A step of the sweep, a download and the clock leave the replicas alone.
LEMMA ReplicasRest ==
  ASSUME IInv, TypeOK', UNCHANGED <<rep, wrote, given>>,
         Stamped', claimed \subseteq claimed', done' \subseteq claimed'
  PROVE  IInv'
BY DEF IInv, KvWritten, Record, Keyed, Uncovered, Covers, SameStamp, OwnKept,
       KeepsWritten, GivenKept, KeepsGiven, MachineGives, RemovedClaimed,
       DoneClaimed, ContractWritten
-----------------------------------------------------------------------------
LEMMA Exist == IInv => ListedExist
<1> SUFFICES ASSUME IInv, NEW e \in ContractsShown
             PROVE  ParseContractKey(e.key) \in given
  BY DEF ListedExist, Listed
<1>1. e \in rep[Manager] /\ e.val # Empty /\ IsContractKey(e.key)
  BY DEF ContractsShown, Shown, Latest
<1>2. e.key \in WrittenKeys
  BY <1>1, DevicesAre DEF IInv, Keyed
<1>3. PICK c \in Contracts : e.key = ContractKey(c.fed, c.contract)
  BY <1>1, <1>2, WrittenTyped
<1>4. c \in given
  BY <1>1, <1>3, DevicesAre DEF IInv, ContractWritten
<1>5. ParseContractKey(e.key) = [fed |-> c.fed, contract |-> c.contract]
  BY <1>3, KeysTyped, ParseAfterCreate
<1> QED BY <1>3, <1>4, <1>5, KeysTyped

LEMMA DocInit == Init => IInv
<1> SUFFICES ASSUME Init PROVE IInv
  OBVIOUS
<1>1. TypeOK
  BY DocAssumption DEF Init, TypeOK
<1>2. /\ KvWritten /\ Keyed /\ Uncovered /\ SameStamp /\ Stamped /\ OwnKept
      /\ GivenKept /\ MachineGives /\ RemovedClaimed /\ DoneClaimed
      /\ ContractWritten
  BY DEF Init, KvWritten, Keyed, Uncovered, SameStamp, Stamped, OwnKept,
         GivenKept, MachineGives, RemovedClaimed, DoneClaimed, ContractWritten
<1> QED BY <1>1, <1>2 DEF IInv

LEMMA SetBytesTyped ==
  ASSUME TypeOK, NEW d \in Devices, NEW k, NEW v \in Values, SetBytes(d, k, v)
  PROVE  /\ blobs' \in [Devices -> SUBSET Values]
         /\ writes' \in 0..MaxWrites
  BY DocAssumption DEF TypeOK, SetBytes

LEMMA DocStep == IInv /\ [Next]_vars => IInv'
<1> SUFFICES ASSUME IInv, [Next]_vars PROVE IInv'
  OBVIOUS
<1> USE DEF sweep, history
<1>0. TypeOK /\ Stamped /\ DoneClaimed /\ wrote \in SUBSET KvEntry
  BY DEF IInv, TypeOK
<1>1. ASSUME NEW d \in Devices, NEW u \in UserKeys, NEW v \in Values,
             set_kv_value(d, u, v)
      PROVE  IInv'
  <2> DEFINE w == [key |-> u, value |-> v, author |-> d,
                   timestamp |-> clock[d] + 1]
  <2>1. /\ u \in Seq(Byte) /\ FullKey(u) \in WrittenKeys
        /\ UserKey(FullKey(u)) = u
        /\ \A c \in Contracts : FullKey(u) # ContractKey(c.fed, c.contract)
    BY KeysTyped DEF WrittenKeys
  <2>2. w \in KvEntry
    BY <1>0, <2>1 DEF TypeOK, KvEntry
  <2>3. /\ wrote' = wrote \cup {w} /\ SetBytes(d, FullKey(u), v)
        /\ UNCHANGED <<todo, done, given, claimed>>
    BY <1>1 DEF set_kv_value
  <2>4. Insert(d, FullKey(u), v) /\ v # Empty
    BY <2>3, DocAssumption DEF SetBytes
  <2>5. wrote' \in SUBSET KvEntry
    BY <2>2, <2>3, <1>0
  <2>6. /\ rep' \in [Devices -> SUBSET Entry] /\ clock' \in [Devices -> Nat]
        /\ KvWritten' /\ Keyed' /\ Uncovered' /\ SameStamp' /\ Stamped'
        /\ OwnKept' /\ GivenKept' /\ MachineGives' /\ RemovedClaimed'
        /\ ContractWritten'
    BY <2>1, <2>3, <2>4, <2>5, InsertKeeps
  <2>7. blobs' \in [Devices -> SUBSET Values] /\ writes' \in 0..MaxWrites
    BY <2>3, <1>0, SetBytesTyped
  <2>8. TypeOK' /\ DoneClaimed'
    BY <1>0, <2>3, <2>5, <2>6, <2>7 DEF TypeOK, DoneClaimed
  <2> QED BY <2>6, <2>8 DEF IInv
<1>2. ASSUME NEW v \in Values, set_machine_config(v)
      PROVE  IInv'
  <2>1. /\ MACHINE_CONFIG_KEY \in WrittenKeys
        /\ ~IsPrefix(KV_PREFIX, MACHINE_CONFIG_KEY)
        /\ \A c \in Contracts :
             MACHINE_CONFIG_KEY # ContractKey(c.fed, c.contract)
    BY KeysTyped DEF WrittenKeys
  <2>2. /\ SetBytes(Manager, MACHINE_CONFIG_KEY, v)
        /\ UNCHANGED <<todo, done, wrote, given, claimed>>
    BY <1>2 DEF set_machine_config
  <2>3. Insert(Manager, MACHINE_CONFIG_KEY, v) /\ v # Empty
    BY <2>2, DocAssumption DEF SetBytes
  <2>4. /\ rep' \in [Devices -> SUBSET Entry] /\ clock' \in [Devices -> Nat]
        /\ KvWritten' /\ Keyed' /\ Uncovered' /\ SameStamp' /\ Stamped'
        /\ OwnKept' /\ GivenKept' /\ MachineGives' /\ RemovedClaimed'
        /\ ContractWritten'
    BY <1>0, <2>1, <2>2, <2>3, DevicesAre, InsertKeeps
  <2>5. blobs' \in [Devices -> SUBSET Values] /\ writes' \in 0..MaxWrites
    BY <2>2, <1>0, DevicesAre, SetBytesTyped
  <2>6. TypeOK' /\ DoneClaimed'
    BY <1>0, <2>2, <2>4, <2>5 DEF TypeOK, DoneClaimed
  <2> QED BY <2>4, <2>6 DEF IInv
<1>3. ASSUME NEW c \in Contracts, NEW v \in Values, write_payment(c, v)
      PROVE  IInv'
  <2> DEFINE k == ContractKey(c.fed, c.contract)
  <2>1. k \in WrittenKeys /\ ~IsPrefix(KV_PREFIX, k)
    BY KeysTyped DEF WrittenKeys
  <2>2. /\ SetBytes(Machine, k, v) /\ given' = given \cup {c}
        /\ UNCHANGED <<todo, done, wrote, claimed>>
    BY <1>3 DEF write_payment
  <2>3. Insert(Machine, k, v) /\ v # Empty
    BY <2>2, DocAssumption DEF SetBytes
  <2>4. /\ \A b \in given' \ given : k = ContractKey(b.fed, b.contract)
        /\ \A b \in Contracts : k = ContractKey(b.fed, b.contract)
                                  => b \in given'
    BY <1>3, <2>2, SameContract
  <2> HIDE DEF k
  <2>5. /\ rep' \in [Devices -> SUBSET Entry] /\ clock' \in [Devices -> Nat]
        /\ KvWritten' /\ Keyed' /\ Uncovered' /\ SameStamp' /\ Stamped'
        /\ OwnKept' /\ GivenKept' /\ MachineGives' /\ RemovedClaimed'
        /\ ContractWritten'
    BY <1>0, <2>1, <2>2, <2>3, <2>4, DevicesAre, InsertKeeps
  <2>6. blobs' \in [Devices -> SUBSET Values] /\ writes' \in 0..MaxWrites
    BY <2>2, <1>0, DevicesAre, SetBytesTyped
  <2>7. TypeOK' /\ DoneClaimed'
    BY <1>0, <2>2, <2>5, <2>6 DEF TypeOK, DoneClaimed
  <2> QED BY <2>5, <2>7 DEF IInv
<1>4. ASSUME NEW c \in Contracts, remove_contract(c)
      PROVE  IInv'
  <2> DEFINE k == ContractKey(c.fed, c.contract)
  <2>1. k \in WrittenKeys /\ ~IsPrefix(KV_PREFIX, k)
    BY KeysTyped DEF WrittenKeys
  <2>2. /\ Insert(Manager, k, Empty) /\ c \in done /\ done' = done \ {c}
        /\ UNCHANGED <<blobs, todo, wrote, given, claimed, writes>>
    BY <1>4 DEF remove_contract
  <2>3. \A b \in Contracts : k = ContractKey(b.fed, b.contract) => b \in claimed
    BY <1>0, <2>2, SameContract DEF DoneClaimed
  <2> HIDE DEF k
  <2>4. /\ rep' \in [Devices -> SUBSET Entry] /\ clock' \in [Devices -> Nat]
        /\ KvWritten' /\ Keyed' /\ Uncovered' /\ SameStamp' /\ Stamped'
        /\ OwnKept' /\ GivenKept' /\ MachineGives' /\ RemovedClaimed'
        /\ ContractWritten'
    BY <1>0, <2>1, <2>2, <2>3, DevicesAre, InsertKeeps
  <2>5. TypeOK' /\ DoneClaimed'
    BY <1>0, <2>2, <2>4 DEF TypeOK, DoneClaimed
  <2> QED BY <2>4, <2>5 DEF IInv
<1>5. CASE SweepFetch
  <2>1. Listed \in SUBSET Contracts
    BY <1>0, Exist DEF ListedExist, TypeOK
  <2>2. TypeOK' /\ UNCHANGED <<rep, wrote, given, clock, claimed, done>>
    BY <1>0, <1>5, <2>1 DEF SweepFetch, TypeOK
  <2>3. Stamped'
    BY <1>0, <2>2 DEF Stamped
  <2> QED BY <1>0, <2>2, <2>3, ReplicasRest DEF DoneClaimed
<1>6. ASSUME NEW c \in Contracts, SweepTry(c)
      PROVE  IInv'
  <2>1. /\ TypeOK' /\ UNCHANGED <<rep, wrote, given, clock>>
        /\ claimed \subseteq claimed'
    BY <1>0, <1>6 DEF SweepTry, SweepClaim, SweepFail, TypeOK
  <2>2. done' \subseteq claimed'
    BY <1>0, <1>6 DEF SweepTry, SweepClaim, SweepFail, DoneClaimed
  <2>3. Stamped'
    BY <1>0, <2>1 DEF Stamped
  <2> QED BY <2>1, <2>2, <2>3, ReplicasRest
<1>7. CASE SweepAbort
  <2>1. /\ TypeOK' /\ UNCHANGED <<rep, wrote, given, clock, claimed>>
        /\ done' = {}
    BY <1>0, <1>7 DEF SweepAbort, TypeOK
  <2>2. Stamped'
    BY <1>0, <2>1 DEF Stamped
  <2> QED BY <2>1, <2>2, ReplicasRest
<1>8. ASSUME NEW d \in Devices, Receives(d)
      PROVE  IInv'
  BY <1>8, ReceiveKeeps DEF Receives
<1>9. ASSUME NEW d \in Devices, Downloads(d)
      PROVE  IInv'
  <2>1. PICK v \in Values : Download(d, v)
    BY <1>9 DEF Downloads
  <2>2. /\ TypeOK' /\ UNCHANGED <<rep, wrote, given, clock, claimed, done>>
    BY <1>0, <2>1 DEF Download, TypeOK
  <2>3. Stamped'
    BY <1>0, <2>2 DEF Stamped
  <2> QED BY <1>0, <2>2, <2>3, ReplicasRest DEF DoneClaimed
<1>10. ASSUME NEW d \in Devices, Tick(d)
       PROVE  IInv'
  <2>1. /\ clock \in [Devices -> Nat] /\ clock' = [clock EXCEPT ![d] = @ + 1]
        /\ UNCHANGED <<rep, blobs, todo, done, wrote, given, claimed, writes>>
    BY <1>0, <1>10 DEF Tick, TypeOK
  <2>2. TypeOK'
    BY <1>0, <2>1 DEF TypeOK
  <2>3. \A x \in Devices : clock[x] \in Nat /\ clock[x] <= clock'[x]
    BY <2>1
  <2>4. Stamped'
    <3> SUFFICES ASSUME NEW x \in Devices, NEW e \in rep[x]
                 PROVE  e.time <= clock'[e.author]
      BY <2>1 DEF Stamped
    <3>1. e.author \in Devices /\ e.time \in Nat
      BY <1>0 DEF TypeOK, Entry
    <3>2. e.time <= clock[e.author] /\ clock'[e.author] \in Nat
      BY <1>0, <2>2, <3>1 DEF Stamped, TypeOK
    <3> QED BY <3>1, <3>2, <2>3
  <2> QED BY <1>0, <2>1, <2>2, <2>4, ReplicasRest DEF DoneClaimed
<1>11. CASE UNCHANGED vars
  <2>1. TypeOK' /\ UNCHANGED <<rep, wrote, given, clock, claimed, done>>
    BY <1>0, <1>11 DEF vars, TypeOK
  <2>2. Stamped'
    BY <1>0, <2>1 DEF Stamped
  <2> QED BY <1>0, <2>1, <2>2, ReplicasRest DEF DoneClaimed
<1> QED BY <1>1, <1>2, <1>3, <1>4, <1>5, <1>6, <1>7, <1>8, <1>9, <1>10, <1>11
        DEF Next
-----------------------------------------------------------------------------
LEMMA Faithful == IInv => KvFaithful
<1> SUFFICES ASSUME IInv, NEW d \in Devices, NEW e \in KvShown(d)
             PROVE  from_iroh_entry(d, e) \in wrote
  BY DEF KvFaithful, get_kv_entries
<1>1. e \in rep[d] /\ IsPrefix(KV_PREFIX, e.key)
  BY DEF KvShown, Shown, Latest
<1>2. e.author \in Devices
  BY <1>1 DEF IInv, TypeOK, Entry
<1>3. from_iroh_entry(d, e) = Record(e)
  BY <1>2, DevicesAre DEF from_iroh_entry, Record
<1> QED BY <1>1, <1>3 DEF IInv, KvWritten

\* A replica has one entry of each key and author.
LEMMA OneEach ==
  ASSUME IInv, NEW d \in Devices, NEW x \in rep[d], NEW y \in rep[d],
         x.key = y.key, x.author = y.author
  PROVE  x = y
<1>1. x \in Entry /\ y \in Entry
  BY DEF IInv, TypeOK
<1>2. Covers(x, y) \/ Covers(y, x)
  BY <1>1, CoverOrder
<1> QED BY <1>2 DEF IInv, Uncovered

\* Of two entries of a key, by different authors, one beats the other.
LEMMA BeatsTotal ==
  ASSUME NEW x \in Entry, NEW y \in Entry, x.author # y.author
  PROVE  Beats(x, y) \/ Beats(y, x)
<1>1. /\ x.author \in Devices /\ y.author \in Devices
      /\ x.time \in Nat /\ y.time \in Nat
  BY DEF Entry
<1>2. x.author = First \/ y.author = First
  BY <1>1, DocAssumption DEF Devices
<1> QED BY <1>1, <1>2 DEF Beats

LEMMA Kept == IInv => KvKept
<1> SUFFICES ASSUME IInv, NEW w \in wrote
             PROVE  \/ \E x \in get_kv_value(w.author, w.key) :
                         x.key = w.key /\ x.timestamp >= w.timestamp
                    \/ \E v \in wrote :
                         /\ v.author = w.author /\ v.timestamp >= w.timestamp
                         /\ IsStrictPrefix(v.key, w.key)
  BY DEF KvKept
<1> DEFINE a == w.author
           k == FullKey(w.key)
<1>1. a \in Devices /\ w.timestamp \in Nat /\ w.key \in UserKeys
  BY DEF IInv, TypeOK, KvEntry, OwnKept
<1>2. w.key \in Seq(Byte) /\ UserKey(k) = w.key /\ IsPrefix(KV_PREFIX, k)
  BY <1>1, KeysTyped
<1>3. PICK e \in rep[a] : /\ e.author = a /\ e.time >= w.timestamp
                          /\ IsPrefix(KV_PREFIX, e.key) /\ IsPrefix(e.key, k)
  BY DEF IInv, OwnKept, KeepsWritten
<1>4. \A x \in rep[a] : /\ x \in Entry /\ x.author \in Devices
                        /\ x.time \in Nat
                        /\ x.key = k => x.val # Empty
  BY <1>1, <1>2 DEF IInv, TypeOK, Entry, KvWritten
\* The entry is of a shorter key: this device wrote that key since.
<1>5. CASE e.key # k
  <2>1. PICK u \in UserKeys : e.key = FullKey(u)
    BY <1>1, <1>3, WrittenTyped DEF IInv, Keyed
  <2>2. Record(e) \in wrote /\ Record(e).key = u
    BY <1>1, <1>3, <2>1, KeysTyped DEF IInv, KvWritten, Record
  <2>3. IsPrefix(u, w.key)
    BY <1>2, <1>3, <2>1, KeysTyped, FullKeyPrefix
  <2>4. u # w.key
    BY <1>5, <2>1
  <2>5. Record(e).author = w.author /\ Record(e).timestamp >= w.timestamp
    BY <1>3 DEF Record
  <2> QED BY <2>2, <2>3, <2>4, <2>5 DEF IsStrictPrefix
\* The entry is of this key: it is shown, or the other device's is.
<1>6. CASE e.key = k
  <2> HIDE DEF k
  <2>1. ASSUME NEW x \in rep[a], x \in Shown(a), x.key = k,
               x.time >= w.timestamp
        PROVE  \E r \in get_kv_value(a, w.key) :
                 r.key = w.key /\ r.timestamp >= w.timestamp
    <3>1. from_iroh_entry(a, x) \in get_kv_value(a, w.key)
      BY <2>1 DEF get_kv_value, k
    <3>2. /\ from_iroh_entry(a, x).key = w.key
          /\ from_iroh_entry(a, x).timestamp = x.time
      BY <2>1, <1>2 DEF from_iroh_entry
    <3> QED BY <3>1, <3>2, <2>1
  <2>2. CASE \A y \in Rivals(a, e) : Beats(e, y)
    <3>1. e \in Shown(a)
      BY <1>4, <1>6, <2>2 DEF Shown, Latest
    <3> QED BY <3>1, <1>3, <1>6, <2>1
  <2>3. CASE \E y \in Rivals(a, e) : ~Beats(e, y)
    <3>1. PICK y \in Rivals(a, e) : ~Beats(e, y)
      BY <2>3
    <3>2. y \in rep[a] /\ y.key = k /\ y.author # a
      BY <3>1, <1>3, <1>6 DEF Rivals
    <3>3. Beats(y, e)
      BY <3>1, <3>2, <1>3, <1>4, BeatsTotal
    <3>4. \A z \in Rivals(a, y) : z = e
      <4> SUFFICES ASSUME NEW z \in Rivals(a, y) PROVE z = e
        OBVIOUS
      <4>1. z \in rep[a] /\ z.key = e.key /\ z.author # y.author
        BY <1>6, <3>2 DEF Rivals
      <4>2. z.author = e.author
        BY <4>1, <1>3, <1>4, <3>2, DocAssumption DEF Devices
      <4> QED BY <4>1, <4>2, <1>1, <1>3, OneEach
    <3>5. y \in Shown(a)
      BY <3>2, <3>3, <3>4, <1>4 DEF Shown, Latest
    <3>6. y.time >= w.timestamp
      BY <1>1, <1>3, <1>4, <3>2, <3>3 DEF Beats
    <3> QED BY <3>2, <3>5, <3>6, <2>1
  <2> QED BY <2>2, <2>3
<1> QED BY <1>5, <1>6

(***************************************************************************)
(* The only rival the machine's entry of a contract can have is a removal, *)
(* and there is none before the contract is spent.                         *)
(***************************************************************************)
LEMMA KeptContract == IInv => ContractKept
<1> SUFFICES ASSUME IInv, NEW c \in given, c \notin claimed
             PROVE  \E e \in Shown(Machine) :
                      e.key = ContractKey(c.fed, c.contract)
  BY DEF ContractKept
<1>1. c \in Contracts
  BY DEF IInv, TypeOK
<1>2. PICK e \in rep[Machine] :
        e.author = Machine /\ e.key = ContractKey(c.fed, c.contract)
  BY DEF IInv, GivenKept, KeepsGiven
<1>3. \A x \in rep[Machine] : x.author \in Devices
  BY DevicesAre DEF IInv, TypeOK, Entry
<1>4. Rivals(Machine, e) = {}
  BY <1>1, <1>2, <1>3, DevicesAre DEF Rivals, IInv, RemovedClaimed, Devices
<1>5. e.val # Empty
  BY <1>2, DevicesAre DEF IInv, MachineGives
<1>6. e \in Shown(Machine)
  BY <1>2, <1>4, <1>5 DEF Shown, Latest
<1> QED BY <1>2, <1>6

(***************************************************************************)
(* Two replicas neither of which takes anything from the other are the     *)
(* same, and so is what is read from them.                                 *)
(***************************************************************************)
LEMMA QuietSame == IInv /\ Quiet => rep[Machine] = rep[Manager]
<1> SUFFICES ASSUME IInv, Quiet PROVE rep[Machine] = rep[Manager]
  OBVIOUS
<1>1. \A d \in Devices : \A e \in rep[d] : e \in Entry /\ e.time \in Nat
  BY DEF IInv, TypeOK, Entry
<1>2. ASSUME NEW d \in Devices, NEW e \in rep[Other(d)] PROVE e \in rep[d]
  <2>1. Other(d) \in Devices /\ Other(Other(d)) = d
    BY DevicesAre
  <2>2. PICK x \in rep[d] : Covers(x, e)
    BY DEF Quiet
  <2>3. PICK y \in rep[Other(d)] : Covers(y, x)
    BY <2>1, <2>2 DEF Quiet
  <2>4. y = e
    <3>1. Covers(y, e)
      BY <1>1, <2>1, <2>2, <2>3, CoverOrder
    <3> QED BY <3>1, <2>1, <2>3 DEF IInv, Uncovered
  <2>5. x.author = e.author /\ x.time = e.time
    BY <1>1, <2>1, <2>2, <2>3, <2>4 DEF Covers
  <2>6. x = e
    BY <2>1, <2>2, <2>5 DEF IInv, SameStamp
  <2> QED BY <2>2, <2>6
<1> QED BY <1>2, DevicesAre

LEMMA Agree == IInv => KvAgree
<1> SUFFICES ASSUME IInv, Quiet
             PROVE  get_kv_entries(Machine) = get_kv_entries(Manager)
  BY DEF KvAgree
<1>1. KvShown(Machine) = KvShown(Manager)
  BY QuietSame DEF KvShown, Shown, Latest, Rivals
<1>2. ASSUME NEW e \in KvShown(Manager)
      PROVE  from_iroh_entry(Machine, e) = from_iroh_entry(Manager, e)
  <2>1. e \in rep[Manager]
    BY DEF KvShown, Shown, Latest
  <2>2. e.author \in Devices
    BY <2>1, DevicesAre DEF IInv, TypeOK, Entry
  <2> QED BY <2>2, DevicesAre DEF from_iroh_entry
<1> QED BY <1>1, <1>2 DEF get_kv_entries
-----------------------------------------------------------------------------
(***************************************************************************)
(* An entry that the replica has nothing to cover with, whether it is      *)
(* written here or comes from the other device, takes the place of what a  *)
(* query of its key went by or leaves it: both orders of arrival end with  *)
(* the same entry.  Of the other keys it can only drop its author's longer *)
(* keys of the store.                                                      *)
(***************************************************************************)
Forward(d, e) ==
    \/ \E x \in Latest(d)' : x.key = e.key /\ (x = e \/ Beats(x, e))
    \/ /\ IsPrefix(KV_PREFIX, e.key)
       /\ \E x \in rep[d]' : x.key # e.key /\ Covers(x, e)

LEMMA PutForward ==
  ASSUME IInv, NEW d \in Devices, NEW new \in Entry,
         new.key \in WrittenKeys, \A x \in rep[d] : ~Covers(x, new),
         rep' = [rep EXCEPT ![d] = Put(@, new)],
         NEW f \in Devices, NEW e \in Latest(f)
  PROVE  Forward(f, e)
<1>1. /\ rep \in [Devices -> SUBSET Entry]
      /\ \A x \in Devices : \A y \in rep[x] :
           y \in Entry /\ y.author \in Devices /\ y.time \in Nat
      /\ new.author \in Devices /\ new.time \in Nat
  BY DEF IInv, TypeOK, Entry
<1>2. e \in rep[f] /\ \A x \in Rivals(f, e) : Beats(e, x)
  BY DEF Latest
<1>3. CASE f # d
  <2>1. rep'[f] = rep[f]
    BY <1>1, <1>3
  <2> QED BY <1>2, <2>1 DEF Forward, Latest, Rivals
<1>4. CASE f = d
  <2>1. rep'[d] = Put(rep[d], new)
    BY <1>1
  <2>2. new \in rep'[d]
    <3>1. new \in Put(rep[d], new)
      BY DEF Put
    <3> QED BY <2>1, <3>1
  <2>3. CASE new.key # e.key /\ Covers(new, e)
    <3>1. e.key \in WrittenKeys
      BY <1>2 DEF IInv, Keyed
    <3>2. IsPrefix(KV_PREFIX, e.key)
      BY <2>3, <3>1, BeginsWithin DEF Covers
    <3> QED BY <1>4, <2>2, <2>3, <3>2 DEF Forward
  <2>4. CASE new.key # e.key /\ ~Covers(new, e)
    <3>1. e \in rep'[d]
      BY <1>2, <1>4, <2>1, <2>4 DEF Put
    <3>2. \A x \in rep'[d] : x.key = e.key => x \in rep[d]
      BY <2>1, <2>4 DEF Put
    <3>3. e \in Latest(d)'
      BY <1>2, <1>4, <3>1, <3>2 DEF Latest, Rivals
    <3> QED BY <1>4, <3>3 DEF Forward
  \* Any entry the replica has of the same key and author gives way.
  <2>5. \A x \in rep[d] : x.key = new.key /\ x.author = new.author
                            => Covers(new, x) /\ x.time < new.time
    <3> SUFFICES ASSUME NEW x \in rep[d], x.key = new.key,
                        x.author = new.author
                 PROVE  Covers(new, x) /\ x.time < new.time
      OBVIOUS
    <3>1. x \in Entry /\ ~Covers(x, new)
      BY <1>1
    <3>2. Covers(new, x)
      BY <3>1, CoverOrder
    <3>3. IsPrefix(x.key, new.key)
      BY <3>2 DEF Covers
    <3> QED BY <1>1, <3>1, <3>2, <3>3 DEF Covers
  <2>6. CASE new.key = e.key /\ new.author = e.author
    <3>1. e.time < new.time
      BY <1>2, <1>4, <2>5, <2>6
    <3>2. ASSUME NEW x \in rep'[d], x.key = e.key, x.author # e.author
          PROVE  Beats(new, x)
      <4>1. x \in rep[d]
        BY <2>1, <2>6, <3>2 DEF Put
      <4>2. Beats(e, x)
        BY <1>2, <1>4, <3>2, <4>1 DEF Rivals
      <4>3. x.time \in Nat /\ e.time \in Nat
        BY <1>1, <1>2, <1>4, <4>1
      <4> QED BY <1>1, <3>1, <4>2, <4>3 DEF Beats
    <3>3. new \in Latest(d)'
      BY <2>2, <2>6, <3>2 DEF Latest, Rivals
    <3>4. Beats(new, e)
      BY <3>1, <1>1, <1>2, <1>4 DEF Beats
    <3> QED BY <1>4, <2>6, <3>3, <3>4 DEF Forward
  \* The other device's entry of the key: one of the two beats the other.
  <2>7. CASE new.key = e.key /\ new.author # e.author
    <3>1. e \in rep'[d]
      BY <1>2, <1>4, <2>1, <2>7 DEF Put, Covers
    <3>2. \A x \in rep'[d] : x.key = e.key => x = e \/ x = new
      <4> SUFFICES ASSUME NEW x \in rep'[d], x.key = e.key, x # new
                   PROVE  x = e
        OBVIOUS
      <4>1. x \in rep[d] /\ ~Covers(new, x)
        BY <2>1 DEF Put
      <4>2. x.author # new.author
        BY <2>5, <2>7, <4>1
      <4>3. x.author = e.author
        BY <1>1, <1>2, <1>4, <2>7, <4>1, <4>2, DevicesAre
      <4> QED BY <1>2, <1>4, <4>1, <4>3, OneEach
    <3>3. Beats(e, new) \/ Beats(new, e)
      BY <1>1, <1>2, <1>4, <2>7, BeatsTotal
    <3>4. CASE Beats(e, new)
      <4>1. e \in Latest(d)'
        BY <3>1, <3>2, <3>4 DEF Latest, Rivals
      <4> QED BY <1>4, <4>1 DEF Forward
    <3>5. CASE Beats(new, e)
      <4>1. new \in Latest(d)'
        BY <2>2, <2>7, <3>2, <3>5 DEF Latest, Rivals
      <4> QED BY <1>4, <2>7, <3>5, <4>1 DEF Forward
    <3> QED BY <3>3, <3>4, <3>5
  <2> QED BY <2>3, <2>4, <2>6, <2>7
<1> QED BY <1>3, <1>4

LEMMA InsertForward ==
  ASSUME IInv, NEW d \in Devices, NEW k \in WrittenKeys,
         NEW v \in Values \cup {Empty}, Insert(d, k, v),
         NEW f \in Devices, NEW e \in Latest(f)
  PROVE  Forward(f, e)
<1> DEFINE new == [key |-> k, author |-> d, time |-> clock[d] + 1, val |-> v]
<1>1. clock[d] \in Nat /\ rep' = [rep EXCEPT ![d] = Put(@, new)]
  BY DEF IInv, TypeOK, Insert
<1>2. /\ new \in Entry /\ new.key = k /\ new.author = d
      /\ new.time = clock[d] + 1
  BY <1>1, WrittenTyped DEF Entry
<1> HIDE DEF new
<1>3. \A x \in rep[d] : ~Covers(x, new)
  BY <1>2, InsertUncovered
<1> QED BY <1>1, <1>2, <1>3, PutForward

LEMMA StepForward ==
  ASSUME IInv, [Next]_vars, NEW f \in Devices, NEW e \in Latest(f)
  PROVE  Forward(f, e)
<1>1. ASSUME NEW d \in Devices, NEW u \in UserKeys, NEW v \in Values,
             set_kv_value(d, u, v)
      PROVE  Forward(f, e)
  <2>1. FullKey(u) \in WrittenKeys /\ Insert(d, FullKey(u), v)
    BY <1>1 DEF set_kv_value, SetBytes, WrittenKeys
  <2> QED BY <2>1, InsertForward
<1>2. ASSUME NEW v \in Values, set_machine_config(v) PROVE Forward(f, e)
  <2>1. /\ MACHINE_CONFIG_KEY \in WrittenKeys
        /\ Insert(Manager, MACHINE_CONFIG_KEY, v)
    BY <1>2 DEF set_machine_config, SetBytes, WrittenKeys
  <2> QED BY <2>1, InsertForward, DevicesAre
<1>3. ASSUME NEW c \in Contracts, NEW v \in Values, write_payment(c, v)
      PROVE  Forward(f, e)
  <2> DEFINE k == ContractKey(c.fed, c.contract)
  <2>1. k \in WrittenKeys /\ Insert(Machine, k, v)
    BY <1>3 DEF write_payment, SetBytes, WrittenKeys
  <2> QED BY <2>1, InsertForward, DevicesAre
<1>4. ASSUME NEW c \in Contracts, remove_contract(c) PROVE Forward(f, e)
  <2> DEFINE k == ContractKey(c.fed, c.contract)
  <2>1. k \in WrittenKeys /\ Insert(Manager, k, Empty)
    BY <1>4 DEF remove_contract, WrittenKeys
  <2> QED BY <2>1, InsertForward, DevicesAre
<1>5. ASSUME NEW d \in Devices, Receives(d) PROVE Forward(f, e)
  <2>1. PICK new \in rep[Other(d)] : Receive(d, new)
    BY <1>5 DEF Receives
  <2>2. new \in Entry /\ new.key \in WrittenKeys
    BY DevicesAre DEF IInv, TypeOK, Keyed
  <2> QED BY <2>1, <2>2, PutForward DEF Receive
<1>6. CASE UNCHANGED rep
  BY <1>6 DEF Forward, Latest, Rivals
<1>7. ASSUME NEW c \in Contracts, SweepTry(c) PROVE UNCHANGED rep
  BY <1>7 DEF SweepTry, SweepClaim, SweepFail
<1>8. SweepFetch \/ SweepAbort => UNCHANGED rep
  BY DEF SweepFetch, SweepAbort
<1>9. ASSUME NEW d \in Devices, Downloads(d) \/ Tick(d) PROVE UNCHANGED rep
  BY <1>9 DEF Downloads, Download, Tick
<1> QED BY <1>1, <1>2, <1>3, <1>4, <1>5, <1>6, <1>7, <1>8, <1>9
        DEF Next, vars

LEMMA Invariants == Spec => []IInv
BY DocInit, DocStep, PTL DEF Spec

(***************************************************************************)
(* Every variable of the document keeps its type.                          *)
(***************************************************************************)
THEOREM DocTypeCorrect == Spec => []TypeOK
<1>1. IInv => TypeOK
  BY DEF IInv
<1> QED BY <1>1, Invariants, PTL

(***************************************************************************)
(* get_kv_entries returns only what set_kv_value wrote, and names its      *)
(* author rightly on both devices.                                         *)
(***************************************************************************)
THEOREM KvIsFaithful == Spec => []KvFaithful
BY Invariants, Faithful, PTL

(***************************************************************************)
(* A device that calls get_kv_value after its own set_kv_value sees that   *)
(* value or one that is not older, whatever arrives in between, unless it  *)
(* has itself written a key that this one begins with.  The keys may be    *)
(* any sequences of bytes.                                                 *)
(***************************************************************************)
THEOREM KvIsKept == Spec => []KvKept
BY Invariants, Kept, PTL

(***************************************************************************)
(* No call of set_kv_value, set_machine_config or the sweep, and nothing   *)
(* that arrives, takes a contract out of the machine's document that has   *)
(* not been spent.                                                         *)
(***************************************************************************)
THEOREM ContractsAreKept == Spec => []ContractKept
BY Invariants, KeptContract, PTL

(***************************************************************************)
(* A machine and its manager that have exchanged all they have read the    *)
(* same store, whatever the clocks and the order of arrival were.          *)
(***************************************************************************)
THEOREM KvAgreesWhenQuiet == Spec => []KvAgree
BY Invariants, Agree, PTL

(***************************************************************************)
(* No step of either device takes a query of a key back to an earlier      *)
(* value, or undoes a removal.  Only a value of the store can go without a *)
(* later one of its key, by a write of a shorter key.                      *)
(***************************************************************************)
THEOREM ReadsNeverGoBack == Spec => ReadsForward
<1>1. IInv /\ [Next]_vars =>
        \A d \in Devices : \A e \in Latest(d) : Forward(d, e)
  BY StepForward
<1>2. IInv /\ [Next]_vars =>
        [\A d \in Devices : \A e \in Latest(d) :
           \/ \E x \in Latest(d)' : x.key = e.key /\ (x = e \/ Beats(x, e))
           \/ /\ IsPrefix(KV_PREFIX, e.key)
              /\ \E x \in rep[d]' : x.key # e.key /\ Covers(x, e)]_vars
  BY <1>1 DEF Forward
<1> QED BY <1>2, Invariants, PTL DEF Spec, ReadsForward

(***************************************************************************)
(* get_claimable_contracts lists only contracts a machine wrote.           *)
(***************************************************************************)
THEOREM OnlyContractsListed == Spec => []ListedExist
BY Invariants, Exist, PTL
=============================================================================
