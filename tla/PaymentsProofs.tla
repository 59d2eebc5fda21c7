--------------------------- MODULE PaymentsProofs ---------------------------
(***************************************************************************)
(* Proofs about Payments, for any number of machines, federations,         *)
(* contracts and faults.                                                   *)
(***************************************************************************)
EXTENDS Payments, TLAPS

\* The chain of custody, link by link: what each party's list, document
\* entry or wallet says about the party before it.
Chain ==
    /\ \A i \in Machines :
         /\ \A k \in mtodo[i] : k \in wallet /\ home[k] = i
         /\ \A k \in mdone[i] : /\ home[k] = i
                                /\ k \in paid
                                /\ docM[k].put > 0
    /\ wallet \subseteq paid
    /\ \A k \in Contracts :
         /\ home[k] = None => k \notin paid
         /\ docM[k].put > 0 => k \in paid
         /\ docG[k].put <= docM[k].put
         /\ k \in gtodo \/ k \in credited => docM[k].put > 0
         /\ docM[k].put > docM[k].del \/ k \in credited \/ docM[k].put = 0
         /\ k \in paid => k \in wallet \/ docM[k].put > 0
    /\ gdone \subseteq credited
    /\ RemovedOnlyIfCredited
-----------------------------------------------------------------------------
\* The initial state has the types.
LEMMA TypeInit == Init => TypeOK
  BY PaymentsAssumption DEF Init, TypeOK, Entry, NoEntry

\* The time of the next write is a number, and later than every write to k.
LEMMA NowLater ==
  ASSUME TypeOK, NEW k \in Contracts
  PROVE  /\ Now(k) \in Nat
         /\ Now(k) > docM[k].put /\ Now(k) > docM[k].del
         /\ Now(k) > docG[k].put /\ Now(k) > docG[k].del
  BY DEF TypeOK, Entry, Now, Merge, Later

\* Every step keeps the types.
LEMMA TypeStep == TypeOK /\ [Next]_vars => TypeOK'
<1> SUFFICES ASSUME TypeOK, [Next]_vars PROVE TypeOK'
  OBVIOUS
<1> USE PaymentsAssumption
    DEF TypeOK, Fault, Entry, configVars, invoiceVars, machineVars,
        docEntries, managerVars
<1>1. ASSUME NEW f \in Federations, UpdateFederation(f) PROVE TypeOK'
  BY <1>1 DEF UpdateFederation
<1>2. ASSUME NEW i \in Machines, ConfigArrives(i) PROVE TypeOK'
  BY <1>2 DEF ConfigArrives
<1>3. ASSUME NEW i \in Machines, ReceiveStart(i) PROVE TypeOK'
  BY <1>3 DEF ReceiveStart
<1>4. ASSUME NEW i \in Machines, ReceiveError(i) PROVE TypeOK'
  BY <1>4 DEF ReceiveError
<1>5. ASSUME NEW i \in Machines, MachineReadConfig(i) PROVE TypeOK'
  BY <1>5 DEF MachineReadConfig
<1>6. ASSUME NEW i \in Machines, MachineFetch(i) PROVE TypeOK'
  BY <1>6 DEF MachineFetch
<1>7. ASSUME NEW i \in Machines, MachineRemove(i) PROVE TypeOK'
  BY <1>7 DEF MachineRemove
<1>8. ASSUME NEW i \in Machines, MachineDown(i) PROVE TypeOK'
  BY <1>8 DEF MachineDown
<1>9. ASSUME NEW i \in Machines, MachineUp(i) PROVE TypeOK'
  BY <1>9 DEF MachineUp
<1>10. ASSUME NEW i \in Machines, NEW k \in Contracts, ReceiveIssue(i, k)
       PROVE  TypeOK'
  BY <1>10 DEF ReceiveIssue
<1>11. ASSUME NEW i \in Machines, NEW k \in Contracts, MachineWrite(i, k)
       PROVE  TypeOK'
  BY <1>11, NowLater DEF MachineWrite
<1>12. ASSUME NEW i \in Machines, NEW k \in Contracts, MachineWriteError(i, k)
       PROVE  TypeOK'
  BY <1>12 DEF MachineWriteError
<1>13. ASSUME NEW k \in Contracts, Pay(k) PROVE TypeOK'
  BY <1>13 DEF Pay
<1>14. ASSUME NEW k \in Contracts, Exchange(k) PROVE TypeOK'
  <2>1. Merge(docM[k], docG[k]) \in Entry
    BY DEF Merge, Later
  <2> QED
    BY <1>14, <2>1 DEF Exchange
<1>15. ASSUME NEW k \in Contracts, Download(k) PROVE TypeOK'
  BY <1>15 DEF Download
<1>16. ASSUME NEW k \in Contracts, SweepClaim(k) PROVE TypeOK'
  BY <1>16 DEF SweepClaim
<1>17. ASSUME NEW k \in Contracts, SweepClaimError(k) PROVE TypeOK'
  BY <1>17 DEF SweepClaimError
<1>18. ASSUME NEW k \in Contracts, SweepClaimSpent(k) PROVE TypeOK'
  BY <1>18 DEF SweepClaimSpent
<1>19. ASSUME NEW k \in Contracts, SweepRemove(k) PROVE TypeOK'
  BY <1>19, NowLater DEF SweepRemove
<1>20. ASSUME SweepFetch PROVE TypeOK'
  BY <1>20 DEF SweepFetch, Sweepable
<1>21. ASSUME SweepClaimed PROVE TypeOK'
  BY <1>21 DEF SweepClaimed
<1>22. ASSUME SweepRemoveError PROVE TypeOK'
  BY <1>22 DEF SweepRemoveError
<1>23. ASSUME ManagerCrash PROVE TypeOK'
  BY <1>23 DEF ManagerCrash
<1>24. ASSUME UNCHANGED vars PROVE TypeOK'
  BY <1>24 DEF vars
<1> QED
  BY <1>1, <1>2, <1>3, <1>4, <1>5, <1>6, <1>7, <1>8, <1>9, <1>10, <1>11,
     <1>12, <1>13, <1>14, <1>15, <1>16, <1>17, <1>18, <1>19, <1>20, <1>21,
     <1>22, <1>23, <1>24
  DEF Next, MachineNext, ManagerNext

\* Every variable keeps its type, in every behaviour of the payment path.
THEOREM PaymentsTypeCorrect == Spec => []TypeOK
  BY TypeInit, TypeStep, PTL DEF Spec
-----------------------------------------------------------------------------
\* Initially there is nothing to lose.
LEMMA ChainInit == Init => Chain
  BY DEF Init, Chain, NoEntry, RemovedOnlyIfCredited

\* No step, crash or error of either syncer breaks the chain.
LEMMA ChainStep == TypeOK /\ Chain /\ [Next]_vars => Chain'
<1> SUFFICES ASSUME TypeOK, Chain, [Next]_vars PROVE Chain'
  OBVIOUS
<1> USE PaymentsAssumption
    DEF TypeOK, Chain, RemovedOnlyIfCredited, Entry, configVars, invoiceVars,
        machineVars, docEntries, managerVars
<1>1. ASSUME NEW f \in Federations, UpdateFederation(f) PROVE Chain'
  BY <1>1 DEF UpdateFederation
<1>2. ASSUME NEW i \in Machines, ConfigArrives(i) PROVE Chain'
  BY <1>2 DEF ConfigArrives
<1>3. ASSUME NEW i \in Machines, ReceiveStart(i) PROVE Chain'
  BY <1>3 DEF ReceiveStart
<1>4. ASSUME NEW i \in Machines, ReceiveError(i) PROVE Chain'
  BY <1>4 DEF ReceiveError
<1>5. ASSUME NEW i \in Machines, MachineReadConfig(i) PROVE Chain'
  BY <1>5 DEF MachineReadConfig
<1>6. ASSUME NEW i \in Machines, MachineFetch(i) PROVE Chain'
  BY <1>6 DEF MachineFetch
<1>7. ASSUME NEW i \in Machines, MachineRemove(i) PROVE Chain'
  BY <1>7 DEF MachineRemove
<1>8. ASSUME NEW i \in Machines, MachineDown(i) PROVE Chain'
  BY <1>8 DEF MachineDown
<1>9. ASSUME NEW i \in Machines, MachineUp(i) PROVE Chain'
  BY <1>9 DEF MachineUp
<1>10. ASSUME NEW i \in Machines, NEW k \in Contracts, ReceiveIssue(i, k)
       PROVE  Chain'
  BY <1>10 DEF ReceiveIssue
<1>11. ASSUME NEW i \in Machines, NEW k \in Contracts, MachineWrite(i, k)
       PROVE  Chain'
  BY <1>11, NowLater DEF MachineWrite
<1>12. ASSUME NEW i \in Machines, NEW k \in Contracts, MachineWriteError(i, k)
       PROVE  Chain'
  BY <1>12 DEF MachineWriteError
<1>13. ASSUME NEW k \in Contracts, Pay(k) PROVE Chain'
  BY <1>13 DEF Pay
<1>14. ASSUME NEW k \in Contracts, Exchange(k) PROVE Chain'
  BY <1>14 DEF Exchange, Merge, Later
<1>15. ASSUME NEW k \in Contracts, Download(k) PROVE Chain'
  BY <1>15 DEF Download
<1>16. ASSUME NEW k \in Contracts, SweepClaim(k) PROVE Chain'
  BY <1>16 DEF SweepClaim
<1>17. ASSUME NEW k \in Contracts, SweepClaimError(k) PROVE Chain'
  BY <1>17 DEF SweepClaimError
<1>18. ASSUME NEW k \in Contracts, SweepClaimSpent(k) PROVE Chain'
  BY <1>18 DEF SweepClaimSpent
<1>19. ASSUME NEW k \in Contracts, SweepRemove(k) PROVE Chain'
  BY <1>19, NowLater DEF SweepRemove
<1>20. ASSUME SweepFetch PROVE Chain'
  BY <1>20 DEF SweepFetch, Sweepable, Visible
<1>21. ASSUME SweepClaimed PROVE Chain'
  BY <1>21 DEF SweepClaimed
<1>22. ASSUME SweepRemoveError PROVE Chain'
  BY <1>22 DEF SweepRemoveError
<1>23. ASSUME ManagerCrash PROVE Chain'
  BY <1>23 DEF ManagerCrash
<1>24. ASSUME UNCHANGED vars PROVE Chain'
  BY <1>24 DEF vars
<1> QED
  BY <1>1, <1>2, <1>3, <1>4, <1>5, <1>6, <1>7, <1>8, <1>9, <1>10, <1>11,
     <1>12, <1>13, <1>14, <1>15, <1>16, <1>17, <1>18, <1>19, <1>20, <1>21,
     <1>22, <1>23, <1>24
  DEF Next, MachineNext, ManagerNext

\* Types and chain hold together in every reachable state.
LEMMA Invariants == Spec => [](TypeOK /\ Chain)
  BY TypeInit, TypeStep, ChainInit, ChainStep, PTL DEF Spec

\* No payment is lost, whatever either syncer was doing when it stopped.
THEOREM PaymentsSafe == Spec => []NoPaymentLost
<1>1. TypeOK /\ Chain => NoPaymentLost
  BY DEF TypeOK, Chain, NoPaymentLost, Visible, Entry
<1> QED
  BY <1>1, Invariants, PTL

\* The manager removes only what it was credited for.
THEOREM RemovalSafe == Spec => []RemovedOnlyIfCredited
<1>1. Chain => RemovedOnlyIfCredited
  BY DEF Chain
<1> QED
  BY <1>1, Invariants, PTL
-----------------------------------------------------------------------------
\* A step that moves one contract one link, or none, is a step of Custody.
LEMMA OneLink ==
  ASSUME NEW k \in Contracts,
         \A j \in Contracts \ {k} : Where(j)' = Where(j),
         \/ Where(k)' = Where(k)
         \/ Where(k) = "unpaid" /\ Where(k)' = "machine"
         \/ Where(k) = "machine" /\ Where(k)' = "shared"
         \/ Where(k) = "shared" /\ Where(k)' = "manager"
  PROVE  [Abs!Next]_([j \in Contracts |-> Where(j)])
<1> DEFINE where == [j \in Contracts |-> Where(j)]
<1>1. CASE Where(k)' = Where(k)
  <2>1. where' = where
    BY <1>1
  <2> QED
    BY <2>1
<1>2. CASE Where(k)' # Where(k)
  <2>1. where' = [where EXCEPT ![k] = Where(k)'] /\ where[k] = Where(k)
    OBVIOUS
  <2> QED
    BY <1>2, <2>1 DEF Abs!Next, Abs!Receive, Abs!Share, Abs!Credit, Abs!Move
<1> QED
  BY <1>1, <1>2

\* A contract moves along the chain of custody one link at a time, never
\* back: the payment path implements Custody.
THEOREM PaymentsImplementCustody == Spec => CustodySpec
<1>1. Init => Abs!Init
  BY DEF Init, Abs!Init, Where, Visible, NoEntry
<1>2. TypeOK /\ Chain /\ [Next]_vars
        => [Abs!Next]_([k \in Contracts |-> Where(k)])
  <2> DEFINE Goal == [Abs!Next]_([k \in Contracts |-> Where(k)])
  <2> SUFFICES ASSUME TypeOK, Chain, [Next]_vars PROVE Goal
    OBVIOUS
  <2> USE PaymentsAssumption
      DEF TypeOK, Chain, RemovedOnlyIfCredited, Entry, Visible, Where,
          configVars, invoiceVars, machineVars, docEntries, managerVars
  <2>1. ASSUME NEW f \in Federations, UpdateFederation(f) PROVE Goal
    BY <2>1 DEF UpdateFederation
  <2>2. ASSUME NEW i \in Machines, ConfigArrives(i) PROVE Goal
    BY <2>2 DEF ConfigArrives
  <2>3. ASSUME NEW i \in Machines, ReceiveStart(i) PROVE Goal
    BY <2>3 DEF ReceiveStart
  <2>4. ASSUME NEW i \in Machines, ReceiveError(i) PROVE Goal
    BY <2>4 DEF ReceiveError
  <2>5. ASSUME NEW i \in Machines, MachineReadConfig(i) PROVE Goal
    BY <2>5 DEF MachineReadConfig
  <2>6. ASSUME NEW i \in Machines, MachineFetch(i) PROVE Goal
    BY <2>6 DEF MachineFetch
  <2>7. ASSUME NEW i \in Machines, MachineRemove(i) PROVE Goal
    BY <2>7 DEF MachineRemove
  <2>8. ASSUME NEW i \in Machines, MachineDown(i) PROVE Goal
    BY <2>8 DEF MachineDown
  <2>9. ASSUME NEW i \in Machines, MachineUp(i) PROVE Goal
    BY <2>9 DEF MachineUp
  <2>10. ASSUME NEW i \in Machines, NEW k \in Contracts, ReceiveIssue(i, k)
         PROVE  Goal
    BY <2>10 DEF ReceiveIssue
  <2>11. ASSUME NEW i \in Machines, NEW k \in Contracts, MachineWrite(i, k)
         PROVE  Goal
    <3>1. \A j \in Contracts \ {k} : Where(j)' = Where(j)
      BY <2>11 DEF MachineWrite
    <3>2. \/ Where(k)' = Where(k)
          \/ Where(k) = "machine" /\ Where(k)' = "shared"
      BY <2>11, NowLater DEF MachineWrite
    <3> QED
      BY <3>1, <3>2, OneLink
  <2>12. ASSUME NEW i \in Machines, NEW k \in Contracts, MachineWriteError(i, k)
         PROVE  Goal
    BY <2>12 DEF MachineWriteError
  <2>13. ASSUME NEW k \in Contracts, Pay(k) PROVE Goal
    <3>1. \A j \in Contracts \ {k} : Where(j)' = Where(j)
      BY <2>13 DEF Pay
    <3>2. \/ Where(k)' = Where(k)
          \/ Where(k) = "unpaid" /\ Where(k)' = "machine"
      BY <2>13 DEF Pay
    <3> QED
      BY <3>1, <3>2, OneLink
  <2>14. ASSUME NEW k \in Contracts, Exchange(k) PROVE Goal
    BY <2>14 DEF Exchange, Merge, Later
  <2>15. ASSUME NEW k \in Contracts, Download(k) PROVE Goal
    BY <2>15 DEF Download
  <2>16. ASSUME NEW k \in Contracts, SweepClaim(k) PROVE Goal
    <3>1. \A j \in Contracts \ {k} : Where(j)' = Where(j)
      BY <2>16 DEF SweepClaim
    <3>2. \/ Where(k)' = Where(k)
          \/ Where(k) = "shared" /\ Where(k)' = "manager"
      BY <2>16 DEF SweepClaim
    <3> QED
      BY <3>1, <3>2, OneLink
  <2>17. ASSUME NEW k \in Contracts, SweepClaimError(k) PROVE Goal
    <3>1. \A j \in Contracts \ {k} : Where(j)' = Where(j)
      BY <2>17 DEF SweepClaimError
    <3>2. \/ Where(k)' = Where(k)
          \/ Where(k) = "shared" /\ Where(k)' = "manager"
      BY <2>17 DEF SweepClaimError
    <3> QED
      BY <3>1, <3>2, OneLink
  <2>18. ASSUME NEW k \in Contracts, SweepClaimSpent(k) PROVE Goal
    BY <2>18 DEF SweepClaimSpent
  <2>19. ASSUME NEW k \in Contracts, SweepRemove(k) PROVE Goal
    BY <2>19, NowLater DEF SweepRemove
  <2>20. ASSUME SweepFetch PROVE Goal
    BY <2>20 DEF SweepFetch
  <2>21. ASSUME SweepClaimed PROVE Goal
    BY <2>21 DEF SweepClaimed
  <2>22. ASSUME SweepRemoveError PROVE Goal
    BY <2>22 DEF SweepRemoveError
  <2>23. ASSUME ManagerCrash PROVE Goal
    BY <2>23 DEF ManagerCrash
  <2>24. ASSUME UNCHANGED vars PROVE Goal
    BY <2>24 DEF vars
  <2> QED
    BY <2>1, <2>2, <2>3, <2>4, <2>5, <2>6, <2>7, <2>8, <2>9, <2>10, <2>11,
       <2>12, <2>13, <2>14, <2>15, <2>16, <2>17, <2>18, <2>19, <2>20, <2>21,
       <2>22, <2>23, <2>24
    DEF Next, MachineNext, ManagerNext
<1> QED
  BY <1>1, <1>2, Invariants, PTL DEF Spec, CustodySpec, Abs!Spec
=============================================================================
