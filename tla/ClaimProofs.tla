---------------------------- MODULE ClaimProofs ----------------------------
(***************************************************************************)
(* Proofs about Claim, for any number of managers, connections, readers    *)
(* and application tasks and any number of faults.                         *)
(*                                                                         *)
(* The inductive invariant is built in layers, each proved from the ones   *)
(* before it: the types; who is inside the mutex and inside                *)
(* get_or_create_machine_doc; what both users said on a connection that    *)
(* got so far; which manager owns the machine; and which document.         *)
(***************************************************************************)
EXTENDS Claim, TLAPS

\* A handler is inside get_or_create_machine_doc, or still holds the ticket
\* it made, only at the steps of accept where the code has the document.
DocWithin ==
    /\ \A c \in Conns :
         /\ dpc[c] # "idle" => hpc[c] \in {"doc", "key", "keyw", "ticket"}
         /\ hpc[c] \in {"key", "keyw", "ticket"} => dpc[c] = "done"
    /\ \A r \in Readers : dpc[r] # "idle" => rpc[r] = "read"
    /\ \A x \in Callers : dpc[x] \in {"save", "write", "done"} => got[x] # NoDoc

MutexInv == MutexFollowsHolder /\ DocWithin

\* How far a connection gets without an answer, a ping or a decision.
Consented ==
    /\ \A c \in Conns :
         /\ peer[c] = None => hpc[c] = "none" /\ mpc[c] = "idle"
         /\ hpc[c] \in {"none", "lock", "send"} => answer[c] = "none"
         /\ chan = c => answer[c] = "none" /\ hpc[c] \in {"wait", "end"}
         /\ hand = c => answer[c] = "none" /\ hpc[c] \in {"wait", "end"}
         /\ hpc[c] \in {"accept", "doc", "key", "keyw", "ticket", "stopped"}
              => answer[c] = "yes"
         /\ mpc[c] \in {"idle", "decide"} => choice[c] = "none"
         /\ mpc[c] = "ping" => choice[c] = "yes"
         /\ ping[c] => choice[c] = "yes"
         /\ hpc[c] \in {"doc", "key", "keyw", "ticket", "stopped"} => ping[c]
         /\ ticket[c] # NoDoc => hpc[c] \in {"stopped", "end"}
    /\ chan # None => hand # chan
    /\ mem # None => mem \in Agreed
    /\ keyFile # None => keyFile \in Agreed

\* Ownership is durable, and a ticket is only ever sent to the owner.
Owned ==
    /\ mem # None => keyFile = mem \/ \E c \in Conns : hpc[c] = "keyw"
    /\ phase = "shut" => \A c \in Conns : hpc[c] \in {"none", "end"}
    /\ \A c \in Conns :
         /\ hpc[c] \in Locked => mem \in {None, peer[c]}
         /\ hpc[c] \in {"ticket", "stopped"} => mem = peer[c]
         /\ ticket[c] # NoDoc => mem = peer[c]
         /\ mpc[c] = "save" => ticket[c] # NoDoc
    /\ HolderIsOwner

\* One document: whoever has one has the one the file names, and only the
\* handler inside the mutex creates it, before the machine is ever claimed.
Documented ==
    /\ mem # None => docFile # NoDoc
    /\ keyFile # None => docFile # NoDoc
    /\ \A x \in Callers :
         /\ dpc[x] = "done" => got[x] = docFile
         /\ dpc[x] \in {"save", "write"} => x \in Conns /\ docFile = NoDoc
    /\ \A x \in Apps \cup Readers : dpc[x] # "idle" => docFile # NoDoc
    /\ \A c \in Conns : ticket[c] # NoDoc => ticket[c] = docFile
    /\ SameDocument
-----------------------------------------------------------------------------
(***************************************************************************)
(* Types.                                                                  *)
(***************************************************************************)
\* The initial state has the types.
LEMMA TypeInit == Init => TypeOK
  BY ClaimAssumption
  DEF Init, DocInit, TypeOK, DocTypeOK, Votes, HandlerSteps, TaskSteps,
      ConnStates, ReadSteps, DocSteps, NoDoc, DocIds, Callers

\* Every step keeps the types.
LEMMA TypeStep ==
  TypeOK /\ [Next]_vars => TypeOK'
<1> SUFFICES ASSUME TypeOK, [Next]_vars
             PROVE  TypeOK'
  OBVIOUS
<1> USE ClaimAssumption
    DEF TypeOK, DocTypeOK, Votes, HandlerSteps, TaskSteps, ConnStates,
        ReadSteps, DocSteps, NoDoc, DocIds, Callers, Step, Task, Close, Fault,
        machineVars, managerVars, netVars, docVars, DocCall, DocReturn,
        DocFail, DocLeave, DocCrash, DocAllIdle, MachineStops, Boot
<1>1. ASSUME NEW c \in Conns, NEW m \in Managers, Connect(c, m) PROVE TypeOK'
  BY <1>1 DEF Connect
<1>2. ASSUME NEW c \in Conns, HandlerRefuse(c) PROVE TypeOK'
  BY <1>2 DEF HandlerRefuse
<1>3. ASSUME NEW c \in Conns, HandlerLock(c) PROVE TypeOK'
  BY <1>3 DEF HandlerLock
<1>4. ASSUME NEW c \in Conns, HandlerRequest(c) PROVE TypeOK'
  BY <1>4 DEF HandlerRequest
<1>5. ASSUME NEW c \in Conns, HandlerRejected(c) PROVE TypeOK'
  BY <1>5 DEF HandlerRejected
<1>6. ASSUME NEW c \in Conns, HandlerGranted(c) PROVE TypeOK'
  BY <1>6 DEF HandlerGranted
<1>7. ASSUME NEW c \in Conns, HandlerPing(c) PROVE TypeOK'
  BY <1>7 DEF HandlerPing
<1>8. ASSUME NEW c \in Conns, HandlerShare(c) PROVE TypeOK'
  BY <1>8 DEF HandlerShare
<1>9. ASSUME NEW c \in Conns, HandlerTruncate(c) PROVE TypeOK'
  BY <1>9 DEF HandlerTruncate
<1>10. ASSUME NEW c \in Conns, HandlerPersist(c) PROVE TypeOK'
  BY <1>10 DEF HandlerPersist
<1>11. ASSUME NEW c \in Conns, HandlerSend(c) PROVE TypeOK'
  BY <1>11 DEF HandlerSend
<1>12. ASSUME NEW c \in Conns, HandlerFinish(c) PROVE TypeOK'
  BY <1>12 DEF HandlerFinish
<1>13. ASSUME NEW c \in Conns, HandlerConnLost(c) PROVE TypeOK'
  BY <1>13 DEF HandlerConnLost
<1>14. ASSUME NEW c \in Conns, HandlerDocError(c) PROVE TypeOK'
  BY <1>14 DEF HandlerDocError
<1>15. ASSUME NEW c \in Conns, HandlerKeyError(c) PROVE TypeOK'
  BY <1>15 DEF HandlerKeyError
<1>16. ASSUME NEW c \in Conns, ManagerAccept(c) PROVE TypeOK'
  BY <1>16 DEF ManagerAccept
<1>17. ASSUME NEW c \in Conns, ManagerReject(c) PROVE TypeOK'
  BY <1>17 DEF ManagerReject
<1>18. ASSUME NEW c \in Conns, ManagerPing(c) PROVE TypeOK'
  BY <1>18 DEF ManagerPing
<1>19. ASSUME NEW c \in Conns, ManagerImport(c) PROVE TypeOK'
  BY <1>19 DEF ManagerImport
<1>20. ASSUME NEW c \in Conns, ManagerImportError(c) PROVE TypeOK'
  BY <1>20 DEF ManagerImportError
<1>21. ASSUME NEW c \in Conns, ManagerSave(c) PROVE TypeOK'
  BY <1>21 DEF ManagerSave
<1>22. ASSUME NEW c \in Conns, ManagerSaveError(c) PROVE TypeOK'
  <2>1. ticketFile' \in [Managers -> DocIds \cup {NoDoc}]
    BY <1>22 DEF ManagerSaveError
  <2> QED
    BY <1>22, <2>1 DEF ManagerSaveError
<1>23. ASSUME NEW c \in Conns, ManagerConnLost(c) PROVE TypeOK'
  BY <1>23 DEF ManagerConnLost
<1>24. ASSUME NEW c \in Conns, Disconnect(c) PROVE TypeOK'
  BY <1>24 DEF Disconnect
<1>25. ASSUME AppReceive PROVE TypeOK'
  BY <1>25 DEF AppReceive
<1>26. ASSUME NEW v \in {"yes", "no"}, AppAnswer(v) PROVE TypeOK'
  BY <1>26 DEF AppAnswer
<1>27. ASSUME NEW r \in Readers, ReaderCall(r) PROVE TypeOK'
  BY <1>27 DEF ReaderCall
<1>28. ASSUME NEW r \in Readers, ReaderUnclaimed(r) PROVE TypeOK'
  BY <1>28 DEF ReaderUnclaimed
<1>29. ASSUME NEW r \in Readers, ReaderClaimed(r) PROVE TypeOK'
  BY <1>29 DEF ReaderClaimed
<1>30. ASSUME NEW r \in Readers, ReaderDone(r) PROVE TypeOK'
  BY <1>30 DEF ReaderDone
<1>31. ASSUME NEW r \in Readers, ReaderError(r) PROVE TypeOK'
  BY <1>31 DEF ReaderError
<1>32. ASSUME NEW a \in Apps, AppKv(a) PROVE TypeOK'
  BY <1>32 DEF AppKv
<1>33. ASSUME NEW a \in Apps, AppKvDone(a) PROVE TypeOK'
  BY <1>33 DEF AppKvDone
<1>34. ASSUME NEW a \in Apps, AppKvError(a) PROVE TypeOK'
  BY <1>34 DEF AppKvError
<1>35. ASSUME NEW x \in Callers, OpenDoc(x) PROVE TypeOK'
  BY <1>35 DEF OpenDoc, DocStep, DocOpen, DocCreate, DocTruncate, DocWrite
<1>36. ASSUME NEW m \in Managers, ManagerCrash(m) PROVE TypeOK'
  BY <1>36 DEF ManagerCrash
<1>37. ASSUME Crash PROVE TypeOK'
  BY <1>37 DEF Crash
<1>38. ASSUME Shutdown PROVE TypeOK'
  BY <1>38 DEF Shutdown, DocAbort, DocWriters
<1>39. ASSUME Restart PROVE TypeOK'
  BY <1>39 DEF Restart
<1>40. ASSUME UNCHANGED vars PROVE TypeOK'
  BY <1>40 DEF vars
<1> QED
  BY <1>1, <1>2, <1>3, <1>4, <1>5, <1>6, <1>7, <1>8, <1>9, <1>10, <1>11,
     <1>12, <1>13, <1>14, <1>15, <1>16, <1>17, <1>18, <1>19, <1>20, <1>21,
     <1>22, <1>23, <1>24, <1>25, <1>26, <1>27, <1>28, <1>29, <1>30, <1>31,
     <1>32, <1>33, <1>34, <1>35, <1>36, <1>37, <1>38, <1>39, <1>40
  DEF Next, HandlerNext, ManagerNext, ReaderNext

\* Every variable keeps its type, in every behaviour of the claim protocol.
THEOREM ClaimTypeCorrect == Spec => []TypeOK
  BY TypeInit, TypeStep, PTL DEF Spec
-----------------------------------------------------------------------------
(***************************************************************************)
(* The mutex.                                                              *)
(***************************************************************************)
\* Initially nobody is inside.
LEMMA MutexInit == Init => MutexInv
  BY ClaimAssumption
  DEF Init, DocInit, MutexInv, MutexFollowsHolder, DocWithin, Locked, Callers

\* Every step, the error paths included, keeps mutex and holder together.
LEMMA MutexStep ==
  TypeOK /\ MutexInv /\ [Next]_vars => MutexInv'
<1> SUFFICES ASSUME TypeOK, MutexInv, [Next]_vars
             PROVE  MutexInv'
  OBVIOUS
<1> USE ClaimAssumption
    DEF TypeOK, DocTypeOK, MutexInv, MutexFollowsHolder, DocWithin, Locked,
        Callers, NoDoc, DocIds, Step, Task, Close, Fault, machineVars,
        managerVars, netVars, docVars, DocCall, DocReturn, DocFail, DocLeave,
        DocCrash, DocAllIdle, MachineStops, Boot
<1>1. ASSUME NEW c \in Conns, NEW m \in Managers, Connect(c, m)
      PROVE  MutexInv'
  BY <1>1 DEF Connect
<1>2. ASSUME NEW c \in Conns, HandlerRefuse(c) PROVE MutexInv'
  BY <1>2 DEF HandlerRefuse
<1>3. ASSUME NEW c \in Conns, HandlerLock(c) PROVE MutexInv'
  BY <1>3 DEF HandlerLock
<1>4. ASSUME NEW c \in Conns, HandlerRequest(c) PROVE MutexInv'
  BY <1>4 DEF HandlerRequest
<1>5. ASSUME NEW c \in Conns, HandlerRejected(c) PROVE MutexInv'
  BY <1>5 DEF HandlerRejected
<1>6. ASSUME NEW c \in Conns, HandlerGranted(c) PROVE MutexInv'
  BY <1>6 DEF HandlerGranted
<1>7. ASSUME NEW c \in Conns, HandlerPing(c) PROVE MutexInv'
  BY <1>7 DEF HandlerPing
<1>8. ASSUME NEW c \in Conns, HandlerShare(c) PROVE MutexInv'
  BY <1>8 DEF HandlerShare
<1>9. ASSUME NEW c \in Conns, HandlerTruncate(c) PROVE MutexInv'
  BY <1>9 DEF HandlerTruncate
<1>10. ASSUME NEW c \in Conns, HandlerPersist(c) PROVE MutexInv'
  BY <1>10 DEF HandlerPersist
<1>11. ASSUME NEW c \in Conns, HandlerSend(c) PROVE MutexInv'
  BY <1>11 DEF HandlerSend
<1>12. ASSUME NEW c \in Conns, HandlerFinish(c) PROVE MutexInv'
  BY <1>12 DEF HandlerFinish
<1>13. ASSUME NEW c \in Conns, HandlerConnLost(c) PROVE MutexInv'
  BY <1>13 DEF HandlerConnLost
<1>14. ASSUME NEW c \in Conns, HandlerDocError(c) PROVE MutexInv'
  BY <1>14 DEF HandlerDocError
<1>15. ASSUME NEW c \in Conns, HandlerKeyError(c) PROVE MutexInv'
  BY <1>15 DEF HandlerKeyError
<1>16. ASSUME NEW c \in Conns, ManagerAccept(c) PROVE MutexInv'
  BY <1>16 DEF ManagerAccept
<1>17. ASSUME NEW c \in Conns, ManagerReject(c) PROVE MutexInv'
  BY <1>17 DEF ManagerReject
<1>18. ASSUME NEW c \in Conns, ManagerPing(c) PROVE MutexInv'
  BY <1>18 DEF ManagerPing
<1>19. ASSUME NEW c \in Conns, ManagerImport(c) PROVE MutexInv'
  BY <1>19 DEF ManagerImport
<1>20. ASSUME NEW c \in Conns, ManagerImportError(c) PROVE MutexInv'
  BY <1>20 DEF ManagerImportError
<1>21. ASSUME NEW c \in Conns, ManagerSave(c) PROVE MutexInv'
  BY <1>21 DEF ManagerSave
<1>22. ASSUME NEW c \in Conns, ManagerSaveError(c) PROVE MutexInv'
  BY <1>22 DEF ManagerSaveError
<1>23. ASSUME NEW c \in Conns, ManagerConnLost(c) PROVE MutexInv'
  BY <1>23 DEF ManagerConnLost
<1>24. ASSUME NEW c \in Conns, Disconnect(c) PROVE MutexInv'
  BY <1>24 DEF Disconnect
<1>25. ASSUME AppReceive PROVE MutexInv'
  BY <1>25 DEF AppReceive
<1>26. ASSUME NEW v \in {"yes", "no"}, AppAnswer(v) PROVE MutexInv'
  BY <1>26 DEF AppAnswer
<1>27. ASSUME NEW r \in Readers, ReaderCall(r) PROVE MutexInv'
  BY <1>27 DEF ReaderCall
<1>28. ASSUME NEW r \in Readers, ReaderUnclaimed(r) PROVE MutexInv'
  BY <1>28 DEF ReaderUnclaimed
<1>29. ASSUME NEW r \in Readers, ReaderClaimed(r) PROVE MutexInv'
  BY <1>29 DEF ReaderClaimed
<1>30. ASSUME NEW r \in Readers, ReaderDone(r) PROVE MutexInv'
  BY <1>30 DEF ReaderDone
<1>31. ASSUME NEW r \in Readers, ReaderError(r) PROVE MutexInv'
  BY <1>31 DEF ReaderError
<1>32. ASSUME NEW a \in Apps, AppKv(a) PROVE MutexInv'
  BY <1>32 DEF AppKv
<1>33. ASSUME NEW a \in Apps, AppKvDone(a) PROVE MutexInv'
  BY <1>33 DEF AppKvDone
<1>34. ASSUME NEW a \in Apps, AppKvError(a) PROVE MutexInv'
  BY <1>34 DEF AppKvError
<1>35. ASSUME NEW x \in Callers, OpenDoc(x) PROVE MutexInv'
  BY <1>35 DEF OpenDoc, DocStep, DocOpen, DocCreate, DocTruncate, DocWrite
<1>36. ASSUME NEW m \in Managers, ManagerCrash(m) PROVE MutexInv'
  BY <1>36 DEF ManagerCrash
<1>37. ASSUME Crash PROVE MutexInv'
  BY <1>37 DEF Crash
<1>38. ASSUME Shutdown PROVE MutexInv'
  BY <1>38 DEF Shutdown, DocAbort, DocWriters
<1>39. ASSUME Restart PROVE MutexInv'
  BY <1>39 DEF Restart
<1>40. ASSUME UNCHANGED vars PROVE MutexInv'
  BY <1>40 DEF vars
<1> QED
  BY <1>1, <1>2, <1>3, <1>4, <1>5, <1>6, <1>7, <1>8, <1>9, <1>10, <1>11,
     <1>12, <1>13, <1>14, <1>15, <1>16, <1>17, <1>18, <1>19, <1>20, <1>21,
     <1>22, <1>23, <1>24, <1>25, <1>26, <1>27, <1>28, <1>29, <1>30, <1>31,
     <1>32, <1>33, <1>34, <1>35, <1>36, <1>37, <1>38, <1>39, <1>40
  DEF Next, HandlerNext, ManagerNext, ReaderNext

\* The claim mutex is held exactly by whoever is in a critical section.
THEOREM MutexCorrect == Spec => []MutexFollowsHolder
<1>1. Spec => [](TypeOK /\ MutexInv)
  BY TypeInit, TypeStep, MutexInit, MutexStep, PTL DEF Spec
<1>2. MutexInv => MutexFollowsHolder
  BY DEF MutexInv
<1> QED
  BY <1>1, <1>2, PTL
-----------------------------------------------------------------------------
(***************************************************************************)
(* What both users said.                                                   *)
(***************************************************************************)
\* Initially nobody has said anything.
LEMMA ConsentInit == Init => Consented
  BY ClaimAssumption
  DEF Init, DocInit, Consented, Agreed, Callers

\* No step gets further than the answers allow.
LEMMA ConsentStep ==
  TypeOK /\ MutexInv /\ Consented /\ [Next]_vars => Consented'
<1> SUFFICES ASSUME TypeOK, MutexInv, Consented, [Next]_vars
             PROVE  Consented'
  OBVIOUS
<1> USE ClaimAssumption
    DEF TypeOK, DocTypeOK, MutexInv, MutexFollowsHolder, DocWithin, Locked,
        Consented, Agreed, Callers, NoDoc, DocIds, Step, Task, Close, Fault,
        machineVars, managerVars, netVars, docVars, DocCall, DocReturn,
        DocFail, DocLeave, DocCrash, DocAllIdle, MachineStops, Boot
<1>1. ASSUME NEW c \in Conns, NEW m \in Managers, Connect(c, m)
      PROVE  Consented'
  BY <1>1 DEF Connect
<1>2. ASSUME NEW c \in Conns, HandlerRefuse(c) PROVE Consented'
  BY <1>2 DEF HandlerRefuse
<1>3. ASSUME NEW c \in Conns, HandlerLock(c) PROVE Consented'
  BY <1>3 DEF HandlerLock
<1>4. ASSUME NEW c \in Conns, HandlerRequest(c) PROVE Consented'
  BY <1>4 DEF HandlerRequest
<1>5. ASSUME NEW c \in Conns, HandlerRejected(c) PROVE Consented'
  BY <1>5 DEF HandlerRejected
<1>6. ASSUME NEW c \in Conns, HandlerGranted(c) PROVE Consented'
  BY <1>6 DEF HandlerGranted
<1>7. ASSUME NEW c \in Conns, HandlerPing(c) PROVE Consented'
  BY <1>7 DEF HandlerPing
<1>8. ASSUME NEW c \in Conns, HandlerShare(c) PROVE Consented'
  BY <1>8 DEF HandlerShare
<1>9. ASSUME NEW c \in Conns, HandlerTruncate(c) PROVE Consented'
  BY <1>9 DEF HandlerTruncate
<1>10. ASSUME NEW c \in Conns, HandlerPersist(c) PROVE Consented'
  BY <1>10 DEF HandlerPersist
<1>11. ASSUME NEW c \in Conns, HandlerSend(c) PROVE Consented'
  BY <1>11 DEF HandlerSend
<1>12. ASSUME NEW c \in Conns, HandlerFinish(c) PROVE Consented'
  BY <1>12 DEF HandlerFinish
<1>13. ASSUME NEW c \in Conns, HandlerConnLost(c) PROVE Consented'
  BY <1>13 DEF HandlerConnLost
<1>14. ASSUME NEW c \in Conns, HandlerDocError(c) PROVE Consented'
  BY <1>14 DEF HandlerDocError
<1>15. ASSUME NEW c \in Conns, HandlerKeyError(c) PROVE Consented'
  BY <1>15 DEF HandlerKeyError
<1>16. ASSUME NEW c \in Conns, ManagerAccept(c) PROVE Consented'
  BY <1>16 DEF ManagerAccept
<1>17. ASSUME NEW c \in Conns, ManagerReject(c) PROVE Consented'
  BY <1>17 DEF ManagerReject
<1>18. ASSUME NEW c \in Conns, ManagerPing(c) PROVE Consented'
  BY <1>18 DEF ManagerPing
<1>19. ASSUME NEW c \in Conns, ManagerImport(c) PROVE Consented'
  BY <1>19 DEF ManagerImport
<1>20. ASSUME NEW c \in Conns, ManagerImportError(c) PROVE Consented'
  BY <1>20 DEF ManagerImportError
<1>21. ASSUME NEW c \in Conns, ManagerSave(c) PROVE Consented'
  BY <1>21 DEF ManagerSave
<1>22. ASSUME NEW c \in Conns, ManagerSaveError(c) PROVE Consented'
  BY <1>22 DEF ManagerSaveError
<1>23. ASSUME NEW c \in Conns, ManagerConnLost(c) PROVE Consented'
  BY <1>23 DEF ManagerConnLost
<1>24. ASSUME NEW c \in Conns, Disconnect(c) PROVE Consented'
  BY <1>24 DEF Disconnect
<1>25. ASSUME AppReceive PROVE Consented'
  BY <1>25 DEF AppReceive
<1>26. ASSUME NEW v \in {"yes", "no"}, AppAnswer(v) PROVE Consented'
  BY <1>26 DEF AppAnswer
<1>27. ASSUME NEW r \in Readers, ReaderCall(r) PROVE Consented'
  BY <1>27 DEF ReaderCall
<1>28. ASSUME NEW r \in Readers, ReaderUnclaimed(r) PROVE Consented'
  BY <1>28 DEF ReaderUnclaimed
<1>29. ASSUME NEW r \in Readers, ReaderClaimed(r) PROVE Consented'
  BY <1>29 DEF ReaderClaimed
<1>30. ASSUME NEW r \in Readers, ReaderDone(r) PROVE Consented'
  BY <1>30 DEF ReaderDone
<1>31. ASSUME NEW r \in Readers, ReaderError(r) PROVE Consented'
  BY <1>31 DEF ReaderError
<1>32. ASSUME NEW a \in Apps, AppKv(a) PROVE Consented'
  BY <1>32 DEF AppKv
<1>33. ASSUME NEW a \in Apps, AppKvDone(a) PROVE Consented'
  BY <1>33 DEF AppKvDone
<1>34. ASSUME NEW a \in Apps, AppKvError(a) PROVE Consented'
  BY <1>34 DEF AppKvError
<1>35. ASSUME NEW x \in Callers, OpenDoc(x) PROVE Consented'
  BY <1>35 DEF OpenDoc, DocStep, DocOpen, DocCreate, DocTruncate, DocWrite
<1>36. ASSUME NEW m \in Managers, ManagerCrash(m) PROVE Consented'
  BY <1>36 DEF ManagerCrash
<1>37. ASSUME Crash PROVE Consented'
  BY <1>37 DEF Crash
<1>38. ASSUME Shutdown PROVE Consented'
  BY <1>38 DEF Shutdown, DocAbort, DocWriters
<1>39. ASSUME Restart PROVE Consented'
  BY <1>39 DEF Restart
<1>40. ASSUME UNCHANGED vars PROVE Consented'
  BY <1>40 DEF vars
<1> QED
  BY <1>1, <1>2, <1>3, <1>4, <1>5, <1>6, <1>7, <1>8, <1>9, <1>10, <1>11,
     <1>12, <1>13, <1>14, <1>15, <1>16, <1>17, <1>18, <1>19, <1>20, <1>21,
     <1>22, <1>23, <1>24, <1>25, <1>26, <1>27, <1>28, <1>29, <1>30, <1>31,
     <1>32, <1>33, <1>34, <1>35, <1>36, <1>37, <1>38, <1>39, <1>40
  DEF Next, HandlerNext, ManagerNext, ReaderNext

-----------------------------------------------------------------------------
(***************************************************************************)
(* Who owns the machine.                                                   *)
(***************************************************************************)
\* Initially the machine is unclaimed.
LEMMA OwnedInit == Init => Owned
  BY ClaimAssumption
  DEF Init, DocInit, Owned, HolderIsOwner, Holders, Locked

\* Unless the key file is torn while it is rewritten, ownership is for ever.
LEMMA OwnedStep ==
  ~TearsRewrite /\ TypeOK /\ MutexInv /\ Consented /\ Owned /\ [Next]_vars
    => Owned'
<1> SUFFICES ASSUME ~TearsRewrite, TypeOK, MutexInv, Consented, Owned,
                    [Next]_vars
             PROVE  Owned'
  OBVIOUS
<1> USE ClaimAssumption
    DEF TypeOK, DocTypeOK, MutexInv, MutexFollowsHolder, DocWithin, Locked,
        Consented, Owned, HolderIsOwner, Holders, Rewriting, Callers, NoDoc,
        DocIds, Step, Task, Close, Fault, machineVars, managerVars, netVars,
        docVars, DocCall, DocReturn, DocFail, DocLeave, DocCrash, DocAllIdle,
        MachineStops, Boot
<1>1. ASSUME NEW c \in Conns, NEW m \in Managers, Connect(c, m) PROVE Owned'
  BY <1>1 DEF Connect
<1>2. ASSUME NEW c \in Conns, HandlerRefuse(c) PROVE Owned'
  BY <1>2 DEF HandlerRefuse
<1>3. ASSUME NEW c \in Conns, HandlerLock(c) PROVE Owned'
  BY <1>3 DEF HandlerLock
<1>4. ASSUME NEW c \in Conns, HandlerRequest(c) PROVE Owned'
  BY <1>4 DEF HandlerRequest
<1>5. ASSUME NEW c \in Conns, HandlerRejected(c) PROVE Owned'
  BY <1>5 DEF HandlerRejected
<1>6. ASSUME NEW c \in Conns, HandlerGranted(c) PROVE Owned'
  BY <1>6 DEF HandlerGranted
<1>7. ASSUME NEW c \in Conns, HandlerPing(c) PROVE Owned'
  BY <1>7 DEF HandlerPing
<1>8. ASSUME NEW c \in Conns, HandlerShare(c) PROVE Owned'
  BY <1>8 DEF HandlerShare
<1>9. ASSUME NEW c \in Conns, HandlerTruncate(c) PROVE Owned'
  BY <1>9 DEF HandlerTruncate
<1>10. ASSUME NEW c \in Conns, HandlerPersist(c) PROVE Owned'
  BY <1>10 DEF HandlerPersist
<1>11. ASSUME NEW c \in Conns, HandlerSend(c) PROVE Owned'
  BY <1>11 DEF HandlerSend
<1>12. ASSUME NEW c \in Conns, HandlerFinish(c) PROVE Owned'
  BY <1>12 DEF HandlerFinish
<1>13. ASSUME NEW c \in Conns, HandlerConnLost(c) PROVE Owned'
  BY <1>13 DEF HandlerConnLost
<1>14. ASSUME NEW c \in Conns, HandlerDocError(c) PROVE Owned'
  BY <1>14 DEF HandlerDocError
<1>15. ASSUME NEW c \in Conns, HandlerKeyError(c) PROVE Owned'
  BY <1>15 DEF HandlerKeyError
<1>16. ASSUME NEW c \in Conns, ManagerAccept(c) PROVE Owned'
  BY <1>16 DEF ManagerAccept
<1>17. ASSUME NEW c \in Conns, ManagerReject(c) PROVE Owned'
  BY <1>17 DEF ManagerReject
<1>18. ASSUME NEW c \in Conns, ManagerPing(c) PROVE Owned'
  BY <1>18 DEF ManagerPing
<1>19. ASSUME NEW c \in Conns, ManagerImport(c) PROVE Owned'
  BY <1>19 DEF ManagerImport
<1>20. ASSUME NEW c \in Conns, ManagerImportError(c) PROVE Owned'
  BY <1>20 DEF ManagerImportError
<1>21. ASSUME NEW c \in Conns, ManagerSave(c) PROVE Owned'
  BY <1>21 DEF ManagerSave
<1>22. ASSUME NEW c \in Conns, ManagerSaveError(c) PROVE Owned'
  BY <1>22 DEF ManagerSaveError
<1>23. ASSUME NEW c \in Conns, ManagerConnLost(c) PROVE Owned'
  BY <1>23 DEF ManagerConnLost
<1>24. ASSUME NEW c \in Conns, Disconnect(c) PROVE Owned'
  BY <1>24 DEF Disconnect
<1>25. ASSUME AppReceive PROVE Owned'
  BY <1>25 DEF AppReceive
<1>26. ASSUME NEW v \in {"yes", "no"}, AppAnswer(v) PROVE Owned'
  BY <1>26 DEF AppAnswer
<1>27. ASSUME NEW r \in Readers, ReaderCall(r) PROVE Owned'
  BY <1>27 DEF ReaderCall
<1>28. ASSUME NEW r \in Readers, ReaderUnclaimed(r) PROVE Owned'
  BY <1>28 DEF ReaderUnclaimed
<1>29. ASSUME NEW r \in Readers, ReaderClaimed(r) PROVE Owned'
  BY <1>29 DEF ReaderClaimed
<1>30. ASSUME NEW r \in Readers, ReaderDone(r) PROVE Owned'
  BY <1>30 DEF ReaderDone
<1>31. ASSUME NEW r \in Readers, ReaderError(r) PROVE Owned'
  BY <1>31 DEF ReaderError
<1>32. ASSUME NEW a \in Apps, AppKv(a) PROVE Owned'
  BY <1>32 DEF AppKv
<1>33. ASSUME NEW a \in Apps, AppKvDone(a) PROVE Owned'
  BY <1>33 DEF AppKvDone
<1>34. ASSUME NEW a \in Apps, AppKvError(a) PROVE Owned'
  BY <1>34 DEF AppKvError
<1>35. ASSUME NEW x \in Callers, OpenDoc(x) PROVE Owned'
  BY <1>35 DEF OpenDoc, DocStep, DocOpen, DocCreate, DocTruncate, DocWrite
<1>36. ASSUME NEW m \in Managers, ManagerCrash(m) PROVE Owned'
  BY <1>36 DEF ManagerCrash
<1>37. ASSUME Crash PROVE Owned'
  BY <1>37 DEF Crash
<1>38. ASSUME Shutdown PROVE Owned'
  BY <1>38 DEF Shutdown, DocAbort, DocWriters
<1>39. ASSUME Restart PROVE Owned'
  BY <1>39 DEF Restart
<1>40. ASSUME UNCHANGED vars PROVE Owned'
  BY <1>40 DEF vars
<1> QED
  BY <1>1, <1>2, <1>3, <1>4, <1>5, <1>6, <1>7, <1>8, <1>9, <1>10, <1>11,
     <1>12, <1>13, <1>14, <1>15, <1>16, <1>17, <1>18, <1>19, <1>20, <1>21,
     <1>22, <1>23, <1>24, <1>25, <1>26, <1>27, <1>28, <1>29, <1>30, <1>31,
     <1>32, <1>33, <1>34, <1>35, <1>36, <1>37, <1>38, <1>39, <1>40
  DEF Next, HandlerNext, ManagerNext, ReaderNext

-----------------------------------------------------------------------------
(***************************************************************************)
(* Which document.                                                         *)
(***************************************************************************)
\* Initially there is no document.
LEMMA DocumentInit == Init => Documented
  BY ClaimAssumption
  DEF Init, DocInit, Documented, SameDocument, Callers

\* If nobody uses the KV store before the claim, there is one document.
LEMMA DocumentStep ==
  ~KvBeforeClaim /\ TypeOK /\ MutexInv /\ Consented /\ Documented /\ [Next]_vars
    => Documented'
<1> SUFFICES ASSUME ~KvBeforeClaim, TypeOK, MutexInv, Consented, Documented,
                    [Next]_vars
             PROVE  Documented'
  OBVIOUS
<1> USE ClaimAssumption
    DEF TypeOK, DocTypeOK, MutexInv, MutexFollowsHolder, DocWithin, Locked,
        Consented, Documented, SameDocument, Callers, NoDoc, DocIds, Step,
        Task, Close, Fault, machineVars, managerVars, netVars, docVars,
        DocCall, DocReturn, DocFail, DocLeave, DocCrash, DocAllIdle,
        MachineStops, Boot
<1>1. ASSUME NEW c \in Conns, NEW m \in Managers, Connect(c, m)
      PROVE  Documented'
  BY <1>1 DEF Connect
<1>2. ASSUME NEW c \in Conns, HandlerRefuse(c) PROVE Documented'
  BY <1>2 DEF HandlerRefuse
<1>3. ASSUME NEW c \in Conns, HandlerLock(c) PROVE Documented'
  BY <1>3 DEF HandlerLock
<1>4. ASSUME NEW c \in Conns, HandlerRequest(c) PROVE Documented'
  BY <1>4 DEF HandlerRequest
<1>5. ASSUME NEW c \in Conns, HandlerRejected(c) PROVE Documented'
  BY <1>5 DEF HandlerRejected
<1>6. ASSUME NEW c \in Conns, HandlerGranted(c) PROVE Documented'
  BY <1>6 DEF HandlerGranted
<1>7. ASSUME NEW c \in Conns, HandlerPing(c) PROVE Documented'
  BY <1>7 DEF HandlerPing
<1>8. ASSUME NEW c \in Conns, HandlerShare(c) PROVE Documented'
  BY <1>8 DEF HandlerShare
<1>9. ASSUME NEW c \in Conns, HandlerTruncate(c) PROVE Documented'
  BY <1>9 DEF HandlerTruncate
<1>10. ASSUME NEW c \in Conns, HandlerPersist(c) PROVE Documented'
  BY <1>10 DEF HandlerPersist
<1>11. ASSUME NEW c \in Conns, HandlerSend(c) PROVE Documented'
  BY <1>11 DEF HandlerSend
<1>12. ASSUME NEW c \in Conns, HandlerFinish(c) PROVE Documented'
  BY <1>12 DEF HandlerFinish
<1>13. ASSUME NEW c \in Conns, HandlerConnLost(c) PROVE Documented'
  BY <1>13 DEF HandlerConnLost
<1>14. ASSUME NEW c \in Conns, HandlerDocError(c) PROVE Documented'
  BY <1>14 DEF HandlerDocError
<1>15. ASSUME NEW c \in Conns, HandlerKeyError(c) PROVE Documented'
  BY <1>15 DEF HandlerKeyError
<1>16. ASSUME NEW c \in Conns, ManagerAccept(c) PROVE Documented'
  BY <1>16 DEF ManagerAccept
<1>17. ASSUME NEW c \in Conns, ManagerReject(c) PROVE Documented'
  BY <1>17 DEF ManagerReject
<1>18. ASSUME NEW c \in Conns, ManagerPing(c) PROVE Documented'
  BY <1>18 DEF ManagerPing
<1>19. ASSUME NEW c \in Conns, ManagerImport(c) PROVE Documented'
  BY <1>19 DEF ManagerImport
<1>20. ASSUME NEW c \in Conns, ManagerImportError(c) PROVE Documented'
  BY <1>20 DEF ManagerImportError
<1>21. ASSUME NEW c \in Conns, ManagerSave(c) PROVE Documented'
  BY <1>21 DEF ManagerSave
<1>22. ASSUME NEW c \in Conns, ManagerSaveError(c) PROVE Documented'
  BY <1>22 DEF ManagerSaveError
<1>23. ASSUME NEW c \in Conns, ManagerConnLost(c) PROVE Documented'
  BY <1>23 DEF ManagerConnLost
<1>24. ASSUME NEW c \in Conns, Disconnect(c) PROVE Documented'
  BY <1>24 DEF Disconnect
<1>25. ASSUME AppReceive PROVE Documented'
  BY <1>25 DEF AppReceive
<1>26. ASSUME NEW v \in {"yes", "no"}, AppAnswer(v) PROVE Documented'
  BY <1>26 DEF AppAnswer
<1>27. ASSUME NEW r \in Readers, ReaderCall(r) PROVE Documented'
  BY <1>27 DEF ReaderCall
<1>28. ASSUME NEW r \in Readers, ReaderUnclaimed(r) PROVE Documented'
  BY <1>28 DEF ReaderUnclaimed
<1>29. ASSUME NEW r \in Readers, ReaderClaimed(r) PROVE Documented'
  BY <1>29 DEF ReaderClaimed
<1>30. ASSUME NEW r \in Readers, ReaderDone(r) PROVE Documented'
  BY <1>30 DEF ReaderDone
<1>31. ASSUME NEW r \in Readers, ReaderError(r) PROVE Documented'
  BY <1>31 DEF ReaderError
<1>32. ASSUME NEW a \in Apps, AppKv(a) PROVE Documented'
  BY <1>32 DEF AppKv
<1>33. ASSUME NEW a \in Apps, AppKvDone(a) PROVE Documented'
  BY <1>33 DEF AppKvDone
<1>34. ASSUME NEW a \in Apps, AppKvError(a) PROVE Documented'
  BY <1>34 DEF AppKvError
<1>35. ASSUME NEW x \in Callers, OpenDoc(x) PROVE Documented'
  BY <1>35 DEF OpenDoc, DocStep, DocOpen, DocCreate, DocTruncate, DocWrite
<1>36. ASSUME NEW m \in Managers, ManagerCrash(m) PROVE Documented'
  BY <1>36 DEF ManagerCrash
<1>37. ASSUME Crash PROVE Documented'
  BY <1>37 DEF Crash
<1>38. ASSUME Shutdown PROVE Documented'
  BY <1>38 DEF Shutdown, DocAbort, DocWriters
<1>39. ASSUME Restart PROVE Documented'
  BY <1>39 DEF Restart
<1>40. ASSUME UNCHANGED vars PROVE Documented'
  BY <1>40 DEF vars
<1> QED
  BY <1>1, <1>2, <1>3, <1>4, <1>5, <1>6, <1>7, <1>8, <1>9, <1>10, <1>11,
     <1>12, <1>13, <1>14, <1>15, <1>16, <1>17, <1>18, <1>19, <1>20, <1>21,
     <1>22, <1>23, <1>24, <1>25, <1>26, <1>27, <1>28, <1>29, <1>30, <1>31,
     <1>32, <1>33, <1>34, <1>35, <1>36, <1>37, <1>38, <1>39, <1>40
  DEF Next, HandlerNext, ManagerNext, ReaderNext
-----------------------------------------------------------------------------
(***************************************************************************)
(* The theorems.                                                           *)
(***************************************************************************)
\* Everything but ownership and documents needs no assumption on the faults.
LEMMA Base == Spec => [](TypeOK /\ MutexInv /\ Consented)
  BY TypeInit, TypeStep, MutexInit, MutexStep, ConsentInit, ConsentStep, PTL
  DEF Spec

\* A manager holding the document is the machine's owner, for any number of
\* concurrent claims, crashes and lost connections, as long as rewriting the
\* key file is not interrupted.
THEOREM OwnershipCorrect ==
  ASSUME ~TearsRewrite
  PROVE  Spec => []HolderIsOwner
<1>1. Spec => []Owned
  BY ~TearsRewrite, Base, OwnedInit, OwnedStep, PTL DEF Spec
<1>2. Owned => HolderIsOwner
  BY DEF Owned
<1> QED
  BY <1>1, <1>2, PTL

\* The ticket a manager saved names the machine's own document, as long as
\* the KV store is not used before the claim.
THEOREM DocumentCorrect ==
  ASSUME ~KvBeforeClaim
  PROVE  Spec => []SameDocument
<1>1. Spec => []Documented
  BY ~KvBeforeClaim, Base, DocumentInit, DocumentStep, PTL DEF Spec
<1>2. Documented => SameDocument
  BY DEF Documented
<1> QED
  BY <1>1, <1>2, PTL

\* get_or_create_machine_doc gives all its callers the same document, under
\* the same assumption.
THEOREM DocumentShared ==
  ASSUME ~KvBeforeClaim
  PROVE  Spec => []OneDocument
<1>1. Spec => []Documented
  BY ~KvBeforeClaim, Base, DocumentInit, DocumentStep, PTL DEF Spec
<1>2. Documented => OneDocument
  BY DEF Documented, OneDocument
<1> QED
  BY <1>1, <1>2, PTL

\* The machine's document, once named by the ticket file, never changes.
THEOREM DocumentNeverReplaced ==
  ASSUME ~KvBeforeClaim
  PROVE  Spec => DocumentStable
<1>1. Spec => []Documented
  BY ~KvBeforeClaim, Base, DocumentInit, DocumentStep, PTL DEF Spec
<1>2. Documented /\ [Next]_vars
        => [docFile # NoDoc => docFile' = docFile]_vars
  <2> SUFFICES ASSUME Documented, [Next]_vars, docFile # NoDoc
               PROVE  docFile' = docFile
    OBVIOUS
  <2> USE DEF Documented, docVars, DocCall, DocReturn, DocFail, DocLeave,
              DocCrash
  <2>1. ASSUME NEW c \in Conns, NEW m \in Managers, Connect(c, m)
        PROVE  docFile' = docFile
    BY <2>1 DEF Connect
  <2>2. ASSUME NEW c \in Conns, HandlerRefuse(c) PROVE docFile' = docFile
    BY <2>2 DEF HandlerRefuse
  <2>3. ASSUME NEW c \in Conns, HandlerLock(c) PROVE docFile' = docFile
    BY <2>3 DEF HandlerLock
  <2>4. ASSUME NEW c \in Conns, HandlerRequest(c) PROVE docFile' = docFile
    BY <2>4 DEF HandlerRequest
  <2>5. ASSUME NEW c \in Conns, HandlerRejected(c) PROVE docFile' = docFile
    BY <2>5 DEF HandlerRejected
  <2>6. ASSUME NEW c \in Conns, HandlerGranted(c) PROVE docFile' = docFile
    BY <2>6 DEF HandlerGranted
  <2>7. ASSUME NEW c \in Conns, HandlerPing(c) PROVE docFile' = docFile
    BY <2>7 DEF HandlerPing
  <2>8. ASSUME NEW c \in Conns, HandlerShare(c) PROVE docFile' = docFile
    BY <2>8 DEF HandlerShare
  <2>9. ASSUME NEW c \in Conns, HandlerTruncate(c) PROVE docFile' = docFile
    BY <2>9 DEF HandlerTruncate
  <2>10. ASSUME NEW c \in Conns, HandlerPersist(c) PROVE docFile' = docFile
    BY <2>10 DEF HandlerPersist
  <2>11. ASSUME NEW c \in Conns, HandlerSend(c) PROVE docFile' = docFile
    BY <2>11 DEF HandlerSend
  <2>12. ASSUME NEW c \in Conns, HandlerFinish(c) PROVE docFile' = docFile
    BY <2>12 DEF HandlerFinish
  <2>13. ASSUME NEW c \in Conns, HandlerConnLost(c) PROVE docFile' = docFile
    BY <2>13 DEF HandlerConnLost
  <2>14. ASSUME NEW c \in Conns, HandlerDocError(c) PROVE docFile' = docFile
    BY <2>14 DEF HandlerDocError
  <2>15. ASSUME NEW c \in Conns, HandlerKeyError(c) PROVE docFile' = docFile
    BY <2>15 DEF HandlerKeyError
  <2>16. ASSUME NEW c \in Conns, ManagerAccept(c) PROVE docFile' = docFile
    BY <2>16 DEF ManagerAccept
  <2>17. ASSUME NEW c \in Conns, ManagerReject(c) PROVE docFile' = docFile
    BY <2>17 DEF ManagerReject
  <2>18. ASSUME NEW c \in Conns, ManagerPing(c) PROVE docFile' = docFile
    BY <2>18 DEF ManagerPing
  <2>19. ASSUME NEW c \in Conns, ManagerImport(c) PROVE docFile' = docFile
    BY <2>19 DEF ManagerImport
  <2>20. ASSUME NEW c \in Conns, ManagerImportError(c) PROVE docFile' = docFile
    BY <2>20 DEF ManagerImportError
  <2>21. ASSUME NEW c \in Conns, ManagerSave(c) PROVE docFile' = docFile
    BY <2>21 DEF ManagerSave
  <2>22. ASSUME NEW c \in Conns, ManagerSaveError(c) PROVE docFile' = docFile
    BY <2>22 DEF ManagerSaveError
  <2>23. ASSUME NEW c \in Conns, ManagerConnLost(c) PROVE docFile' = docFile
    BY <2>23 DEF ManagerConnLost
  <2>24. ASSUME NEW c \in Conns, Disconnect(c) PROVE docFile' = docFile
    BY <2>24 DEF Disconnect
  <2>25. ASSUME AppReceive PROVE docFile' = docFile
    BY <2>25 DEF AppReceive
  <2>26. ASSUME NEW v \in {"yes", "no"}, AppAnswer(v) PROVE docFile' = docFile
    BY <2>26 DEF AppAnswer
  <2>27. ASSUME NEW r \in Readers, ReaderCall(r) PROVE docFile' = docFile
    BY <2>27 DEF ReaderCall
  <2>28. ASSUME NEW r \in Readers, ReaderUnclaimed(r) PROVE docFile' = docFile
    BY <2>28 DEF ReaderUnclaimed
  <2>29. ASSUME NEW r \in Readers, ReaderClaimed(r) PROVE docFile' = docFile
    BY <2>29 DEF ReaderClaimed
  <2>30. ASSUME NEW r \in Readers, ReaderDone(r) PROVE docFile' = docFile
    BY <2>30 DEF ReaderDone
  <2>31. ASSUME NEW r \in Readers, ReaderError(r) PROVE docFile' = docFile
    BY <2>31 DEF ReaderError
  <2>32. ASSUME NEW a \in Apps, AppKv(a) PROVE docFile' = docFile
    BY <2>32 DEF AppKv
  <2>33. ASSUME NEW a \in Apps, AppKvDone(a) PROVE docFile' = docFile
    BY <2>33 DEF AppKvDone
  <2>34. ASSUME NEW a \in Apps, AppKvError(a) PROVE docFile' = docFile
    BY <2>34 DEF AppKvError
  <2>35. ASSUME NEW x \in Callers, OpenDoc(x) PROVE docFile' = docFile
    BY <2>35 DEF OpenDoc, DocStep, DocOpen, DocCreate, DocTruncate, DocWrite
  <2>36. ASSUME NEW m \in Managers, ManagerCrash(m) PROVE docFile' = docFile
    BY <2>36 DEF ManagerCrash
  <2>37. ASSUME Crash PROVE docFile' = docFile
    BY <2>37 DEF Crash
  <2>38. ASSUME Shutdown PROVE docFile' = docFile
    BY <2>38 DEF Shutdown, DocAbort, DocWriters
  <2>39. ASSUME Restart PROVE docFile' = docFile
    BY <2>39 DEF Restart
  <2>40. ASSUME UNCHANGED vars PROVE docFile' = docFile
    BY <2>40 DEF vars
  <2> QED
    BY <2>1, <2>2, <2>3, <2>4, <2>5, <2>6, <2>7, <2>8, <2>9, <2>10, <2>11,
       <2>12, <2>13, <2>14, <2>15, <2>16, <2>17, <2>18, <2>19, <2>20, <2>21,
       <2>22, <2>23, <2>24, <2>25, <2>26, <2>27, <2>28, <2>29, <2>30, <2>31,
       <2>32, <2>33, <2>34, <2>35, <2>36, <2>37, <2>38, <2>39, <2>40
    DEF Next, HandlerNext, ManagerNext, ReaderNext
<1> QED
  BY <1>1, <1>2, PTL DEF Spec, DocumentStable

\* The claim protocol implements Pairing: every step is an agreement, the
\* one and only pairing, a grant to the owner, a loss, or a stutter.
THEOREM ClaimImplementsPairing ==
  ASSUME ~TearsRewrite
  PROVE  Spec => PairingSpec
<1>1. Init => Abs!Init
  BY ClaimAssumption DEF Init, Abs!Init, Agreed, Holders, NoDoc
<1>2. TypeOK /\ MutexInv /\ Consented /\ Owned /\ [Next]_vars
        => [Abs!Next]_(Abs!vars)
  <2> SUFFICES ASSUME TypeOK, MutexInv, Consented, Owned, [Next]_vars
               PROVE  [Abs!Next]_(Abs!vars)
    OBVIOUS
  <2> USE ClaimAssumption, ~TearsRewrite
      DEF TypeOK, MutexInv, MutexFollowsHolder, Locked, Consented, Owned,
          HolderIsOwner, Agreed, Holders, Abs!Next, Abs!vars, Abs!Agree,
          Abs!Pair, Abs!Grant, Abs!Lose, Step, Task, machineVars, managerVars,
          netVars, MachineStops, Boot, Rewriting, NoDoc
  <2>1. ASSUME NEW c \in Conns, NEW m \in Managers, Connect(c, m)
        PROVE  [Abs!Next]_(Abs!vars)
    BY <2>1 DEF Connect
  <2>2. ASSUME NEW c \in Conns, HandlerRefuse(c) PROVE [Abs!Next]_(Abs!vars)
    BY <2>2 DEF HandlerRefuse
  <2>3. ASSUME NEW c \in Conns, HandlerLock(c) PROVE [Abs!Next]_(Abs!vars)
    BY <2>3 DEF HandlerLock
  <2>4. ASSUME NEW c \in Conns, HandlerRequest(c) PROVE [Abs!Next]_(Abs!vars)
    BY <2>4 DEF HandlerRequest
  <2>5. ASSUME NEW c \in Conns, HandlerRejected(c) PROVE [Abs!Next]_(Abs!vars)
    BY <2>5 DEF HandlerRejected
  <2>6. ASSUME NEW c \in Conns, HandlerGranted(c) PROVE [Abs!Next]_(Abs!vars)
    BY <2>6 DEF HandlerGranted
  <2>7. ASSUME NEW c \in Conns, HandlerPing(c) PROVE [Abs!Next]_(Abs!vars)
    BY <2>7 DEF HandlerPing
  <2>8. ASSUME NEW c \in Conns, HandlerShare(c) PROVE [Abs!Next]_(Abs!vars)
    BY <2>8 DEF HandlerShare
  <2>9. ASSUME NEW c \in Conns, HandlerTruncate(c) PROVE [Abs!Next]_(Abs!vars)
    BY <2>9 DEF HandlerTruncate
  <2>10. ASSUME NEW c \in Conns, HandlerPersist(c) PROVE [Abs!Next]_(Abs!vars)
    BY <2>10 DEF HandlerPersist
  <2>11. ASSUME NEW c \in Conns, HandlerSend(c) PROVE [Abs!Next]_(Abs!vars)
    BY <2>11 DEF HandlerSend
  <2>12. ASSUME NEW c \in Conns, HandlerFinish(c) PROVE [Abs!Next]_(Abs!vars)
    BY <2>12 DEF HandlerFinish
  <2>13. ASSUME NEW c \in Conns, HandlerConnLost(c) PROVE [Abs!Next]_(Abs!vars)
    BY <2>13 DEF HandlerConnLost
  <2>14. ASSUME NEW c \in Conns, HandlerDocError(c) PROVE [Abs!Next]_(Abs!vars)
    BY <2>14 DEF HandlerDocError
  <2>15. ASSUME NEW c \in Conns, HandlerKeyError(c) PROVE [Abs!Next]_(Abs!vars)
    BY <2>15 DEF HandlerKeyError
  <2>16. ASSUME NEW c \in Conns, ManagerAccept(c) PROVE [Abs!Next]_(Abs!vars)
    BY <2>16 DEF ManagerAccept
  <2>17. ASSUME NEW c \in Conns, ManagerReject(c) PROVE [Abs!Next]_(Abs!vars)
    BY <2>17 DEF ManagerReject
  <2>18. ASSUME NEW c \in Conns, ManagerPing(c) PROVE [Abs!Next]_(Abs!vars)
    BY <2>18 DEF ManagerPing
  <2>19. ASSUME NEW c \in Conns, ManagerImport(c) PROVE [Abs!Next]_(Abs!vars)
    BY <2>19 DEF ManagerImport
  <2>20. ASSUME NEW c \in Conns, ManagerImportError(c)
         PROVE  [Abs!Next]_(Abs!vars)
    BY <2>20 DEF ManagerImportError
  <2>21. ASSUME NEW c \in Conns, ManagerSave(c) PROVE [Abs!Next]_(Abs!vars)
    BY <2>21 DEF ManagerSave
  <2>22. ASSUME NEW c \in Conns, ManagerSaveError(c) PROVE [Abs!Next]_(Abs!vars)
    BY <2>22 DEF ManagerSaveError
  <2>23. ASSUME NEW c \in Conns, ManagerConnLost(c) PROVE [Abs!Next]_(Abs!vars)
    BY <2>23 DEF ManagerConnLost
  <2>24. ASSUME NEW c \in Conns, Disconnect(c) PROVE [Abs!Next]_(Abs!vars)
    BY <2>24 DEF Disconnect
  <2>25. ASSUME AppReceive PROVE [Abs!Next]_(Abs!vars)
    BY <2>25 DEF AppReceive
  <2>26. ASSUME NEW v \in {"yes", "no"}, AppAnswer(v)
         PROVE  [Abs!Next]_(Abs!vars)
    BY <2>26 DEF AppAnswer
  <2>27. ASSUME NEW r \in Readers, ReaderCall(r) PROVE [Abs!Next]_(Abs!vars)
    BY <2>27 DEF ReaderCall
  <2>28. ASSUME NEW r \in Readers, ReaderUnclaimed(r)
         PROVE  [Abs!Next]_(Abs!vars)
    BY <2>28 DEF ReaderUnclaimed
  <2>29. ASSUME NEW r \in Readers, ReaderClaimed(r) PROVE [Abs!Next]_(Abs!vars)
    BY <2>29 DEF ReaderClaimed
  <2>30. ASSUME NEW r \in Readers, ReaderDone(r) PROVE [Abs!Next]_(Abs!vars)
    BY <2>30 DEF ReaderDone
  <2>31. ASSUME NEW r \in Readers, ReaderError(r) PROVE [Abs!Next]_(Abs!vars)
    BY <2>31 DEF ReaderError
  <2>32. ASSUME NEW a \in Apps, AppKv(a) PROVE [Abs!Next]_(Abs!vars)
    BY <2>32 DEF AppKv
  <2>33. ASSUME NEW a \in Apps, AppKvDone(a) PROVE [Abs!Next]_(Abs!vars)
    BY <2>33 DEF AppKvDone
  <2>34. ASSUME NEW a \in Apps, AppKvError(a) PROVE [Abs!Next]_(Abs!vars)
    BY <2>34 DEF AppKvError
  <2>35. ASSUME NEW x \in Callers, OpenDoc(x) PROVE [Abs!Next]_(Abs!vars)
    BY <2>35 DEF OpenDoc, DocStep, DocOpen, DocCreate, DocTruncate, DocWrite
  <2>36. ASSUME NEW m \in Managers, ManagerCrash(m) PROVE [Abs!Next]_(Abs!vars)
    BY <2>36 DEF ManagerCrash
  <2>37. ASSUME Crash PROVE [Abs!Next]_(Abs!vars)
    BY <2>37 DEF Crash
  <2>38. ASSUME Shutdown PROVE [Abs!Next]_(Abs!vars)
    BY <2>38 DEF Shutdown, DocAbort, DocWriters
  <2>39. ASSUME Restart PROVE [Abs!Next]_(Abs!vars)
    BY <2>39 DEF Restart
  <2>40. ASSUME UNCHANGED vars PROVE [Abs!Next]_(Abs!vars)
    BY <2>40 DEF vars
  <2> QED
    BY <2>1, <2>2, <2>3, <2>4, <2>5, <2>6, <2>7, <2>8, <2>9, <2>10, <2>11,
       <2>12, <2>13, <2>14, <2>15, <2>16, <2>17, <2>18, <2>19, <2>20, <2>21,
       <2>22, <2>23, <2>24, <2>25, <2>26, <2>27, <2>28, <2>29, <2>30, <2>31,
       <2>32, <2>33, <2>34, <2>35, <2>36, <2>37, <2>38, <2>39, <2>40
    DEF Next, HandlerNext, ManagerNext, ReaderNext
<1>3. Spec => []Owned
  BY ~TearsRewrite, Base, OwnedInit, OwnedStep, PTL DEF Spec
<1> QED
  BY <1>1, <1>2, <1>3, Base, PTL DEF Spec, PairingSpec, Abs!Spec
=============================================================================
