---------------------------- MODULE WalletProofs ----------------------------
(***************************************************************************)
(* Proofs about Wallet, for any number of federations, callers, readers    *)
(* and faults.                                                             *)
(*                                                                         *)
(* The inductive invariant is built in layers, each proved from the ones   *)
(* before it: the types; who may be inside the directory mutex; where the  *)
(* holders of locks are; which seed is behind what is on disk; which       *)
(* directories have a client; which joins are under way or cut short; and  *)
(* what the view task owes its callers.                                    *)
(***************************************************************************)
EXTENDS Wallet, TLAPS

\* A call that is under way has a federation.
Wanted == \A s \in Setters : spc[s] # "idle" => want[s] \in Federations

TypeInv == TypeOK /\ Wanted

\* The steps of set_default_federation that hold the directory mutex.
Inside == {"join", "write", "force", "file", "filew"}

\* Only an open wallet is used, and at most one call is inside the mutex.
Locking ==
    /\ boot # "up" => /\ \A s \in Setters : spc[s] = "idle"
                      /\ \A r \in Readers : rpc[r] = "idle"
    /\ \A s \in Setters : spc[s] \in Inside => dirLock = s

\* Who holds the mutex or the write lock is past asking for it.
Held ==
    /\ dirLock \in Setters => spc[dirLock] \in Inside
    /\ dirLock = Opening => boot \in {"lock", "open", "view"}
    /\ writer = Opening => boot = "open"

\* A directory exists only under a complete mnemonic, and a wallet past
\* reading the mnemonic has the secret of the one on disk.
Seeded ==
    /\ boot = "down" \/ mnemonic # "none"
    /\ boot \in {"lock", "open", "view", "up"}
         => mnemonic = "good" /\ secret = seed
    /\ boot = "seedw" => mnemonic = "torn"
    /\ mnemonic = "good" => seed # 0
    /\ \A f \in Federations : dir[f] # "none" => mnemonic = "good"
    /\ SecretKept

\* The federation s is joining right now.
Joining(s, f) == spc[s] \in {"join", "write"} /\ want[s] = f

\* What was read as the default, or is about to be recorded, has a
\* directory and is not being joined; and in an open wallet a directory
\* that nobody is joining has a client or a join that was interrupted.
Joined ==
    /\ defaultFile # None => dir[defaultFile] # "none"
    /\ \A r \in Readers : rwant[r] # None => dir[rwant[r]] # "none"
    /\ \A s \in Setters : spc[s] \in Inside => dir[want[s]] # "none"
    /\ \A s \in Setters : /\ ~Joining(s, defaultFile)
                          /\ \A r \in Readers : ~Joining(s, rwant[r])
    /\ boot = "view" => \A f \in Federations : dir[f] # "none" => f \in clients
    /\ boot = "up" =>
         \A f \in Federations :
            dir[f] # "none" => \/ f \in clients \cup interrupted
                               \/ \E s \in Setters : Joining(s, f)

\* An empty directory is that of the join under way, or of one cut short;
\* a call past its own join has the directory, and a call that found one
\* found no join under way.
Placed ==
    /\ \A f \in interrupted : dir[f] # "none"
    /\ \A f \in Federations :
         dir[f] = "empty" =>
            \/ f \in interrupted
            \/ \E s \in Setters : spc[s] = "join" /\ want[s] = f
    /\ \A s \in Setters :
         /\ spc[s] = "join"
              => dir[want[s]] = "empty" /\ want[s] \notin interrupted
         /\ spc[s] \in {"write", "force"} => dir[want[s]] = "joined"
         /\ spc[s] \in {"file", "filew"} => \/ dir[want[s]] = "joined"
                                            \/ want[s] \in interrupted

\* A forced update that is neither waiting nor being served was answered,
\* and no client was added since.
Answered ==
    /\ vpc = "idle" => vreq = None
    /\ \A s \in Setters :
         spc[s] = "force" /\ s \notin pending /\ vreq # s => view = clients
    /\ boot = "view" /\ Opening \notin pending /\ vreq # Opening
         => view = clients
-----------------------------------------------------------------------------
(***************************************************************************)
(* Types.                                                                  *)
(***************************************************************************)
\* The initial state has the types.
LEMMA TypeInit == Init => TypeInv
  BY WalletAssumption
  DEF Init, TypeInv, TypeOK, Wanted, BootSteps, SetSteps, ReadSteps

\* Every step keeps the types.
LEMMA TypeStep == TypeInv /\ [Next]_vars => TypeInv'
<1> SUFFICES ASSUME TypeInv, [Next]_vars
             PROVE  TypeInv'
  OBVIOUS
<1> USE WalletAssumption
    DEF TypeInv, TypeOK, Wanted, BootSteps, SetSteps, ReadSteps, Step, Read,
        Fault, Stop, diskVars, taskVars, viewVars, lockVars
<1>1. ASSUME MnemonicCreate PROVE TypeInv'
  BY <1>1 DEF MnemonicCreate
<1>2. ASSUME MnemonicWrite PROVE TypeInv'
  BY <1>2 DEF MnemonicWrite
<1>3. ASSUME MnemonicFound PROVE TypeInv'
  BY <1>3 DEF MnemonicFound
<1>4. ASSUME MnemonicRead PROVE TypeInv'
  BY <1>4 DEF MnemonicRead
<1>5. ASSUME BootLock PROVE TypeInv'
  BY <1>5 DEF BootLock
<1>6. ASSUME BootOpen PROVE TypeInv'
  BY <1>6 DEF BootOpen, Present
<1>7. ASSUME BootUp PROVE TypeInv'
  BY <1>7 DEF BootUp
<1>8. ASSUME BootFails PROVE TypeInv'
  BY <1>8 DEF BootFails
<1>9. ASSUME Crash PROVE TypeInv'
  BY <1>9 DEF Crash
<1>10. ASSUME NEW s \in Setters, NEW f \in Federations, SetCall(s, f)
       PROVE  TypeInv'
  BY <1>10 DEF SetCall
<1>11. ASSUME NEW s \in Setters, SetShort(s) PROVE TypeInv'
  BY <1>11 DEF SetShort
<1>12. ASSUME NEW s \in Setters, SetOpenDb(s) PROVE TypeInv'
  BY <1>12 DEF SetOpenDb
<1>13. ASSUME NEW s \in Setters, SetJoin(s) PROVE TypeInv'
  BY <1>13 DEF SetJoin
<1>14. ASSUME NEW s \in Setters, SetInsert(s) PROVE TypeInv'
  BY <1>14 DEF SetInsert
<1>15. ASSUME NEW s \in Setters, SetViewed(s) PROVE TypeInv'
  BY <1>15 DEF SetViewed
<1>16. ASSUME NEW s \in Setters, SetTruncate(s) PROVE TypeInv'
  BY <1>16 DEF SetTruncate
<1>17. ASSUME NEW s \in Setters, SetWrite(s) PROVE TypeInv'
  BY <1>17 DEF SetWrite
<1>18. ASSUME NEW s \in Setters, SetJoinError(s) PROVE TypeInv'
  BY <1>18 DEF SetJoinError
<1>19. ASSUME NEW s \in Setters, SetWriteError(s) PROVE TypeInv'
  BY <1>19 DEF SetWriteError
<1>20. ASSUME NEW s \in Setters, SetDropped(s) PROVE TypeInv'
  BY <1>20 DEF SetDropped
<1>21. ASSUME NEW r \in Readers, ReadCall(r) PROVE TypeInv'
  BY <1>21 DEF ReadCall
<1>22. ASSUME NEW r \in Readers, DefaultCall(r) PROVE TypeInv'
  BY <1>22 DEF DefaultCall
<1>23. ASSUME NEW r \in Readers, DefaultRead(r) PROVE TypeInv'
  BY <1>23 DEF DefaultRead
<1>24. ASSUME NEW r \in Readers, DefaultNone(r) PROVE TypeInv'
  BY <1>24 DEF DefaultNone
<1>25. ASSUME NEW r \in Readers, ReadEnter(r) PROVE TypeInv'
  BY <1>25 DEF ReadEnter
<1>26. ASSUME NEW r \in Readers, ReadLeave(r) PROVE TypeInv'
  BY <1>26 DEF ReadLeave
<1>27. ASSUME NEW s \in Setters \cup {Opening}, ViewForce(s) PROVE TypeInv'
  BY <1>27 DEF ViewForce
<1>28. ASSUME ViewTimeout PROVE TypeInv'
  BY <1>28 DEF ViewTimeout
<1>29. ASSUME ViewEnter PROVE TypeInv'
  BY <1>29 DEF ViewEnter
<1>30. ASSUME ViewPublish PROVE TypeInv'
  BY <1>30 DEF ViewPublish, CurrentState
<1>31. ASSUME UNCHANGED vars PROVE TypeInv'
  BY <1>31 DEF vars
<1> QED
  BY <1>1, <1>2, <1>3, <1>4, <1>5, <1>6, <1>7, <1>8, <1>9, <1>10, <1>11,
     <1>12, <1>13, <1>14, <1>15, <1>16, <1>17, <1>18, <1>19, <1>20, <1>21,
     <1>22, <1>23, <1>24, <1>25, <1>26, <1>27, <1>28, <1>29, <1>30, <1>31
  DEF Next, BootNext, SetNext, SetRun, ReadNext, ViewNext

-----------------------------------------------------------------------------
(***************************************************************************)
(* The directory mutex.                                                    *)
(***************************************************************************)
\* Nobody is inside at first.
LEMMA LockInit == Init => Locking
  BY WalletAssumption
  DEF Init, Locking, Inside

\* Every step keeps the mutex exclusive.
LEMMA LockStep == TypeInv /\ Locking /\ [Next]_vars => Locking'
<1> SUFFICES ASSUME TypeInv, Locking, [Next]_vars
             PROVE  Locking'
  OBVIOUS
<1> USE WalletAssumption
    DEF TypeInv, TypeOK, Locking, Inside, Step, Read, Fault, Stop, diskVars,
        taskVars, viewVars, lockVars
<1>1. ASSUME MnemonicCreate PROVE Locking'
  BY <1>1 DEF MnemonicCreate
<1>2. ASSUME MnemonicWrite PROVE Locking'
  BY <1>2 DEF MnemonicWrite
<1>3. ASSUME MnemonicFound PROVE Locking'
  BY <1>3 DEF MnemonicFound
<1>4. ASSUME MnemonicRead PROVE Locking'
  BY <1>4 DEF MnemonicRead
<1>5. ASSUME BootLock PROVE Locking'
  BY <1>5 DEF BootLock
<1>6. ASSUME BootOpen PROVE Locking'
  BY <1>6 DEF BootOpen
<1>7. ASSUME BootUp PROVE Locking'
  BY <1>7 DEF BootUp
<1>8. ASSUME BootFails PROVE Locking'
  BY <1>8 DEF BootFails
<1>9. ASSUME Crash PROVE Locking'
  BY <1>9 DEF Crash
<1>10. ASSUME NEW s \in Setters, NEW f \in Federations, SetCall(s, f)
       PROVE  Locking'
  BY <1>10 DEF SetCall
<1>11. ASSUME NEW s \in Setters, SetShort(s) PROVE Locking'
  BY <1>11 DEF SetShort
<1>12. ASSUME NEW s \in Setters, SetOpenDb(s) PROVE Locking'
  BY <1>12 DEF SetOpenDb
<1>13. ASSUME NEW s \in Setters, SetJoin(s) PROVE Locking'
  BY <1>13 DEF SetJoin
<1>14. ASSUME NEW s \in Setters, SetInsert(s) PROVE Locking'
  BY <1>14 DEF SetInsert
<1>15. ASSUME NEW s \in Setters, SetViewed(s) PROVE Locking'
  BY <1>15 DEF SetViewed
<1>16. ASSUME NEW s \in Setters, SetTruncate(s) PROVE Locking'
  BY <1>16 DEF SetTruncate
<1>17. ASSUME NEW s \in Setters, SetWrite(s) PROVE Locking'
  BY <1>17 DEF SetWrite
<1>18. ASSUME NEW s \in Setters, SetJoinError(s) PROVE Locking'
  BY <1>18 DEF SetJoinError
<1>19. ASSUME NEW s \in Setters, SetWriteError(s) PROVE Locking'
  BY <1>19 DEF SetWriteError
<1>20. ASSUME NEW s \in Setters, SetDropped(s) PROVE Locking'
  BY <1>20 DEF SetDropped
<1>21. ASSUME NEW r \in Readers, ReadCall(r) PROVE Locking'
  BY <1>21 DEF ReadCall
<1>22. ASSUME NEW r \in Readers, DefaultCall(r) PROVE Locking'
  BY <1>22 DEF DefaultCall
<1>23. ASSUME NEW r \in Readers, DefaultRead(r) PROVE Locking'
  BY <1>23 DEF DefaultRead
<1>24. ASSUME NEW r \in Readers, DefaultNone(r) PROVE Locking'
  BY <1>24 DEF DefaultNone
<1>25. ASSUME NEW r \in Readers, ReadEnter(r) PROVE Locking'
  BY <1>25 DEF ReadEnter
<1>26. ASSUME NEW r \in Readers, ReadLeave(r) PROVE Locking'
  BY <1>26 DEF ReadLeave
<1>27. ASSUME NEW s \in Setters \cup {Opening}, ViewForce(s) PROVE Locking'
  BY <1>27 DEF ViewForce
<1>28. ASSUME ViewTimeout PROVE Locking'
  BY <1>28 DEF ViewTimeout
<1>29. ASSUME ViewEnter PROVE Locking'
  BY <1>29 DEF ViewEnter
<1>30. ASSUME ViewPublish PROVE Locking'
  BY <1>30 DEF ViewPublish
<1>31. ASSUME UNCHANGED vars PROVE Locking'
  BY <1>31 DEF vars
<1> QED
  BY <1>1, <1>2, <1>3, <1>4, <1>5, <1>6, <1>7, <1>8, <1>9, <1>10, <1>11,
     <1>12, <1>13, <1>14, <1>15, <1>16, <1>17, <1>18, <1>19, <1>20, <1>21,
     <1>22, <1>23, <1>24, <1>25, <1>26, <1>27, <1>28, <1>29, <1>30, <1>31
  DEF Next, BootNext, SetNext, SetRun, ReadNext, ViewNext

-----------------------------------------------------------------------------
(***************************************************************************)
(* Who holds a lock is past asking for it.                                 *)
(***************************************************************************)
\* Nothing is held at first.
LEMMA HeldInit == Init => Held
  BY WalletAssumption
  DEF Init, Held

\* Every step keeps the holders past asking.
LEMMA HeldStep == TypeInv /\ Locking /\ Held /\ [Next]_vars => Held'
<1> SUFFICES ASSUME TypeInv, Locking, Held, [Next]_vars
             PROVE  Held'
  OBVIOUS
<1> USE WalletAssumption
    DEF TypeInv, TypeOK, Locking, Inside, Held, Step, Read, Fault, Stop,
        diskVars, taskVars, viewVars, lockVars
<1>1. ASSUME MnemonicCreate PROVE Held'
  BY <1>1 DEF MnemonicCreate
<1>2. ASSUME MnemonicWrite PROVE Held'
  BY <1>2 DEF MnemonicWrite
<1>3. ASSUME MnemonicFound PROVE Held'
  BY <1>3 DEF MnemonicFound
<1>4. ASSUME MnemonicRead PROVE Held'
  BY <1>4 DEF MnemonicRead
<1>5. ASSUME BootLock PROVE Held'
  BY <1>5 DEF BootLock
<1>6. ASSUME BootOpen PROVE Held'
  BY <1>6 DEF BootOpen
<1>7. ASSUME BootUp PROVE Held'
  BY <1>7 DEF BootUp
<1>8. ASSUME BootFails PROVE Held'
  BY <1>8 DEF BootFails
<1>9. ASSUME Crash PROVE Held'
  BY <1>9 DEF Crash
<1>10. ASSUME NEW s \in Setters, NEW f \in Federations, SetCall(s, f)
       PROVE  Held'
  BY <1>10 DEF SetCall
<1>11. ASSUME NEW s \in Setters, SetShort(s) PROVE Held'
  BY <1>11 DEF SetShort
<1>12. ASSUME NEW s \in Setters, SetOpenDb(s) PROVE Held'
  BY <1>12 DEF SetOpenDb
<1>13. ASSUME NEW s \in Setters, SetJoin(s) PROVE Held'
  BY <1>13 DEF SetJoin
<1>14. ASSUME NEW s \in Setters, SetInsert(s) PROVE Held'
  BY <1>14 DEF SetInsert
<1>15. ASSUME NEW s \in Setters, SetViewed(s) PROVE Held'
  BY <1>15 DEF SetViewed
<1>16. ASSUME NEW s \in Setters, SetTruncate(s) PROVE Held'
  BY <1>16 DEF SetTruncate
<1>17. ASSUME NEW s \in Setters, SetWrite(s) PROVE Held'
  BY <1>17 DEF SetWrite
<1>18. ASSUME NEW s \in Setters, SetJoinError(s) PROVE Held'
  BY <1>18 DEF SetJoinError
<1>19. ASSUME NEW s \in Setters, SetWriteError(s) PROVE Held'
  BY <1>19 DEF SetWriteError
<1>20. ASSUME NEW s \in Setters, SetDropped(s) PROVE Held'
  BY <1>20 DEF SetDropped
<1>21. ASSUME NEW r \in Readers, ReadCall(r) PROVE Held'
  BY <1>21 DEF ReadCall
<1>22. ASSUME NEW r \in Readers, DefaultCall(r) PROVE Held'
  BY <1>22 DEF DefaultCall
<1>23. ASSUME NEW r \in Readers, DefaultRead(r) PROVE Held'
  BY <1>23 DEF DefaultRead
<1>24. ASSUME NEW r \in Readers, DefaultNone(r) PROVE Held'
  BY <1>24 DEF DefaultNone
<1>25. ASSUME NEW r \in Readers, ReadEnter(r) PROVE Held'
  BY <1>25 DEF ReadEnter
<1>26. ASSUME NEW r \in Readers, ReadLeave(r) PROVE Held'
  BY <1>26 DEF ReadLeave
<1>27. ASSUME NEW s \in Setters \cup {Opening}, ViewForce(s) PROVE Held'
  BY <1>27 DEF ViewForce
<1>28. ASSUME ViewTimeout PROVE Held'
  BY <1>28 DEF ViewTimeout
<1>29. ASSUME ViewEnter PROVE Held'
  BY <1>29 DEF ViewEnter
<1>30. ASSUME ViewPublish PROVE Held'
  BY <1>30 DEF ViewPublish
<1>31. ASSUME UNCHANGED vars PROVE Held'
  BY <1>31 DEF vars
<1> QED
  BY <1>1, <1>2, <1>3, <1>4, <1>5, <1>6, <1>7, <1>8, <1>9, <1>10, <1>11,
     <1>12, <1>13, <1>14, <1>15, <1>16, <1>17, <1>18, <1>19, <1>20, <1>21,
     <1>22, <1>23, <1>24, <1>25, <1>26, <1>27, <1>28, <1>29, <1>30, <1>31
  DEF Next, BootNext, SetNext, SetRun, ReadNext, ViewNext

-----------------------------------------------------------------------------
(***************************************************************************)
(* The mnemonic.                                                           *)
(***************************************************************************)
\* There is no mnemonic and no directory at first.
LEMMA SeedInit == Init => Seeded
  BY WalletAssumption
  DEF Init, Seeded, SecretKept

\* No step replaces a mnemonic in use.
LEMMA SeedStep == TypeInv /\ Locking /\ Seeded /\ [Next]_vars => Seeded'
<1> SUFFICES ASSUME TypeInv, Locking, Seeded, [Next]_vars
             PROVE  Seeded'
  OBVIOUS
<1> USE WalletAssumption
    DEF TypeInv, TypeOK, Wanted, Locking, Seeded, SecretKept, Step, Read,
        Fault, Stop, diskVars, taskVars, viewVars, lockVars
<1>1. ASSUME MnemonicCreate PROVE Seeded'
  BY <1>1 DEF MnemonicCreate
<1>2. ASSUME MnemonicWrite PROVE Seeded'
  BY <1>2 DEF MnemonicWrite
<1>3. ASSUME MnemonicFound PROVE Seeded'
  BY <1>3 DEF MnemonicFound
<1>4. ASSUME MnemonicRead PROVE Seeded'
  BY <1>4 DEF MnemonicRead
<1>5. ASSUME BootLock PROVE Seeded'
  BY <1>5 DEF BootLock
<1>6. ASSUME BootOpen PROVE Seeded'
  BY <1>6 DEF BootOpen
<1>7. ASSUME BootUp PROVE Seeded'
  BY <1>7 DEF BootUp
<1>8. ASSUME BootFails PROVE Seeded'
  BY <1>8 DEF BootFails
<1>9. ASSUME Crash PROVE Seeded'
  BY <1>9 DEF Crash
<1>10. ASSUME NEW s \in Setters, NEW f \in Federations, SetCall(s, f)
       PROVE  Seeded'
  BY <1>10 DEF SetCall
<1>11. ASSUME NEW s \in Setters, SetShort(s) PROVE Seeded'
  BY <1>11 DEF SetShort
<1>12. ASSUME NEW s \in Setters, SetOpenDb(s) PROVE Seeded'
  BY <1>12 DEF SetOpenDb
<1>13. ASSUME NEW s \in Setters, SetJoin(s) PROVE Seeded'
  BY <1>13 DEF SetJoin
<1>14. ASSUME NEW s \in Setters, SetInsert(s) PROVE Seeded'
  BY <1>14 DEF SetInsert
<1>15. ASSUME NEW s \in Setters, SetViewed(s) PROVE Seeded'
  BY <1>15 DEF SetViewed
<1>16. ASSUME NEW s \in Setters, SetTruncate(s) PROVE Seeded'
  BY <1>16 DEF SetTruncate
<1>17. ASSUME NEW s \in Setters, SetWrite(s) PROVE Seeded'
  BY <1>17 DEF SetWrite
<1>18. ASSUME NEW s \in Setters, SetJoinError(s) PROVE Seeded'
  BY <1>18 DEF SetJoinError
<1>19. ASSUME NEW s \in Setters, SetWriteError(s) PROVE Seeded'
  BY <1>19 DEF SetWriteError
<1>20. ASSUME NEW s \in Setters, SetDropped(s) PROVE Seeded'
  BY <1>20 DEF SetDropped
<1>21. ASSUME NEW r \in Readers, ReadCall(r) PROVE Seeded'
  BY <1>21 DEF ReadCall
<1>22. ASSUME NEW r \in Readers, DefaultCall(r) PROVE Seeded'
  BY <1>22 DEF DefaultCall
<1>23. ASSUME NEW r \in Readers, DefaultRead(r) PROVE Seeded'
  BY <1>23 DEF DefaultRead
<1>24. ASSUME NEW r \in Readers, DefaultNone(r) PROVE Seeded'
  BY <1>24 DEF DefaultNone
<1>25. ASSUME NEW r \in Readers, ReadEnter(r) PROVE Seeded'
  BY <1>25 DEF ReadEnter
<1>26. ASSUME NEW r \in Readers, ReadLeave(r) PROVE Seeded'
  BY <1>26 DEF ReadLeave
<1>27. ASSUME NEW s \in Setters \cup {Opening}, ViewForce(s) PROVE Seeded'
  BY <1>27 DEF ViewForce
<1>28. ASSUME ViewTimeout PROVE Seeded'
  BY <1>28 DEF ViewTimeout
<1>29. ASSUME ViewEnter PROVE Seeded'
  BY <1>29 DEF ViewEnter
<1>30. ASSUME ViewPublish PROVE Seeded'
  BY <1>30 DEF ViewPublish
<1>31. ASSUME UNCHANGED vars PROVE Seeded'
  BY <1>31 DEF vars
<1> QED
  BY <1>1, <1>2, <1>3, <1>4, <1>5, <1>6, <1>7, <1>8, <1>9, <1>10, <1>11,
     <1>12, <1>13, <1>14, <1>15, <1>16, <1>17, <1>18, <1>19, <1>20, <1>21,
     <1>22, <1>23, <1>24, <1>25, <1>26, <1>27, <1>28, <1>29, <1>30, <1>31
  DEF Next, BootNext, SetNext, SetRun, ReadNext, ViewNext

-----------------------------------------------------------------------------
(***************************************************************************)
(* Directories and clients.                                                *)
(***************************************************************************)
\* There is no directory at first.
LEMMA JoinInit == Init => Joined
  BY WalletAssumption
  DEF Init, Joined, Inside, Joining

\* Every step keeps track of the directories.
LEMMA JoinStep == TypeInv /\ Locking /\ Joined /\ [Next]_vars => Joined'
<1> SUFFICES ASSUME TypeInv, Locking, Joined, [Next]_vars
             PROVE  Joined'
  OBVIOUS
<1> USE WalletAssumption
    DEF TypeInv, TypeOK, Wanted, Locking, Inside, Joined, Joining, Step, Read,
        Fault, Stop, diskVars, taskVars, viewVars, lockVars
<1>1. ASSUME MnemonicCreate PROVE Joined'
  BY <1>1 DEF MnemonicCreate
<1>2. ASSUME MnemonicWrite PROVE Joined'
  BY <1>2 DEF MnemonicWrite
<1>3. ASSUME MnemonicFound PROVE Joined'
  BY <1>3 DEF MnemonicFound
<1>4. ASSUME MnemonicRead PROVE Joined'
  BY <1>4 DEF MnemonicRead
<1>5. ASSUME BootLock PROVE Joined'
  BY <1>5 DEF BootLock
<1>6. ASSUME BootOpen PROVE Joined'
  BY <1>6 DEF BootOpen, Present
<1>7. ASSUME BootUp PROVE Joined'
  BY <1>7 DEF BootUp
<1>8. ASSUME BootFails PROVE Joined'
  BY <1>8 DEF BootFails
<1>9. ASSUME Crash PROVE Joined'
  BY <1>9 DEF Crash
<1>10. ASSUME NEW s \in Setters, NEW f \in Federations, SetCall(s, f)
       PROVE  Joined'
  BY <1>10 DEF SetCall
<1>11. ASSUME NEW s \in Setters, SetShort(s) PROVE Joined'
  BY <1>11 DEF SetShort
<1>12. ASSUME NEW s \in Setters, SetOpenDb(s) PROVE Joined'
  BY <1>12 DEF SetOpenDb
<1>13. ASSUME NEW s \in Setters, SetJoin(s) PROVE Joined'
  BY <1>13 DEF SetJoin
<1>14. ASSUME NEW s \in Setters, SetInsert(s) PROVE Joined'
  BY <1>14 DEF SetInsert
<1>15. ASSUME NEW s \in Setters, SetViewed(s) PROVE Joined'
  BY <1>15 DEF SetViewed
<1>16. ASSUME NEW s \in Setters, SetTruncate(s) PROVE Joined'
  BY <1>16 DEF SetTruncate
<1>17. ASSUME NEW s \in Setters, SetWrite(s) PROVE Joined'
  BY <1>17 DEF SetWrite
<1>18. ASSUME NEW s \in Setters, SetJoinError(s) PROVE Joined'
  BY <1>18 DEF SetJoinError
<1>19. ASSUME NEW s \in Setters, SetWriteError(s) PROVE Joined'
  BY <1>19 DEF SetWriteError
<1>20. ASSUME NEW s \in Setters, SetDropped(s) PROVE Joined'
  BY <1>20 DEF SetDropped
<1>21. ASSUME NEW r \in Readers, ReadCall(r) PROVE Joined'
  BY <1>21 DEF ReadCall
<1>22. ASSUME NEW r \in Readers, DefaultCall(r) PROVE Joined'
  BY <1>22 DEF DefaultCall
<1>23. ASSUME NEW r \in Readers, DefaultRead(r) PROVE Joined'
  BY <1>23 DEF DefaultRead
<1>24. ASSUME NEW r \in Readers, DefaultNone(r) PROVE Joined'
  BY <1>24 DEF DefaultNone
<1>25. ASSUME NEW r \in Readers, ReadEnter(r) PROVE Joined'
  BY <1>25 DEF ReadEnter
<1>26. ASSUME NEW r \in Readers, ReadLeave(r) PROVE Joined'
  BY <1>26 DEF ReadLeave
<1>27. ASSUME NEW s \in Setters \cup {Opening}, ViewForce(s) PROVE Joined'
  BY <1>27 DEF ViewForce
<1>28. ASSUME ViewTimeout PROVE Joined'
  BY <1>28 DEF ViewTimeout
<1>29. ASSUME ViewEnter PROVE Joined'
  BY <1>29 DEF ViewEnter
<1>30. ASSUME ViewPublish PROVE Joined'
  BY <1>30 DEF ViewPublish
<1>31. ASSUME UNCHANGED vars PROVE Joined'
  BY <1>31 DEF vars
<1> QED
  BY <1>1, <1>2, <1>3, <1>4, <1>5, <1>6, <1>7, <1>8, <1>9, <1>10, <1>11,
     <1>12, <1>13, <1>14, <1>15, <1>16, <1>17, <1>18, <1>19, <1>20, <1>21,
     <1>22, <1>23, <1>24, <1>25, <1>26, <1>27, <1>28, <1>29, <1>30, <1>31
  DEF Next, BootNext, SetNext, SetRun, ReadNext, ViewNext

-----------------------------------------------------------------------------
(***************************************************************************)
(* Directories whose join is not over.                                     *)
(***************************************************************************)
\* There is no directory at first.
LEMMA PlaceInit == Init => Placed
  BY WalletAssumption
  DEF Init, Placed

\* Every step keeps track of the joins under way.
LEMMA PlaceStep == TypeInv /\ Locking /\ Placed /\ [Next]_vars => Placed'
<1> SUFFICES ASSUME TypeInv, Locking, Placed, [Next]_vars
             PROVE  Placed'
  OBVIOUS
<1> USE WalletAssumption
    DEF TypeInv, TypeOK, Wanted, Locking, Inside, Placed, Step, Read, Fault,
        Stop, diskVars, taskVars, viewVars, lockVars
<1>1. ASSUME MnemonicCreate PROVE Placed'
  BY <1>1 DEF MnemonicCreate
<1>2. ASSUME MnemonicWrite PROVE Placed'
  BY <1>2 DEF MnemonicWrite
<1>3. ASSUME MnemonicFound PROVE Placed'
  BY <1>3 DEF MnemonicFound
<1>4. ASSUME MnemonicRead PROVE Placed'
  BY <1>4 DEF MnemonicRead
<1>5. ASSUME BootLock PROVE Placed'
  BY <1>5 DEF BootLock
<1>6. ASSUME BootOpen PROVE Placed'
  BY <1>6 DEF BootOpen
<1>7. ASSUME BootUp PROVE Placed'
  BY <1>7 DEF BootUp
<1>8. ASSUME BootFails PROVE Placed'
  BY <1>8 DEF BootFails
<1>9. ASSUME Crash PROVE Placed'
  BY <1>9 DEF Crash
<1>10. ASSUME NEW s \in Setters, NEW f \in Federations, SetCall(s, f)
       PROVE  Placed'
  BY <1>10 DEF SetCall
<1>11. ASSUME NEW s \in Setters, SetShort(s) PROVE Placed'
  BY <1>11 DEF SetShort
<1>12. ASSUME NEW s \in Setters, SetOpenDb(s) PROVE Placed'
  BY <1>12 DEF SetOpenDb
<1>13. ASSUME NEW s \in Setters, SetJoin(s) PROVE Placed'
  BY <1>13 DEF SetJoin
<1>14. ASSUME NEW s \in Setters, SetInsert(s) PROVE Placed'
  BY <1>14 DEF SetInsert
<1>15. ASSUME NEW s \in Setters, SetViewed(s) PROVE Placed'
  BY <1>15 DEF SetViewed
<1>16. ASSUME NEW s \in Setters, SetTruncate(s) PROVE Placed'
  BY <1>16 DEF SetTruncate
<1>17. ASSUME NEW s \in Setters, SetWrite(s) PROVE Placed'
  BY <1>17 DEF SetWrite
<1>18. ASSUME NEW s \in Setters, SetJoinError(s) PROVE Placed'
  BY <1>18 DEF SetJoinError
<1>19. ASSUME NEW s \in Setters, SetWriteError(s) PROVE Placed'
  BY <1>19 DEF SetWriteError
<1>20. ASSUME NEW s \in Setters, SetDropped(s) PROVE Placed'
  BY <1>20 DEF SetDropped
<1>21. ASSUME NEW r \in Readers, ReadCall(r) PROVE Placed'
  BY <1>21 DEF ReadCall
<1>22. ASSUME NEW r \in Readers, DefaultCall(r) PROVE Placed'
  BY <1>22 DEF DefaultCall
<1>23. ASSUME NEW r \in Readers, DefaultRead(r) PROVE Placed'
  BY <1>23 DEF DefaultRead
<1>24. ASSUME NEW r \in Readers, DefaultNone(r) PROVE Placed'
  BY <1>24 DEF DefaultNone
<1>25. ASSUME NEW r \in Readers, ReadEnter(r) PROVE Placed'
  BY <1>25 DEF ReadEnter
<1>26. ASSUME NEW r \in Readers, ReadLeave(r) PROVE Placed'
  BY <1>26 DEF ReadLeave
<1>27. ASSUME NEW s \in Setters \cup {Opening}, ViewForce(s) PROVE Placed'
  BY <1>27 DEF ViewForce
<1>28. ASSUME ViewTimeout PROVE Placed'
  BY <1>28 DEF ViewTimeout
<1>29. ASSUME ViewEnter PROVE Placed'
  BY <1>29 DEF ViewEnter
<1>30. ASSUME ViewPublish PROVE Placed'
  BY <1>30 DEF ViewPublish
<1>31. ASSUME UNCHANGED vars PROVE Placed'
  BY <1>31 DEF vars
<1> QED
  BY <1>1, <1>2, <1>3, <1>4, <1>5, <1>6, <1>7, <1>8, <1>9, <1>10, <1>11,
     <1>12, <1>13, <1>14, <1>15, <1>16, <1>17, <1>18, <1>19, <1>20, <1>21,
     <1>22, <1>23, <1>24, <1>25, <1>26, <1>27, <1>28, <1>29, <1>30, <1>31
  DEF Next, BootNext, SetNext, SetRun, ReadNext, ViewNext

-----------------------------------------------------------------------------
(***************************************************************************)
(* The view task.                                                          *)
(***************************************************************************)
\* Nothing is owed at first.
LEMMA ViewInit == Init => Answered
  BY WalletAssumption
  DEF Init, Answered

\* Every step keeps what was answered true.
LEMMA ViewStep == TypeInv /\ Locking /\ Answered /\ [Next]_vars => Answered'
<1> SUFFICES ASSUME TypeInv, Locking, Answered, [Next]_vars
             PROVE  Answered'
  OBVIOUS
<1> USE WalletAssumption
    DEF TypeInv, TypeOK, Locking, Inside, Answered, Step, Read, Fault, Stop,
        diskVars, taskVars, viewVars, lockVars
<1>1. ASSUME MnemonicCreate PROVE Answered'
  BY <1>1 DEF MnemonicCreate
<1>2. ASSUME MnemonicWrite PROVE Answered'
  BY <1>2 DEF MnemonicWrite
<1>3. ASSUME MnemonicFound PROVE Answered'
  BY <1>3 DEF MnemonicFound
<1>4. ASSUME MnemonicRead PROVE Answered'
  BY <1>4 DEF MnemonicRead
<1>5. ASSUME BootLock PROVE Answered'
  BY <1>5 DEF BootLock
<1>6. ASSUME BootOpen PROVE Answered'
  BY <1>6 DEF BootOpen
<1>7. ASSUME BootUp PROVE Answered'
  BY <1>7 DEF BootUp
<1>8. ASSUME BootFails PROVE Answered'
  BY <1>8 DEF BootFails
<1>9. ASSUME Crash PROVE Answered'
  BY <1>9 DEF Crash
<1>10. ASSUME NEW s \in Setters, NEW f \in Federations, SetCall(s, f)
       PROVE  Answered'
  BY <1>10 DEF SetCall
<1>11. ASSUME NEW s \in Setters, SetShort(s) PROVE Answered'
  BY <1>11 DEF SetShort
<1>12. ASSUME NEW s \in Setters, SetOpenDb(s) PROVE Answered'
  BY <1>12 DEF SetOpenDb
<1>13. ASSUME NEW s \in Setters, SetJoin(s) PROVE Answered'
  BY <1>13 DEF SetJoin
<1>14. ASSUME NEW s \in Setters, SetInsert(s) PROVE Answered'
  BY <1>14 DEF SetInsert
<1>15. ASSUME NEW s \in Setters, SetViewed(s) PROVE Answered'
  BY <1>15 DEF SetViewed
<1>16. ASSUME NEW s \in Setters, SetTruncate(s) PROVE Answered'
  BY <1>16 DEF SetTruncate
<1>17. ASSUME NEW s \in Setters, SetWrite(s) PROVE Answered'
  BY <1>17 DEF SetWrite
<1>18. ASSUME NEW s \in Setters, SetJoinError(s) PROVE Answered'
  BY <1>18 DEF SetJoinError
<1>19. ASSUME NEW s \in Setters, SetWriteError(s) PROVE Answered'
  BY <1>19 DEF SetWriteError
<1>20. ASSUME NEW s \in Setters, SetDropped(s) PROVE Answered'
  BY <1>20 DEF SetDropped
<1>21. ASSUME NEW r \in Readers, ReadCall(r) PROVE Answered'
  BY <1>21 DEF ReadCall
<1>22. ASSUME NEW r \in Readers, DefaultCall(r) PROVE Answered'
  BY <1>22 DEF DefaultCall
<1>23. ASSUME NEW r \in Readers, DefaultRead(r) PROVE Answered'
  BY <1>23 DEF DefaultRead
<1>24. ASSUME NEW r \in Readers, DefaultNone(r) PROVE Answered'
  BY <1>24 DEF DefaultNone
<1>25. ASSUME NEW r \in Readers, ReadEnter(r) PROVE Answered'
  BY <1>25 DEF ReadEnter
<1>26. ASSUME NEW r \in Readers, ReadLeave(r) PROVE Answered'
  BY <1>26 DEF ReadLeave
<1>27. ASSUME NEW s \in Setters \cup {Opening}, ViewForce(s) PROVE Answered'
  BY <1>27 DEF ViewForce
<1>28. ASSUME ViewTimeout PROVE Answered'
  BY <1>28 DEF ViewTimeout
<1>29. ASSUME ViewEnter PROVE Answered'
  BY <1>29 DEF ViewEnter
<1>30. ASSUME ViewPublish PROVE Answered'
  BY <1>30 DEF ViewPublish, CurrentState
<1>31. ASSUME UNCHANGED vars PROVE Answered'
  BY <1>31 DEF vars
<1> QED
  BY <1>1, <1>2, <1>3, <1>4, <1>5, <1>6, <1>7, <1>8, <1>9, <1>10, <1>11,
     <1>12, <1>13, <1>14, <1>15, <1>16, <1>17, <1>18, <1>19, <1>20, <1>21,
     <1>22, <1>23, <1>24, <1>25, <1>26, <1>27, <1>28, <1>29, <1>30, <1>31
  DEF Next, BootNext, SetNext, SetRun, ReadNext, ViewNext

-----------------------------------------------------------------------------
(***************************************************************************)
(* The theorems.                                                           *)
(***************************************************************************)
\* The layers together.
IInv == TypeInv /\ Locking /\ Held /\ Seeded /\ Joined /\ Placed /\ Answered

\* They hold in every reachable state of the wallet.
LEMMA Invariants == Spec => []IInv
<1>1. Init => IInv
  BY TypeInit, LockInit, HeldInit, SeedInit, JoinInit, PlaceInit, ViewInit
  DEF IInv
<1>2. IInv /\ [Next]_vars => IInv'
  BY TypeStep, LockStep, HeldStep, SeedStep, JoinStep, PlaceStep,
     ViewStep
  DEF IInv
<1> QED
  BY <1>1, <1>2, PTL DEF Spec

\* Every variable of the wallet keeps its type.
THEOREM WalletTypeCorrect == Spec => []TypeOK
<1>1. IInv => TypeOK
  BY DEF IInv, TypeInv
<1> QED
  BY <1>1, Invariants, PTL

\* Wallet::new never replaces the mnemonic federations were joined with,
\* whatever crashes and restarts happen.
THEOREM SecretSafe == Spec => []SecretKept
<1>1. IInv => SecretKept
  BY DEF IInv, Seeded
<1> QED
  BY <1>1, Invariants, PTL

\* The client of the default federation is found, unless its join was
\* interrupted.
THEOREM LookupSafe == Spec => []LookupFound
<1>1. IInv => LookupFound
  <2> SUFFICES ASSUME IInv, NEW r \in Readers, rpc[r] = "hold",
                      rwant[r] # None
               PROVE  rwant[r] \in clients \cup interrupted
    BY DEF LookupFound
  <2>1. boot = "up"
    BY DEF IInv, Locking
  <2>2. rwant[r] \in Federations /\ dir[rwant[r]] # "none"
    BY DEF IInv, TypeInv, TypeOK, Joined
  <2>3. \A s \in Setters : ~Joining(s, rwant[r])
    BY DEF IInv, Joined
  <2> QED
    BY <2>1, <2>2, <2>3 DEF IInv, Joined
<1> QED
  BY <1>1, Invariants, PTL

\* The locks and the view task are asked for in an order: who waits for the
\* mutex waits for one inside it, who waits for the view task waits for one
\* that waits for readers' turn at most, a reader only for writers, a writer
\* only for those at work.  So no group of tasks waits for itself.
THEOREM DeadlockFree == Spec => []NoDeadlock
<1>1. ASSUME IInv, NEW S \in SUBSET Waiting,
             \A x \in S : \E y \in S : WaitsFor(x, y)
      PROVE  S = {}
  <2> USE WalletAssumption DEF WaitsFor
  <2>1. \A y \in S : /\ y \in Tasks /\ y # None
                    /\ \/ WantsDir(y) \/ WantsWrite(y)
                       \/ WantsRead(y) \/ WantsView(y)
    BY <1>1 DEF Waiting, Tasks
  \* The tasks at work want nothing.
  <2>2. \A y \in S : ~Reads(y)
    BY <2>1 DEF Reads, Tasks, WantsDir, WantsWrite, WantsRead, WantsView
  <2>3. \A y \in S : y # writer
    <3>1. writer \in {Opening, None} /\ (writer = Opening => boot = "open")
      BY <1>1 DEF IInv, TypeInv, TypeOK, Held
    <3>2. boot = "open" => Opening \notin S
      BY <2>1 DEF WantsDir, WantsWrite, WantsRead, WantsView
    <3> QED
      BY <2>1, <3>1, <3>2
  <2>4. \A x \in S : ~WantsWrite(x)
    BY <1>1, <2>2, <2>3
    DEF Tasks, Waiting, WantsDir, WantsWrite, WantsRead, WantsView
  <2>5. \A x \in S : ~WantsRead(x)
    BY <1>1, <2>3, <2>4
    DEF Tasks, Waiting, WantsDir, WantsWrite, WantsRead, WantsView
  <2>6. View \notin S
    BY <2>1, <2>4, <2>5 DEF WantsDir, WantsView
  <2>7. \A x \in S : ~WantsView(x)
    BY <1>1, <2>6 DEF Tasks, Waiting, WantsDir, WantsWrite, WantsRead, WantsView
  <2>8. \A x \in S : WantsDir(x) /\ dirLock \in S
    BY <1>1, <2>1, <2>4, <2>5, <2>7
  <2>9. dirLock \in S => ~WantsDir(dirLock)
    <3>1. dirLock \in Setters \cup {Opening, None}
      BY <1>1 DEF IInv, TypeInv, TypeOK
    <3>2. dirLock \in Setters => spc[dirLock] # "dir"
      BY <1>1 DEF IInv, Held, Inside
    <3> QED
      BY <3>1, <3>2 DEF WantsDir
  <2> QED
    BY <2>8, <2>9
<1>2. IInv => NoDeadlock
  BY <1>1 DEF NoDeadlock
<1> QED
  BY <1>2, Invariants, PTL

\* force_update_view returns only when the view is the latest.
THEOREM ViewSafe == Spec => ViewFresh
<1>1. IInv /\ [Next]_vars =>
        [/\ \A s \in Setters :
              spc[s] = "force" /\ spc'[s] = "file" => view = clients
         /\ boot = "view" /\ boot' = "up" => view = clients]_vars
  <2> SUFFICES ASSUME IInv, Next
               PROVE  /\ \A s \in Setters :
                           spc[s] = "force" /\ spc'[s] = "file"
                             => view = clients
                      /\ boot = "view" /\ boot' = "up" => view = clients
    OBVIOUS
  <2>1. ASSUME NEW s \in Setters, spc[s] = "force", spc'[s] = "file"
        PROVE  SetViewed(s)
    BY <2>1
    DEF IInv, TypeInv, TypeOK, Next, BootNext, SetNext, SetRun, ReadNext,
        ViewNext, Step, Read, Stop, taskVars, MnemonicCreate, MnemonicWrite,
        MnemonicFound, MnemonicRead, BootLock, BootOpen, BootUp, BootFails,
        Crash, SetCall, SetShort, SetOpenDb, SetJoin, SetInsert, SetViewed,
        SetTruncate, SetWrite, SetJoinError, SetWriteError, SetDropped,
        ReadCall, DefaultCall, DefaultRead, DefaultNone, ReadEnter, ReadLeave,
        ViewForce, ViewTimeout, ViewEnter, ViewPublish
  <2>2. ASSUME boot = "view", boot' = "up" PROVE BootUp
    BY <2>2
    DEF Next, BootNext, SetNext, SetRun, ReadNext, ViewNext, Stop,
        MnemonicCreate, MnemonicWrite, MnemonicFound, MnemonicRead, BootLock,
        BootOpen, BootFails, Crash, SetCall, SetShort, SetOpenDb, SetJoin,
        SetInsert, SetViewed, SetTruncate, SetWrite, SetJoinError,
        SetWriteError, SetDropped, ReadCall, DefaultCall, DefaultRead,
        DefaultNone, ReadEnter, ReadLeave, ViewForce, ViewTimeout, ViewEnter,
        ViewPublish
  <2>3. \A s \in Setters : SetViewed(s) => view = clients
    BY DEF IInv, Answered, SetViewed, Step
  <2>4. BootUp => view = clients
    BY DEF IInv, Answered, BootUp
  <2> QED
    BY <2>1, <2>2, <2>3, <2>4
<1> QED
  BY <1>1, Invariants, PTL DEF Spec, ViewFresh
-----------------------------------------------------------------------------
(***************************************************************************)
(* The wallet implements Vault.  First the ways a step moves what Vault    *)
(* sees: not at all, one federation's status, a join cut short, a default  *)
(* recorded.                                                               *)
(***************************************************************************)
\* The status of one federation changes.
LEMMA Moves ==
  ASSUME NEW f \in Federations, NEW from, NEW to,
         Status(f) = from, Status(f)' = to,
         \A g \in Federations \ {f} : Status(g)' = Status(g)
  PROVE  Abs!Advance(f, from, to)
BY DEF Abs!Advance

\* Nothing Vault sees changes.
LEMMA SameStatus ==
  ASSUME UNCHANGED <<seed, under, defaultFile>>,
         mnemonic' = "good" <=> mnemonic = "good",
         \A f \in Federations : Status(f)' = Status(f)
  PROVE  UNCHANGED Abs!vars
BY DEF Abs!vars

LEMMA Unmoved ==
  ASSUME UNCHANGED <<diskVars, interrupted>>
  PROVE  UNCHANGED Abs!vars
BY SameStatus DEF diskVars, Status

\* A join under way is cut short: by an error, by a dropped call or by a
\* crash.
LEMMA CutShort ==
  ASSUME TypeInv, Placed, NEW s \in Setters, spc[s] = "join",
         UNCHANGED diskVars, interrupted' = interrupted \cup {want[s]}
  PROVE  Abs!Next
<1>1. PICK f \in Federations : f = want[s]
  BY DEF TypeInv, Wanted
<1>2. dir[f] = "empty" /\ f \notin interrupted
  BY <1>1 DEF Placed
<1>3. /\ Status(f) = "open" /\ Status(f)' = "cut"
      /\ \A g \in Federations \ {f} : Status(g)' = Status(g)
  BY <1>1, <1>2 DEF Status, diskVars
<1> QED
  BY <1>1, <1>3, Moves DEF Abs!Next, Abs!Cut, diskVars

\* The default is written, by the call or by the pool after it was dropped.
LEMMA Recorded ==
  ASSUME TypeInv, Placed, NEW s \in Setters, spc[s] = "filew",
         UNCHANGED <<mnemonic, seed, dir, under, interrupted>>,
         defaultFile' = want[s]
  PROVE  Abs!Next
<1>1. PICK f \in Federations : f = want[s]
  BY DEF TypeInv, Wanted
<1>2. Status(f) \in {"joined", "cut"}
  BY <1>1 DEF TypeInv, TypeOK, Placed, Status
<1>3. UNCHANGED [g \in Federations |-> Status(g)]
  BY DEF Status
<1> QED
  BY <1>1, <1>2, <1>3 DEF Abs!Next, Abs!Record

\* Whatever tasks run, crash or are dropped, the data directory moves as
\* Vault says: one seed, one join at a time and with that seed, and a default
\* whose join is over.
THEOREM WalletImplementsVault == Spec => VaultSpec
<1>1. Init => Abs!Init
  BY DEF Init, Abs!Init, Status
<1>2. IInv /\ [Next]_vars => [Abs!Next]_(Abs!vars)
  <2> DEFINE Goal == Abs!Next \/ UNCHANGED Abs!vars
  <2> SUFFICES ASSUME TypeInv, Locking, Seeded, Placed, [Next]_vars PROVE Goal
    BY DEF IInv
  <2> USE WalletAssumption
      DEF TypeInv, TypeOK, Wanted, Step, diskVars
  <2>1. ASSUME MnemonicCreate PROVE Goal
    BY <2>1, SameStatus DEF MnemonicCreate, Status
  <2>2. ASSUME MnemonicWrite PROVE Goal
    <3>1. /\ UNCHANGED <<dir, under, defaultFile, interrupted>>
          /\ mnemonic # "good" /\ mnemonic' = "good"
          /\ seed' = seed + 1 /\ seed \in Nat
      BY <2>2 DEF MnemonicWrite, Seeded
    <3>2. UNCHANGED [f \in Federations |-> Status(f)]
      BY <3>1 DEF Status
    <3> QED
      BY <3>1, <3>2 DEF Abs!Next, Abs!Generate
  <2>3. ASSUME MnemonicFound PROVE Goal
    BY <2>3, Unmoved DEF MnemonicFound
  <2>4. ASSUME MnemonicRead PROVE Goal
    BY <2>4, Unmoved DEF MnemonicRead
  <2>5. ASSUME BootLock PROVE Goal
    BY <2>5, Unmoved DEF BootLock
  <2>6. ASSUME BootOpen PROVE Goal
    BY <2>6, Unmoved DEF BootOpen
  <2>7. ASSUME BootUp PROVE Goal
    BY <2>7, Unmoved DEF BootUp
  <2>8. ASSUME BootFails PROVE Goal
    BY <2>8, Unmoved DEF BootFails, Stop
  <2>9. ASSUME Crash PROVE Goal
    <3>1. CASE \E s \in Setters : spc[s] = "join"
      <4>1. PICK s \in Setters : spc[s] = "join"
        BY <3>1
      <4>2. \A t \in Setters : spc[t] = "join" => t = s
        BY <4>1 DEF Locking, Inside
      <4>3. interrupted' = interrupted \cup {want[s]} /\ UNCHANGED diskVars
        BY <2>9, <4>1, <4>2 DEF Crash, Stop
      <4> QED
        BY <4>1, <4>3, CutShort
    <3>2. CASE \A s \in Setters : spc[s] # "join"
      BY <2>9, <3>2, Unmoved DEF Crash, Stop
    <3> QED
      BY <3>1, <3>2
  <2>10. ASSUME NEW s \in Setters, NEW f \in Federations, SetCall(s, f)
        PROVE  Goal
    BY <2>10, Unmoved DEF SetCall
  <2>11. ASSUME NEW s \in Setters, SetShort(s) PROVE Goal
    BY <2>11, Unmoved DEF SetShort
  <2>12. ASSUME NEW s \in Setters, SetOpenDb(s) PROVE Goal
    <3>1. PICK f \in Federations : f = want[s]
      BY <2>12 DEF SetOpenDb
    <3>2. \A t \in Setters : spc[t] # "join"
      BY <2>12 DEF SetOpenDb, Locking, Inside
    <3>3. boot = "up" /\ mnemonic = "good" /\ seed # 0
      BY <2>12 DEF SetOpenDb, Locking, Seeded
    <3>4. f \notin interrupted /\ dir[f] = "none"
      BY <2>12, <3>1 DEF SetOpenDb, Placed
    <3>5. \A g \in Federations : Status(g) # "open"
      BY <3>2 DEF Status, Placed
    <3>6. /\ dir' = [dir EXCEPT ![f] = "empty"]
          /\ UNCHANGED <<mnemonic, seed, under, defaultFile, interrupted>>
      BY <2>12, <3>1 DEF SetOpenDb
    <3>7. /\ Status(f) = "none" /\ Status(f)' = "open"
          /\ \A g \in Federations \ {f} : Status(g)' = Status(g)
      BY <3>4, <3>6 DEF Status
    <3> QED
      BY <3>1, <3>3, <3>5, <3>6, <3>7, Moves DEF Abs!Next, Abs!Open
  <2>13. ASSUME NEW s \in Setters, SetJoin(s) PROVE Goal
    <3>1. PICK f \in Federations : f = want[s]
      BY <2>13 DEF SetJoin
    <3>2. boot = "up" /\ mnemonic = "good" /\ secret = seed
      BY <2>13 DEF SetJoin, Locking, Seeded
    <3>3. /\ dir' = [dir EXCEPT ![f] = "joined"]
          /\ under' = [under EXCEPT ![f] = secret]
          /\ UNCHANGED <<mnemonic, seed, defaultFile, interrupted>>
      BY <2>13, <3>1 DEF SetJoin
    <3>4. f \notin interrupted /\ dir[f] = "empty"
      BY <2>13, <3>1 DEF SetJoin, Placed
    <3>5. /\ Status(f) = "open" /\ Status(f)' = "joined"
          /\ \A g \in Federations \ {f} : Status(g)' = Status(g)
      BY <3>3, <3>4 DEF Status
    <3> QED
      BY <3>1, <3>2, <3>3, <3>5, Moves DEF Abs!Next, Abs!Join
  <2>14. ASSUME NEW s \in Setters, SetInsert(s) PROVE Goal
    BY <2>14, Unmoved DEF SetInsert
  <2>15. ASSUME NEW s \in Setters, SetViewed(s) PROVE Goal
    BY <2>15, Unmoved DEF SetViewed
  <2>16. ASSUME NEW s \in Setters, SetTruncate(s) PROVE Goal
    <3>1. UNCHANGED [f \in Federations |-> Status(f)]
      BY <2>16 DEF SetTruncate, Status
    <3> QED
      BY <2>16, <3>1 DEF SetTruncate, Abs!Next, Abs!Erase
  <2>17. ASSUME NEW s \in Setters, SetWrite(s) PROVE Goal
    BY <2>17, Recorded DEF SetWrite
  <2>18. ASSUME NEW s \in Setters, SetJoinError(s) PROVE Goal
    BY <2>18, CutShort DEF SetJoinError
  <2>19. ASSUME NEW s \in Setters, SetWriteError(s) PROVE Goal
    BY <2>19, Unmoved DEF SetWriteError
  <2>20. ASSUME NEW s \in Setters, SetDropped(s) PROVE Goal
    <3>1. UNCHANGED <<mnemonic, seed, dir, under>>
      BY <2>20 DEF SetDropped
    <3>2. CASE spc[s] = "join"
      BY <2>20, <3>1, <3>2, CutShort DEF SetDropped
    <3>3. CASE spc[s] = "filew"
      BY <2>20, <3>1, <3>3, Recorded DEF SetDropped
    <3>4. CASE spc[s] = "write"
      <4>1. /\ dir[want[s]] = "joined" /\ defaultFile' = defaultFile
            /\ interrupted' = interrupted \cup {want[s]}
        BY <2>20, <3>4 DEF SetDropped, Placed
      <4> QED
        BY <3>1, <4>1, SameStatus DEF Status
    <3>5. CASE spc[s] \notin {"join", "write", "filew"}
      BY <2>20, <3>1, <3>5, Unmoved DEF SetDropped
    <3> QED
      BY <3>2, <3>3, <3>4, <3>5
  <2>21. ASSUME NEW r \in Readers, ReadCall(r) PROVE Goal
    BY <2>21, Unmoved DEF ReadCall
  <2>22. ASSUME NEW r \in Readers, DefaultCall(r) PROVE Goal
    BY <2>22, Unmoved DEF DefaultCall
  <2>23. ASSUME NEW r \in Readers, DefaultRead(r) PROVE Goal
    BY <2>23, Unmoved DEF DefaultRead
  <2>24. ASSUME NEW r \in Readers, DefaultNone(r) PROVE Goal
    BY <2>24, Unmoved DEF DefaultNone
  <2>25. ASSUME NEW r \in Readers, ReadEnter(r) PROVE Goal
    BY <2>25, Unmoved DEF ReadEnter
  <2>26. ASSUME NEW r \in Readers, ReadLeave(r) PROVE Goal
    BY <2>26, Unmoved DEF ReadLeave
  <2>27. ASSUME NEW s \in Setters \cup {Opening}, ViewForce(s) PROVE Goal
    BY <2>27, Unmoved DEF ViewForce
  <2>28. ASSUME ViewTimeout PROVE Goal
    BY <2>28, Unmoved DEF ViewTimeout
  <2>29. ASSUME ViewEnter PROVE Goal
    BY <2>29, Unmoved DEF ViewEnter
  <2>30. ASSUME ViewPublish PROVE Goal
    BY <2>30, Unmoved DEF ViewPublish
  <2>31. ASSUME UNCHANGED vars PROVE Goal
    BY <2>31, Unmoved DEF vars
  <2> QED
    BY <2>1, <2>2, <2>3, <2>4, <2>5, <2>6, <2>7, <2>8, <2>9, <2>10,
       <2>11, <2>12, <2>13, <2>14, <2>15, <2>16, <2>17, <2>18, <2>19,
       <2>20, <2>21, <2>22, <2>23, <2>24, <2>25, <2>26, <2>27, <2>28,
       <2>29, <2>30, <2>31
    DEF Next, BootNext, SetNext, SetRun, ReadNext, ViewNext
<1> QED
  BY <1>1, <1>2, Invariants, PTL DEF Spec, VaultSpec, Abs!Spec
=============================================================================
