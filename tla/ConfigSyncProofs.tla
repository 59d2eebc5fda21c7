-------------------------- MODULE ConfigSyncProofs --------------------------
(***************************************************************************)
(* Proofs about ConfigSync, for any number of machines, federations,       *)
(* callers, claims and faults.                                             *)
(***************************************************************************)
EXTENDS ConfigSync, TLAPS

\* A call that is writing the default, or an update past reading it, has a
\* federation; past reading the key it has a key; and setting a
\* configuration it has a machine.
Equipped ==
    \A t \in Tasks :
        /\ pc[t] = "write" \/ Updating(t) => fed[t] \in Federations
        /\ Updating(t) /\ pc[t] # "key" => key[t] \in Federations
        /\ pc[t] = "set" => at[t] \in Machines

TypeInv == TypeOK /\ Equipped

\* The key of an update is that of its federation.
Fitting ==
    /\ \A t \in Tasks : Updating(t) /\ pc[t] # "key" => key[t] = fed[t]
    /\ KeyFits
-----------------------------------------------------------------------------
(***************************************************************************)
(* Types.                                                                  *)
(***************************************************************************)
\* The initial state has the types.
LEMMA TypeInit == Init => TypeInv
<1>1. Init => panicked \in BOOLEAN
  BY DEF Init
<1>2. Init => TypeOK
  BY <1>1, ConfigAssumption DEF Init, TypeOK
<1>3. Init => Equipped
  BY DEF Init, Equipped, Updating
<1> QED
  BY <1>2, <1>3 DEF TypeInv

\* Every step keeps the types.
LEMMA TypeStep == TypeInv /\ [Next]_vars => TypeInv'
<1> SUFFICES ASSUME TypeInv, [Next]_vars
             PROVE  TypeInv'
  OBVIOUS
<1> USE ConfigAssumption
    DEF TypeInv, TypeOK, Equipped, Updating, Config, NoConfig, Step, Leave,
        ListDir, ClaimStep, Fault, files, configs, locals, bounds
<1>1. ASSUME NEW c \in Callers, NEW f \in Federations, UpdateFederation(c, f)
      PROVE  TypeInv'
  BY <1>1 DEF UpdateFederation, Tasks
<1>2. ASSUME NEW c \in Callers, DefaultWriteError(c) PROVE TypeInv'
  BY <1>2 DEF DefaultWriteError, Tasks
<1>3. ASSUME SweepList PROVE TypeInv'
  BY <1>3 DEF SweepList, Tasks
<1>4. ASSUME SweepOpen PROVE TypeInv'
  BY <1>4 DEF SweepOpen, Tasks
<1>5. ASSUME SweepError PROVE TypeInv'
  BY <1>5 DEF SweepError, Tasks
<1>6. ASSUME NEW t \in Tasks, DefaultWrite(t) PROVE TypeInv'
  BY <1>6 DEF DefaultWrite
<1>7. ASSUME NEW t \in Tasks, ReadDefault(t) PROVE TypeInv'
  BY <1>7 DEF ReadDefault
<1>8. ASSUME NEW t \in Tasks, ReadNoDefault(t) PROVE TypeInv'
  BY <1>8 DEF ReadNoDefault
<1>9. ASSUME NEW t \in Tasks, ReadKey(t) PROVE TypeInv'
  BY <1>9 DEF ReadKey
<1>10. ASSUME NEW t \in Tasks, ReadError(t) PROVE TypeInv'
  BY <1>10 DEF ReadError
<1>11. ASSUME NEW t \in Tasks, UpdateList(t) PROVE TypeInv'
  BY <1>11 DEF UpdateList
<1>12. ASSUME NEW t \in Tasks, NEW m \in Machines, ListEntry(t, m)
       PROVE  TypeInv'
  BY <1>12 DEF ListEntry
<1>13. ASSUME NEW t \in Tasks, NEW m \in Machines, ListPanic(t, m)
       PROVE  TypeInv'
  BY <1>13 DEF ListPanic
<1>14. ASSUME NEW t \in Tasks, ListEnd(t) PROVE TypeInv'
  BY <1>14 DEF ListEnd
<1>15. ASSUME NEW t \in Tasks, NEW m \in Machines, SkipMachine(t, m)
       PROVE  TypeInv'
  BY <1>15 DEF SkipMachine
<1>16. ASSUME NEW t \in Tasks, NEW m \in Machines, CheckMachine(t, m)
       PROVE  TypeInv'
  BY <1>16 DEF CheckMachine
<1>17. ASSUME NEW t \in Tasks, SetConfig(t) PROVE TypeInv'
  BY <1>17 DEF SetConfig
<1>18. ASSUME NEW t \in Tasks, SetError(t) PROVE TypeInv'
  BY <1>18 DEF SetError
<1>19. ASSUME NEW t \in Tasks, UpdateEnd(t) PROVE TypeInv'
  BY <1>19 DEF UpdateEnd
<1>20. ASSUME NEW m \in Machines, ConfigArrives(m) PROVE TypeInv'
  BY <1>20 DEF ConfigArrives
<1>21. ASSUME NEW m \in Machines, ClaimStart(m) PROVE TypeInv'
  BY <1>21 DEF ClaimStart
<1>22. ASSUME NEW m \in Machines, ClaimImport(m) PROVE TypeInv'
  BY <1>22 DEF ClaimImport
<1>23. ASSUME NEW m \in Machines, ClaimImportError(m) PROVE TypeInv'
  BY <1>23 DEF ClaimImportError
<1>24. ASSUME NEW m \in Machines, ClaimTruncate(m) PROVE TypeInv'
  BY <1>24 DEF ClaimTruncate
<1>25. ASSUME NEW m \in Machines, ClaimWrite(m) PROVE TypeInv'
  BY <1>25 DEF ClaimWrite
<1>26. ASSUME NEW m \in Machines, ClaimSaveError(m) PROVE TypeInv'
  BY <1>26 DEF ClaimSaveError
<1>27. ASSUME Restart PROVE TypeInv'
  <2>1. panicked' \in BOOLEAN
    BY <1>27 DEF Restart
  <2>2. TypeOK'
    BY <1>27, <2>1 DEF Restart
  <2>3. Equipped'
    BY <1>27 DEF Restart
  <2> QED
    BY <2>2, <2>3
<1>28. ASSUME UNCHANGED vars PROVE TypeInv'
  BY <1>28 DEF vars
<1> QED
  BY <1>1, <1>2, <1>3, <1>4, <1>5, <1>6, <1>7, <1>8, <1>9, <1>10, <1>11,
     <1>12, <1>13, <1>14, <1>15, <1>16, <1>17, <1>18, <1>19, <1>20, <1>21,
     <1>22, <1>23, <1>24, <1>25, <1>26, <1>27, <1>28
  DEF Next, SyncerStep, TaskStep, ClaimTask, Tasks

-----------------------------------------------------------------------------
(***************************************************************************)
(* Federations and keys.                                                   *)
(***************************************************************************)
\* No machine is configured at first.
LEMMA KeyInit == Init => Fitting
  BY ConfigAssumption
  DEF Init, Fitting, KeyFits, Updating, NoConfig

\* No step pairs a federation with another's key.
LEMMA KeyStep == TypeInv /\ Fitting /\ [Next]_vars => Fitting'
<1> SUFFICES ASSUME TypeInv, Fitting, [Next]_vars
             PROVE  Fitting'
  OBVIOUS
<1> USE ConfigAssumption
    DEF TypeInv, TypeOK, Equipped, Updating, Config, NoConfig, Fitting,
        KeyFits, Step, Leave, ListDir, ClaimStep, Fault, files, configs,
        locals, bounds
<1>1. ASSUME NEW c \in Callers, NEW f \in Federations, UpdateFederation(c, f)
      PROVE  Fitting'
  BY <1>1 DEF UpdateFederation, Tasks
<1>2. ASSUME NEW c \in Callers, DefaultWriteError(c) PROVE Fitting'
  BY <1>2 DEF DefaultWriteError, Tasks
<1>3. ASSUME SweepList PROVE Fitting'
  BY <1>3 DEF SweepList, Tasks
<1>4. ASSUME SweepOpen PROVE Fitting'
  BY <1>4 DEF SweepOpen, Tasks
<1>5. ASSUME SweepError PROVE Fitting'
  BY <1>5 DEF SweepError, Tasks
<1>6. ASSUME NEW t \in Tasks, DefaultWrite(t) PROVE Fitting'
  BY <1>6 DEF DefaultWrite
<1>7. ASSUME NEW t \in Tasks, ReadDefault(t) PROVE Fitting'
  BY <1>7 DEF ReadDefault
<1>8. ASSUME NEW t \in Tasks, ReadNoDefault(t) PROVE Fitting'
  BY <1>8 DEF ReadNoDefault
<1>9. ASSUME NEW t \in Tasks, ReadKey(t) PROVE Fitting'
  BY <1>9 DEF ReadKey
<1>10. ASSUME NEW t \in Tasks, ReadError(t) PROVE Fitting'
  BY <1>10 DEF ReadError
<1>11. ASSUME NEW t \in Tasks, UpdateList(t) PROVE Fitting'
  BY <1>11 DEF UpdateList
<1>12. ASSUME NEW t \in Tasks, NEW m \in Machines, ListEntry(t, m)
       PROVE  Fitting'
  BY <1>12 DEF ListEntry
<1>13. ASSUME NEW t \in Tasks, NEW m \in Machines, ListPanic(t, m)
       PROVE  Fitting'
  BY <1>13 DEF ListPanic
<1>14. ASSUME NEW t \in Tasks, ListEnd(t) PROVE Fitting'
  BY <1>14 DEF ListEnd
<1>15. ASSUME NEW t \in Tasks, NEW m \in Machines, SkipMachine(t, m)
       PROVE  Fitting'
  BY <1>15 DEF SkipMachine
<1>16. ASSUME NEW t \in Tasks, NEW m \in Machines, CheckMachine(t, m)
       PROVE  Fitting'
  BY <1>16 DEF CheckMachine
<1>17. ASSUME NEW t \in Tasks, SetConfig(t) PROVE Fitting'
  BY <1>17 DEF SetConfig
<1>18. ASSUME NEW t \in Tasks, SetError(t) PROVE Fitting'
  BY <1>18 DEF SetError
<1>19. ASSUME NEW t \in Tasks, UpdateEnd(t) PROVE Fitting'
  BY <1>19 DEF UpdateEnd
<1>20. ASSUME NEW m \in Machines, ConfigArrives(m) PROVE Fitting'
  BY <1>20 DEF ConfigArrives
<1>21. ASSUME NEW m \in Machines, ClaimStart(m) PROVE Fitting'
  BY <1>21 DEF ClaimStart
<1>22. ASSUME NEW m \in Machines, ClaimImport(m) PROVE Fitting'
  BY <1>22 DEF ClaimImport
<1>23. ASSUME NEW m \in Machines, ClaimImportError(m) PROVE Fitting'
  BY <1>23 DEF ClaimImportError
<1>24. ASSUME NEW m \in Machines, ClaimTruncate(m) PROVE Fitting'
  BY <1>24 DEF ClaimTruncate
<1>25. ASSUME NEW m \in Machines, ClaimWrite(m) PROVE Fitting'
  BY <1>25 DEF ClaimWrite
<1>26. ASSUME NEW m \in Machines, ClaimSaveError(m) PROVE Fitting'
  BY <1>26 DEF ClaimSaveError
<1>27. ASSUME Restart PROVE Fitting'
  BY <1>27 DEF Restart
<1>28. ASSUME UNCHANGED vars PROVE Fitting'
  BY <1>28 DEF vars
<1> QED
  BY <1>1, <1>2, <1>3, <1>4, <1>5, <1>6, <1>7, <1>8, <1>9, <1>10, <1>11,
     <1>12, <1>13, <1>14, <1>15, <1>16, <1>17, <1>18, <1>19, <1>20, <1>21,
     <1>22, <1>23, <1>24, <1>25, <1>26, <1>27, <1>28
  DEF Next, SyncerStep, TaskStep, ClaimTask, Tasks

-----------------------------------------------------------------------------
(***************************************************************************)
(* The theorems.                                                           *)
(***************************************************************************)
IInv == TypeInv /\ Fitting

\* Both layers hold in every reachable state.
LEMMA Invariants == Spec => []IInv
<1>1. Init => IInv
  BY TypeInit, KeyInit DEF IInv
<1>2. IInv /\ [Next]_vars => IInv'
  BY TypeStep, KeyStep DEF IInv
<1> QED
  BY <1>1, <1>2, PTL DEF Spec

\* Every variable of the configuration sync keeps its type.
THEOREM ConfigTypeCorrect == Spec => []TypeOK
<1>1. IInv => TypeOK
  BY DEF IInv, TypeInv
<1> QED
  BY <1>1, Invariants, PTL

\* No configuration pairs a federation with the claim key of another, however
\* updates and changes of the default overlap.
THEOREM ConfigKeySafe == Spec => []KeyFits
<1>1. IInv => KeyFits
  BY DEF IInv, Fitting
<1> QED
  BY <1>1, Invariants, PTL

\* What NoSetBack says of a step.
Kept == Calm' /\ \A i \in Machines : Current(i) => Current(i)'

\* No step sets a machine back once every update works on the default.
LEMMA StepKeeps ==
    ASSUME IInv, [Next]_vars, Calm, default' = default
    PROVE  Kept
<1> USE ConfigAssumption
    DEF IInv, TypeInv, TypeOK, Equipped, Updating, Config, NoConfig, Kept,
        Calm, Current, Step, Leave, ListDir, ClaimStep, Fault, files, configs,
        locals, bounds
<1>1. ASSUME NEW c \in Callers, NEW f \in Federations, UpdateFederation(c, f)
      PROVE  Kept
  BY <1>1 DEF UpdateFederation, Tasks
<1>2. ASSUME NEW c \in Callers, DefaultWriteError(c) PROVE Kept
  BY <1>2 DEF DefaultWriteError, Tasks
<1>3. ASSUME SweepList PROVE Kept
  BY <1>3 DEF SweepList, Tasks
<1>4. ASSUME SweepOpen PROVE Kept
  BY <1>4 DEF SweepOpen, Tasks
<1>5. ASSUME SweepError PROVE Kept
  BY <1>5 DEF SweepError, Tasks
<1>6. ASSUME NEW t \in Tasks, DefaultWrite(t) PROVE Kept
  BY <1>6 DEF DefaultWrite
<1>7. ASSUME NEW t \in Tasks, ReadDefault(t) PROVE Kept
  BY <1>7 DEF ReadDefault
<1>8. ASSUME NEW t \in Tasks, ReadNoDefault(t) PROVE Kept
  BY <1>8 DEF ReadNoDefault
<1>9. ASSUME NEW t \in Tasks, ReadKey(t) PROVE Kept
  BY <1>9 DEF ReadKey
<1>10. ASSUME NEW t \in Tasks, ReadError(t) PROVE Kept
  BY <1>10 DEF ReadError
<1>11. ASSUME NEW t \in Tasks, UpdateList(t) PROVE Kept
  BY <1>11 DEF UpdateList
<1>12. ASSUME NEW t \in Tasks, NEW m \in Machines, ListEntry(t, m)
       PROVE  Kept
  BY <1>12 DEF ListEntry
<1>13. ASSUME NEW t \in Tasks, NEW m \in Machines, ListPanic(t, m)
       PROVE  Kept
  BY <1>13 DEF ListPanic
<1>14. ASSUME NEW t \in Tasks, ListEnd(t) PROVE Kept
  BY <1>14 DEF ListEnd
<1>15. ASSUME NEW t \in Tasks, NEW m \in Machines, SkipMachine(t, m)
       PROVE  Kept
  BY <1>15 DEF SkipMachine
<1>16. ASSUME NEW t \in Tasks, NEW m \in Machines, CheckMachine(t, m)
       PROVE  Kept
  BY <1>16 DEF CheckMachine
<1>17. ASSUME NEW t \in Tasks, SetConfig(t) PROVE Kept
  BY <1>17 DEF SetConfig
<1>18. ASSUME NEW t \in Tasks, SetError(t) PROVE Kept
  BY <1>18 DEF SetError
<1>19. ASSUME NEW t \in Tasks, UpdateEnd(t) PROVE Kept
  BY <1>19 DEF UpdateEnd
<1>20. ASSUME NEW m \in Machines, ConfigArrives(m) PROVE Kept
  BY <1>20 DEF ConfigArrives
<1>21. ASSUME NEW m \in Machines, ClaimStart(m) PROVE Kept
  BY <1>21 DEF ClaimStart
<1>22. ASSUME NEW m \in Machines, ClaimImport(m) PROVE Kept
  BY <1>22 DEF ClaimImport
<1>23. ASSUME NEW m \in Machines, ClaimImportError(m) PROVE Kept
  BY <1>23 DEF ClaimImportError
<1>24. ASSUME NEW m \in Machines, ClaimTruncate(m) PROVE Kept
  BY <1>24 DEF ClaimTruncate
<1>25. ASSUME NEW m \in Machines, ClaimWrite(m) PROVE Kept
  BY <1>25 DEF ClaimWrite
<1>26. ASSUME NEW m \in Machines, ClaimSaveError(m) PROVE Kept
  BY <1>26 DEF ClaimSaveError
<1>27. ASSUME Restart PROVE Kept
  BY <1>27 DEF Restart
<1>28. ASSUME UNCHANGED vars PROVE Kept
  BY <1>28 DEF vars
<1> QED
  BY <1>1, <1>2, <1>3, <1>4, <1>5, <1>6, <1>7, <1>8, <1>9, <1>10, <1>11,
     <1>12, <1>13, <1>14, <1>15, <1>16, <1>17, <1>18, <1>19, <1>20, <1>21,
     <1>22, <1>23, <1>24, <1>25, <1>26, <1>27, <1>28
  DEF Next, SyncerStep, TaskStep, ClaimTask, Tasks

\* Once every update under way works on the current default, no machine is
\* set back to another federation until the default changes.
THEOREM NeverSetBack == Spec => NoSetBack
<1>1. IInv /\ [Next]_vars
        => [Calm /\ default' = default
              => Calm' /\ \A m \in Machines : Current(m) => Current(m)']_vars
  BY StepKeeps DEF Kept
<1> QED
  BY <1>1, Invariants, PTL DEF Spec, NoSetBack
-----------------------------------------------------------------------------
(***************************************************************************)
(* The refinement.                                                         *)
(***************************************************************************)
Moves == Abs!Next \/ UNCHANGED Abs!vars

\* Only the tasks that go on with what they had are still updating.
Fewer == \A t \in Tasks : Updating(t)' => Updating(t) /\ fed'[t] = fed[t]

Works == {fed[t] : t \in {u \in Tasks : Updating(u)}}

\* With fewer updates under way there is nothing new to work on.
LEMMA WorksShrink == Fewer => Works' \subseteq Works
  BY DEF Fewer, Works

\* Some updates end, and nothing else changes.
LEMMA WindsDown ==
    ASSUME Fewer, UNCHANGED <<default, cfgG, cfgM>>
    PROVE  Moves
  BY WorksShrink DEF Moves, Works, Abs!Next, Abs!End

\* The same tasks go on updating the same federations.
Same == \A t \in Tasks : /\ Updating(t)' <=> Updating(t)
                         /\ Updating(t) => fed'[t] = fed[t]

\* Then the federations worked on are the same.
LEMMA WorksStay == Same => Works' = Works
  BY DEF Same, Works

\* Every step of the configuration sync is one of Rollout, or none.
LEMMA StepMoves == IInv /\ [Next]_vars => Moves
<1> SUFFICES ASSUME IInv, [Next]_vars
             PROVE  Moves
  OBVIOUS
<1> USE ConfigAssumption
    DEF IInv, TypeInv, TypeOK, Step, Leave, ListDir, ClaimStep, Fault, files,
        configs, locals, bounds
<1>1. ASSUME NEW c \in Callers, NEW f \in Federations, UpdateFederation(c, f)
      PROVE  Moves
  <2>1. Works' = Works
    BY <1>1, WorksStay DEF UpdateFederation, Same, Updating, Tasks
  <2>2. UNCHANGED <<cfgG, cfgM>> /\ default' \notin Federations
    BY <1>1 DEF UpdateFederation
  <2> QED
    BY <2>1, <2>2 DEF Moves, Works, Abs!Next, Abs!Forget
<1>2. ASSUME NEW c \in Callers, DefaultWriteError(c) PROVE Moves
  BY <1>2, WindsDown DEF DefaultWriteError, Tasks, Fewer, Updating
<1>3. ASSUME SweepList PROVE Moves
  BY <1>3, WindsDown DEF SweepList, Tasks, Fewer, Updating
<1>4. ASSUME SweepOpen PROVE Moves
  BY <1>4, WindsDown DEF SweepOpen, Tasks, Fewer, Updating
<1>5. ASSUME SweepError PROVE Moves
  BY <1>5, WindsDown DEF SweepError, Tasks, Fewer, Updating
<1>6. ASSUME NEW t \in Tasks, DefaultWrite(t) PROVE Moves
  <2>1. PICK f : f = fed[t]
    OBVIOUS
  <2>2. f \in Federations
    BY <1>6, <2>1 DEF DefaultWrite, Equipped
  <2>3. Works' = Works
    BY <1>6, WorksStay DEF DefaultWrite, Same, Updating
  <2>4. UNCHANGED <<cfgG, cfgM>> /\ default' = f
    BY <1>6, <2>1 DEF DefaultWrite
  <2>5. Abs!Choose(f)
    BY <2>2, <2>3, <2>4 DEF Works, Abs!Choose
  <2> QED
    BY <2>2, <2>5 DEF Moves, Abs!Next
<1>7. ASSUME NEW t \in Tasks, ReadDefault(t) PROVE Moves
  <2>1. /\ UNCHANGED <<default, cfgG, cfgM>>
        /\ default \in Federations
        /\ default # None
    BY <1>7 DEF ReadDefault
  <2>2. /\ ~Updating(t) /\ Updating(t)'
        /\ fed'[t] = default
        /\ \A u \in Tasks \ {t} : /\ Updating(u)' <=> Updating(u)
                                  /\ fed'[u] = fed[u]
    BY <1>7 DEF ReadDefault, Updating
  <2>3. Works' = Works \cup {default}
    BY <2>2 DEF Works
  <2>4. Abs!Start
    BY <2>1, <2>3 DEF Works, Abs!Start
  <2> QED
    BY <2>4 DEF Moves, Abs!Next
<1>8. ASSUME NEW t \in Tasks, ReadNoDefault(t) PROVE Moves
  BY <1>8, WindsDown DEF ReadNoDefault, Fewer, Updating
<1>9. ASSUME NEW t \in Tasks, ReadKey(t) PROVE Moves
  BY <1>9, WindsDown DEF ReadKey, Fewer, Updating
<1>10. ASSUME NEW t \in Tasks, ReadError(t) PROVE Moves
  BY <1>10, WindsDown DEF ReadError, Fewer, Updating
<1>11. ASSUME NEW t \in Tasks, UpdateList(t) PROVE Moves
  BY <1>11, WindsDown DEF UpdateList, Fewer, Updating
<1>12. ASSUME NEW t \in Tasks, NEW m \in Machines, ListEntry(t, m)
       PROVE  Moves
  BY <1>12, WindsDown DEF ListEntry, Fewer, Updating
<1>13. ASSUME NEW t \in Tasks, NEW m \in Machines, ListPanic(t, m)
       PROVE  Moves
  BY <1>13, WindsDown DEF ListPanic, Fewer, Updating
<1>14. ASSUME NEW t \in Tasks, ListEnd(t) PROVE Moves
  BY <1>14, WindsDown DEF ListEnd, Fewer, Updating
<1>15. ASSUME NEW t \in Tasks, NEW m \in Machines, SkipMachine(t, m)
       PROVE  Moves
  BY <1>15, WindsDown DEF SkipMachine, Fewer, Updating
<1>16. ASSUME NEW t \in Tasks, NEW m \in Machines, CheckMachine(t, m)
       PROVE  Moves
  BY <1>16, WindsDown DEF CheckMachine, Fewer, Updating
<1>17. ASSUME NEW t \in Tasks, SetConfig(t) PROVE Moves
  <2>1. PICK m, f : m = at[t] /\ f = fed[t]
    OBVIOUS
  <2>2. m \in Machines /\ f \in Works
    BY <1>17, <2>1 DEF SetConfig, Equipped, Updating, Works
  <2>3. Works' = Works
    BY <1>17, WorksStay DEF SetConfig, Same, Updating
  <2>4. /\ UNCHANGED <<default, cfgM>>
        /\ cfgG' = [cfgG EXCEPT ![m] = [fed |-> f, key |-> key[t]]]
    BY <1>17, <2>1 DEF SetConfig
  <2>5. [i \in Machines |-> cfgG'[i].fed]
          = [[i \in Machines |-> cfgG[i].fed] EXCEPT ![m] = f]
    BY <2>2, <2>4
  <2>6. Abs!Send(m)
    BY <2>2, <2>3, <2>4, <2>5 DEF Works, Abs!Send
  <2> QED
    BY <2>2, <2>6 DEF Moves, Abs!Next
<1>18. ASSUME NEW t \in Tasks, SetError(t) PROVE Moves
  BY <1>18, WindsDown DEF SetError, Fewer, Updating
<1>19. ASSUME NEW t \in Tasks, UpdateEnd(t) PROVE Moves
  BY <1>19, WindsDown DEF UpdateEnd, Fewer, Updating
<1>20. ASSUME NEW m \in Machines, ConfigArrives(m) PROVE Moves
  <2>1. Works' = Works
    BY <1>20, WorksStay DEF ConfigArrives, Same, Updating
  <2>2. /\ UNCHANGED <<default, cfgG>>
        /\ cfgM' = [cfgM EXCEPT ![m] = cfgG[m]]
    BY <1>20 DEF ConfigArrives
  <2>3. [i \in Machines |-> cfgM'[i].fed]
          = [[i \in Machines |-> cfgM[i].fed] EXCEPT ![m] = cfgG[m].fed]
    BY <2>2
  <2>4. Abs!Reach(m)
    BY <2>1, <2>2, <2>3 DEF Works, Abs!Reach
  <2> QED
    BY <2>4 DEF Moves, Abs!Next
<1>21. ASSUME NEW m \in Machines, ClaimStart(m) PROVE Moves
  BY <1>21, WindsDown DEF ClaimStart, Fewer, Updating
<1>22. ASSUME NEW m \in Machines, ClaimImport(m) PROVE Moves
  BY <1>22, WindsDown DEF ClaimImport, Fewer, Updating
<1>23. ASSUME NEW m \in Machines, ClaimImportError(m) PROVE Moves
  BY <1>23, WindsDown DEF ClaimImportError, Fewer, Updating
<1>24. ASSUME NEW m \in Machines, ClaimTruncate(m) PROVE Moves
  BY <1>24, WindsDown DEF ClaimTruncate, Fewer, Updating
<1>25. ASSUME NEW m \in Machines, ClaimWrite(m) PROVE Moves
  BY <1>25, WindsDown DEF ClaimWrite, Fewer, Updating
<1>26. ASSUME NEW m \in Machines, ClaimSaveError(m) PROVE Moves
  BY <1>26, WindsDown DEF ClaimSaveError, Fewer, Updating
<1>27. ASSUME Restart PROVE Moves
  BY <1>27, WindsDown DEF Restart, Fewer, Updating
<1>28. ASSUME UNCHANGED vars PROVE Moves
  BY <1>28, WindsDown DEF vars, Fewer, Updating
<1> QED
  BY <1>1, <1>2, <1>3, <1>4, <1>5, <1>6, <1>7, <1>8, <1>9, <1>10, <1>11,
     <1>12, <1>13, <1>14, <1>15, <1>16, <1>17, <1>18, <1>19, <1>20, <1>21,
     <1>22, <1>23, <1>24, <1>25, <1>26, <1>27, <1>28
  DEF Next, SyncerStep, TaskStep, ClaimTask, Tasks

\* A machine only gets a federation that was recorded as the default when the
\* update that sets it read it, however calls, the syncer, errors and
\* restarts overlap.
THEOREM ConfigImplementsRollout == Spec => RolloutSpec
<1>1. Init => Abs!Init
  BY ConfigAssumption DEF Init, Updating, NoConfig, Abs!Init
<1>2. IInv /\ [Next]_vars => [Abs!Next]_(Abs!vars)
  BY StepMoves DEF Moves
<1> QED
  BY <1>1, <1>2, Invariants, PTL DEF Spec, RolloutSpec, Abs!Spec
=============================================================================
