------------------------------ MODULE LockProofs ------------------------------
(***************************************************************************)
(* The three mutexes: where they are held, in which order they are taken,  *)
(* and what gInitMutex protects.                                           *)
(***************************************************************************)
EXTENDS LoggerProofs

(* In each of its sections the library is used by one thread at a time. *)
THEOREM MutualExclusionHolds == Spec => []MutualExclusion
<1>. USE DEF InitSection, ConfigSection, RequestSection, LoggingSection
<1>1. Init => MutualExclusion
  BY LoggerAssumption DEF Init, MutualExclusion
<1>2. TypeOK /\ MutualExclusion /\ [Next]_vars => MutualExclusion'
  <2> SUFFICES ASSUME TypeOK, MutualExclusion, [Next]_vars
               PROVE  MutualExclusion'
    OBVIOUS
  <2>0. NoThread \notin Threads /\ pc \in [Threads -> Labels]
    BY ConstantTypes DEF TypeOK, TypeThreads
  <2> USE <2>0 DEF mutexes, Goto, MutualExclusion
  <2>1. ASSUME NEW t \in Threads, NEW c \in Calls, Enter(t, c)
        PROVE  MutualExclusion'
    BY <2>1, CallStart DEF Enter
  <2>2. ASSUME NEW t \in Threads, InitLock(t)
        PROVE  MutualExclusion'
    BY <2>2 DEF InitLock
  <2>3. ASSUME NEW t \in Threads, ExtLock(t)
        PROVE  MutualExclusion'
    BY <2>3 DEF ExtLock
  <2>4. ASSUME NEW t \in Threads, DeinitLock(t)
        PROVE  MutualExclusion'
    BY <2>4 DEF DeinitLock
  <2>5. ASSUME NEW t \in Threads, DynInitLock(t)
        PROVE  MutualExclusion'
    BY <2>5 DEF DynInitLock
  <2>6. ASSUME NEW t \in Threads, DeinitRequestLock(t)
        PROVE  MutualExclusion'
    BY <2>6 DEF DeinitRequestLock
  <2>7. ASSUME NEW t \in Threads, ExtLoggingLock(t)
        PROVE  MutualExclusion'
    BY <2>7 DEF ExtLoggingLock
  <2>8. ASSUME NEW t \in Threads, ApplyLock(t)
        PROVE  MutualExclusion'
    BY <2>8 DEF ApplyLock
  <2>9. ASSUME NEW t \in Threads, LogLock(t)
        PROVE  MutualExclusion'
    BY <2>9 DEF LogLock
  <2>10. ASSUME NEW t \in Threads, LevelLock(t)
        PROVE  MutualExclusion'
    BY <2>10 DEF LevelLock
  <2>11. ASSUME NEW t \in Threads, PrivInit(t)
        PROVE  MutualExclusion'
    BY <2>11 DEF PrivInit
  <2>12. ASSUME NEW t \in Threads, OpenConfig(t)
        PROVE  MutualExclusion'
    BY <2>12 DEF OpenConfig
  <2>13. ASSUME NEW t \in Threads, ParseModule(t)
        PROVE  MutualExclusion'
    BY <2>13 DEF ParseModule
  <2>14. ASSUME NEW t \in Threads, ParseDefault(t)
        PROVE  MutualExclusion'
    BY <2>14 DEF ParseDefault
  <2>15. ASSUME NEW t \in Threads, ParseRootPriority(t)
        PROVE  MutualExclusion'
    BY <2>15 DEF ParseRootPriority
  <2>16. ASSUME NEW t \in Threads, ParseEnd(t)
        PROVE  MutualExclusion'
    BY <2>16 DEF ParseEnd
  <2>17. ASSUME NEW t \in Threads, ConfigEnd(t)
        PROVE  MutualExclusion'
    BY <2>17 DEF ConfigEnd
  <2>18. ASSUME NEW t \in Threads, DynInit(t)
        PROVE  MutualExclusion'
    BY <2>18 DEF DynInit
  <2>19. ASSUME NEW t \in Threads, SetInited(t)
        PROVE  MutualExclusion'
    BY <2>19 DEF SetInited
  <2>20. ASSUME NEW t \in Threads, InitUnlock(t)
        PROVE  MutualExclusion'
    BY <2>20 DEF InitUnlock, Return
  <2>21. ASSUME NEW t \in Threads, ExtApply(t)
        PROVE  MutualExclusion'
    BY <2>21 DEF ExtApply
  <2>22. ASSUME NEW t \in Threads, ExtUnlock(t)
        PROVE  MutualExclusion'
    BY <2>22 DEF ExtUnlock, Return
  <2>23. ASSUME NEW t \in Threads, DeinitClose(t)
        PROVE  MutualExclusion'
    BY <2>23 DEF DeinitClose
  <2>24. ASSUME NEW t \in Threads, LogTryLock(t)
        PROVE  MutualExclusion'
    BY <2>24 DEF LogTryLock, Return, AfterDrain
  <2>25. ASSUME NEW t \in Threads, Receive(t)
        PROVE  MutualExclusion'
    BY <2>25 DEF Receive
  <2>26. ASSUME NEW t \in Threads, Apply(t)
        PROVE  MutualExclusion'
    BY <2>26 DEF Apply
  <2>27. ASSUME NEW t \in Threads, DrainEnd(t)
        PROVE  MutualExclusion'
    BY <2>27 DEF DrainEnd, Return, AfterDrain
  <2>28. ASSUME NEW t \in Threads, LogRead(t)
        PROVE  MutualExclusion'
    BY <2>28 DEF LogRead
  <2>29. ASSUME NEW t \in Threads, LogInherit(t)
        PROVE  MutualExclusion'
    BY <2>29 DEF LogInherit
  <2>30. ASSUME NEW t \in Threads, LogCheck(t)
        PROVE  MutualExclusion'
    BY <2>30 DEF LogCheck
  <2>31. ASSUME NEW t \in Threads, LogUnlock(t)
        PROVE  MutualExclusion'
    BY <2>31 DEF LogUnlock, Return
  <2>32. ASSUME NEW t \in Threads, SetLevel(t)
        PROVE  MutualExclusion'
    BY <2>32 DEF SetLevel, Return
  <2>33. ASSUME NEW t \in Threads, GetLevel(t)
        PROVE  MutualExclusion'
    BY <2>33 DEF GetLevel, Return
  <2>34. ASSUME NEW t \in Threads, IsLevelEnabled(t)
        PROVE  MutualExclusion'
    BY <2>34 DEF IsLevelEnabled, Return
  <2>35. ASSUME NEW m \in Commands, Send(m)
        PROVE  MutualExclusion'
    BY <2>35 DEF Send
  <2>36. CASE UNCHANGED vars
    BY <2>36 DEF vars
  <2>37. QED
    BY <2>1, <2>2, <2>3, <2>4, <2>5, <2>6, <2>7, <2>8, <2>9, <2>10, <2>11,
       <2>12, <2>13, <2>14, <2>15, <2>16, <2>17, <2>18, <2>19, <2>20, <2>21,
       <2>22, <2>23, <2>24, <2>25, <2>26, <2>27, <2>28, <2>29, <2>30, <2>31,
       <2>32, <2>33, <2>34, <2>35, <2>36
    DEF Next, Lock, Step
<1>3. QED
  BY <1>1, <1>2, TypeCorrect, PTL DEF Spec

(* The order of the mutexes, from where each is held. *)
LEMMA LockOrderFromSections == TypeOK /\ MutualExclusion => LockOrder
  <1> SUFFICES ASSUME MutualExclusion, NEW t \in Threads, WaitsFor(t) # 0,
                      NEW m \in Holds(t)
               PROVE  m < WaitsFor(t)
    BY DEF LockOrder
  <1>1. m \in 1..3
    BY DEF Holds
  <1>2. /\ m = 1 => pc[t] \in InitSection
        /\ m = 2 => pc[t] \in RequestSection
        /\ m = 3 => pc[t] \in LoggingSection
    BY DEF Holds, MutualExclusion
  <1>3. CASE pc[t] \in {"init_lock", "ext_lock", "deinit_lock"}
    BY <1>1, <1>2, <1>3
       DEF InitSection, ConfigSection, RequestSection, LoggingSection
  <1>4. CASE pc[t] \in {"dyn_init_lock", "deinit_request_lock"}
    <2>1. m = 1
      BY <1>1, <1>2, <1>4 DEF RequestSection, LoggingSection
    <2>2. WaitsFor(t) = 2
      BY <1>4 DEF WaitsFor
    <2>3. QED
      BY <2>1, <2>2
  <1>5. CASE pc[t] \in {"ext_logging_lock", "apply_lock", "log_lock", "set_lock",
                        "get_lock", "enabled_lock"}
    <2>1. m \in 1..2
      BY <1>1, <1>2, <1>5 DEF LoggingSection
    <2>2. WaitsFor(t) = 3
      BY <1>5 DEF WaitsFor
    <2>3. QED
      BY <2>1, <2>2
  <1>6. QED
    BY <1>3, <1>4, <1>5 DEF WaitsFor

(* Threads never wait for each other in a circle. *)
THEOREM LockOrderHolds == Spec => []LockOrder
  BY LockOrderFromSections, TypeCorrect, MutualExclusionHolds, PTL

(* A thread can go on that waits for no mutex, or for one that is free. *)
LEMMA CanGoOnIf ==
  ASSUME NEW t,
         \/ WaitsFor(t) = 0
         \/ WaitsFor(t) = 1 /\ gInitMutex = NoThread
         \/ WaitsFor(t) = 2 /\ g_dl_request_mutex = NoThread
         \/ WaitsFor(t) = 3 /\ gLoggingMutex = NoThread
  PROVE  CanGoOn(t)
  BY DEF CanGoOn

(* What the holder of each mutex can still wait for: those that come later. *)
LEMMA HolderWaits ==
  ASSUME NEW t
  PROVE  /\ WaitsFor(t) \in 0..3
         /\ pc[t] \in LoggingSection => WaitsFor(t) = 0
         /\ pc[t] \in RequestSection => WaitsFor(t) \in {0, 3}
         /\ pc[t] \in InitSection => WaitsFor(t) \in {0, 2, 3}
  BY DEF WaitsFor, LoggingSection, RequestSection, InitSection, ConfigSection

(* The one that has taken the last mutex waits for nothing. *)
LEMMA LoggingHolderGoesOn ==
  ASSUME TypeOK, MutualExclusion, gLoggingMutex # NoThread
  PROVE  \E t \in Threads : pc[t] # "idle" /\ CanGoOn(t)
  <1>1. PICK t \in Threads : gLoggingMutex = t
    BY DEF TypeOK, TypeMutexes
  <1>2. pc[t] \in LoggingSection
    BY <1>1 DEF MutualExclusion
  <1>3. pc[t] # "idle" /\ CanGoOn(t)
    BY <1>2, HolderWaits, CanGoOnIf DEF LoggingSection
  <1>4. QED
    BY <1>3

(* The one that drains the socket waits for the last mutex at most. *)
LEMMA RequestHolderGoesOn ==
  ASSUME TypeOK, MutualExclusion, g_dl_request_mutex # NoThread
  PROVE  \E t \in Threads : pc[t] # "idle" /\ CanGoOn(t)
  <1>1. CASE gLoggingMutex # NoThread
    BY <1>1, LoggingHolderGoesOn
  <1>2. CASE gLoggingMutex = NoThread
    <2>1. PICK t \in Threads : g_dl_request_mutex = t
      BY DEF TypeOK, TypeMutexes
    <2>2. pc[t] \in RequestSection
      BY <2>1 DEF MutualExclusion
    <2>3. pc[t] # "idle" /\ CanGoOn(t)
      BY <1>2, <2>2, HolderWaits, CanGoOnIf DEF RequestSection
    <2>4. QED
      BY <2>3
  <1>3. QED
    BY <1>1, <1>2

(* The one that initialises waits for the other two at most. *)
LEMMA InitHolderGoesOn ==
  ASSUME TypeOK, MutualExclusion, gInitMutex # NoThread
  PROVE  \E t \in Threads : pc[t] # "idle" /\ CanGoOn(t)
  <1>1. CASE gLoggingMutex # NoThread \/ g_dl_request_mutex # NoThread
    BY <1>1, LoggingHolderGoesOn, RequestHolderGoesOn
  <1>2. CASE gLoggingMutex = NoThread /\ g_dl_request_mutex = NoThread
    <2>1. PICK t \in Threads : gInitMutex = t
      BY DEF TypeOK, TypeMutexes
    <2>2. pc[t] \in InitSection
      BY <2>1 DEF MutualExclusion
    <2>3. pc[t] # "idle" /\ CanGoOn(t)
      BY <1>2, <2>2, HolderWaits, CanGoOnIf DEF InitSection, ConfigSection
    <2>4. QED
      BY <2>3
  <1>3. QED
    BY <1>1, <1>2

(* The threads in the library are never all waiting, however many there are:
   the holder of the latest mutex in the order is not. *)
THEOREM SomebodyGoesOnHolds == Spec => []SomebodyGoesOn
<1>1. ASSUME TypeOK, MutualExclusion, NEW u \in Threads, pc[u] # "idle"
      PROVE  \E t \in Threads : pc[t] # "idle" /\ CanGoOn(t)
  <2>1. CASE \/ gInitMutex # NoThread \/ g_dl_request_mutex # NoThread
             \/ gLoggingMutex # NoThread
    BY <1>1, <2>1, InitHolderGoesOn, RequestHolderGoesOn, LoggingHolderGoesOn
  <2>2. CASE /\ gInitMutex = NoThread /\ g_dl_request_mutex = NoThread
             /\ gLoggingMutex = NoThread
    <3>1. CanGoOn(u)
      BY <2>2, HolderWaits, CanGoOnIf
    <3>2. QED
      BY <1>1, <3>1
  <2>3. QED
    BY <2>1, <2>2
<1>2. TypeOK /\ MutualExclusion => SomebodyGoesOn
  BY <1>1 DEF SomebodyGoesOn
<1>3. QED
  BY <1>2, TypeCorrect, MutualExclusionHolds, PTL

-------------------------------------------------------------------------------
(* gInitMutex: debug.ini is read once, the socket is opened once. *)

(* Nobody reads debug.ini at the start, and there is no socket. *)
LEMMA InitOrderInit == Init => InitOrder
  BY DEF Init, InitOrder, ConfigSection

(* The thread that reads debug.ini, or tries the socket, holds gInitMutex. *)
LEMMA InitOrderStep ==
  TypeOK /\ MutualExclusion /\ InitOrder /\ [Next]_vars => InitOrder'
  <1> SUFFICES ASSUME TypeOK, MutualExclusion, InitOrder, [Next]_vars
               PROVE  InitOrder'
    OBVIOUS
  <1>0. /\ pc \in [Threads -> Labels]
        /\ \A t \in Threads : pc[t] \in InitSection => gInitMutex = t
        /\ NoThread \notin Threads
    BY ConstantTypes DEF TypeOK, TypeThreads, MutualExclusion
  <1> USE <1>0 DEF initVars, control, Goto, InitOrder, InitSection, ConfigSection
  <1>1. ASSUME NEW t \in Threads, NEW c \in Calls, Enter(t, c)
        PROVE  InitOrder'
    BY <1>1, CallStart DEF Enter
  <1>2. ASSUME NEW t \in Threads, InitLock(t)
        PROVE  InitOrder'
    BY <1>2 DEF InitLock
  <1>3. ASSUME NEW t \in Threads, ExtLock(t)
        PROVE  InitOrder'
    BY <1>3 DEF ExtLock
  <1>4. ASSUME NEW t \in Threads, DeinitLock(t)
        PROVE  InitOrder'
    BY <1>4 DEF DeinitLock
  <1>5. ASSUME NEW t \in Threads, DynInitLock(t)
        PROVE  InitOrder'
    BY <1>5 DEF DynInitLock
  <1>6. ASSUME NEW t \in Threads, DeinitRequestLock(t)
        PROVE  InitOrder'
    BY <1>6 DEF DeinitRequestLock
  <1>7. ASSUME NEW t \in Threads, ExtLoggingLock(t)
        PROVE  InitOrder'
    BY <1>7 DEF ExtLoggingLock
  <1>8. ASSUME NEW t \in Threads, ApplyLock(t)
        PROVE  InitOrder'
    BY <1>8 DEF ApplyLock
  <1>9. ASSUME NEW t \in Threads, LogLock(t)
        PROVE  InitOrder'
    BY <1>9 DEF LogLock
  <1>10. ASSUME NEW t \in Threads, LevelLock(t)
        PROVE  InitOrder'
    BY <1>10 DEF LevelLock
  <1>11. ASSUME NEW t \in Threads, PrivInit(t)
        PROVE  InitOrder'
    BY <1>11 DEF PrivInit
  <1>12. ASSUME NEW t \in Threads, OpenConfig(t)
        PROVE  InitOrder'
    BY <1>12 DEF OpenConfig
  <1>13. ASSUME NEW t \in Threads, ParseModule(t)
        PROVE  InitOrder'
    BY <1>13 DEF ParseModule
  <1>14. ASSUME NEW t \in Threads, ParseDefault(t)
        PROVE  InitOrder'
    BY <1>14 DEF ParseDefault
  <1>15. ASSUME NEW t \in Threads, ParseRootPriority(t)
        PROVE  InitOrder'
    BY <1>15 DEF ParseRootPriority
  <1>16. ASSUME NEW t \in Threads, ParseEnd(t)
        PROVE  InitOrder'
    BY <1>16 DEF ParseEnd
  <1>17. ASSUME NEW t \in Threads, ConfigEnd(t)
        PROVE  InitOrder'
    BY <1>17 DEF ConfigEnd
  <1>18. ASSUME NEW t \in Threads, DynInit(t)
        PROVE  InitOrder'
    BY <1>18 DEF DynInit
  <1>19. ASSUME NEW t \in Threads, SetInited(t)
        PROVE  InitOrder'
    BY <1>19 DEF SetInited
  <1>20. ASSUME NEW t \in Threads, InitUnlock(t)
        PROVE  InitOrder'
    BY <1>20 DEF InitUnlock, Return
  <1>21. ASSUME NEW t \in Threads, ExtApply(t)
        PROVE  InitOrder'
    BY <1>21 DEF ExtApply
  <1>22. ASSUME NEW t \in Threads, ExtUnlock(t)
        PROVE  InitOrder'
    BY <1>22 DEF ExtUnlock, Return
  <1>23. ASSUME NEW t \in Threads, DeinitClose(t)
        PROVE  InitOrder'
    BY <1>23 DEF DeinitClose
  <1>24. ASSUME NEW t \in Threads, LogTryLock(t)
        PROVE  InitOrder'
    BY <1>24 DEF LogTryLock, Return, AfterDrain
  <1>25. ASSUME NEW t \in Threads, Receive(t)
        PROVE  InitOrder'
    BY <1>25 DEF Receive
  <1>26. ASSUME NEW t \in Threads, Apply(t)
        PROVE  InitOrder'
    BY <1>26 DEF Apply
  <1>27. ASSUME NEW t \in Threads, DrainEnd(t)
        PROVE  InitOrder'
    BY <1>27 DEF DrainEnd, Return, AfterDrain
  <1>28. ASSUME NEW t \in Threads, LogRead(t)
        PROVE  InitOrder'
    BY <1>28 DEF LogRead
  <1>29. ASSUME NEW t \in Threads, LogInherit(t)
        PROVE  InitOrder'
    BY <1>29 DEF LogInherit
  <1>30. ASSUME NEW t \in Threads, LogCheck(t)
        PROVE  InitOrder'
    BY <1>30 DEF LogCheck
  <1>31. ASSUME NEW t \in Threads, LogUnlock(t)
        PROVE  InitOrder'
    BY <1>31 DEF LogUnlock, Return
  <1>32. ASSUME NEW t \in Threads, SetLevel(t)
        PROVE  InitOrder'
    BY <1>32 DEF SetLevel, Return
  <1>33. ASSUME NEW t \in Threads, GetLevel(t)
        PROVE  InitOrder'
    BY <1>33 DEF GetLevel, Return
  <1>34. ASSUME NEW t \in Threads, IsLevelEnabled(t)
        PROVE  InitOrder'
    BY <1>34 DEF IsLevelEnabled, Return
  <1>35. ASSUME NEW m \in Commands, Send(m)
        PROVE  InitOrder'
    BY <1>35 DEF Send
  <1>36. CASE UNCHANGED vars
    BY <1>36 DEF vars
  <1>37. QED
    BY <1>1, <1>2, <1>3, <1>4, <1>5, <1>6, <1>7, <1>8, <1>9, <1>10, <1>11,
       <1>12, <1>13, <1>14, <1>15, <1>16, <1>17, <1>18, <1>19, <1>20, <1>21,
       <1>22, <1>23, <1>24, <1>25, <1>26, <1>27, <1>28, <1>29, <1>30, <1>31,
       <1>32, <1>33, <1>34, <1>35, <1>36
    DEF Next, Lock, Step

(* debug.ini is read, and the socket opened, only before rdk_logger_init has
   succeeded. *)
THEOREM InitOrderHolds == Spec => []InitOrder
  BY InitOrderInit, InitOrderStep, TypeCorrect, MutualExclusionHolds, PTL DEF Spec

(* The thread that is about to open the socket finds it closed. *)
THEOREM NoSocketLeakedHolds == Spec => []NoSocketLeaked
<1>1. TypeOK /\ MutualExclusion /\ InitOrder => NoSocketLeaked
  BY DEF MutualExclusion, InitOrder, NoSocketLeaked, InitSection, ConfigSection
<1>2. QED
  BY <1>1, TypeCorrect, MutualExclusionHolds, InitOrderHolds, PTL

(* What no step does once rdk_logger_init has succeeded. *)
LEMMA StepOnceInited ==
  ASSUME InitOrder, isLogInited, [Next]_vars
  PROVE  /\ gRootPriority' = gRootPriority
         /\ line' = line
         /\ isLogInited'
         /\ ~socket => ~socket'
  <1>0. \A t \in Threads : pc[t] \notin ConfigSection
    BY DEF InitOrder
  <1> DEFINE Goal == /\ gRootPriority' = gRootPriority
                     /\ line' = line
                     /\ isLogInited'
                     /\ ~socket => ~socket'
  <1> USE <1>0 DEF initVars, levels, control, ConfigSection, Goal
  <1>1. ASSUME NEW t \in Threads, NEW c \in Calls, Enter(t, c)
        PROVE  Goal
    BY <1>1 DEF Enter
  <1>2. ASSUME NEW t \in Threads, InitLock(t)
        PROVE  Goal
    BY <1>2 DEF InitLock
  <1>3. ASSUME NEW t \in Threads, ExtLock(t)
        PROVE  Goal
    BY <1>3 DEF ExtLock
  <1>4. ASSUME NEW t \in Threads, DeinitLock(t)
        PROVE  Goal
    BY <1>4 DEF DeinitLock
  <1>5. ASSUME NEW t \in Threads, DynInitLock(t)
        PROVE  Goal
    BY <1>5 DEF DynInitLock
  <1>6. ASSUME NEW t \in Threads, DeinitRequestLock(t)
        PROVE  Goal
    BY <1>6 DEF DeinitRequestLock
  <1>7. ASSUME NEW t \in Threads, ExtLoggingLock(t)
        PROVE  Goal
    BY <1>7 DEF ExtLoggingLock
  <1>8. ASSUME NEW t \in Threads, ApplyLock(t)
        PROVE  Goal
    BY <1>8 DEF ApplyLock
  <1>9. ASSUME NEW t \in Threads, LogLock(t)
        PROVE  Goal
    BY <1>9 DEF LogLock
  <1>10. ASSUME NEW t \in Threads, LevelLock(t)
        PROVE  Goal
    BY <1>10 DEF LevelLock
  <1>11. ASSUME NEW t \in Threads, PrivInit(t)
        PROVE  Goal
    BY <1>11 DEF PrivInit
  <1>12. ASSUME NEW t \in Threads, OpenConfig(t)
        PROVE  Goal
    BY <1>12 DEF OpenConfig
  <1>13. ASSUME NEW t \in Threads, ParseModule(t)
        PROVE  Goal
    BY <1>13 DEF ParseModule
  <1>14. ASSUME NEW t \in Threads, ParseDefault(t)
        PROVE  Goal
    BY <1>14 DEF ParseDefault
  <1>15. ASSUME NEW t \in Threads, ParseRootPriority(t)
        PROVE  Goal
    BY <1>15 DEF ParseRootPriority
  <1>16. ASSUME NEW t \in Threads, ParseEnd(t)
        PROVE  Goal
    BY <1>16 DEF ParseEnd
  <1>17. ASSUME NEW t \in Threads, ConfigEnd(t)
        PROVE  Goal
    BY <1>17 DEF ConfigEnd
  <1>18. ASSUME NEW t \in Threads, DynInit(t)
        PROVE  Goal
    BY <1>18 DEF DynInit
  <1>19. ASSUME NEW t \in Threads, SetInited(t)
        PROVE  Goal
    BY <1>19 DEF SetInited
  <1>20. ASSUME NEW t \in Threads, InitUnlock(t)
        PROVE  Goal
    BY <1>20 DEF InitUnlock, Return
  <1>21. ASSUME NEW t \in Threads, ExtApply(t)
        PROVE  Goal
    BY <1>21 DEF ExtApply
  <1>22. ASSUME NEW t \in Threads, ExtUnlock(t)
        PROVE  Goal
    BY <1>22 DEF ExtUnlock, Return
  <1>23. ASSUME NEW t \in Threads, DeinitClose(t)
        PROVE  Goal
    BY <1>23 DEF DeinitClose
  <1>24. ASSUME NEW t \in Threads, LogTryLock(t)
        PROVE  Goal
    BY <1>24 DEF LogTryLock, Return, AfterDrain
  <1>25. ASSUME NEW t \in Threads, Receive(t)
        PROVE  Goal
    BY <1>25 DEF Receive
  <1>26. ASSUME NEW t \in Threads, Apply(t)
        PROVE  Goal
    BY <1>26 DEF Apply
  <1>27. ASSUME NEW t \in Threads, DrainEnd(t)
        PROVE  Goal
    BY <1>27 DEF DrainEnd, Return, AfterDrain
  <1>28. ASSUME NEW t \in Threads, LogRead(t)
        PROVE  Goal
    BY <1>28 DEF LogRead
  <1>29. ASSUME NEW t \in Threads, LogInherit(t)
        PROVE  Goal
    BY <1>29 DEF LogInherit
  <1>30. ASSUME NEW t \in Threads, LogCheck(t)
        PROVE  Goal
    BY <1>30 DEF LogCheck
  <1>31. ASSUME NEW t \in Threads, LogUnlock(t)
        PROVE  Goal
    BY <1>31 DEF LogUnlock, Return
  <1>32. ASSUME NEW t \in Threads, SetLevel(t)
        PROVE  Goal
    BY <1>32 DEF SetLevel, Return
  <1>33. ASSUME NEW t \in Threads, GetLevel(t)
        PROVE  Goal
    BY <1>33 DEF GetLevel, Return
  <1>34. ASSUME NEW t \in Threads, IsLevelEnabled(t)
        PROVE  Goal
    BY <1>34 DEF IsLevelEnabled
  <1>35. ASSUME NEW m \in Commands, Send(m)
        PROVE  Goal
    BY <1>35 DEF Send
  <1>36. CASE UNCHANGED vars
    BY <1>36 DEF vars
  <1>37. QED
    BY <1>1, <1>2, <1>3, <1>4, <1>5, <1>6, <1>7, <1>8, <1>9, <1>10, <1>11,
       <1>12, <1>13, <1>14, <1>15, <1>16, <1>17, <1>18, <1>19, <1>20, <1>21,
       <1>22, <1>23, <1>24, <1>25, <1>26, <1>27, <1>28, <1>29, <1>30, <1>31,
       <1>32, <1>33, <1>34, <1>35, <1>36
    DEF Next, Lock, Step

(* debug.ini is read only once. *)
THEOREM ConfiguredOnceHolds == Spec => ConfiguredOnce
<1>1. InitOrder /\ [Next]_vars =>
        [isLogInited =>
           /\ gRootPriority' = gRootPriority
           /\ line' = line
           /\ isLogInited']_vars
  BY StepOnceInited
<1>2. QED
  BY <1>1, InitOrderHolds, PTL DEF Spec, ConfiguredOnce

(* A socket that has been closed is not opened again. *)
THEOREM ClosedForGoodHolds == Spec => ClosedForGood
<1>1. InitOrder /\ [Next]_vars => [isLogInited /\ ~socket => ~socket']_vars
  BY StepOnceInited
<1>2. QED
  BY <1>1, InitOrderHolds, PTL DEF Spec, ClosedForGood

(***************************************************************************)
(* Requests take effect in the order in which they were sent.              *)
(***************************************************************************)

(* The requests are in order and numbered no higher than what was sent. *)
RequestOrder == RequestsInOrder /\ RequestNumbers

(* Nothing has been sent at the start. *)
LEMMA RequestOrderInit == Init => RequestOrder
  <1> SUFFICES ASSUME Init PROVE RequestOrder
    OBVIOUS
  <1>1. DOMAIN queue = {} /\ sent = 0 /\ applied = 0
    BY DEF Init
  <1>2. \A t \in Threads : ~Applying(t)
    BY DEF Init, Applying
  <1>3. QED
    BY <1>1, <1>2 DEF RequestOrder, RequestsInOrder, RequestNumbers

(* At most one thread has a request in its hands. *)
LEMMA OneApplying ==
  ASSUME MutualExclusion, NEW t \in Threads, pc[t] \in RequestSection,
         NEW u \in Threads, Applying(u)
  PROVE  u = t
  BY DEF MutualExclusion, Applying, RequestSection

(* Every step keeps the order of the requests: only the thread that holds
   g_dl_request_mutex takes one out, and it applies it before it goes on. *)
LEMMA RequestOrderStep ==
  ASSUME TypeOK, MutualExclusion, RequestOrder, [Next]_vars
  PROVE  RequestOrder'
  <1>0. /\ pc \in [Threads -> Labels] /\ message \in [Threads -> Requests]
        /\ queue \in Seq(Requests) /\ sent \in Nat /\ applied \in Nat
    BY DEF TypeOK, TypeThreads, TypeControl
  <1>r. \A r \in Requests : r.id \in Nat
    BY DEF Requests
  <1>e. \A i \in 1..Len(queue) : queue[i] \in Requests
    BY <1>0, ElementOfSeq
  <1>q. /\ DOMAIN queue = 1..Len(queue) /\ Len(queue) \in Nat
        /\ \A i \in DOMAIN queue : queue[i].id \in Nat
        /\ \A t \in Threads : message[t].id \in Nat
    BY <1>0, <1>r, <1>e
  <1> USE <1>0 DEF control, Goto, RequestOrder, RequestsInOrder, RequestNumbers,
          Applying
  <1>1. ASSUME NEW t \in Threads, NEW c \in Calls, Enter(t, c)
        PROVE  RequestOrder'
    BY <1>1, CallStart DEF Enter
  <1>2. ASSUME NEW t \in Threads, InitLock(t)
        PROVE  RequestOrder'
    BY <1>2 DEF InitLock
  <1>3. ASSUME NEW t \in Threads, ExtLock(t)
        PROVE  RequestOrder'
    BY <1>3 DEF ExtLock
  <1>4. ASSUME NEW t \in Threads, DeinitLock(t)
        PROVE  RequestOrder'
    BY <1>4 DEF DeinitLock
  <1>5. ASSUME NEW t \in Threads, DynInitLock(t)
        PROVE  RequestOrder'
    BY <1>5 DEF DynInitLock
  <1>6. ASSUME NEW t \in Threads, DeinitRequestLock(t)
        PROVE  RequestOrder'
    BY <1>6 DEF DeinitRequestLock
  <1>7. ASSUME NEW t \in Threads, ExtLoggingLock(t)
        PROVE  RequestOrder'
    BY <1>7 DEF ExtLoggingLock
  <1>8. ASSUME NEW t \in Threads, ApplyLock(t)
        PROVE  RequestOrder'
    BY <1>8 DEF ApplyLock
  <1>9. ASSUME NEW t \in Threads, LogLock(t)
        PROVE  RequestOrder'
    BY <1>9 DEF LogLock
  <1>10. ASSUME NEW t \in Threads, LevelLock(t)
        PROVE  RequestOrder'
    BY <1>10 DEF LevelLock
  <1>11. ASSUME NEW t \in Threads, PrivInit(t)
        PROVE  RequestOrder'
    BY <1>11 DEF PrivInit
  <1>12. ASSUME NEW t \in Threads, OpenConfig(t)
        PROVE  RequestOrder'
    BY <1>12 DEF OpenConfig
  <1>13. ASSUME NEW t \in Threads, ParseModule(t)
        PROVE  RequestOrder'
    BY <1>13 DEF ParseModule
  <1>14. ASSUME NEW t \in Threads, ParseDefault(t)
        PROVE  RequestOrder'
    BY <1>14 DEF ParseDefault
  <1>15. ASSUME NEW t \in Threads, ParseRootPriority(t)
        PROVE  RequestOrder'
    BY <1>15 DEF ParseRootPriority
  <1>16. ASSUME NEW t \in Threads, ParseEnd(t)
        PROVE  RequestOrder'
    BY <1>16 DEF ParseEnd
  <1>17. ASSUME NEW t \in Threads, ConfigEnd(t)
        PROVE  RequestOrder'
    BY <1>17 DEF ConfigEnd
  <1>18. ASSUME NEW t \in Threads, DynInit(t)
        PROVE  RequestOrder'
    BY <1>18 DEF DynInit
  <1>19. ASSUME NEW t \in Threads, SetInited(t)
        PROVE  RequestOrder'
    BY <1>19 DEF SetInited
  <1>20. ASSUME NEW t \in Threads, InitUnlock(t)
        PROVE  RequestOrder'
    BY <1>20 DEF InitUnlock, Return
  <1>21. ASSUME NEW t \in Threads, ExtApply(t)
        PROVE  RequestOrder'
    BY <1>21 DEF ExtApply
  <1>22. ASSUME NEW t \in Threads, ExtUnlock(t)
        PROVE  RequestOrder'
    BY <1>22 DEF ExtUnlock, Return
  <1>23. ASSUME NEW t \in Threads, DeinitClose(t)
        PROVE  RequestOrder'
    <2>1. DOMAIN queue' = {} /\ UNCHANGED <<applied, sent, message>>
      BY <1>23 DEF DeinitClose
    <2>2. \A u \in Threads : Applying(u)' => Applying(u)
      BY <1>23 DEF DeinitClose
    <2>3. QED
      BY <2>1, <2>2
  <1>24. ASSUME NEW t \in Threads, LogTryLock(t)
        PROVE  RequestOrder'
    BY <1>24 DEF LogTryLock, Return, AfterDrain
  <1>25. ASSUME NEW t \in Threads, Receive(t)
        PROVE  RequestOrder'
    <2>1. /\ queue # << >> /\ pc[t] = "drain" /\ 1 \in DOMAIN queue
          /\ Head(queue) = queue[1]
      BY <1>25, <1>q DEF Receive
    <2>2. /\ queue' = Tail(queue) /\ sent' = sent /\ applied' = applied
          /\ message' = [message EXCEPT ![t] = queue[1]]
          /\ \A u \in Threads : u # t => pc'[u] = pc[u]
      BY <1>25, <2>1 DEF Receive
    <2>3. /\ DOMAIN queue' = 1..(Len(queue) - 1)
          /\ \A i \in DOMAIN queue' : queue'[i] = queue[i + 1] /\ i + 1 \in DOMAIN queue
      BY <1>q, <2>1, <2>2
    <2>4. \A u \in Threads : u # t => ~Applying(u)
      BY <2>1, OneApplying DEF RequestSection
    <2>5. \A u \in Threads : Applying(u)' => u = t /\ message'[u] = queue[1]
      BY <2>2, <2>4
    <2>a. \A i \in DOMAIN queue' : 1 < i + 1 /\ queue[1].id < queue[i + 1].id
      BY <1>q, <2>1, <2>3
    <2>6. \A i \in DOMAIN queue' : /\ queue'[i].id > queue[1].id
                                   /\ queue'[i].id > applied
                                   /\ queue'[i].id <= sent
      BY <1>q, <2>1, <2>3, <2>a
    <2>7. \A i, j \in DOMAIN queue' : i < j => queue'[i].id < queue'[j].id
      BY <1>q, <2>3
    <2>8. QED
      BY <1>q, <2>1, <2>2, <2>5, <2>6, <2>7
  <1>26. ASSUME NEW t \in Threads, Apply(t)
        PROVE  RequestOrder'
    <2>1. /\ pc[t] = "apply" /\ applied' = message[t].id
          /\ message' = [message EXCEPT ![t] = NoMessage]
          /\ UNCHANGED <<queue, sent>>
          /\ pc' = [pc EXCEPT ![t] = "drain"]
      BY <1>26 DEF Apply
    <2>2. \A u \in Threads : ~Applying(u)'
      BY <2>1, OneApplying DEF RequestSection
    <2>3. QED
      BY <2>1, <2>2
  <1>27. ASSUME NEW t \in Threads, DrainEnd(t)
        PROVE  RequestOrder'
    BY <1>27 DEF DrainEnd, Return, AfterDrain
  <1>28. ASSUME NEW t \in Threads, LogRead(t)
        PROVE  RequestOrder'
    BY <1>28 DEF LogRead
  <1>29. ASSUME NEW t \in Threads, LogInherit(t)
        PROVE  RequestOrder'
    BY <1>29 DEF LogInherit
  <1>30. ASSUME NEW t \in Threads, LogCheck(t)
        PROVE  RequestOrder'
    BY <1>30 DEF LogCheck
  <1>31. ASSUME NEW t \in Threads, LogUnlock(t)
        PROVE  RequestOrder'
    BY <1>31 DEF LogUnlock, Return
  <1>32. ASSUME NEW t \in Threads, SetLevel(t)
        PROVE  RequestOrder'
    BY <1>32 DEF SetLevel, Return
  <1>33. ASSUME NEW t \in Threads, GetLevel(t)
        PROVE  RequestOrder'
    BY <1>33 DEF GetLevel, Return
  <1>34. ASSUME NEW t \in Threads, IsLevelEnabled(t)
        PROVE  RequestOrder'
    BY <1>34 DEF IsLevelEnabled, Return
  <1>35. ASSUME NEW m \in Commands, Send(m)
        PROVE  RequestOrder'
    <2> DEFINE new == [id |-> sent + 1, cat |-> m.cat, level |-> m.level,
                       valid |-> m.valid]
    <2>1. /\ queue' = Append(queue, new) /\ sent' = sent + 1
          /\ UNCHANGED <<applied, message, pc>>
      BY <1>35 DEF Send
    <2>2. /\ DOMAIN queue' = 1..(Len(queue) + 1)
          /\ \A i \in DOMAIN queue : queue'[i] = queue[i]
          /\ queue'[Len(queue) + 1] = new
      BY <1>q, <2>1
    <2>3. \A i \in DOMAIN queue' :
            \/ i \in DOMAIN queue /\ queue'[i] = queue[i]
            \/ i = Len(queue) + 1 /\ queue'[i].id = sent + 1
      BY <1>q, <2>2
    <2>4. \A i \in DOMAIN queue' : queue'[i].id > applied /\ queue'[i].id <= sent'
      BY <1>q, <2>1, <2>3
    <2>5. \A i, j \in DOMAIN queue' : i < j => queue'[i].id < queue'[j].id
      BY <1>q, <2>3
    <2>6. \A t \in Threads : Applying(t) =>
            \A i \in DOMAIN queue' : queue'[i].id > message[t].id
      BY <1>q, <2>3
    <2>7. QED
      BY <1>q, <2>1, <2>4, <2>5, <2>6
  <1>36. CASE UNCHANGED vars
    BY <1>36 DEF vars
  <1>37. QED
    BY <1>1, <1>2, <1>3, <1>4, <1>5, <1>6, <1>7, <1>8, <1>9, <1>10, <1>11,
       <1>12, <1>13, <1>14, <1>15, <1>16, <1>17, <1>18, <1>19, <1>20, <1>21,
       <1>22, <1>23, <1>24, <1>25, <1>26, <1>27, <1>28, <1>29, <1>30, <1>31,
       <1>32, <1>33, <1>34, <1>35, <1>36
    DEF Next, Lock, Step

(* Every request takes effect at most once, and none overtakes another. *)
THEOREM RequestsInOrderHolds == Spec => []RequestsInOrder
<1>1. TypeOK /\ MutualExclusion /\ RequestOrder /\ [Next]_vars => RequestOrder'
  BY RequestOrderStep
<1>2. RequestOrder => RequestsInOrder
  BY DEF RequestOrder
<1>3. QED
  BY <1>1, <1>2, RequestOrderInit, TypeCorrect, MutualExclusionHolds, PTL DEF Spec
(***************************************************************************)
(* A call takes a bounded number of steps.                                 *)
(***************************************************************************)

(* Where a call has dealt with a part of the file only. *)
FileLabels == {"priv_init", "open_config", "parse", "parse_default"}

(* The moves that read no line of a file, touch no queue and end no call. *)
InitMoves ==
  {<<"init_lock", "init_unlock">>, <<"init_lock", "priv_init">>,
   <<"priv_init", "open_config">>, <<"open_config", "parse">>,
   <<"open_config", "config_end">>, <<"parse_default", "parse">>,
   <<"parse", "config_end">>, <<"dyn_init_lock", "dyn_init">>,
   <<"dyn_init", "inited">>, <<"inited", "init_unlock">>,
   <<"init_unlock", "ext_lock">>, <<"ext_lock", "ext_unlock">>,
   <<"ext_lock", "ext_logging_lock">>, <<"ext_logging_lock", "ext_apply">>,
   <<"ext_apply", "ext_unlock">>, <<"deinit_lock", "init_unlock">>,
   <<"deinit_lock", "deinit_request_lock">>,
   <<"deinit_request_lock", "deinit_close">>}

LogMoves ==
  {<<"log_trylock", "drain">>, <<"log_trylock", "log_lock">>,
   <<"apply_lock", "apply">>, <<"apply", "drain">>, <<"drain", "log_lock">>,
   <<"log_lock", "log_read">>, <<"log_read", "log_inherit">>,
   <<"log_read", "log_check">>, <<"log_inherit", "log_check">>,
   <<"log_check", "log_unlock">>, <<"set_lock", "set">>,
   <<"get_lock", "get">>, <<"enabled_lock", "enabled">>}

(* The bound is a number, and zero outside the library only. *)
LEMMA StepsFromType ==
  ASSUME NEW label \in Labels, NEW lines \in Nat, NEW left \in Nat,
         NEW requests \in Nat
  PROVE  /\ StepsFrom(label, lines, left, requests) \in Nat
         /\ label # "idle" => StepsFrom(label, lines, left, requests) >= 1
         /\ label = "idle" => StepsFrom(label, lines, left, requests) = 0
  BY DEF StepsFrom

(* Lines that have been read lower the bound; a request that has arrived
   raises it by three. *)
LEMMA StepsFromGrows ==
  ASSUME NEW label \in Labels, NEW lines \in Nat, NEW left \in Nat,
         NEW requests \in Nat, NEW less \in Nat, NEW more \in Nat,
         NEW arrived \in Nat,
         less <= left \/ label \notin FileLabels,
         more <= requests + arrived
  PROVE  StepsFrom(label, lines, less, more)
           <= StepsFrom(label, lines, left, requests) + 3 * arrived
  BY DEF StepsFrom, FileLabels

(* Every move brings a call nearer to its end. *)
LEMMA MovesCost ==
  ASSUME NEW a \in Labels, NEW b \in Labels, <<a, b>> \in InitMoves \cup LogMoves,
         NEW lines \in Nat, NEW left \in Nat, left <= lines,
         NEW requests \in Nat
  PROVE  StepsFrom(b, lines, left, requests) < StepsFrom(a, lines, left, requests)
  <1>1. CASE <<a, b>> \in InitMoves
    BY <1>1 DEF StepsFrom, InitMoves
  <1>2. CASE <<a, b>> \in LogMoves
    BY <1>2 DEF StepsFrom, LogMoves
  <1>3. QED
    BY <1>1, <1>2

(* So does a line that is read, *)
LEMMA LineCost ==
  ASSUME NEW b \in {"parse", "parse_default"}, NEW lines \in Nat,
         NEW left \in Nat, NEW less \in Nat, less < left, NEW requests \in Nat
  PROVE  StepsFrom(b, lines, less, requests) < StepsFrom("parse", lines, left, requests)
  BY DEF StepsFrom

(* a datagram that is taken out of the socket, *)
LEMMA RequestCost ==
  ASSUME NEW b \in {"drain", "apply_lock"}, NEW lines \in Nat,
         NEW left \in Nat, NEW requests \in Nat, NEW fewer \in Nat,
         fewer < requests
  PROVE  StepsFrom(b, lines, left, fewer) < StepsFrom("drain", lines, left, requests)
  BY DEF StepsFrom

(* and the end of the file or of the socket, whatever it leaves. *)
LEMMA CloseCost ==
  ASSUME NEW a, NEW b,
         \/ a = "config_end" /\ b \in {"init_unlock", "dyn_init_lock"}
         \/ a = "deinit_close" /\ b = "init_unlock",
         NEW lines \in Nat, NEW left \in Nat, NEW less \in Nat,
         NEW requests \in Nat, NEW fewer \in Nat
  PROVE  StepsFrom(b, lines, less, fewer) < StepsFrom(a, lines, left, requests)
  BY DEF StepsFrom

(* What a step of t leaves alone. *)
OthersKept(t) ==
  /\ sent' = sent
  /\ \A u \in Threads \ {t} : pc'[u] = pc[u] /\ call'[u] = call[u]
  /\ queue' \in {queue, Tail(queue), << >>}
  /\ queue' = Tail(queue) => queue' = queue \/ queue # << >>
  /\ line' \in {line, line + 1} \/ pc[t] = "config_end"

(* The ways in which t gets nearer to the end of its call. *)
Moves(t) ==
  /\ <<pc[t], pc'[t]>> \in InitMoves \cup LogMoves
  /\ call'[t] = call[t] /\ line' = line /\ queue' = queue

ReadsLine(t) ==
  /\ pc[t] = "parse" /\ pc'[t] \in {"parse", "parse_default"}
  /\ call'[t] = call[t] /\ line \in DOMAIN Lines(t) /\ line' = line + 1
  /\ queue' = queue

TakesRequest(t) ==
  /\ pc[t] = "drain" /\ pc'[t] \in {"drain", "apply_lock"}
  /\ call'[t] = call[t] /\ line' = line
  /\ queue # << >> /\ queue' = Tail(queue)

Closes(t) ==
  /\ \/ pc[t] = "config_end" /\ pc'[t] \in {"init_unlock", "dyn_init_lock"}
     \/ pc[t] = "deinit_close" /\ pc'[t] = "init_unlock"
  /\ call'[t] = call[t]

Returns(t) == pc[t] # "idle" /\ pc'[t] = "idle"

(* No step of a thread touches the place or the arguments of another, sends a
   request or reads a line twice. *)
LEMMA OthersAreKept ==
  ASSUME TypeOK, NEW t \in Threads, Lock(t) \/ Step(t)
  PROVE  OthersKept(t)
  <1>0. pc \in [Threads -> Labels] /\ call \in [Threads -> Calls \cup {NoCall}]
    BY DEF TypeOK, TypeThreads
  <1> USE <1>0 DEF OthersKept, Goto, initVars, control, calls
  <1>1. CASE InitLock(t)
    BY <1>1 DEF InitLock
  <1>2. CASE ExtLock(t)
    BY <1>2 DEF ExtLock
  <1>3. CASE DeinitLock(t)
    BY <1>3 DEF DeinitLock
  <1>4. CASE DynInitLock(t)
    BY <1>4 DEF DynInitLock
  <1>5. CASE DeinitRequestLock(t)
    BY <1>5 DEF DeinitRequestLock
  <1>6. CASE ExtLoggingLock(t)
    BY <1>6 DEF ExtLoggingLock
  <1>7. CASE ApplyLock(t)
    BY <1>7 DEF ApplyLock
  <1>8. CASE LogLock(t)
    BY <1>8 DEF LogLock
  <1>9. CASE LevelLock(t)
    BY <1>9 DEF LevelLock
  <1>10. CASE PrivInit(t)
    BY <1>10 DEF PrivInit
  <1>11. CASE OpenConfig(t)
    BY <1>11 DEF OpenConfig
  <1>12. CASE ParseModule(t)
    BY <1>12 DEF ParseModule
  <1>13. CASE ParseDefault(t)
    BY <1>13 DEF ParseDefault
  <1>14. CASE ParseRootPriority(t)
    BY <1>14 DEF ParseRootPriority
  <1>15. CASE ParseEnd(t)
    BY <1>15 DEF ParseEnd
  <1>16. CASE ConfigEnd(t)
    BY <1>16 DEF ConfigEnd
  <1>17. CASE DynInit(t)
    BY <1>17 DEF DynInit
  <1>18. CASE SetInited(t)
    BY <1>18 DEF SetInited
  <1>19. CASE InitUnlock(t)
    BY <1>19 DEF InitUnlock, Return
  <1>20. CASE ExtApply(t)
    BY <1>20 DEF ExtApply
  <1>21. CASE ExtUnlock(t)
    BY <1>21 DEF ExtUnlock, Return
  <1>22. CASE DeinitClose(t)
    BY <1>22 DEF DeinitClose
  <1>23. CASE LogTryLock(t)
    BY <1>23 DEF LogTryLock, Return, AfterDrain
  <1>24. CASE Receive(t)
    BY <1>24 DEF Receive
  <1>25. CASE Apply(t)
    BY <1>25 DEF Apply
  <1>26. CASE DrainEnd(t)
    BY <1>26 DEF DrainEnd, Return, AfterDrain
  <1>27. CASE LogRead(t)
    BY <1>27 DEF LogRead
  <1>28. CASE LogInherit(t)
    BY <1>28 DEF LogInherit
  <1>29. CASE LogCheck(t)
    BY <1>29 DEF LogCheck
  <1>30. CASE LogUnlock(t)
    BY <1>30 DEF LogUnlock, Return
  <1>31. CASE SetLevel(t)
    BY <1>31 DEF SetLevel, Return
  <1>32. CASE GetLevel(t)
    BY <1>32 DEF GetLevel, Return
  <1>33. CASE IsLevelEnabled(t)
    BY <1>33 DEF IsLevelEnabled, Return
  <1>34. QED
    BY <1>1, <1>2, <1>3, <1>4, <1>5, <1>6, <1>7, <1>8, <1>9, <1>10, <1>11,
       <1>12, <1>13, <1>14, <1>15, <1>16, <1>17, <1>18, <1>19, <1>20, <1>21,
       <1>22, <1>23, <1>24, <1>25, <1>26, <1>27, <1>28, <1>29, <1>30, <1>31,
       <1>32, <1>33
    DEF Lock, Step

(* Every step of a thread is one of the ways above. *)
LEMMA StepMoves ==
  ASSUME TypeOK, NEW t \in Threads, Lock(t) \/ Step(t)
  PROVE  Moves(t) \/ ReadsLine(t) \/ TakesRequest(t) \/ Closes(t) \/ Returns(t)
  <1>0. pc \in [Threads -> Labels] /\ call \in [Threads -> Calls \cup {NoCall}]
    BY DEF TypeOK, TypeThreads
  <1> USE <1>0 DEF Moves, ReadsLine, TakesRequest, Closes, Returns, InitMoves,
          LogMoves, Goto, initVars, control, calls
  <1>1. CASE InitLock(t)
    BY <1>1 DEF InitLock
  <1>2. CASE ExtLock(t)
    BY <1>2 DEF ExtLock
  <1>3. CASE DeinitLock(t)
    BY <1>3 DEF DeinitLock
  <1>4. CASE DynInitLock(t)
    BY <1>4 DEF DynInitLock
  <1>5. CASE DeinitRequestLock(t)
    BY <1>5 DEF DeinitRequestLock
  <1>6. CASE ExtLoggingLock(t)
    BY <1>6 DEF ExtLoggingLock
  <1>7. CASE ApplyLock(t)
    BY <1>7 DEF ApplyLock
  <1>8. CASE LogLock(t)
    BY <1>8 DEF LogLock
  <1>9. CASE LevelLock(t)
    BY <1>9 DEF LevelLock
  <1>10. CASE PrivInit(t)
    BY <1>10 DEF PrivInit
  <1>11. CASE OpenConfig(t)
    BY <1>11 DEF OpenConfig
  <1>12. CASE ParseModule(t)
    BY <1>12 DEF ParseModule
  <1>13. CASE ParseDefault(t)
    BY <1>13 DEF ParseDefault
  <1>14. CASE ParseRootPriority(t)
    BY <1>14 DEF ParseRootPriority
  <1>15. CASE ParseEnd(t)
    BY <1>15 DEF ParseEnd
  <1>16. CASE ConfigEnd(t)
    BY <1>16 DEF ConfigEnd
  <1>17. CASE DynInit(t)
    BY <1>17 DEF DynInit
  <1>18. CASE SetInited(t)
    BY <1>18 DEF SetInited
  <1>19. CASE InitUnlock(t)
    BY <1>19 DEF InitUnlock, Return
  <1>20. CASE ExtApply(t)
    BY <1>20 DEF ExtApply
  <1>21. CASE ExtUnlock(t)
    BY <1>21 DEF ExtUnlock, Return
  <1>22. CASE DeinitClose(t)
    BY <1>22 DEF DeinitClose
  <1>23. CASE LogTryLock(t)
    BY <1>23 DEF LogTryLock, Return, AfterDrain
  <1>24. CASE Receive(t)
    BY <1>24 DEF Receive
  <1>25. CASE Apply(t)
    BY <1>25 DEF Apply
  <1>26. CASE DrainEnd(t)
    BY <1>26 DEF DrainEnd, Return, AfterDrain
  <1>27. CASE LogRead(t)
    BY <1>27 DEF LogRead
  <1>28. CASE LogInherit(t)
    BY <1>28 DEF LogInherit
  <1>29. CASE LogCheck(t)
    BY <1>29 DEF LogCheck
  <1>30. CASE LogUnlock(t)
    BY <1>30 DEF LogUnlock, Return
  <1>31. CASE SetLevel(t)
    BY <1>31 DEF SetLevel, Return
  <1>32. CASE GetLevel(t)
    BY <1>32 DEF GetLevel, Return
  <1>33. CASE IsLevelEnabled(t)
    BY <1>33 DEF IsLevelEnabled, Return
  <1>34. QED
    BY <1>1, <1>2, <1>3, <1>4, <1>5, <1>6, <1>7, <1>8, <1>9, <1>10, <1>11,
       <1>12, <1>13, <1>14, <1>15, <1>16, <1>17, <1>18, <1>19, <1>20, <1>21,
       <1>22, <1>23, <1>24, <1>25, <1>26, <1>27, <1>28, <1>29, <1>30, <1>31,
       <1>32, <1>33
    DEF Lock, Step

(* The number of lines that are left of a file of n lines. *)
LEMMA LinesLeftIn ==
  ASSUME TypeOK, NEW t
  PROVE  /\ Len(Lines(t)) \in Nat /\ DOMAIN Lines(t) = 1..Len(Lines(t))
         /\ LinesLeft(t) \in Nat /\ LinesLeft(t) <= Len(Lines(t))
         /\ Len(queue) \in Nat /\ line \in Nat \ {0}
  <1>1. Lines(t) \in Seq(LineRecords)
    BY LoggerAssumption DEF Lines
  <1>2. line \in Nat \ {0} /\ queue \in Seq(Requests)
    BY DEF TypeOK, TypeInit, TypeControl
  <1>3. QED
    BY <1>1, <1>2 DEF LinesLeft

(* A call that goes on is about the same file. *)
LEMMA FileKept ==
  ASSUME TypeOK, TypeOK', NEW t, call'[t] = call[t]
  PROVE  /\ Len(Lines(t))' = Len(Lines(t))
         /\ LinesLeft(t)' \in Nat
         /\ LinesLeft(t)' = IF line' <= Len(Lines(t))
                            THEN Len(Lines(t)) + 1 - line' ELSE 0
         /\ Len(queue') \in Nat
  <1>1. Lines(t)' = Lines(t)
    BY DEF Lines, File
  <1>2. line' \in Nat \ {0} /\ queue' \in Seq(Requests)
    BY DEF TypeOK, TypeInit, TypeControl
  <1>3. QED
    BY <1>1, <1>2, LinesLeftIn DEF LinesLeft

(* A step of t brings its call nearer to its end. *)
LEMMA OwnStepCosts ==
  ASSUME TypeOK, TypeOK', NEW t \in Threads, Lock(t) \/ Step(t)
  PROVE  StepsLeft(t)' < StepsLeft(t)
  <1>1. pc[t] \in Labels /\ pc'[t] \in Labels
    BY DEF TypeOK, TypeThreads
  <1>2. StepsLeft(t) = StepsFrom(pc[t], Len(Lines(t)), LinesLeft(t), Len(queue))
    BY DEF StepsLeft
  <1>3. call'[t] = call[t] =>
          StepsLeft(t)' = StepsFrom(pc'[t], Len(Lines(t)), LinesLeft(t)', Len(queue'))
    BY FileKept DEF StepsLeft
  <1>4. CASE Moves(t)
    <2>1. LinesLeft(t)' = LinesLeft(t) /\ queue' = queue /\ call'[t] = call[t]
      BY <1>4, FileKept DEF Moves, LinesLeft
    <2>2. QED
      BY <1>1, <1>2, <1>3, <1>4, <2>1, MovesCost, LinesLeftIn DEF Moves
  <1>5. CASE ReadsLine(t)
    <2>1. LinesLeft(t)' < LinesLeft(t)
      BY <1>5, FileKept, LinesLeftIn DEF ReadsLine, LinesLeft
    <2>2. QED
      BY <1>2, <1>3, <1>5, <2>1, LineCost, FileKept, LinesLeftIn DEF ReadsLine
  <1>6. CASE TakesRequest(t)
    <2>1. LinesLeft(t)' = LinesLeft(t) /\ call'[t] = call[t]
      BY <1>6, FileKept DEF TakesRequest, LinesLeft
    <2>2. Len(queue') < Len(queue)
      BY <1>6 DEF TakesRequest, TypeOK, TypeControl
    <2>3. QED
      BY <1>2, <1>3, <1>6, <2>1, <2>2, RequestCost, FileKept, LinesLeftIn
         DEF TakesRequest
  <1>7. CASE Closes(t)
    BY <1>2, <1>3, <1>7, CloseCost, FileKept, LinesLeftIn DEF Closes
  <1>8. CASE Returns(t)
    <2>1. StepsLeft(t)' = 0
      BY <1>8 DEF Returns, StepsLeft, StepsFrom
    <2>2. StepsLeft(t) \in Nat /\ StepsLeft(t) >= 1
      BY <1>1, <1>2, <1>8, StepsFromType, LinesLeftIn DEF Returns
    <2>3. QED
      BY <2>1, <2>2
  <1>9. QED
    BY <1>4, <1>5, <1>6, <1>7, <1>8, StepMoves

(* A step of another thread takes no call farther from its end: gInitMutex
   keeps it from starting the file again. *)
LEMMA OtherStepsCostNothing ==
  ASSUME TypeOK, TypeOK', MutualExclusion, NEW t \in Threads,
         NEW u \in Threads \ {t}, Lock(u) \/ Step(u)
  PROVE  StepsLeft(t)' <= StepsLeft(t)
  <1>1. OthersKept(u)
    BY OthersAreKept
  <1>2. pc'[t] = pc[t] /\ call'[t] = call[t] /\ pc[t] \in Labels
    BY <1>1 DEF OthersKept, TypeOK, TypeThreads
  <1>3. Len(queue') <= Len(queue)
    BY <1>1 DEF OthersKept, TypeOK, TypeControl
  <1>4. LinesLeft(t)' <= LinesLeft(t) \/ pc[t] \notin FileLabels
    <2>1. CASE line' \in {line, line + 1}
      BY <1>2, <2>1, FileKept, LinesLeftIn DEF LinesLeft
    <2>2. CASE pc[u] = "config_end"
      BY <2>2 DEF MutualExclusion, InitSection, ConfigSection, FileLabels
    <2>3. QED
      BY <1>1, <2>1, <2>2 DEF OthersKept
  <1>n. /\ Len(Lines(t)) \in Nat /\ LinesLeft(t) \in Nat /\ LinesLeft(t)' \in Nat
        /\ Len(queue) \in Nat /\ Len(queue') \in Nat
    BY <1>2, FileKept, LinesLeftIn
  <1>l. Len(queue') <= Len(queue) + 0
    BY <1>n, <1>3
  <1>5. StepsFrom(pc[t], Len(Lines(t)), LinesLeft(t)', Len(queue'))
          <= StepsFrom(pc[t], Len(Lines(t)), LinesLeft(t), Len(queue)) + 3 * 0
    BY <1>2, <1>l, <1>n, <1>4, StepsFromGrows
  <1>6. StepsFrom(pc[t], Len(Lines(t)), LinesLeft(t), Len(queue)) \in Nat
    BY <1>2, StepsFromType, LinesLeftIn
  <1>7. QED
    BY <1>2, <1>5, <1>6, FileKept DEF StepsLeft

(* A request that arrives costs three steps at most. *)
LEMMA RequestsCostThree ==
  ASSUME TypeOK, TypeOK', NEW t \in Threads, NEW m \in Commands, Send(m)
  PROVE  StepsLeft(t)' <= StepsLeft(t) + 3 * (sent' - sent)
  <1>1. /\ pc'[t] = pc[t] /\ call'[t] = call[t] /\ line' = line
        /\ pc[t] \in Labels /\ sent' = sent + 1 /\ sent \in Nat
    BY DEF Send, TypeOK, TypeThreads, TypeControl, calls, initVars
  <1>2. Len(queue') <= Len(queue) + 1
    BY DEF Send, TypeOK, TypeControl
  <1>3. LinesLeft(t)' <= LinesLeft(t)
    BY <1>1, FileKept, LinesLeftIn DEF LinesLeft
  <1>4. StepsFrom(pc[t], Len(Lines(t)), LinesLeft(t)', Len(queue'))
          <= StepsFrom(pc[t], Len(Lines(t)), LinesLeft(t), Len(queue)) + 3 * 1
    BY <1>1, <1>2, <1>3, StepsFromGrows, FileKept, LinesLeftIn
  <1>5. QED
    BY <1>1, <1>4, FileKept DEF StepsLeft

(* A call that is entered is another's; a step that changes nothing is free. *)
LEMMA EnteringCostsNothing ==
  ASSUME TypeOK, TypeOK', NEW t \in Threads, pc[t] # "idle",
         \/ \E u \in Threads, c \in Calls : Enter(u, c)
         \/ UNCHANGED vars
  PROVE  StepsLeft(t)' <= StepsLeft(t) /\ sent' = sent
  <1>1. /\ pc'[t] = pc[t] /\ call'[t] = call[t] /\ line' = line
        /\ queue' = queue /\ sent' = sent
    BY DEF Enter, Goto, vars, calls, initVars, control, TypeOK, TypeThreads
  <1>2. StepsLeft(t)' = StepsLeft(t)
    BY <1>1, FileKept DEF StepsLeft, LinesLeft
  <1>3. StepsLeft(t) \in Nat
    BY StepsFromType, LinesLeftIn DEF StepsLeft, TypeOK, TypeThreads
  <1>4. QED
    BY <1>1, <1>2, <1>3

(* The bound stays a number. *)
LEMMA StepsAfter ==
  ASSUME TypeOK', NEW t \in Threads
  PROVE  StepsLeft(t)' \in Int
  <1>1. /\ pc'[t] \in Labels /\ line' \in Nat \ {0} /\ queue' \in Seq(Requests)
    BY DEF TypeOK, TypeThreads, TypeInit, TypeControl
  <1>2. Lines(t)' \in Seq(LineRecords)
    BY LoggerAssumption DEF Lines
  <1>3. Len(Lines(t)') \in Nat /\ LinesLeft(t)' \in Nat /\ Len(queue') \in Nat
    BY <1>1, <1>2 DEF LinesLeft
  <1>4. QED
    BY <1>1, <1>3, StepsFromType DEF StepsLeft

(* What any step does to the number of steps that a call has left. *)
LEMMA StepsLeftFalls ==
  ASSUME TypeOK, TypeOK', MutualExclusion, [Next]_vars, NEW t \in Threads
  PROVE  /\ Lock(t) \/ Step(t) => StepsLeft(t)' < StepsLeft(t)
         /\ pc[t] # "idle" =>
              StepsLeft(t)' <= StepsLeft(t) + 3 * (sent' - sent)
  <1>1. Lock(t) \/ Step(t) => StepsLeft(t)' < StepsLeft(t)
    BY OwnStepCosts
  <1>2. ASSUME pc[t] # "idle"
        PROVE  StepsLeft(t)' <= StepsLeft(t) + 3 * (sent' - sent)
    <2>1. /\ StepsLeft(t) \in Nat /\ sent \in Nat
      BY StepsFromType, LinesLeftIn DEF StepsLeft, TypeOK, TypeThreads, TypeControl
    <2>2. ASSUME NEW u \in Threads, Lock(u) \/ Step(u)
          PROVE  StepsLeft(t)' <= StepsLeft(t) + 3 * (sent' - sent)
      <3>1. sent' = sent
        BY <2>2, OthersAreKept DEF OthersKept
      <3>2. StepsLeft(t)' < StepsLeft(t) \/ StepsLeft(t)' <= StepsLeft(t)
        BY <2>2, OwnStepCosts, OtherStepsCostNothing
      <3>3. StepsLeft(t)' \in Int
        BY StepsAfter
      <3>4. QED
        BY <2>1, <3>1, <3>2, <3>3
    <2>3. ASSUME NEW m \in Commands, Send(m)
          PROVE  StepsLeft(t)' <= StepsLeft(t) + 3 * (sent' - sent)
      BY <2>3, RequestsCostThree
    <2>4. CASE (\E u \in Threads, c \in Calls : Enter(u, c)) \/ UNCHANGED vars
      BY <1>2, <2>1, <2>4, EnteringCostsNothing
    <2>5. QED
      BY <2>2, <2>3, <2>4 DEF Next
  <1>3. QED
    BY <1>1, <1>2

(* A call takes a bounded number of steps, for any number of threads and files
   of any length, apart from the requests that keep arriving. *)
THEOREM CallsBoundedHolds == Spec => CallsBounded
<1>1. TypeOK /\ TypeOK' /\ MutualExclusion /\ [Next]_vars =>
        [\A t \in Threads :
           /\ Lock(t) \/ Step(t) => StepsLeft(t)' < StepsLeft(t)
           /\ pc[t] # "idle" =>
                StepsLeft(t)' <= StepsLeft(t) + 3 * (sent' - sent)]_vars
  BY StepsLeftFalls
<1>2. QED
  BY <1>1, TypeCorrect, MutualExclusionHolds, PTL DEF Spec, CallsBounded
===============================================================================
