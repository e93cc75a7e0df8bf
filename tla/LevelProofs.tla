----------------------------- MODULE LevelProofs -----------------------------
(***************************************************************************)
(* The level a module has, for clients that log only after a successful    *)
(* rdk_logger_init.                                                        *)
(***************************************************************************)
EXTENDS LockProofs

(* Nobody is in rdk_dbg_priv_log at the start. *)
LEMMA LogStepsInit == Init => LogSteps
  BY DEF Init, LogSteps, LogSection

(* Between LogRead and LogUnlock a thread holds gLoggingMutex, and after the
   initialisation every writer of a priority takes it. *)
LEMMA LogStepsStep ==
  ASSUME LogAfterInit, TypeOK, MutualExclusion, InitOrder, LogSteps,
         [Next]_vars
  PROVE  LogSteps'
  <1>0. /\ pc \in [Threads -> Labels] /\ priority \in [Categories -> Priorities]
        /\ wanted \in [Categories -> Priorities]
        /\ \A t \in Threads : call[t].cat \in Categories
        /\ call \in [Threads -> Calls \cup {NoCall}]
        /\ NoThread \notin Threads /\ Root \in Categories
    BY ConstantTypes, CallType DEF TypeOK, TypeThreads, TypeLevels
  <1>i. \A t \in Threads : pc[t] \in ConfigSection => ~isLogInited
    BY DEF InitOrder
  <1>m. \A t \in Threads : pc[t] \in LoggingSection => gLoggingMutex = t
    BY DEF MutualExclusion
  <1> USE <1>0, <1>i, <1>m DEF initVars, levels, calls, Goto, LogSteps,
     LogSection, SetPriority, ConfigSection, LoggingSection
  <1>1. ASSUME NEW t \in Threads, NEW c \in Calls, Enter(t, c)
        PROVE  LogSteps'
    BY <1>1, CallStart DEF Enter
  <1>2. ASSUME NEW t \in Threads, InitLock(t)
        PROVE  LogSteps'
    BY <1>2 DEF InitLock
  <1>3. ASSUME NEW t \in Threads, ExtLock(t)
        PROVE  LogSteps'
    BY <1>3 DEF ExtLock
  <1>4. ASSUME NEW t \in Threads, DeinitLock(t)
        PROVE  LogSteps'
    BY <1>4 DEF DeinitLock
  <1>5. ASSUME NEW t \in Threads, DynInitLock(t)
        PROVE  LogSteps'
    BY <1>5 DEF DynInitLock
  <1>6. ASSUME NEW t \in Threads, DeinitRequestLock(t)
        PROVE  LogSteps'
    BY <1>6 DEF DeinitRequestLock
  <1>7. ASSUME NEW t \in Threads, ExtLoggingLock(t)
        PROVE  LogSteps'
    BY <1>7 DEF ExtLoggingLock
  <1>8. ASSUME NEW t \in Threads, ApplyLock(t)
        PROVE  LogSteps'
    BY <1>8 DEF ApplyLock
  <1>9. ASSUME NEW t \in Threads, LogLock(t)
        PROVE  LogSteps'
    BY <1>9 DEF LogLock
  <1>10. ASSUME NEW t \in Threads, LevelLock(t)
        PROVE  LogSteps'
    BY <1>10 DEF LevelLock
  <1>11. ASSUME NEW t \in Threads, PrivInit(t)
        PROVE  LogSteps'
    BY <1>11 DEF PrivInit
  <1>12. ASSUME NEW t \in Threads, OpenConfig(t)
        PROVE  LogSteps'
    BY <1>12 DEF OpenConfig
  <1>13. ASSUME NEW t \in Threads, ParseModule(t)
        PROVE  LogSteps'
    BY <1>13 DEF ParseModule
  <1>14. ASSUME NEW t \in Threads, ParseDefault(t)
        PROVE  LogSteps'
    BY <1>14 DEF ParseDefault
  <1>15. ASSUME NEW t \in Threads, ParseRootPriority(t)
        PROVE  LogSteps'
    BY <1>15 DEF ParseRootPriority
  <1>16. ASSUME NEW t \in Threads, ParseEnd(t)
        PROVE  LogSteps'
    BY <1>16 DEF ParseEnd
  <1>17. ASSUME NEW t \in Threads, ConfigEnd(t)
        PROVE  LogSteps'
    BY <1>17 DEF ConfigEnd
  <1>18. ASSUME NEW t \in Threads, DynInit(t)
        PROVE  LogSteps'
    BY <1>18 DEF DynInit
  <1>19. ASSUME NEW t \in Threads, SetInited(t)
        PROVE  LogSteps'
    BY <1>19 DEF SetInited
  <1>20. ASSUME NEW t \in Threads, InitUnlock(t)
        PROVE  LogSteps'
    BY <1>20 DEF InitUnlock, Return
  <1>21. ASSUME NEW t \in Threads, ExtApply(t)
        PROVE  LogSteps'
    BY <1>21 DEF ExtApply
  <1>22. ASSUME NEW t \in Threads, ExtUnlock(t)
        PROVE  LogSteps'
    BY <1>22 DEF ExtUnlock, Return
  <1>23. ASSUME NEW t \in Threads, DeinitClose(t)
        PROVE  LogSteps'
    BY <1>23 DEF DeinitClose
  <1>24. ASSUME NEW t \in Threads, LogTryLock(t)
        PROVE  LogSteps'
    BY <1>24 DEF LogTryLock, Return, AfterDrain
  <1>25. ASSUME NEW t \in Threads, Receive(t)
        PROVE  LogSteps'
    BY <1>25 DEF Receive
  <1>26. ASSUME NEW t \in Threads, Apply(t)
        PROVE  LogSteps'
    BY <1>26 DEF Apply
  <1>27. ASSUME NEW t \in Threads, DrainEnd(t)
        PROVE  LogSteps'
    BY <1>27 DEF DrainEnd, Return, AfterDrain
  <1>28. ASSUME NEW t \in Threads, LogRead(t)
        PROVE  LogSteps'
    BY <1>28 DEF LogRead
  <1>29. ASSUME NEW t \in Threads, LogInherit(t)
        PROVE  LogSteps'
    BY <1>29 DEF LogInherit
  <1>30. ASSUME NEW t \in Threads, LogCheck(t)
        PROVE  LogSteps'
    BY <1>30 DEF LogCheck
  <1>31. ASSUME NEW t \in Threads, LogUnlock(t)
        PROVE  LogSteps'
    BY <1>31 DEF LogUnlock, Return
  <1>32. ASSUME NEW t \in Threads, SetLevel(t)
        PROVE  LogSteps'
    BY <1>32 DEF SetLevel, Return
  <1>33. ASSUME NEW t \in Threads, GetLevel(t)
        PROVE  LogSteps'
    BY <1>33 DEF GetLevel, Return
  <1>34. ASSUME NEW t \in Threads, IsLevelEnabled(t)
        PROVE  LogSteps'
    BY <1>34 DEF IsLevelEnabled, Return
  <1>35. ASSUME NEW m \in Commands, Send(m)
        PROVE  LogSteps'
    BY <1>35 DEF Send
  <1>36. CASE UNCHANGED vars
    BY <1>36 DEF vars
  <1>37. QED
    BY <1>1, <1>2, <1>3, <1>4, <1>5, <1>6, <1>7, <1>8, <1>9, <1>10, <1>11,
       <1>12, <1>13, <1>14, <1>15, <1>16, <1>17, <1>18, <1>19, <1>20, <1>21,
       <1>22, <1>23, <1>24, <1>25, <1>26, <1>27, <1>28, <1>29, <1>30, <1>31,
       <1>32, <1>33, <1>34, <1>35, <1>36
    DEF Next, Lock, Step

(* Nobody was given a level yet. *)
LEMMA LastLevelInit == Init => LastLevelWins
  BY DEF Init, LastLevelWins

(* Only LogInherit writes a priority that is nobody's wish, and LogSteps says
   that it finds a category without one. *)
LEMMA LastLevelStep ==
  ASSUME LogAfterInit, TypeOK, MutualExclusion, InitOrder, LogSteps, LastLevelWins,
         [Next]_vars
  PROVE  LastLevelWins'
  <1>0. /\ pc \in [Threads -> Labels] /\ priority \in [Categories -> Priorities]
        /\ wanted \in [Categories -> Priorities]
        /\ \A t \in Threads : call[t].cat \in Categories
        /\ call \in [Threads -> Calls \cup {NoCall}]
        /\ NoThread \notin Threads /\ Root \in Categories
    BY ConstantTypes, CallType DEF TypeOK, TypeThreads, TypeLevels
  <1>i. \A t \in Threads : pc[t] \in ConfigSection => ~isLogInited
    BY DEF InitOrder
  <1>m. \A t \in Threads : pc[t] \in LoggingSection => gLoggingMutex = t
    BY DEF MutualExclusion
  <1> USE <1>0, <1>i, <1>m DEF initVars, levels, calls, Goto, LastLevelWins, SetPriority
  <1>1. ASSUME NEW t \in Threads, NEW c \in Calls, Enter(t, c)
        PROVE  LastLevelWins'
    BY <1>1 DEF Enter
  <1>2. ASSUME NEW t \in Threads, InitLock(t)
        PROVE  LastLevelWins'
    BY <1>2 DEF InitLock
  <1>3. ASSUME NEW t \in Threads, ExtLock(t)
        PROVE  LastLevelWins'
    BY <1>3 DEF ExtLock
  <1>4. ASSUME NEW t \in Threads, DeinitLock(t)
        PROVE  LastLevelWins'
    BY <1>4 DEF DeinitLock
  <1>5. ASSUME NEW t \in Threads, DynInitLock(t)
        PROVE  LastLevelWins'
    BY <1>5 DEF DynInitLock
  <1>6. ASSUME NEW t \in Threads, DeinitRequestLock(t)
        PROVE  LastLevelWins'
    BY <1>6 DEF DeinitRequestLock
  <1>7. ASSUME NEW t \in Threads, ExtLoggingLock(t)
        PROVE  LastLevelWins'
    BY <1>7 DEF ExtLoggingLock
  <1>8. ASSUME NEW t \in Threads, ApplyLock(t)
        PROVE  LastLevelWins'
    BY <1>8 DEF ApplyLock
  <1>9. ASSUME NEW t \in Threads, LogLock(t)
        PROVE  LastLevelWins'
    BY <1>9 DEF LogLock
  <1>10. ASSUME NEW t \in Threads, LevelLock(t)
        PROVE  LastLevelWins'
    BY <1>10 DEF LevelLock
  <1>11. ASSUME NEW t \in Threads, PrivInit(t)
        PROVE  LastLevelWins'
    BY <1>11 DEF PrivInit
  <1>12. ASSUME NEW t \in Threads, OpenConfig(t)
        PROVE  LastLevelWins'
    BY <1>12 DEF OpenConfig
  <1>13. ASSUME NEW t \in Threads, ParseModule(t)
        PROVE  LastLevelWins'
    BY <1>13 DEF ParseModule
  <1>14. ASSUME NEW t \in Threads, ParseDefault(t)
        PROVE  LastLevelWins'
    BY <1>14 DEF ParseDefault
  <1>15. ASSUME NEW t \in Threads, ParseRootPriority(t)
        PROVE  LastLevelWins'
    BY <1>15 DEF ParseRootPriority
  <1>16. ASSUME NEW t \in Threads, ParseEnd(t)
        PROVE  LastLevelWins'
    BY <1>16 DEF ParseEnd
  <1>17. ASSUME NEW t \in Threads, ConfigEnd(t)
        PROVE  LastLevelWins'
    BY <1>17 DEF ConfigEnd
  <1>18. ASSUME NEW t \in Threads, DynInit(t)
        PROVE  LastLevelWins'
    BY <1>18 DEF DynInit
  <1>19. ASSUME NEW t \in Threads, SetInited(t)
        PROVE  LastLevelWins'
    BY <1>19 DEF SetInited
  <1>20. ASSUME NEW t \in Threads, InitUnlock(t)
        PROVE  LastLevelWins'
    BY <1>20 DEF InitUnlock, Return
  <1>21. ASSUME NEW t \in Threads, ExtApply(t)
        PROVE  LastLevelWins'
    BY <1>21 DEF ExtApply
  <1>22. ASSUME NEW t \in Threads, ExtUnlock(t)
        PROVE  LastLevelWins'
    BY <1>22 DEF ExtUnlock, Return
  <1>23. ASSUME NEW t \in Threads, DeinitClose(t)
        PROVE  LastLevelWins'
    BY <1>23 DEF DeinitClose
  <1>24. ASSUME NEW t \in Threads, LogTryLock(t)
        PROVE  LastLevelWins'
    BY <1>24 DEF LogTryLock, Return, AfterDrain
  <1>25. ASSUME NEW t \in Threads, Receive(t)
        PROVE  LastLevelWins'
    BY <1>25 DEF Receive
  <1>26. ASSUME NEW t \in Threads, Apply(t)
        PROVE  LastLevelWins'
    BY <1>26 DEF Apply
  <1>27. ASSUME NEW t \in Threads, DrainEnd(t)
        PROVE  LastLevelWins'
    BY <1>27 DEF DrainEnd, Return, AfterDrain
  <1>28. ASSUME NEW t \in Threads, LogRead(t)
        PROVE  LastLevelWins'
    BY <1>28 DEF LogRead
  <1>29. ASSUME NEW t \in Threads, LogInherit(t)
        PROVE  LastLevelWins'
    BY <1>29 DEF LogInherit, LogSteps
  <1>30. ASSUME NEW t \in Threads, LogCheck(t)
        PROVE  LastLevelWins'
    BY <1>30 DEF LogCheck
  <1>31. ASSUME NEW t \in Threads, LogUnlock(t)
        PROVE  LastLevelWins'
    BY <1>31 DEF LogUnlock, Return
  <1>32. ASSUME NEW t \in Threads, SetLevel(t)
        PROVE  LastLevelWins'
    BY <1>32 DEF SetLevel, Return
  <1>33. ASSUME NEW t \in Threads, GetLevel(t)
        PROVE  LastLevelWins'
    BY <1>33 DEF GetLevel, Return
  <1>34. ASSUME NEW t \in Threads, IsLevelEnabled(t)
        PROVE  LastLevelWins'
    BY <1>34 DEF IsLevelEnabled, Return
  <1>35. ASSUME NEW m \in Commands, Send(m)
        PROVE  LastLevelWins'
    BY <1>35 DEF Send
  <1>36. CASE UNCHANGED vars
    BY <1>36 DEF vars
  <1>37. QED
    BY <1>1, <1>2, <1>3, <1>4, <1>5, <1>6, <1>7, <1>8, <1>9, <1>10, <1>11,
       <1>12, <1>13, <1>14, <1>15, <1>16, <1>17, <1>18, <1>19, <1>20, <1>21,
       <1>22, <1>23, <1>24, <1>25, <1>26, <1>27, <1>28, <1>29, <1>30, <1>31,
       <1>32, <1>33, <1>34, <1>35, <1>36
    DEF Next, Lock, Step

(* No category has a priority yet. *)
LEMMA InheritedInit == Init => InheritedPriority
  BY DEF Init, InheritedPriority

(* A priority that nobody gave on purpose comes from LogInherit, when
   gRootPriority changes no more. *)
LEMMA InheritedStep ==
  ASSUME LogAfterInit, TypeOK, MutualExclusion, InitOrder, LogSteps, InheritedPriority,
         [Next]_vars
  PROVE  InheritedPriority'
  <1>0. /\ pc \in [Threads -> Labels] /\ priority \in [Categories -> Priorities]
        /\ wanted \in [Categories -> Priorities]
        /\ \A t \in Threads : call[t].cat \in Categories
        /\ call \in [Threads -> Calls \cup {NoCall}]
        /\ NoThread \notin Threads /\ Root \in Categories
    BY ConstantTypes, CallType DEF TypeOK, TypeThreads, TypeLevels
  <1>i. \A t \in Threads : pc[t] \in ConfigSection => ~isLogInited
    BY DEF InitOrder
  <1>m. \A t \in Threads : pc[t] \in LoggingSection => gLoggingMutex = t
    BY DEF MutualExclusion
  <1> USE <1>0, <1>i, <1>m DEF initVars, levels, calls, Goto,
     InheritedPriority, LogSteps, LogSection, SetPriority, ConfigSection,
     LoggingSection
  <1>1. ASSUME NEW t \in Threads, NEW c \in Calls, Enter(t, c)
        PROVE  InheritedPriority'
    BY <1>1 DEF Enter
  <1>2. ASSUME NEW t \in Threads, InitLock(t)
        PROVE  InheritedPriority'
    BY <1>2 DEF InitLock
  <1>3. ASSUME NEW t \in Threads, ExtLock(t)
        PROVE  InheritedPriority'
    BY <1>3 DEF ExtLock
  <1>4. ASSUME NEW t \in Threads, DeinitLock(t)
        PROVE  InheritedPriority'
    BY <1>4 DEF DeinitLock
  <1>5. ASSUME NEW t \in Threads, DynInitLock(t)
        PROVE  InheritedPriority'
    BY <1>5 DEF DynInitLock
  <1>6. ASSUME NEW t \in Threads, DeinitRequestLock(t)
        PROVE  InheritedPriority'
    BY <1>6 DEF DeinitRequestLock
  <1>7. ASSUME NEW t \in Threads, ExtLoggingLock(t)
        PROVE  InheritedPriority'
    BY <1>7 DEF ExtLoggingLock
  <1>8. ASSUME NEW t \in Threads, ApplyLock(t)
        PROVE  InheritedPriority'
    BY <1>8 DEF ApplyLock
  <1>9. ASSUME NEW t \in Threads, LogLock(t)
        PROVE  InheritedPriority'
    BY <1>9 DEF LogLock
  <1>10. ASSUME NEW t \in Threads, LevelLock(t)
        PROVE  InheritedPriority'
    BY <1>10 DEF LevelLock
  <1>11. ASSUME NEW t \in Threads, PrivInit(t)
        PROVE  InheritedPriority'
    BY <1>11 DEF PrivInit
  <1>12. ASSUME NEW t \in Threads, OpenConfig(t)
        PROVE  InheritedPriority'
    BY <1>12 DEF OpenConfig
  <1>13. ASSUME NEW t \in Threads, ParseModule(t)
        PROVE  InheritedPriority'
    BY <1>13 DEF ParseModule
  <1>14. ASSUME NEW t \in Threads, ParseDefault(t)
        PROVE  InheritedPriority'
    BY <1>14 DEF ParseDefault
  <1>15. ASSUME NEW t \in Threads, ParseRootPriority(t)
        PROVE  InheritedPriority'
    BY <1>15 DEF ParseRootPriority
  <1>16. ASSUME NEW t \in Threads, ParseEnd(t)
        PROVE  InheritedPriority'
    BY <1>16 DEF ParseEnd
  <1>17. ASSUME NEW t \in Threads, ConfigEnd(t)
        PROVE  InheritedPriority'
    BY <1>17 DEF ConfigEnd
  <1>18. ASSUME NEW t \in Threads, DynInit(t)
        PROVE  InheritedPriority'
    BY <1>18 DEF DynInit
  <1>19. ASSUME NEW t \in Threads, SetInited(t)
        PROVE  InheritedPriority'
    BY <1>19 DEF SetInited
  <1>20. ASSUME NEW t \in Threads, InitUnlock(t)
        PROVE  InheritedPriority'
    BY <1>20 DEF InitUnlock, Return
  <1>21. ASSUME NEW t \in Threads, ExtApply(t)
        PROVE  InheritedPriority'
    BY <1>21 DEF ExtApply
  <1>22. ASSUME NEW t \in Threads, ExtUnlock(t)
        PROVE  InheritedPriority'
    BY <1>22 DEF ExtUnlock, Return
  <1>23. ASSUME NEW t \in Threads, DeinitClose(t)
        PROVE  InheritedPriority'
    BY <1>23 DEF DeinitClose
  <1>24. ASSUME NEW t \in Threads, LogTryLock(t)
        PROVE  InheritedPriority'
    BY <1>24 DEF LogTryLock, Return, AfterDrain
  <1>25. ASSUME NEW t \in Threads, Receive(t)
        PROVE  InheritedPriority'
    BY <1>25 DEF Receive
  <1>26. ASSUME NEW t \in Threads, Apply(t)
        PROVE  InheritedPriority'
    BY <1>26 DEF Apply
  <1>27. ASSUME NEW t \in Threads, DrainEnd(t)
        PROVE  InheritedPriority'
    BY <1>27 DEF DrainEnd, Return, AfterDrain
  <1>28. ASSUME NEW t \in Threads, LogRead(t)
        PROVE  InheritedPriority'
    BY <1>28 DEF LogRead
  <1>29. ASSUME NEW t \in Threads, LogInherit(t)
        PROVE  InheritedPriority'
    BY <1>29 DEF LogInherit
  <1>30. ASSUME NEW t \in Threads, LogCheck(t)
        PROVE  InheritedPriority'
    BY <1>30 DEF LogCheck
  <1>31. ASSUME NEW t \in Threads, LogUnlock(t)
        PROVE  InheritedPriority'
    BY <1>31 DEF LogUnlock, Return
  <1>32. ASSUME NEW t \in Threads, SetLevel(t)
        PROVE  InheritedPriority'
    BY <1>32 DEF SetLevel, Return
  <1>33. ASSUME NEW t \in Threads, GetLevel(t)
        PROVE  InheritedPriority'
    BY <1>33 DEF GetLevel, Return
  <1>34. ASSUME NEW t \in Threads, IsLevelEnabled(t)
        PROVE  InheritedPriority'
    BY <1>34 DEF IsLevelEnabled, Return
  <1>35. ASSUME NEW m \in Commands, Send(m)
        PROVE  InheritedPriority'
    BY <1>35 DEF Send
  <1>36. CASE UNCHANGED vars
    BY <1>36 DEF vars
  <1>37. QED
    BY <1>1, <1>2, <1>3, <1>4, <1>5, <1>6, <1>7, <1>8, <1>9, <1>10, <1>11,
       <1>12, <1>13, <1>14, <1>15, <1>16, <1>17, <1>18, <1>19, <1>20, <1>21,
       <1>22, <1>23, <1>24, <1>25, <1>26, <1>27, <1>28, <1>29, <1>30, <1>31,
       <1>32, <1>33, <1>34, <1>35, <1>36
    DEF Next, Lock, Step

(***************************************************************************)
(* What a thread that has decided about its message still finds.           *)
(***************************************************************************)
LEMMA UndisturbedStep ==
  ASSUME TypeOK, MutualExclusion, InitOrder, LogSteps, [Next]_vars,
         NEW u \in Threads, pc'[u] = "log_unlock"
  PROVE  \/ LogCheck(u)
         \/ /\ pc[u] = "log_unlock"
            /\ call'[u] = call[u] /\ outcome'[u] = outcome[u]
            /\ UNCHANGED <<priority, wanted, gRootPriority>>
  <1>0. /\ pc \in [Threads -> Labels] /\ priority \in [Categories -> Priorities]
        /\ wanted \in [Categories -> Priorities]
        /\ \A t \in Threads : call[t].cat \in Categories
        /\ call \in [Threads -> Calls \cup {NoCall}]
        /\ NoThread \notin Threads /\ Root \in Categories
    BY ConstantTypes, CallType DEF TypeOK, TypeThreads, TypeLevels
  <1>i. \A t \in Threads : pc[t] \in ConfigSection => ~isLogInited
    BY DEF InitOrder
  <1>m. \A t \in Threads : pc[t] \in LoggingSection => gLoggingMutex = t
    BY DEF MutualExclusion
  <1> DEFINE Goal == \/ LogCheck(u)
                     \/ /\ pc[u] = "log_unlock"
                        /\ call'[u] = call[u] /\ outcome'[u] = outcome[u]
                        /\ UNCHANGED <<priority, wanted, gRootPriority>>
  <1>o. outcome \in [Threads -> {"none", "printed", "dropped"}]
    BY DEF TypeOK, TypeThreads
  <1>l. pc[u] = "log_unlock" => isLogInited
    BY DEF LogSteps, LogSection
  <1> USE <1>0, <1>i, <1>m, <1>l DEF initVars, levels, calls, Goto,
          ConfigSection, LoggingSection, Goal
  <1>1. ASSUME NEW t \in Threads, NEW c \in Calls, Enter(t, c)
        PROVE  Goal
    BY <1>1, CallStart DEF Enter
  <1>2. ASSUME NEW t \in Threads, InitLock(t)
        PROVE  Goal
    BY <1>2 DEF InitLock
  <1>3. ASSUME NEW t \in Threads, ExtLock(t)
        PROVE  Goal
    BY <1>3 DEF ExtLock
  <1>4. ASSUME NEW t \in Threads, DeinitLock(t)
        PROVE  Goal
    BY <1>4 DEF DeinitLock
  <1>5. ASSUME NEW t \in Threads, DynInitLock(t)
        PROVE  Goal
    BY <1>5 DEF DynInitLock
  <1>6. ASSUME NEW t \in Threads, DeinitRequestLock(t)
        PROVE  Goal
    BY <1>6 DEF DeinitRequestLock
  <1>7. ASSUME NEW t \in Threads, ExtLoggingLock(t)
        PROVE  Goal
    BY <1>7 DEF ExtLoggingLock
  <1>8. ASSUME NEW t \in Threads, ApplyLock(t)
        PROVE  Goal
    BY <1>8 DEF ApplyLock
  <1>9. ASSUME NEW t \in Threads, LogLock(t)
        PROVE  Goal
    BY <1>9 DEF LogLock
  <1>10. ASSUME NEW t \in Threads, LevelLock(t)
        PROVE  Goal
    BY <1>10 DEF LevelLock
  <1>11. ASSUME NEW t \in Threads, PrivInit(t)
        PROVE  Goal
    BY <1>11 DEF PrivInit
  <1>12. ASSUME NEW t \in Threads, OpenConfig(t)
        PROVE  Goal
    BY <1>12 DEF OpenConfig
  <1>13. ASSUME NEW t \in Threads, ParseModule(t)
        PROVE  Goal
    BY <1>13 DEF ParseModule
  <1>14. ASSUME NEW t \in Threads, ParseDefault(t)
        PROVE  Goal
    BY <1>14 DEF ParseDefault
  <1>15. ASSUME NEW t \in Threads, ParseRootPriority(t)
        PROVE  Goal
    BY <1>15 DEF ParseRootPriority
  <1>16. ASSUME NEW t \in Threads, ParseEnd(t)
        PROVE  Goal
    BY <1>16 DEF ParseEnd
  <1>17. ASSUME NEW t \in Threads, ConfigEnd(t)
        PROVE  Goal
    BY <1>17 DEF ConfigEnd
  <1>18. ASSUME NEW t \in Threads, DynInit(t)
        PROVE  Goal
    BY <1>18 DEF DynInit
  <1>19. ASSUME NEW t \in Threads, SetInited(t)
        PROVE  Goal
    BY <1>19 DEF SetInited
  <1>20. ASSUME NEW t \in Threads, InitUnlock(t)
        PROVE  Goal
    BY <1>20, <1>o DEF InitUnlock, Return
  <1>21. ASSUME NEW t \in Threads, ExtApply(t)
        PROVE  Goal
    BY <1>21 DEF ExtApply
  <1>22. ASSUME NEW t \in Threads, ExtUnlock(t)
        PROVE  Goal
    BY <1>22 DEF ExtUnlock, Return
  <1>23. ASSUME NEW t \in Threads, DeinitClose(t)
        PROVE  Goal
    BY <1>23 DEF DeinitClose
  <1>24. ASSUME NEW t \in Threads, LogTryLock(t)
        PROVE  Goal
    BY <1>24, <1>o DEF LogTryLock, Return, AfterDrain
  <1>25. ASSUME NEW t \in Threads, Receive(t)
        PROVE  Goal
    BY <1>25 DEF Receive
  <1>26. ASSUME NEW t \in Threads, Apply(t)
        PROVE  Goal
    BY <1>26 DEF Apply
  <1>27. ASSUME NEW t \in Threads, DrainEnd(t)
        PROVE  Goal
    BY <1>27, <1>o DEF DrainEnd, Return, AfterDrain
  <1>28. ASSUME NEW t \in Threads, LogRead(t)
        PROVE  Goal
    BY <1>28 DEF LogRead
  <1>29. ASSUME NEW t \in Threads, LogInherit(t)
        PROVE  Goal
    BY <1>29 DEF LogInherit
  <1>30. ASSUME NEW t \in Threads, LogCheck(t)
        PROVE  Goal
    BY <1>30 DEF LogCheck
  <1>31. ASSUME NEW t \in Threads, LogUnlock(t)
        PROVE  Goal
    BY <1>31 DEF LogUnlock, Return
  <1>32. ASSUME NEW t \in Threads, SetLevel(t)
        PROVE  Goal
    BY <1>32 DEF SetLevel, Return
  <1>33. ASSUME NEW t \in Threads, GetLevel(t)
        PROVE  Goal
    BY <1>33 DEF GetLevel, Return
  <1>34. ASSUME NEW t \in Threads, IsLevelEnabled(t)
        PROVE  Goal
    BY <1>34 DEF IsLevelEnabled, Return
  <1>35. ASSUME NEW m \in Commands, Send(m)
        PROVE  Goal
    BY <1>35 DEF Send
  <1>36. CASE UNCHANGED vars
    BY <1>36 DEF vars
  <1>37. QED
    BY <1>1, <1>2, <1>3, <1>4, <1>5, <1>6, <1>7, <1>8, <1>9, <1>10, <1>11,
       <1>12, <1>13, <1>14, <1>15, <1>16, <1>17, <1>18, <1>19, <1>20, <1>21,
       <1>22, <1>23, <1>24, <1>25, <1>26, <1>27, <1>28, <1>29, <1>30, <1>31,
       <1>32, <1>33, <1>34, <1>35, <1>36
    DEF Next, Lock, Step

(* The priority in force for a category with a priority of its own. *)
LEMMA ChainedOwn ==
  ASSUME NEW c \in Categories, priority[c] # PriorityNotSet
  PROVE  ChainedPriority(priority, c) = priority[c]
  <1> DEFINE set == {i \in DOMAIN Path[c] : priority[Path[c][i]] # PriorityNotSet}
             Least(i) == i \in set /\ \A j \in set : i <= j
  <1>1. Path[c] \in Seq(Categories) /\ Path[c] # << >> /\ Path[c][1] = c
    BY PathAssumption
  <1>2. 1 \in DOMAIN Path[c] /\ DOMAIN Path[c] \subseteq Nat \ {0}
    BY <1>1
  <1>3. 1 \in set /\ \A j \in set : 1 <= j
    BY <1>1, <1>2
  <1>4. \A i \in set : (\A j \in set : i <= j) => i = 1
    BY <1>2, <1>3
  <1>5. (CHOOSE i \in set : \A j \in set : i <= j) = 1
    BY <1>3, <1>4
  <1>6. QED
    BY <1>1, <1>3, <1>5 DEF ChainedPriority

(* rdk_dbg_priv_log asks log4c about the priority the module is meant to
   have. *)
LEMMA MeantIsUsed ==
  ASSUME TypeOK, LogSteps, LastLevelWins, InheritedPriority,
         NEW t \in Threads, pc[t] = "log_check"
  PROVE  ChainedPriority(priority, call[t].cat) = MeantPriority(call[t].cat)
  <1> DEFINE c == call[t].cat
  <1>0. c \in Categories
    BY CallType
  <1>1. CASE wanted[c] # PriorityNotSet
    BY <1>0, <1>1, ChainedOwn DEF LastLevelWins, MeantPriority
  <1>2. CASE wanted[c] = PriorityNotSet /\ gRootPriority # PriorityNotSet
    <2>1. priority[c] = gRootPriority
      BY <1>0, <1>2 DEF InheritedPriority, LogSteps
    <2>2. QED
      BY <1>0, <1>2, <2>1, ChainedOwn DEF MeantPriority
  <1>3. CASE wanted[c] = PriorityNotSet /\ gRootPriority = PriorityNotSet
    BY <1>3 DEF MeantPriority
  <1>4. QED
    BY <1>1, <1>2, <1>3

(* The decision of LogCheck is the right one, and still is when the thread
   releases the mutex. *)
LEMMA LogFollowsLevelStep ==
  ASSUME TypeOK, MutualExclusion, InitOrder, LogSteps, LastLevelWins,
         InheritedPriority, LogFollowsLevel, [Next]_vars
  PROVE  LogFollowsLevel'
  <1> SUFFICES ASSUME NEW u \in Threads, pc'[u] = "log_unlock"
               PROVE  outcome'[u] = "printed" <=>
                        (LevelToPriority(call[u].level) <= MeantPriority(call[u].cat))'
    BY DEF LogFollowsLevel
  <1>1. CASE LogCheck(u)
    <2>1. outcome'[u] = "printed" <=>
            LevelToPriority(call[u].level) <= ChainedPriority(priority, call[u].cat)
      BY <1>1 DEF LogCheck, IsPriorityEnabled, TypeOK, TypeThreads
    <2>2. ChainedPriority(priority, call[u].cat) = MeantPriority(call[u].cat)
      BY <1>1, MeantIsUsed DEF LogCheck
    <2>3. UNCHANGED <<priority, wanted, gRootPriority, call>>
      BY <1>1 DEF LogCheck, levels, calls
    <2>4. QED
      BY <2>1, <2>2, <2>3 DEF MeantPriority
  <1>2. CASE /\ pc[u] = "log_unlock"
             /\ call'[u] = call[u] /\ outcome'[u] = outcome[u]
             /\ UNCHANGED <<priority, wanted, gRootPriority>>
    BY <1>2 DEF LogFollowsLevel, MeantPriority
  <1>3. QED
    BY <1>1, <1>2, UndisturbedStep

(* The two translations are each other's inverse on the levels below NONE, and
   the order of the levels is that of their priorities. *)
LEMMA LevelOfPriority ==
  ASSUME NEW p \in Priorities, PriorityToLevel(p) # NONE
  PROVE  PriorityToLevel(p) \in FATAL..TRACE /\ LevelToPriority(PriorityToLevel(p)) = p
  <1> USE DEF FATAL, ERROR, TRACE, NONE, PriorityFatal, PriorityUnknown,
              PriorityNone, PriorityNotSet
  <1>1. p = PriorityFatal \/ \E l \in ERROR..TRACE : p = 100 * (l + 2)
    BY DEF PriorityToLevel
  <1>2. CASE p = PriorityFatal
    BY <1>2 DEF PriorityToLevel, LevelToPriority
  <1>3. ASSUME NEW l \in ERROR..TRACE, p = 100 * (l + 2)
        PROVE  PriorityToLevel(p) = l /\ LevelToPriority(l) = p
    BY <1>3 DEF PriorityToLevel, LevelToPriority
  <1>4. QED
    BY <1>1, <1>2, <1>3

(* The more severe level has the smaller priority. *)
LEMMA LevelOrder ==
  \A l, m \in FATAL..TRACE :
    LevelToPriority(l) <= LevelToPriority(m) <=> l <= m
  BY DEF LevelToPriority, FATAL, ERROR, TRACE, PriorityFatal, PriorityUnknown

(* At the decision, the level rdk_logger_get_logLevel would answer with. *)
LEMMA AnswerIsUsed ==
  ASSUME TypeOK, LogSteps, NEW t \in Threads, pc[t] = "log_check",
         GetLevelResult(call[t].cat) # NONE
  PROVE  /\ GetLevelResult(call[t].cat) \in FATAL..TRACE
         /\ ChainedPriority(priority, call[t].cat)
              = LevelToPriority(GetLevelResult(call[t].cat))
  <1> DEFINE c == call[t].cat
  <1>0. c \in Categories /\ priority[c] \in Priorities
    BY CallType DEF TypeOK, TypeLevels
  <1>1. PriorityToLevel(PriorityNotSet) = NONE
    BY DEF PriorityToLevel, PriorityNotSet, PriorityFatal, ERROR, TRACE
  <1>2. priority[c] # PriorityNotSet
    BY <1>1 DEF GetLevelResult, LogSteps
  <1>3. GetLevelResult(c) = PriorityToLevel(priority[c])
    BY <1>2 DEF GetLevelResult
  <1>4. QED
    BY <1>0, <1>2, <1>3, ChainedOwn, LevelOfPriority

(* A priority that is not of a level lets everything through or nothing. *)
LEMMA AllOrNothing ==
  ASSUME NEW p \in Priorities \ {PriorityNotSet}, PriorityToLevel(p) = NONE,
         NEW l \in FATAL..TRACE
  PROVE  LevelToPriority(l) <= p <=> LevelToPriority(TRACE) <= p
  <1> USE DEF FATAL, ERROR, TRACE, NONE, PriorityFatal, PriorityUnknown,
              PriorityNone, PriorityNotSet
  <1>1. p \in {PriorityNone, PriorityUnknown}
    <2>1. \A k \in ERROR..TRACE : p # 100 * (k + 2)
      <3> SUFFICES ASSUME NEW k \in ERROR..TRACE, p = 100 * (k + 2)
                   PROVE  FALSE
        OBVIOUS
      <3>1. PriorityToLevel(p) = k
        BY DEF PriorityToLevel
      <3>2. QED
        BY <3>1
    <2>2. p # PriorityFatal
      BY DEF PriorityToLevel
    <2>3. 1 \in ERROR..TRACE /\ 2 \in ERROR..TRACE /\ 3 \in ERROR..TRACE
          /\ 4 \in ERROR..TRACE /\ 5 \in ERROR..TRACE /\ 6 \in ERROR..TRACE
      OBVIOUS
    <2>4. p # 300 /\ p # 400 /\ p # 500 /\ p # 600 /\ p # 700 /\ p # 800
      BY <2>1, <2>3
    <2>5. QED
      BY <2>2, <2>4 DEF Priorities
  <1>2. LevelToPriority(l) \in 0..800 /\ LevelToPriority(TRACE) \in 0..800
    BY DEF LevelToPriority
  <1>3. QED
    BY <1>1, <1>2

(* The decision of LogCheck agrees with the answer of rdk_logger_get_logLevel,
   and still does when the thread releases the mutex. *)
LEMMA GetTellsStep ==
  ASSUME TypeOK, MutualExclusion, InitOrder, LogSteps, GetTellsWhatIsPrinted,
         [Next]_vars
  PROVE  GetTellsWhatIsPrinted'
  <1> SUFFICES
        ASSUME NEW u \in Threads, pc'[u] = "log_unlock"
        PROVE  /\ GetLevelResult(call[u].cat)' # NONE =>
                    (outcome'[u] = "printed" <=>
                       (call[u].level <= GetLevelResult(call[u].cat))')
               /\ GetLevelResult(call[u].cat)' = NONE /\ gRootPriority' # PriorityNotSet =>
                    (outcome'[u] = "printed" <=>
                       (LevelToPriority(TRACE) <= ChainedPriority(priority, call[u].cat))')
    BY DEF GetTellsWhatIsPrinted
  <1>1. CASE LogCheck(u)
    <2> DEFINE c == call[u].cat
               answer == GetLevelResult(c)
    <2>1. UNCHANGED <<priority, wanted, gRootPriority, call>> /\ pc[u] = "log_check"
      BY <1>1 DEF LogCheck, levels, calls
    <2>2. /\ GetLevelResult(call[u].cat)' = answer
          /\ ChainedPriority(priority, call[u].cat)' = ChainedPriority(priority, c)
      BY <2>1 DEF GetLevelResult
    <2>3. call[u].level \in FATAL..TRACE
      BY <2>1, CallType DEF LogSteps, RdkLevels, FATAL, TRACE, NONE
    <2>4. outcome'[u] = "printed" <=>
            LevelToPriority(call[u].level) <= ChainedPriority(priority, c)
      BY <1>1 DEF LogCheck, IsPriorityEnabled, TypeOK, TypeThreads
    <2>5. CASE answer # NONE
      <3>1. answer \in FATAL..TRACE /\ ChainedPriority(priority, c) = LevelToPriority(answer)
        BY <2>1, <2>5, AnswerIsUsed
      <3>2. outcome'[u] = "printed" <=> call[u].level <= answer
        BY <2>3, <2>4, <3>1, LevelOrder
      <3>3. QED
        BY <2>1, <2>2, <2>5, <3>2
    <2>6. CASE answer = NONE /\ gRootPriority # PriorityNotSet
      <3>1. c \in Categories /\ priority[c] \in Priorities \ {PriorityNotSet}
        BY <2>1, <2>6, CallType DEF LogSteps, TypeOK, TypeLevels
      <3>2. PriorityToLevel(priority[c]) = NONE /\ ChainedPriority(priority, c) = priority[c]
        BY <2>6, <3>1, ChainedOwn DEF GetLevelResult
      <3>3. LevelToPriority(call[u].level) <= priority[c]
              <=> LevelToPriority(TRACE) <= priority[c]
        BY <2>3, <3>1, <3>2, AllOrNothing
      <3>4. QED
        BY <2>2, <2>4, <2>6, <3>2, <3>3
    <2>7. QED
      BY <2>1, <2>2, <2>5, <2>6
  <1>2. CASE /\ pc[u] = "log_unlock"
             /\ call'[u] = call[u] /\ outcome'[u] = outcome[u]
             /\ UNCHANGED <<priority, wanted, gRootPriority>>
    BY <1>2 DEF GetTellsWhatIsPrinted, GetLevelResult
  <1>3. QED
    BY <1>1, <1>2, UndisturbedStep

-------------------------------------------------------------------------------
(* A category that rdk_dbg_priv_log has looked at is as it left it until the
   message is printed or dropped. *)
THEOREM LogStepsHold == ASSUME LogAfterInit PROVE Spec => []LogSteps
<1>1. TypeOK /\ MutualExclusion /\ InitOrder /\ LogSteps /\ [Next]_vars => LogSteps'
  BY LogStepsStep
<1>2. QED
  BY <1>1, LogStepsInit, TypeCorrect, MutualExclusionHolds, InitOrderHolds, PTL
     DEF Spec

(* The level last given to a module is the level it has. *)
THEOREM LastLevelWinsHolds == ASSUME LogAfterInit PROVE Spec => []LastLevelWins
<1>1. TypeOK /\ MutualExclusion /\ InitOrder /\ LogSteps /\ LastLevelWins
        /\ [Next]_vars => LastLevelWins'
  BY LastLevelStep
<1>2. QED
  BY <1>1, LastLevelInit, TypeCorrect, MutualExclusionHolds, InitOrderHolds,
     LogStepsHold, PTL DEF Spec

(* The priority of a category that nobody gave one is that of
   LOG.RDK.DEFAULT as debug.ini left it. *)
THEOREM InheritedPriorityHolds ==
  ASSUME LogAfterInit PROVE Spec => []InheritedPriority
<1>1. TypeOK /\ MutualExclusion /\ InitOrder /\ LogSteps /\ InheritedPriority
        /\ [Next]_vars => InheritedPriority'
  BY InheritedStep
<1>2. QED
  BY <1>1, InheritedInit, TypeCorrect, MutualExclusionHolds, InitOrderHolds,
     LogStepsHold, PTL DEF Spec

(* A module nobody gave a level has none or the default. *)
THEOREM InheritsDefaultHolds ==
  ASSUME LogAfterInit PROVE Spec => []InheritsDefault
<1>1. InheritedPriority => InheritsDefault
  BY DEF InheritedPriority, InheritsDefault
<1>2. QED
  BY <1>1, InheritedPriorityHolds, PTL

(* A message is printed exactly when the level its module is meant to have lets
   it through. *)
THEOREM LogFollowsLevelHolds ==
  ASSUME LogAfterInit PROVE Spec => []LogFollowsLevel
<1>1. Init => LogFollowsLevel
  BY DEF Init, LogFollowsLevel
<1>2. TypeOK /\ MutualExclusion /\ InitOrder /\ LogSteps /\ LastLevelWins
        /\ InheritedPriority /\ LogFollowsLevel /\ [Next]_vars => LogFollowsLevel'
  BY LogFollowsLevelStep
<1>3. QED
  BY <1>1, <1>2, TypeCorrect, MutualExclusionHolds, InitOrderHolds, LogStepsHold,
     LastLevelWinsHolds, InheritedPriorityHolds, PTL DEF Spec

(* NONE silences a module when it is the word in debug.ini, and lets everything
   through when it is the level of a call or a request. *)
THEOREM NoneTwoWaysHolds == ASSUME LogAfterInit PROVE Spec => []NoneTwoWays
<1>1. TypeOK /\ LogSteps /\ LogFollowsLevel => NoneTwoWays
  <2> SUFFICES ASSUME TypeOK, LogSteps, LogFollowsLevel, NEW t \in Threads,
                      pc[t] = "log_unlock"
               PROVE  /\ wanted[call[t].cat] = PriorityNone =>
                           outcome[t] # "printed"
                      /\ wanted[call[t].cat] = LevelToPriority(NONE) =>
                           outcome[t] = "printed"
    BY DEF NoneTwoWays
  <2>1. call[t].level \in FATAL..TRACE
    BY CallType DEF LogSteps, RdkLevels, FATAL, TRACE, NONE
  <2>2. /\ LevelToPriority(call[t].level) \in 0..1000
        /\ LevelToPriority(NONE) = 1000
    <3>1. call[t].level \in 0..6
      BY <2>1 DEF FATAL, TRACE
    <3>2. \A l \in 0..6 : LevelToPriority(l) \in 0..1000
      BY DEF LevelToPriority, FATAL, ERROR, TRACE, PriorityFatal, PriorityUnknown
    <3>3. LevelToPriority(7) = 1000
      BY DEF LevelToPriority, FATAL, ERROR, TRACE, PriorityFatal, PriorityUnknown
    <3>4. QED
      BY <3>1, <3>2, <3>3 DEF NONE
  <2>3. outcome[t] = "printed" <=>
          LevelToPriority(call[t].level) <= MeantPriority(call[t].cat)
    BY DEF LogFollowsLevel
  <2>4. ASSUME wanted[call[t].cat] = PriorityNone
        PROVE  outcome[t] # "printed"
    <3>1. MeantPriority(call[t].cat) = -1
      BY <2>4 DEF MeantPriority, PriorityNone, PriorityNotSet
    <3>2. QED
      BY <2>2, <2>3, <3>1
  <2>5. ASSUME wanted[call[t].cat] = LevelToPriority(NONE)
        PROVE  outcome[t] = "printed"
    <3>1. MeantPriority(call[t].cat) = 1000
      BY <2>2, <2>5 DEF MeantPriority, PriorityNotSet
    <3>2. QED
      BY <2>2, <2>3, <3>1
  <2>6. QED
    BY <2>4, <2>5
<1>2. QED
  BY <1>1, TypeCorrect, LogStepsHold, LogFollowsLevelHolds, PTL

(* rdk_logger_get_logLevel answers with the level messages are printed by. *)
THEOREM GetTellsWhatIsPrintedHolds ==
  ASSUME LogAfterInit PROVE Spec => []GetTellsWhatIsPrinted
<1>1. Init => GetTellsWhatIsPrinted
  BY DEF Init, GetTellsWhatIsPrinted
<1>2. TypeOK /\ MutualExclusion /\ InitOrder /\ LogSteps
        /\ GetTellsWhatIsPrinted /\ [Next]_vars => GetTellsWhatIsPrinted'
  BY GetTellsStep
<1>3. QED
  BY <1>1, <1>2, TypeCorrect, MutualExclusionHolds, InitOrderHolds, LogStepsHold,
     PTL DEF Spec
===============================================================================
