----------------------------- MODULE RegisterProofs -----------------------------
(***************************************************************************)
(* LoggerCore implements LevelRegister, for clients that log only after a  *)
(* successful rdk_logger_init: every step of a thread is one of the        *)
(* register or none, and a message is judged in the step LogCheck.         *)
(***************************************************************************)
EXTENDS LevelProofs

(* Only between LogCheck and LogUnlock a call has an outcome. *)
OutcomeStage == \A t \in Threads : outcome[t] # "none" => pc[t] = "log_unlock"

(* A step decides on no message and forgets no decision. *)
DecisionsKept ==
  \A u \in Threads :
    /\ outcome'[u] = outcome[u]
    /\ outcome[u] # "none" => call'[u] = call[u] /\ pc'[u] = pc[u]

(* Only the two steps decide or forget. *)
LEMMA DecisionsStep ==
  ASSUME TypeOK, OutcomeStage, [Next]_vars
  PROVE  (\E t \in Threads : LogCheck(t) \/ LogUnlock(t)) \/ DecisionsKept
  <1>0. /\ pc \in [Threads -> Labels] /\ call \in [Threads -> Calls \cup {NoCall}]
        /\ outcome \in [Threads -> {"none", "printed", "dropped"}]
    BY DEF TypeOK, TypeThreads
  <1> DEFINE Goal == (\E t \in Threads : LogCheck(t) \/ LogUnlock(t)) \/ DecisionsKept
  <1> USE <1>0 DEF calls, Goto, OutcomeStage, DecisionsKept
  <1>1. ASSUME NEW t \in Threads, NEW c \in Calls, Enter(t, c)
        PROVE  Goal
    BY <1>1 DEF Enter
  <1>2. ASSUME NEW t \in Threads, InitLock(t)
        PROVE  Goal
    BY <1>2 DEF InitLock
  <1>3. ASSUME NEW t \in Threads, ExtLock(t)
        PROVE  Goal
    BY <1>3 DEF ExtLock
  <1>4. ASSUME NEW t \in Threads, DeinitLock(t)
        PROVE  Goal
    BY <1>4 DEF DeinitLock
  <1>5. ASSUME NEW t \in Threads, DynInitLock(t)
        PROVE  Goal
    BY <1>5 DEF DynInitLock
  <1>6. ASSUME NEW t \in Threads, DeinitRequestLock(t)
        PROVE  Goal
    BY <1>6 DEF DeinitRequestLock
  <1>7. ASSUME NEW t \in Threads, ExtLoggingLock(t)
        PROVE  Goal
    BY <1>7 DEF ExtLoggingLock
  <1>8. ASSUME NEW t \in Threads, ApplyLock(t)
        PROVE  Goal
    BY <1>8 DEF ApplyLock
  <1>9. ASSUME NEW t \in Threads, LogLock(t)
        PROVE  Goal
    BY <1>9 DEF LogLock
  <1>10. ASSUME NEW t \in Threads, LevelLock(t)
        PROVE  Goal
    BY <1>10 DEF LevelLock
  <1>11. ASSUME NEW t \in Threads, PrivInit(t)
        PROVE  Goal
    BY <1>11 DEF PrivInit
  <1>12. ASSUME NEW t \in Threads, OpenConfig(t)
        PROVE  Goal
    BY <1>12 DEF OpenConfig
  <1>13. ASSUME NEW t \in Threads, ParseModule(t)
        PROVE  Goal
    BY <1>13 DEF ParseModule
  <1>14. ASSUME NEW t \in Threads, ParseDefault(t)
        PROVE  Goal
    BY <1>14 DEF ParseDefault
  <1>15. ASSUME NEW t \in Threads, ParseRootPriority(t)
        PROVE  Goal
    BY <1>15 DEF ParseRootPriority
  <1>16. ASSUME NEW t \in Threads, ParseEnd(t)
        PROVE  Goal
    BY <1>16 DEF ParseEnd
  <1>17. ASSUME NEW t \in Threads, ConfigEnd(t)
        PROVE  Goal
    BY <1>17 DEF ConfigEnd
  <1>18. ASSUME NEW t \in Threads, DynInit(t)
        PROVE  Goal
    BY <1>18 DEF DynInit
  <1>19. ASSUME NEW t \in Threads, SetInited(t)
        PROVE  Goal
    BY <1>19 DEF SetInited
  <1>20. ASSUME NEW t \in Threads, InitUnlock(t)
        PROVE  Goal
    BY <1>20 DEF InitUnlock, Return
  <1>21. ASSUME NEW t \in Threads, ExtApply(t)
        PROVE  Goal
    BY <1>21 DEF ExtApply
  <1>22. ASSUME NEW t \in Threads, ExtUnlock(t)
        PROVE  Goal
    BY <1>22 DEF ExtUnlock, Return
  <1>23. ASSUME NEW t \in Threads, DeinitClose(t)
        PROVE  Goal
    BY <1>23 DEF DeinitClose
  <1>24. ASSUME NEW t \in Threads, LogTryLock(t)
        PROVE  Goal
    BY <1>24 DEF LogTryLock, Return, AfterDrain
  <1>25. ASSUME NEW t \in Threads, Receive(t)
        PROVE  Goal
    BY <1>25 DEF Receive
  <1>26. ASSUME NEW t \in Threads, Apply(t)
        PROVE  Goal
    BY <1>26 DEF Apply
  <1>27. ASSUME NEW t \in Threads, DrainEnd(t)
        PROVE  Goal
    BY <1>27 DEF DrainEnd, Return, AfterDrain
  <1>28. ASSUME NEW t \in Threads, LogRead(t)
        PROVE  Goal
    BY <1>28 DEF LogRead
  <1>29. ASSUME NEW t \in Threads, LogInherit(t)
        PROVE  Goal
    BY <1>29 DEF LogInherit
  <1>30. ASSUME NEW t \in Threads, LogCheck(t)
        PROVE  Goal
    BY <1>30
  <1>31. ASSUME NEW t \in Threads, LogUnlock(t)
        PROVE  Goal
    BY <1>31
  <1>32. ASSUME NEW t \in Threads, SetLevel(t)
        PROVE  Goal
    BY <1>32 DEF SetLevel, Return
  <1>33. ASSUME NEW t \in Threads, GetLevel(t)
        PROVE  Goal
    BY <1>33 DEF GetLevel, Return
  <1>34. ASSUME NEW t \in Threads, IsLevelEnabled(t)
        PROVE  Goal
    BY <1>34 DEF IsLevelEnabled, Return
  <1>35. ASSUME NEW m \in Commands, Send(m)
        PROVE  Goal
    BY <1>35 DEF Send
  <1>36. CASE UNCHANGED vars
    BY <1>36 DEF vars
  <1>37. QED
    BY <1>1, <1>2, <1>3, <1>4, <1>5, <1>6, <1>7, <1>8, <1>9, <1>10, <1>11,
       <1>12, <1>13, <1>14, <1>15, <1>16, <1>17, <1>18, <1>19, <1>20, <1>21,
       <1>22, <1>23, <1>24, <1>25, <1>26, <1>27, <1>28, <1>29, <1>30, <1>31,
       <1>32, <1>33, <1>34, <1>35, <1>36
    DEF Next, Lock, Step

(* How a step may change what the register reads. *)
RegisterInput ==
  \/ UNCHANGED <<wanted, gRootPriority, isLogInited>>
  \/ /\ \E c \in Categories, p \in Priorities : wanted' = [wanted EXCEPT ![c] = p]
     /\ UNCHANGED <<gRootPriority, isLogInited>>
  \/ /\ ~isLogInited /\ gRootPriority' \in Priorities
     /\ UNCHANGED <<wanted, isLogInited>>
  \/ isLogInited' = TRUE /\ UNCHANGED <<wanted, gRootPriority>>

(* One module is given a priority, or the default is set before the
   initialisation has succeeded, or it succeeds. *)
LEMMA RegisterInputStep ==
  ASSUME TypeOK, InitOrder, [Next]_vars
  PROVE  RegisterInput
  <1>0. /\ Root \in Categories /\ priority \in [Categories -> Priorities]
        /\ \A t \in Threads : call[t].cat \in Categories
        /\ \A t \in Threads : call[t].level \in RdkLevels
    BY ConstantTypes, CallType DEF TypeOK, TypeLevels
  <1>i. \A t \in Threads : pc[t] \in ConfigSection => ~isLogInited
    BY DEF InitOrder
  <1>p. \A l \in RdkLevels : LevelToPriority(l) \in Priorities
    BY LevelPriorities
  <1>r. RcPriority \in Priorities
    BY ConstantTypes
  <1>m. \A t \in Threads : message[t].cat \in Categories /\ message[t].level \in RdkLevels
    BY DEF TypeOK, TypeControl, Requests
  <1> USE <1>0, <1>i, <1>p, <1>r, <1>m DEF initVars, levels, SetPriority, ConfigSection, RegisterInput
  <1>1. ASSUME NEW t \in Threads, NEW c \in Calls, Enter(t, c)
        PROVE  RegisterInput
    BY <1>1 DEF Enter
  <1>2. ASSUME NEW t \in Threads, InitLock(t)
        PROVE  RegisterInput
    BY <1>2 DEF InitLock
  <1>3. ASSUME NEW t \in Threads, ExtLock(t)
        PROVE  RegisterInput
    BY <1>3 DEF ExtLock
  <1>4. ASSUME NEW t \in Threads, DeinitLock(t)
        PROVE  RegisterInput
    BY <1>4 DEF DeinitLock
  <1>5. ASSUME NEW t \in Threads, DynInitLock(t)
        PROVE  RegisterInput
    BY <1>5 DEF DynInitLock
  <1>6. ASSUME NEW t \in Threads, DeinitRequestLock(t)
        PROVE  RegisterInput
    BY <1>6 DEF DeinitRequestLock
  <1>7. ASSUME NEW t \in Threads, ExtLoggingLock(t)
        PROVE  RegisterInput
    BY <1>7 DEF ExtLoggingLock
  <1>8. ASSUME NEW t \in Threads, ApplyLock(t)
        PROVE  RegisterInput
    BY <1>8 DEF ApplyLock
  <1>9. ASSUME NEW t \in Threads, LogLock(t)
        PROVE  RegisterInput
    BY <1>9 DEF LogLock
  <1>10. ASSUME NEW t \in Threads, LevelLock(t)
        PROVE  RegisterInput
    BY <1>10 DEF LevelLock
  <1>11. ASSUME NEW t \in Threads, PrivInit(t)
        PROVE  RegisterInput
    BY <1>11 DEF PrivInit
  <1>12. ASSUME NEW t \in Threads, OpenConfig(t)
        PROVE  RegisterInput
    BY <1>12 DEF OpenConfig
  <1>13. ASSUME NEW t \in Threads, ParseModule(t)
        PROVE  RegisterInput
    BY <1>13, ConfigType DEF ParseModule
  <1>14. ASSUME NEW t \in Threads, ParseDefault(t)
        PROVE  RegisterInput
    BY <1>14, ConfigType DEF ParseDefault
  <1>15. ASSUME NEW t \in Threads, ParseRootPriority(t)
        PROVE  RegisterInput
    BY <1>15 DEF ParseRootPriority
  <1>16. ASSUME NEW t \in Threads, ParseEnd(t)
        PROVE  RegisterInput
    BY <1>16 DEF ParseEnd
  <1>17. ASSUME NEW t \in Threads, ConfigEnd(t)
        PROVE  RegisterInput
    BY <1>17 DEF ConfigEnd
  <1>18. ASSUME NEW t \in Threads, DynInit(t)
        PROVE  RegisterInput
    BY <1>18 DEF DynInit
  <1>19. ASSUME NEW t \in Threads, SetInited(t)
        PROVE  RegisterInput
    BY <1>19 DEF SetInited
  <1>20. ASSUME NEW t \in Threads, InitUnlock(t)
        PROVE  RegisterInput
    BY <1>20 DEF InitUnlock, Return
  <1>21. ASSUME NEW t \in Threads, ExtApply(t)
        PROVE  RegisterInput
    BY <1>21 DEF ExtApply
  <1>22. ASSUME NEW t \in Threads, ExtUnlock(t)
        PROVE  RegisterInput
    BY <1>22 DEF ExtUnlock, Return
  <1>23. ASSUME NEW t \in Threads, DeinitClose(t)
        PROVE  RegisterInput
    BY <1>23 DEF DeinitClose
  <1>24. ASSUME NEW t \in Threads, LogTryLock(t)
        PROVE  RegisterInput
    BY <1>24 DEF LogTryLock, Return, AfterDrain
  <1>25. ASSUME NEW t \in Threads, Receive(t)
        PROVE  RegisterInput
    BY <1>25 DEF Receive
  <1>26. ASSUME NEW t \in Threads, Apply(t)
        PROVE  RegisterInput
    BY <1>26 DEF Apply
  <1>27. ASSUME NEW t \in Threads, DrainEnd(t)
        PROVE  RegisterInput
    BY <1>27 DEF DrainEnd, Return, AfterDrain
  <1>28. ASSUME NEW t \in Threads, LogRead(t)
        PROVE  RegisterInput
    BY <1>28 DEF LogRead
  <1>29. ASSUME NEW t \in Threads, LogInherit(t)
        PROVE  RegisterInput
    BY <1>29 DEF LogInherit
  <1>30. ASSUME NEW t \in Threads, LogCheck(t)
        PROVE  RegisterInput
    BY <1>30 DEF LogCheck
  <1>31. ASSUME NEW t \in Threads, LogUnlock(t)
        PROVE  RegisterInput
    BY <1>31 DEF LogUnlock, Return
  <1>32. ASSUME NEW t \in Threads, SetLevel(t)
        PROVE  RegisterInput
    BY <1>32 DEF SetLevel, Return
  <1>33. ASSUME NEW t \in Threads, GetLevel(t)
        PROVE  RegisterInput
    BY <1>33 DEF GetLevel, Return
  <1>34. ASSUME NEW t \in Threads, IsLevelEnabled(t)
        PROVE  RegisterInput
    BY <1>34 DEF IsLevelEnabled, Return
  <1>35. ASSUME NEW m \in Commands, Send(m)
        PROVE  RegisterInput
    BY <1>35 DEF Send
  <1>36. CASE UNCHANGED vars
    BY <1>36 DEF vars
  <1>37. QED
    BY <1>1, <1>2, <1>3, <1>4, <1>5, <1>6, <1>7, <1>8, <1>9, <1>10, <1>11,
       <1>12, <1>13, <1>14, <1>15, <1>16, <1>17, <1>18, <1>19, <1>20, <1>21,
       <1>22, <1>23, <1>24, <1>25, <1>26, <1>27, <1>28, <1>29, <1>30, <1>31,
       <1>32, <1>33, <1>34, <1>35, <1>36
    DEF Next, Lock, Step
-------------------------------------------------------------------------------
(* A call has an outcome only between its decision and its return. *)
LEMMA OutcomeStageStep ==
  ASSUME TypeOK, OutcomeStage, [Next]_vars
  PROVE  OutcomeStage'
  <1>0. /\ outcome \in [Threads -> {"none", "printed", "dropped"}]
        /\ pc \in [Threads -> Labels]
    BY DEF TypeOK, TypeThreads
  <1>1. ASSUME NEW t \in Threads, LogCheck(t)
        PROVE  OutcomeStage'
    BY <1>0, <1>1 DEF LogCheck, Goto, OutcomeStage
  <1>2. ASSUME NEW t \in Threads, LogUnlock(t)
        PROVE  OutcomeStage'
    BY <1>0, <1>2 DEF LogUnlock, Return, Goto, OutcomeStage
  <1>3. CASE DecisionsKept
    BY <1>3 DEF DecisionsKept, OutcomeStage
  <1>4. QED
    BY <1>1, <1>2, <1>3, DecisionsStep

(* The numbers mean the same in the register, which extends the same modules. *)
LEMMA RegisterValues ==
  /\ Register!PriorityNotSet = PriorityNotSet
  /\ Register!Priorities = Priorities
  /\ Register!FATAL..Register!TRACE = FATAL..TRACE
  /\ \A l \in RdkLevels : Register!LevelToPriority(l) = LevelToPriority(l)
  BY DEF Register!PriorityNotSet, PriorityNotSet, Register!Priorities,
     Priorities, Register!FATAL, FATAL, Register!TRACE, TRACE,
     Register!LevelToPriority, LevelToPriority, Register!ERROR, ERROR,
     Register!PriorityFatal, PriorityFatal, Register!PriorityUnknown,
     PriorityUnknown, Register!PriorityNone, PriorityNone

(* What the register means a module's priority to be: its parents count only
   while there is no default, and then log4c's tree holds just what was given
   on purpose. *)
LEMMA RegisterMeant ==
  ASSUME TypeOK, LastLevelWins, InheritedPriority, NEW c \in Categories
  PROVE  Register!Meant(c) = MeantPriority(c)
  <1>1. CASE wanted[c] # PriorityNotSet \/ gRootPriority # PriorityNotSet
    BY <1>1, RegisterValues DEF Register!Meant, MeantPriority
  <1>2. CASE wanted[c] = PriorityNotSet /\ gRootPriority = PriorityNotSet
    <2>1. \A d \in Categories : priority[d] = wanted[d]
      BY <1>2 DEF LastLevelWins, InheritedPriority
    <2>2. priority = wanted
      BY <2>1 DEF TypeOK, TypeLevels
    <2>3. Register!ChainedPriority(wanted, c) = ChainedPriority(wanted, c)
      BY RegisterValues DEF Register!ChainedPriority, ChainedPriority
    <2>4. QED
      BY <1>2, <2>2, <2>3, RegisterValues DEF Register!Meant, MeantPriority
  <1>3. QED
    BY <1>1, <1>2

(* LogCheck is the instant in which the register judges the message. *)
LEMMA CheckDecides ==
  ASSUME TypeOK, LogSteps, LastLevelWins, InheritedPriority, OutcomeStage,
         NEW t \in Threads, LogCheck(t)
  PROVE  Register!Decide(t, call[t].cat, call[t].level)
  <1> DEFINE c == call[t].cat
             l == call[t].level
  <1>1. /\ pc[t] = "log_check" /\ isLogInited /\ outcome[t] = "none"
        /\ c \in Categories /\ l \in RdkLevels /\ l # NONE
    BY CallType DEF LogCheck, LogSteps, LogSection, OutcomeStage, TypeOK, TypeThreads
  <1>2. UNCHANGED <<wanted, gRootPriority, isLogInited, call>>
    BY DEF LogCheck, levels, initVars, calls
  <1>3. outcome' = [outcome EXCEPT ![t] =
          IF LevelToPriority(l) <= Register!Meant(c) THEN "printed" ELSE "dropped"]
    <2>1. ChainedPriority(priority, c) = Register!Meant(c)
      BY <1>1, MeantIsUsed, RegisterMeant
    <2>2. (ChainedPriority(priority, c) >= LevelToPriority(l)) <=>
            (LevelToPriority(l) <= ChainedPriority(priority, c))
      OBVIOUS
    <2>3. QED
      BY <2>1, <2>2 DEF LogCheck, IsPriorityEnabled
  <1>4. outcome \in [Threads -> {"none", "printed", "dropped"}]
    BY DEF TypeOK, TypeThreads
  <1>5. (outcome'[t] = "printed") = (LevelToPriority(l) <= Register!Meant(c))
    BY <1>3, <1>4
  <1>6. Register!LevelToPriority(l) = LevelToPriority(l)
    BY <1>1, RegisterValues
  <1>7. Decided' = [Decided EXCEPT ![t] =
          {[cat |-> c, level |-> l,
            printed |-> Register!LevelToPriority(l) <= Register!Meant(c)]}]
    <2>1. Decided'[t] = {[cat |-> c, level |-> l,
            printed |-> Register!LevelToPriority(l) <= Register!Meant(c)]}
      BY <1>2, <1>3, <1>4, <1>5, <1>6 DEF Decided
    <2>2. \A u \in Threads \ {t} : Decided'[u] = Decided[u]
      BY <1>2, <1>3, <1>4 DEF Decided
    <2>3. QED
      BY <2>1, <2>2 DEF Decided
  <1>8. Decided[t] = {}
    BY <1>1 DEF Decided
  <1>9. QED
    BY <1>1, <1>2, <1>7, <1>8 DEF Register!Decide

(* LogUnlock is where it forgets the decision. *)
LEMMA UnlockForgets ==
  ASSUME TypeOK, NEW t \in Threads, LogUnlock(t)
  PROVE  Register!Forget(t)
  <1>1. UNCHANGED <<wanted, gRootPriority, isLogInited>>
    BY DEF LogUnlock, levels, initVars
  <1>2. /\ outcome \in [Threads -> {"none", "printed", "dropped"}]
        /\ call \in [Threads -> Calls \cup {NoCall}]
    BY DEF TypeOK, TypeThreads
  <1>3. Decided' = [Decided EXCEPT ![t] = {}]
    <2>1. Decided'[t] = {}
      BY <1>2 DEF LogUnlock, Return, Decided
    <2>2. \A u \in Threads \ {t} : Decided'[u] = Decided[u]
      BY <1>2 DEF LogUnlock, Return, Decided
    <2>3. QED
      BY <2>1, <2>2 DEF Decided
  <1>4. QED
    BY <1>1, <1>3 DEF Register!Forget

(* Every step of a thread is one of the register, or none. *)
LEMMA RegisterStep ==
  ASSUME TypeOK, InitOrder, LogSteps, LastLevelWins, InheritedPriority,
         OutcomeStage, [Next]_vars
  PROVE  [Register!Next]_(Register!vars)
  <1>1. ASSUME NEW t \in Threads, LogCheck(t)
        PROVE  Register!Next
    <2>1. call[t].cat \in Categories /\ call[t].level \in FATAL..TRACE
      BY <1>1, CallType DEF LogCheck, LogSteps, RdkLevels, FATAL, TRACE, NONE
    <2>2. QED
      BY <1>1, <2>1, CheckDecides, RegisterValues DEF Register!Next
  <1>2. ASSUME NEW t \in Threads, LogUnlock(t)
        PROVE  Register!Next
    BY <1>2, UnlockForgets DEF Register!Next
  <1>3. CASE DecisionsKept
    <2>1. Decided' = Decided
      BY <1>3 DEF DecisionsKept, Decided
    <2>2. CASE UNCHANGED <<wanted, gRootPriority, isLogInited>>
      BY <2>1, <2>2 DEF Register!vars
    <2>3. CASE /\ \E c \in Categories, p \in Priorities :
                    wanted' = [wanted EXCEPT ![c] = p]
               /\ UNCHANGED <<gRootPriority, isLogInited>>
      BY <2>1, <2>3, RegisterValues DEF Register!Next, Register!Give
    <2>4. CASE /\ ~isLogInited /\ gRootPriority' \in Priorities
               /\ UNCHANGED <<wanted, isLogInited>>
      BY <2>1, <2>4, RegisterValues DEF Register!Next, Register!SetDefault
    <2>5. CASE isLogInited' = TRUE /\ UNCHANGED <<wanted, gRootPriority>>
      BY <2>1, <2>5 DEF Register!Next, Register!BecomeReady
    <2>6. QED
      BY <2>2, <2>3, <2>4, <2>5, RegisterInputStep DEF RegisterInput
  <1>4. QED
    BY <1>1, <1>2, <1>3, DecisionsStep

(* To a client that logs only after a successful rdk_logger_init the library is
   one register of levels, however many threads configure, set, drain and log:
   no message is judged by a level that was not in force at one instant of the
   call. *)
THEOREM RegisterImplemented ==
  ASSUME LogAfterInit PROVE Spec => ImplementsRegister
<1>1. Init => Register!Init /\ OutcomeStage
  BY RegisterValues
     DEF Init, Register!Init, Decided, OutcomeStage, Register!LevelToPriority,
         LevelToPriority, Register!WARN, WARN, Register!ERROR, ERROR,
         Register!TRACE, TRACE, Register!FATAL, FATAL
<1>2. TypeOK /\ OutcomeStage /\ [Next]_vars => OutcomeStage'
  BY OutcomeStageStep
<1>3. TypeOK /\ InitOrder /\ LogSteps /\ LastLevelWins /\ InheritedPriority
        /\ OutcomeStage /\ [Next]_vars => [Register!Next]_(Register!vars)
  BY RegisterStep
<1>4. QED
  BY <1>1, <1>2, <1>3, TypeCorrect, InitOrderHolds, LogStepsHold,
     LastLevelWinsHolds, InheritedPriorityHolds, PTL
     DEF Spec, ImplementsRegister, Register!Spec
================================================================================
