----------------------------- MODULE LoggerProofs -----------------------------
(***************************************************************************)
(* Proofs, for every number of threads and every set of categories, calls, *)
(* commands and configuration lines, of the safety properties of           *)
(* LoggerProperties.                                                       *)
(***************************************************************************)
EXTENDS LoggerProperties, SequenceLemmas

(***************************************************************************)
(* Type correctness.                                                       *)
(***************************************************************************)

(* rdk_logLevel_to_log4c_priority gives every level a priority. *)
LEMMA LevelPriorities == \A l \in RdkLevels : LevelToPriority(l) \in Priorities
  BY DEF RdkLevels, LevelToPriority, Priorities, FATAL, ERROR, TRACE, NONE,
         PriorityFatal, PriorityUnknown, PriorityNone, PriorityNotSet

(* So does a line of debug.ini, whatever stands behind the =. *)
LEMMA ConfiguredPriorities ==
  \A v \in ConfigValues : ConfiguredPriority(v) \in Priorities
  BY DEF RdkLevels, LevelToPriority, ConfiguredPriority, ConfigValues,
         OtherText, Priorities, FATAL, ERROR, TRACE, NONE, PriorityFatal,
         PriorityUnknown, PriorityNone, PriorityNotSet

(* Giving a category a priority keeps the types of both functions. *)
LEMMA SetPriorityType ==
  ASSUME NEW c \in Categories, NEW p \in Priorities,
         priority \in [Categories -> Priorities],
         wanted \in [Categories -> Priorities],
         SetPriority(c, p)
  PROVE  /\ priority' \in [Categories -> Priorities]
         /\ wanted' \in [Categories -> Priorities]
  BY DEF SetPriority

(* The placeholder for the call of a thread outside the library. *)
LEMMA NoCallType == NoCall.level \in RdkLevels /\ NoCall.cat \in Categories
  BY LoggerAssumption DEF NoCall, RdkLevels, FATAL, NONE

(* The arguments of a call in progress. *)
LEMMA CallType ==
  ASSUME TypeOK, NEW t \in Threads
  PROVE  call[t].cat \in Categories /\ call[t].level \in RdkLevels
  <1>1. call[t] \in Calls \cup {NoCall}
    BY DEF TypeOK, TypeThreads
  <1>2. CASE call[t] = NoCall
    BY <1>2, NoCallType
  <1>3. CASE call[t] \in CallRecords
    BY <1>3 DEF CallRecords
  <1>4. QED
    BY <1>1, <1>2, <1>3, LoggerAssumption

(* The constants that the steps below write into a variable. *)
LEMMA ConstantTypes ==
  /\ NoThread \notin Threads
  /\ Root \in Categories
  /\ RcPriority \in Priorities /\ RcPriority # PriorityNotSet
  /\ NoMessage \in Requests
  /\ NoPromise \in Categories \X RdkLevels
  /\ LevelToPriority(WARN) \in Priorities
  /\ PriorityNotSet \in Priorities
  BY LoggerAssumption, LevelPriorities
     DEF NoMessage, NoPromise, Requests, RdkLevels, FATAL, NONE, WARN,
         Priorities, PriorityNotSet

(* A line of debug.ini names LOG.RDK.DEFAULT or a module other than LOG.RDK. *)
LEMMA ConfigType ==
  ASSUME NEW t, NEW i \in DOMAIN Lines(t)
  PROVE  /\ Lines(t)[i].value \in ConfigValues
         /\ Lines(t)[i].name # Default => Lines(t)[i].name \in Categories
         /\ ConfiguredPriority(Lines(t)[i].value) \in Priorities
  <1>1. Lines(t) \in Seq(LineRecords)
    BY LoggerAssumption DEF Lines
  <1>2. Lines(t)[i] \in LineRecords
    BY <1>1, ElementOfSeq
  <1>3. QED
    BY <1>2, ConfiguredPriorities DEF LineRecords

(* Where a call starts: outside every section, waiting for a mutex. *)
LEMMA CallStart ==
  ASSUME NEW c \in Calls
  PROVE  /\ FirstLabel[c.kind] \in {"init_lock", "deinit_lock", "log_trylock",
                                    "set_lock", "get_lock", "enabled_lock"}
         /\ FirstLabel[c.kind] = "log_trylock" => c.kind = "log"
         /\ c.kind # "none"
  <1>1. c.kind \in CallKinds
    BY LoggerAssumption DEF CallRecords
  <1>2. QED
    BY <1>1 DEF CallKinds, FirstLabel

(* Leaving the library, and leaving rdk_dyn_log_process_pending_request. *)
LEMMA ReturnType ==
  ASSUME TypeThreads, NEW t \in Threads, Return(t), UNCHANGED promise
  PROVE  TypeThreads'
  BY DEF TypeThreads, Return, Goto, Labels

(* Where a thread goes on behind the draining keeps its types. *)
LEMMA AfterDrainType ==
  ASSUME TypeThreads, NEW t \in Threads, AfterDrain(t), UNCHANGED promise
  PROVE  TypeThreads'
  <1>1. CASE call[t].level = NONE
    BY <1>1, ReturnType DEF AfterDrain
  <1>2. CASE call[t].level # NONE
    BY <1>2 DEF AfterDrain, TypeThreads, Goto, Labels
  <1>3. QED
    BY <1>1, <1>2

(* A datagram leaves the queue, or joins it. *)
LEMMA QueueType ==
  ASSUME queue \in Seq(Requests)
  PROVE  /\ queue # << >> => Head(queue) \in Requests /\ Tail(queue) \in Seq(Requests)
         /\ \A m \in Requests : Append(queue, m) \in Seq(Requests)
         /\ << >> \in Seq(Requests)
  OBVIOUS

(* Every variable keeps its type. *)
THEOREM TypeCorrect == Spec => []TypeOK
<1>1. Init => TypeOK
  <2> SUFFICES ASSUME Init
               PROVE  TypeOK
    OBVIOUS
  <2>1. TypeMutexes /\ TypeInit
    <3>1. line \in Nat \ {0}
      BY DEF Init
    <3>2. QED
      BY <3>1, Zenon DEF Init, TypeMutexes, TypeInit
  <2>2. TypeRouting
    BY Zenon DEF Init, TypeRouting
  <2>3. TypeLevels
    BY ConstantTypes DEF Init, TypeLevels
  <2>4. TypeControl
    <3>1. socket \in BOOLEAN /\ sent \in Nat /\ applied \in Nat
      BY DEF Init
    <3>2. queue \in Seq(Requests)
      BY EmptySeq DEF Init
    <3>3. message \in [Threads -> Requests]
      BY ConstantTypes DEF Init
    <3>4. QED
      BY <3>1, <3>2, <3>3 DEF TypeControl
  <2>5. TypeThreads
    BY ConstantTypes DEF Init, TypeThreads, Labels
  <2>6. QED
    BY <2>1, <2>2, <2>3, <2>4, <2>5 DEF TypeOK
<1>2. TypeOK /\ [Next]_vars => TypeOK'
  <2> SUFFICES ASSUME TypeOK, [Next]_vars
               PROVE  TypeOK'
    OBVIOUS
  <2> USE DEF mutexes, initVars, levels, routing, control, calls, Goto,
              TypeMutexes, TypeInit, TypeLevels, TypeRouting, TypeControl,
              TypeThreads
  <2>1. ASSUME NEW t \in Threads, NEW c \in Calls, Enter(t, c)
        PROVE  TypeOK'
    <3>1. (TypeMutexes /\ TypeInit /\ TypeLevels /\ TypeRouting /\ TypeControl)'
      BY <2>1 DEF TypeOK, Enter
    <3>2. TypeThreads'
      BY <2>1, CallStart, ConstantTypes DEF TypeOK, Enter, calls, Labels
    <3>. QED
      BY <3>1, <3>2 DEF TypeOK
  <2>2. ASSUME NEW t \in Threads, InitLock(t)
        PROVE  TypeOK'
    BY <2>2 DEF TypeOK, Labels, InitLock
  <2>3. ASSUME NEW t \in Threads, ExtLock(t)
        PROVE  TypeOK'
    BY <2>3 DEF TypeOK, Labels, ExtLock
  <2>4. ASSUME NEW t \in Threads, DeinitLock(t)
        PROVE  TypeOK'
    BY <2>4 DEF TypeOK, Labels, DeinitLock
  <2>5. ASSUME NEW t \in Threads, DynInitLock(t)
        PROVE  TypeOK'
    BY <2>5 DEF TypeOK, Labels, DynInitLock
  <2>6. ASSUME NEW t \in Threads, DeinitRequestLock(t)
        PROVE  TypeOK'
    BY <2>6 DEF TypeOK, Labels, DeinitRequestLock
  <2>7. ASSUME NEW t \in Threads, ExtLoggingLock(t)
        PROVE  TypeOK'
    BY <2>7 DEF TypeOK, Labels, ExtLoggingLock
  <2>8. ASSUME NEW t \in Threads, ApplyLock(t)
        PROVE  TypeOK'
    BY <2>8 DEF TypeOK, Labels, ApplyLock
  <2>9. ASSUME NEW t \in Threads, LogLock(t)
        PROVE  TypeOK'
    BY <2>9 DEF TypeOK, Labels, LogLock
  <2>10. ASSUME NEW t \in Threads, LevelLock(t)
        PROVE  TypeOK'
    BY <2>10 DEF TypeOK, Labels, LevelLock
  <2>11. ASSUME NEW t \in Threads, PrivInit(t)
        PROVE  TypeOK'
    <3>1. (TypeMutexes /\ TypeInit /\ TypeRouting /\ TypeControl)'
      BY <2>11 DEF TypeOK, PrivInit
    <3>2. TypeThreads'
      BY <2>11 DEF TypeOK, Labels, PrivInit
    <3>3. TypeLevels'
      BY <2>11, ConstantTypes, SetPriorityType DEF TypeOK, PrivInit
    <3>. QED
      BY <3>1, <3>2, <3>3 DEF TypeOK
  <2>12. ASSUME NEW t \in Threads, OpenConfig(t)
        PROVE  TypeOK'
    BY <2>12 DEF TypeOK, Labels, OpenConfig
  <2>13. ASSUME NEW t \in Threads, ParseModule(t)
        PROVE  TypeOK'
    BY <2>13, ConfigType DEF TypeOK, Labels, ParseModule, SetPriority
  <2>14. ASSUME NEW t \in Threads, ParseDefault(t)
        PROVE  TypeOK'
    <3>1. (TypeMutexes /\ TypeInit /\ TypeRouting /\ TypeControl)'
      BY <2>14 DEF TypeOK, ParseDefault
    <3>2. TypeThreads'
      BY <2>14 DEF TypeOK, Labels, ParseDefault
    <3>3. TypeLevels'
      BY <2>14, ConstantTypes, ConfigType, SetPriorityType DEF TypeOK, ParseDefault
    <3>. QED
      BY <3>1, <3>2, <3>3 DEF TypeOK
  <2>15. ASSUME NEW t \in Threads, ParseRootPriority(t)
        PROVE  TypeOK'
    BY <2>15, ConstantTypes DEF TypeOK, Labels, ParseRootPriority
  <2>16. ASSUME NEW t \in Threads, ParseEnd(t)
        PROVE  TypeOK'
    BY <2>16 DEF TypeOK, Labels, ParseEnd
  <2>17. ASSUME NEW t \in Threads, ConfigEnd(t)
        PROVE  TypeOK'
    BY <2>17, ConstantTypes DEF TypeOK, Labels, ConfigEnd
  <2>18. ASSUME NEW t \in Threads, DynInit(t)
        PROVE  TypeOK'
    BY <2>18 DEF TypeOK, Labels, DynInit
  <2>19. ASSUME NEW t \in Threads, SetInited(t)
        PROVE  TypeOK'
    BY <2>19 DEF TypeOK, Labels, SetInited
  <2>20. ASSUME NEW t \in Threads, InitUnlock(t)
        PROVE  TypeOK'
    <3>1. (TypeMutexes /\ TypeInit /\ TypeLevels /\ TypeRouting /\ TypeControl)'
      BY <2>20 DEF TypeOK, InitUnlock
    <3>2. TypeThreads'
      BY <2>20, ReturnType DEF TypeOK, Labels, InitUnlock
    <3>. QED
      BY <3>1, <3>2 DEF TypeOK
  <2>21. ASSUME NEW t \in Threads, ExtApply(t)
        PROVE  TypeOK'
    <3>1. (TypeMutexes /\ TypeInit /\ TypeRouting /\ TypeControl)'
      BY <2>21 DEF TypeOK, ExtApply
    <3>2. TypeThreads'
      BY <2>21 DEF TypeOK, Labels, ExtApply
    <3>3. TypeLevels'
      BY <2>21, CallType, LevelPriorities, SetPriorityType DEF TypeOK, ExtApply
    <3>. QED
      BY <3>1, <3>2, <3>3 DEF TypeOK
  <2>22. ASSUME NEW t \in Threads, ExtUnlock(t)
        PROVE  TypeOK'
    BY <2>22 DEF TypeOK, Labels, ExtUnlock, Return
  <2>23. ASSUME NEW t \in Threads, DeinitClose(t)
        PROVE  TypeOK'
    <3>1. (TypeMutexes /\ TypeInit /\ TypeLevels /\ TypeRouting)'
      BY <2>23 DEF TypeOK, DeinitClose
    <3>2. TypeThreads'
      BY <2>23 DEF TypeOK, Labels, DeinitClose
    <3>3. TypeControl'
      BY <2>23, QueueType DEF TypeOK, DeinitClose
    <3>. QED
      BY <3>1, <3>2, <3>3 DEF TypeOK
  <2>24. ASSUME NEW t \in Threads, LogTryLock(t)
        PROVE  TypeOK'
    <3>1. (TypeMutexes /\ TypeInit /\ TypeLevels /\ TypeRouting /\ TypeControl)'
      BY <2>24 DEF TypeOK, LogTryLock
    <3>2. TypeThreads'
      BY <2>24, AfterDrainType DEF TypeOK, Labels, LogTryLock
    <3>. QED
      BY <3>1, <3>2 DEF TypeOK
  <2>25. ASSUME NEW t \in Threads, Receive(t)
        PROVE  TypeOK'
    <3>1. (TypeMutexes /\ TypeInit /\ TypeLevels /\ TypeRouting)'
      BY <2>25 DEF TypeOK, Receive
    <3>2. TypeThreads'
      BY <2>25 DEF TypeOK, Labels, Receive
    <3>3. TypeControl'
      BY <2>25, QueueType DEF TypeOK, Receive
    <3>. QED
      BY <3>1, <3>2, <3>3 DEF TypeOK
  <2>26. ASSUME NEW t \in Threads, Apply(t)
        PROVE  TypeOK'
    <3>1. (TypeMutexes /\ TypeInit /\ TypeRouting)'
      BY <2>26 DEF TypeOK, Apply
    <3>2. TypeThreads'
      BY <2>26 DEF TypeOK, Labels, Apply
    <3>3. TypeLevels'
      <4>1. message[t].cat \in Categories /\ message[t].level \in RdkLevels
        BY DEF TypeOK, Requests
      <4>2. QED
        BY <2>26, <4>1, LevelPriorities, SetPriorityType DEF TypeOK, Apply
    <3>4. TypeControl'
      BY <2>26, ConstantTypes DEF TypeOK, Apply, Requests
    <3>. QED
      BY <3>1, <3>2, <3>3, <3>4 DEF TypeOK
  <2>27. ASSUME NEW t \in Threads, DrainEnd(t)
        PROVE  TypeOK'
    <3>1. (TypeMutexes /\ TypeInit /\ TypeLevels /\ TypeRouting)'
      BY <2>27 DEF TypeOK, DrainEnd
    <3>2. TypeThreads'
      BY <2>27, AfterDrainType DEF TypeOK, DrainEnd
    <3>3. TypeControl'
      BY <2>27, ConstantTypes DEF TypeOK, DrainEnd
    <3>. QED
      BY <3>1, <3>2, <3>3 DEF TypeOK
  <2>28. ASSUME NEW t \in Threads, LogRead(t)
        PROVE  TypeOK'
    BY <2>28 DEF TypeOK, Labels, LogRead
  <2>29. ASSUME NEW t \in Threads, LogInherit(t)
        PROVE  TypeOK'
    BY <2>29, CallType DEF TypeOK, Labels, LogInherit
  <2>30. ASSUME NEW t \in Threads, LogCheck(t)
        PROVE  TypeOK'
    BY <2>30 DEF TypeOK, Labels, LogCheck
  <2>31. ASSUME NEW t \in Threads, LogUnlock(t)
        PROVE  TypeOK'
    BY <2>31 DEF TypeOK, Labels, LogUnlock, Return
  <2>32. ASSUME NEW t \in Threads, SetLevel(t)
        PROVE  TypeOK'
    BY <2>32, CallType, LevelPriorities DEF TypeOK, Labels, SetLevel,
       Return, SetPriority
  <2>33. ASSUME NEW t \in Threads, GetLevel(t)
        PROVE  TypeOK'
    BY <2>33 DEF TypeOK, Labels, GetLevel, Return
  <2>34. ASSUME NEW t \in Threads, IsLevelEnabled(t)
        PROVE  TypeOK'
    BY <2>34, CallType, ConstantTypes DEF TypeOK, Labels, IsLevelEnabled, Return
  <2>35. ASSUME NEW m \in Commands, Send(m)
        PROVE  TypeOK'
    <3>1. (TypeMutexes /\ TypeInit /\ TypeLevels /\ TypeRouting /\ TypeThreads)'
      BY <2>35 DEF TypeOK, Send
    <3>2. TypeControl'
      <4>1. m \in CommandRecords
        BY LoggerAssumption
      <4>2. [id |-> sent + 1, cat |-> m.cat, level |-> m.level,
             valid |-> m.valid] \in Requests
        BY <4>1 DEF CommandRecords, Requests, TypeOK
      <4>3. QED
        BY <2>35, <4>2, QueueType DEF TypeOK, Send
    <3>. QED
      BY <3>1, <3>2 DEF TypeOK
  <2>36. CASE UNCHANGED vars
    BY <2>36 DEF TypeOK, vars
  <2> QED
    BY <2>1, <2>2, <2>3, <2>4, <2>5, <2>6, <2>7, <2>8, <2>9, <2>10, <2>11,
       <2>12, <2>13, <2>14, <2>15, <2>16, <2>17, <2>18, <2>19, <2>20, <2>21,
       <2>22, <2>23, <2>24, <2>25, <2>26, <2>27, <2>28, <2>29, <2>30, <2>31,
       <2>32, <2>33, <2>34, <2>35, <2>36 DEF Next, Lock, Step
<1>3. QED
  BY <1>1, <1>2, PTL DEF Spec

(***************************************************************************)
(* Every message reaches one appender.                                     *)
(***************************************************************************)

(* Looking up from a category, the first appender is the only one reached. *)
LEMMA ReceiversOfRouted ==
  ASSUME TypeOK, BelowRoot, Routed, NEW c \in Categories
  PROVE  \/ Receivers(appender, additive, c) = {} /\ ~isInited
         \/ \E r : Receivers(appender, additive, c) = {r}
  <1> DEFINE p == Path[c]
             with == {i \in DOMAIN p : appender[p[i]]}
  <1>1. /\ p \in Seq(Categories) /\ p # << >>
        /\ DOMAIN p = 1..Len(p) /\ Len(p) \in Nat \ {0}
        /\ \A i \in DOMAIN p : p[i] \in Categories
    <2>1. p \in Seq(Categories) /\ p # << >>
      BY PathAssumption
    <2>2. QED
      BY <2>1, ElementOfSeq
  <1>2. \A i \in DOMAIN p : p[i] = Root <=> i = Len(p)
    BY DEF BelowRoot
  <1>3. with \subseteq DOMAIN p /\ with \in SUBSET Nat
    BY <1>1
  <1>4. Receivers(appender, additive, c)
          = {p[i] : i \in {k \in with : \A j \in 1..(k - 1) : additive[p[j]]}}
    BY DEF Receivers
  <1>5. CASE with = {}
    <2>1. ~isInited
      BY <1>1, <1>2, <1>5 DEF Routed
    <2>2. QED
      BY <1>4, <1>5, <2>1
  <1>6. CASE with # {}
    <2>1. PICK m \in with : \A n \in with : m <= n
      BY <1>3, <1>6, LeastNumber
    <2> DEFINE reached == {k \in with : \A j \in 1..(k - 1) : additive[p[j]]}
    <2>2. m \in 1..Len(p)
      BY <1>1
    <2>3. \A j \in 1..(m - 1) : additive[p[j]]
      <3> SUFFICES ASSUME NEW j \in 1..(m - 1)
                   PROVE  additive[p[j]]
        OBVIOUS
      <3>1. j \in DOMAIN p /\ j < m /\ j # Len(p)
        BY <1>1, <2>2
      <3>2. j \notin with
        BY <1>1, <2>1, <2>2, <3>1
      <3>3. p[j] \in Categories \ {Root} /\ ~appender[p[j]]
        BY <1>1, <1>2, <3>1, <3>2
      <3>4. QED
        BY <3>3 DEF Routed
    <2>4. ASSUME NEW k \in with, \A j \in 1..(k - 1) : additive[p[j]]
          PROVE  k = m
      <3> SUFFICES ASSUME k # m
                   PROVE  FALSE
        OBVIOUS
      <3>1. k \in DOMAIN p /\ m < k
        BY <1>1, <2>1, <2>2
      <3>2. m \in 1..(k - 1) /\ m # Len(p)
        BY <1>1, <2>2, <3>1
      <3>3. p[m] \in Categories \ {Root} /\ appender[p[m]] /\ additive[p[m]]
        BY <1>1, <1>2, <2>2, <2>4, <3>2
      <3>4. QED
        BY <3>3 DEF Routed
    <2>5. Receivers(appender, additive, c) = {p[m]}
      BY <1>4, <2>3, <2>4
    <2>6. QED
      BY <2>5
  <1>7. QED
    BY <1>5, <1>6

(* No category has an appender at the start, and all are additive. *)
LEMMA RoutedInit == Init => Routed
  BY DEF Init, Routed

(* rdk_dbg_priv_ext_init gives a module an appender and ends its additivity
   in one step; log4crc gives LOG.RDK its appender. *)
LEMMA RoutedStep == TypeOK /\ Routed /\ [Next]_vars => Routed'
  <1> SUFFICES ASSUME TypeOK, Routed, [Next]_vars
               PROVE  Routed'
    OBVIOUS
  <1>0. /\ appender \in [Categories -> BOOLEAN]
        /\ additive \in [Categories -> BOOLEAN]
        /\ Root \in Categories
        /\ \A t \in Threads : call[t].cat \in Categories
    BY ConstantTypes, CallType DEF TypeOK, TypeRouting
  <1> USE <1>0 DEF initVars, routing, Routed
  <1>1. ASSUME NEW t \in Threads, NEW c \in Calls, Enter(t, c)
        PROVE  Routed'
    BY <1>1 DEF Enter
  <1>2. ASSUME NEW t \in Threads, InitLock(t)
        PROVE  Routed'
    BY <1>2 DEF InitLock
  <1>3. ASSUME NEW t \in Threads, ExtLock(t)
        PROVE  Routed'
    BY <1>3 DEF ExtLock
  <1>4. ASSUME NEW t \in Threads, DeinitLock(t)
        PROVE  Routed'
    BY <1>4 DEF DeinitLock
  <1>5. ASSUME NEW t \in Threads, DynInitLock(t)
        PROVE  Routed'
    BY <1>5 DEF DynInitLock
  <1>6. ASSUME NEW t \in Threads, DeinitRequestLock(t)
        PROVE  Routed'
    BY <1>6 DEF DeinitRequestLock
  <1>7. ASSUME NEW t \in Threads, ExtLoggingLock(t)
        PROVE  Routed'
    BY <1>7 DEF ExtLoggingLock
  <1>8. ASSUME NEW t \in Threads, ApplyLock(t)
        PROVE  Routed'
    BY <1>8 DEF ApplyLock
  <1>9. ASSUME NEW t \in Threads, LogLock(t)
        PROVE  Routed'
    BY <1>9 DEF LogLock
  <1>10. ASSUME NEW t \in Threads, LevelLock(t)
        PROVE  Routed'
    BY <1>10 DEF LevelLock
  <1>11. ASSUME NEW t \in Threads, PrivInit(t)
        PROVE  Routed'
    BY <1>11 DEF PrivInit
  <1>12. ASSUME NEW t \in Threads, OpenConfig(t)
        PROVE  Routed'
    BY <1>12 DEF OpenConfig
  <1>13. ASSUME NEW t \in Threads, ParseModule(t)
        PROVE  Routed'
    BY <1>13 DEF ParseModule
  <1>14. ASSUME NEW t \in Threads, ParseDefault(t)
        PROVE  Routed'
    BY <1>14 DEF ParseDefault
  <1>15. ASSUME NEW t \in Threads, ParseRootPriority(t)
        PROVE  Routed'
    BY <1>15 DEF ParseRootPriority
  <1>16. ASSUME NEW t \in Threads, ParseEnd(t)
        PROVE  Routed'
    BY <1>16 DEF ParseEnd
  <1>17. ASSUME NEW t \in Threads, ConfigEnd(t)
        PROVE  Routed'
    BY <1>17 DEF ConfigEnd
  <1>18. ASSUME NEW t \in Threads, DynInit(t)
        PROVE  Routed'
    BY <1>18 DEF DynInit
  <1>19. ASSUME NEW t \in Threads, SetInited(t)
        PROVE  Routed'
    BY <1>19 DEF SetInited
  <1>20. ASSUME NEW t \in Threads, InitUnlock(t)
        PROVE  Routed'
    BY <1>20 DEF InitUnlock, Return
  <1>21. ASSUME NEW t \in Threads, ExtApply(t)
        PROVE  Routed'
    BY <1>21 DEF ExtApply
  <1>22. ASSUME NEW t \in Threads, ExtUnlock(t)
        PROVE  Routed'
    BY <1>22 DEF ExtUnlock, Return
  <1>23. ASSUME NEW t \in Threads, DeinitClose(t)
        PROVE  Routed'
    BY <1>23 DEF DeinitClose
  <1>24. ASSUME NEW t \in Threads, LogTryLock(t)
        PROVE  Routed'
    BY <1>24 DEF LogTryLock, Return, AfterDrain
  <1>25. ASSUME NEW t \in Threads, Receive(t)
        PROVE  Routed'
    BY <1>25 DEF Receive
  <1>26. ASSUME NEW t \in Threads, Apply(t)
        PROVE  Routed'
    BY <1>26 DEF Apply
  <1>27. ASSUME NEW t \in Threads, DrainEnd(t)
        PROVE  Routed'
    BY <1>27 DEF DrainEnd, Return, AfterDrain
  <1>28. ASSUME NEW t \in Threads, LogRead(t)
        PROVE  Routed'
    BY <1>28 DEF LogRead
  <1>29. ASSUME NEW t \in Threads, LogInherit(t)
        PROVE  Routed'
    BY <1>29 DEF LogInherit
  <1>30. ASSUME NEW t \in Threads, LogCheck(t)
        PROVE  Routed'
    BY <1>30 DEF LogCheck
  <1>31. ASSUME NEW t \in Threads, LogUnlock(t)
        PROVE  Routed'
    BY <1>31 DEF LogUnlock, Return
  <1>32. ASSUME NEW t \in Threads, SetLevel(t)
        PROVE  Routed'
    BY <1>32 DEF SetLevel, Return
  <1>33. ASSUME NEW t \in Threads, GetLevel(t)
        PROVE  Routed'
    BY <1>33 DEF GetLevel, Return
  <1>34. ASSUME NEW t \in Threads, IsLevelEnabled(t)
        PROVE  Routed'
    BY <1>34 DEF IsLevelEnabled, Return
  <1>35. ASSUME NEW m \in Commands, Send(m)
        PROVE  Routed'
    BY <1>35 DEF Send
  <1>36. CASE UNCHANGED vars
    BY <1>36 DEF vars
  <1>37. QED
    BY <1>1, <1>2, <1>3, <1>4, <1>5, <1>6, <1>7, <1>8, <1>9, <1>10, <1>11,
       <1>12, <1>13, <1>14, <1>15, <1>16, <1>17, <1>18, <1>19, <1>20, <1>21,
       <1>22, <1>23, <1>24, <1>25, <1>26, <1>27, <1>28, <1>29, <1>30, <1>31,
       <1>32, <1>33, <1>34, <1>35, <1>36
    DEF Next, Lock, Step

(* If every module is below LOG.RDK, a message reaches exactly one appender
   once log4crc has been read, and at most one before. *)
THEOREM OneReceiverHolds == ASSUME BelowRoot PROVE Spec => []OneReceiver
<1>1. ASSUME TypeOK, Routed
      PROVE  OneReceiver
  <2> SUFFICES ASSUME NEW c \in Categories
               PROVE  LET n == Cardinality(Receivers(appender, additive, c))
                      IN  n <= 1 /\ (isInited => n = 1)
    BY DEF OneReceiver
  <2>1. CASE Receivers(appender, additive, c) = {} /\ ~isInited
    BY <2>1, FS_EmptySet
  <2>2. ASSUME NEW r, Receivers(appender, additive, c) = {r}
        PROVE  LET n == Cardinality(Receivers(appender, additive, c))
               IN  n <= 1 /\ (isInited => n = 1)
    <3>1. Cardinality(Receivers(appender, additive, c)) = 1
      BY <2>2, FS_Singleton
    <3>2. QED
      BY <3>1
  <2>3. QED
    BY <1>1, <2>1, <2>2, ReceiversOfRouted
<1>2. QED
  BY <1>1, RoutedInit, RoutedStep, TypeCorrect, PTL DEF Spec
===============================================================================
