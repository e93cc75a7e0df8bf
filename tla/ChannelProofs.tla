----------------------------- MODULE ChannelProofs -----------------------------
(***************************************************************************)
(* ControlChannel: whose requests a process drains, where the names lead,  *)
(* which descriptors stay open, and that the sockets implement Mailboxes.  *)
(***************************************************************************)
EXTENDS ChannelProperties, TLAPS

(* Where a call starts: outside every section. *)
LEMMA CallStart ==
  \A c \in Calls :
    FirstLabel[c] \in {"init_lock", "deinit_lock", "log_trylock"}
  BY ChannelAssumption DEF CallKinds, FirstLabel

(* What the values of the constants are not. *)
LEMMA Distinct ==
  /\ NoPid \notin Pids /\ Free \notin Slots /\ Lost \notin Slots
  /\ Free # Lost /\ NoSocket \notin Sockets
  /\ NoFile \notin Sockets /\ Dead \notin Sockets /\ NoFile # Dead
  BY ChannelAssumption

(* Every thread of a process image that has just been loaded is outside the
   library. *)
LEMMA LoadedIdle ==
  AllIdle \in [Slots -> Labels] /\ \A s \in Slots : AllIdle[s] = "idle"
  BY DEF AllIdle, Labels

(* Moving one thread keeps the type of pc. *)
LEMMA GotoType ==
  ASSUME NEW p \in Pids, NEW s \in Slots, NEW label \in Labels,
         pc \in [Pids -> [Slots -> Labels]], Goto(p, s, label)
  PROVE  pc' \in [Pids -> [Slots -> Labels]]
  BY DEF Goto

(* Where a thread goes on behind rdk_dyn_log_init. *)
LEMMA DynInitPlace ==
  ASSUME NEW p \in Pids, NEW s \in Slots, DynInit(p, s)
  PROVE  \/ pc[p][s] = "bind" /\ Goto(p, s, "inited")
         \/ pc[p][s] = "rebind" /\ Goto(p, s, "idle")
  <1>1. /\ pc[p][s] \in {"bind", "rebind"}
        /\ Goto(p, s, [bind |-> "inited", rebind |-> "idle"][pc[p][s]])
    BY DEF DynInit
  <1>2. CASE pc[p][s] = "bind"
    BY <1>1, <1>2
  <1>3. CASE pc[p][s] = "rebind"
    BY <1>1, <1>3
  <1>4. QED
    BY <1>1, <1>2, <1>3

(* What rdk_dyn_log_init does to the sockets. *)
LEMMA DynInitOutcome ==
  ASSUME NEW p \in Pids, NEW s \in Slots, DynInit(p, s)
  PROVE  \/ /\ g_dl_socket' = [g_dl_socket EXCEPT ![p] = NoSocket]
            /\ UNCHANGED <<g_dl_socket_pid, descriptors, file>>
         \/ /\ file[p] = NoFile
            /\ \E k \in Sockets \ Held(descriptors) :
                 /\ g_dl_socket' = [g_dl_socket EXCEPT ![p] = k]
                 /\ g_dl_socket_pid' = [g_dl_socket_pid EXCEPT ![p] = p]
                 /\ descriptors' = [descriptors EXCEPT ![p] = @ \cup {k}]
                 /\ file' = [file EXCEPT ![p] = k]
  BY DEF DynInit

-------------------------------------------------------------------------------
(* Every variable keeps its type, and g_dl_socket is never a descriptor that
   is closed. *)
THEOREM ChannelTypeCorrect == Spec => []TypeOK
<1>1. Init => TypeOK
  BY LoadedIdle, ChannelAssumption DEF Init, TypeOK
<1>2. TypeOK /\ [Next]_vars => TypeOK'
  <2> SUFFICES ASSUME TypeOK, [Next]_vars
               PROVE  TypeOK'
    OBVIOUS
  <2> USE ChannelAssumption DEF TypeOK, memory, mutexes, kernel, history, Goto
  <2>1. ASSUME NEW p \in Pids, Start(p)
        PROVE  TypeOK'
    BY <2>1 DEF Start, NewImage
  <2>2. ASSUME NEW p \in Pids, Exit(p)
        PROVE  TypeOK'
    BY <2>2, LoadedIdle DEF Exit, Load, SetDescriptors
  <2>3. ASSUME NEW p \in Pids, SendTo(p)
        PROVE  TypeOK'
    BY <2>3 DEF SendTo
  <2>4. ASSUME NEW p \in Pids, NEW s \in Slots, Exec(p, s)
        PROVE  TypeOK'
    BY <2>4, LoadedIdle DEF Exec, Load, NewImage
  <2>5. ASSUME NEW p \in Pids, NEW s \in Slots, NEW c \in Pids, Fork(p, s, c)
        PROVE  TypeOK'
    BY <2>5 DEF Fork, NewImage, Inherited
  <2>6. ASSUME NEW p \in Pids, NEW s \in Slots, NEW c \in Calls, Enter(p, s, c)
        PROVE  TypeOK'
    BY <2>6, CallStart DEF Enter, Labels
  <2>7. ASSUME NEW p \in Pids, NEW s \in Slots, InitLock(p, s)
        PROVE  TypeOK'
    <3>1. pc' \in [Pids -> [Slots -> Labels]]
      <4>1. Goto(p, s, "init_unlock") \/ Goto(p, s, "bind_lock")
        BY <2>7 DEF InitLock
      <4>2. QED
        BY <4>1, GotoType DEF Labels
    <3>2. QED
      BY <2>7, <3>1 DEF InitLock
  <2>8. ASSUME NEW p \in Pids, NEW s \in Slots, DeinitLock(p, s)
        PROVE  TypeOK'
    BY <2>8 DEF DeinitLock, Labels
  <2>9. ASSUME NEW p \in Pids, NEW s \in Slots, DynInitLock(p, s)
        PROVE  TypeOK'
    BY <2>9 DEF DynInitLock, TakeRequestMutex, Labels
  <2>10. ASSUME NEW p \in Pids, NEW s \in Slots, DeinitRequestLock(p, s)
        PROVE  TypeOK'
    BY <2>10 DEF DeinitRequestLock, TakeRequestMutex, Labels
  <2>11. ASSUME NEW p \in Pids, NEW s \in Slots, SetInited(p, s)
        PROVE  TypeOK'
    BY <2>11 DEF SetInited, Labels
  <2>12. ASSUME NEW p \in Pids, NEW s \in Slots, InitUnlock(p, s)
        PROVE  TypeOK'
    BY <2>12 DEF InitUnlock, Labels
  <2>13. ASSUME NEW p \in Pids, NEW s \in Slots, DynInit(p, s)
        PROVE  TypeOK'
    <3>1. pc' \in [Pids -> [Slots -> Labels]]
      <4>1. Goto(p, s, "inited") \/ Goto(p, s, "idle")
        BY <2>13, DynInitPlace
      <4>2. QED
        BY <4>1, GotoType DEF Labels
    <3>2. g_dl_request_mutex' \in [Pids -> Slots \cup {Free, Lost}]
      BY <2>13 DEF DynInit, ReleaseRequestMutex
    <3>3. CASE g_dl_socket' = [g_dl_socket EXCEPT ![p] = NoSocket]
               /\ UNCHANGED <<g_dl_socket_pid, descriptors, file>>
      BY <2>13, <3>1, <3>2, <3>3 DEF DynInit
    <3>4. ASSUME NEW k \in Sockets,
                 g_dl_socket' = [g_dl_socket EXCEPT ![p] = k],
                 g_dl_socket_pid' = [g_dl_socket_pid EXCEPT ![p] = p],
                 descriptors' = [descriptors EXCEPT ![p] = @ \cup {k}],
                 file' = [file EXCEPT ![p] = k]
          PROVE  TypeOK'
      BY <2>13, <3>1, <3>2, <3>4 DEF DynInit
    <3>5. QED
      BY <2>13, <3>3, <3>4, DynInitOutcome
  <2>14. ASSUME NEW p \in Pids, NEW s \in Slots, DeinitClose(p, s)
        PROVE  TypeOK'
    BY <2>14 DEF DeinitClose, SetDescriptors, ReleaseRequestMutex, Labels
  <2>15. ASSUME NEW p \in Pids, NEW s \in Slots, TryLock(p, s)
        PROVE  TypeOK'
    <3>1. pc' \in [Pids -> [Slots -> Labels]]
      <4>1. Goto(p, s, "check") \/ Goto(p, s, "idle")
        BY <2>15 DEF TryLock
      <4>2. QED
        BY <4>1, GotoType DEF Labels
    <3>2. g_dl_request_mutex' \in [Pids -> Slots \cup {Free, Lost}]
      BY <2>15 DEF TryLock, TakeRequestMutex
    <3>3. QED
      BY <2>15, <3>1, <3>2 DEF TryLock
  <2>16. ASSUME NEW p \in Pids, NEW s \in Slots, CloseInherited(p, s)
        PROVE  TypeOK'
    BY <2>16 DEF CloseInherited, SetDescriptors, ReleaseRequestMutex, Labels
  <2>17. ASSUME NEW p \in Pids, NEW s \in Slots, Checked(p, s)
        PROVE  TypeOK'
    BY <2>17 DEF Checked, Labels
  <2>18. ASSUME NEW p \in Pids, NEW s \in Slots, Receive(p, s)
        PROVE  TypeOK'
    BY <2>18 DEF Receive
  <2>19. ASSUME NEW p \in Pids, NEW s \in Slots, DrainEnd(p, s)
        PROVE  TypeOK'
    BY <2>19 DEF DrainEnd, ReleaseRequestMutex, Labels
  <2>20. CASE UNCHANGED vars
    BY <2>20 DEF vars
  <2>21. QED
    BY <2>1, <2>2, <2>3, <2>4, <2>5, <2>6, <2>7, <2>8, <2>9, <2>10, <2>11,
       <2>12, <2>13, <2>14, <2>15, <2>16, <2>17, <2>18, <2>19, <2>20 DEF Next,
       Lock, Step
<1>3. QED
  BY <1>1, <1>2, PTL DEF Spec

(* A pid that no process has has no descriptors and no memory. *)
THEOREM NothingLeftHolds == Spec => []NothingLeft
<1>1. Init => NothingLeft
  BY DEF Init, NothingLeft
<1>2. TypeOK /\ NothingLeft /\ [Next]_vars => NothingLeft'
  <2> SUFFICES ASSUME TypeOK, NothingLeft, [Next]_vars
               PROVE  NothingLeft'
    OBVIOUS
  <2>0. /\ running \in [Pids -> BOOLEAN] /\ isLogInited \in [Pids -> BOOLEAN]
        /\ pc \in [Pids -> [Slots -> Labels]]
        /\ descriptors \in [Pids -> SUBSET Sockets]
        /\ g_dl_socket \in [Pids -> Sockets \cup {NoSocket}]
        /\ g_dl_socket_pid \in [Pids -> Pids \cup {NoPid}]
        /\ gInitMutex \in [Pids -> Slots \cup {Free, Lost}]
        /\ g_dl_request_mutex \in [Pids -> Slots \cup {Free, Lost}]
        /\ file \in [Pids -> Sockets \cup {NoFile, Dead}]
    BY DEF TypeOK
  <2> USE <2>0, Distinct, LoadedIdle DEF NothingLeft, memory, mutexes, kernel,
     Goto
  <2>1. ASSUME NEW p \in Pids, Start(p)
        PROVE  NothingLeft'
    BY <2>1 DEF Start, NewImage
  <2>2. ASSUME NEW p \in Pids, Exit(p)
        PROVE  NothingLeft'
    BY <2>2 DEF Exit, Load, SetDescriptors
  <2>3. ASSUME NEW p \in Pids, SendTo(p)
        PROVE  NothingLeft'
    BY <2>3 DEF SendTo
  <2>4. ASSUME NEW p \in Pids, NEW s \in Slots, Exec(p, s)
        PROVE  NothingLeft'
    BY <2>4 DEF Exec, NewImage, Load
  <2>5. ASSUME NEW p \in Pids, NEW s \in Slots, NEW c \in Pids, Fork(p, s, c)
        PROVE  NothingLeft'
    BY <2>5 DEF Fork, NewImage
  <2>6. ASSUME NEW p \in Pids, NEW s \in Slots, NEW c \in Calls, Enter(p, s, c)
        PROVE  NothingLeft'
    BY <2>6 DEF Enter
  <2>7. ASSUME NEW p \in Pids, NEW s \in Slots, InitLock(p, s)
        PROVE  NothingLeft'
    BY <2>7 DEF InitLock
  <2>8. ASSUME NEW p \in Pids, NEW s \in Slots, DeinitLock(p, s)
        PROVE  NothingLeft'
    BY <2>8 DEF DeinitLock
  <2>9. ASSUME NEW p \in Pids, NEW s \in Slots, DynInitLock(p, s)
        PROVE  NothingLeft'
    BY <2>9 DEF DynInitLock, TakeRequestMutex
  <2>10. ASSUME NEW p \in Pids, NEW s \in Slots, DeinitRequestLock(p, s)
        PROVE  NothingLeft'
    BY <2>10 DEF DeinitRequestLock, TakeRequestMutex
  <2>11. ASSUME NEW p \in Pids, NEW s \in Slots, SetInited(p, s)
        PROVE  NothingLeft'
    BY <2>11 DEF SetInited
  <2>12. ASSUME NEW p \in Pids, NEW s \in Slots, InitUnlock(p, s)
        PROVE  NothingLeft'
    BY <2>12 DEF InitUnlock
  <2>13. ASSUME NEW p \in Pids, NEW s \in Slots, DynInit(p, s)
        PROVE  NothingLeft'
    BY <2>13, DynInitPlace DEF DynInit
  <2>14. ASSUME NEW p \in Pids, NEW s \in Slots, DeinitClose(p, s)
        PROVE  NothingLeft'
    BY <2>14 DEF DeinitClose, SetDescriptors, ReleaseRequestMutex
  <2>15. ASSUME NEW p \in Pids, NEW s \in Slots, TryLock(p, s)
        PROVE  NothingLeft'
    BY <2>15 DEF TryLock, TakeRequestMutex
  <2>16. ASSUME NEW p \in Pids, NEW s \in Slots, CloseInherited(p, s)
        PROVE  NothingLeft'
    BY <2>16 DEF CloseInherited, SetDescriptors, ReleaseRequestMutex
  <2>17. ASSUME NEW p \in Pids, NEW s \in Slots, Checked(p, s)
        PROVE  NothingLeft'
    BY <2>17 DEF Checked
  <2>18. ASSUME NEW p \in Pids, NEW s \in Slots, Receive(p, s)
        PROVE  NothingLeft'
    BY <2>18 DEF Receive
  <2>19. ASSUME NEW p \in Pids, NEW s \in Slots, DrainEnd(p, s)
        PROVE  NothingLeft'
    BY <2>19 DEF DrainEnd, ReleaseRequestMutex
  <2>20. CASE UNCHANGED vars
    BY <2>20 DEF vars
  <2>21. QED
    BY <2>1, <2>2, <2>3, <2>4, <2>5, <2>6, <2>7, <2>8, <2>9, <2>10, <2>11,
       <2>12, <2>13, <2>14, <2>15, <2>16, <2>17, <2>18, <2>19, <2>20 DEF Next,
       Lock, Step
<1>3. QED
  BY <1>1, <1>2, ChannelTypeCorrect, PTL DEF Spec

(* Each of the two mutexes is held by the thread that is in its section, in
   every process. *)
THEOREM SectionsHold == Spec => []MutualExclusion
<1>1. Init => MutualExclusion
  BY LoadedIdle, Distinct
     DEF Init, MutualExclusion, InitSection, RequestSection
<1>2. TypeOK /\ NothingLeft /\ MutualExclusion /\ [Next]_vars
        => MutualExclusion'
  <2> SUFFICES ASSUME TypeOK, NothingLeft, MutualExclusion, [Next]_vars
               PROVE  MutualExclusion'
    OBVIOUS
  <2>0. /\ pc \in [Pids -> [Slots -> Labels]]
        /\ gInitMutex \in [Pids -> Slots \cup {Free, Lost}]
        /\ g_dl_request_mutex \in [Pids -> Slots \cup {Free, Lost}]
    BY DEF TypeOK
  <2> USE <2>0, Distinct, LoadedIdle DEF MutualExclusion, InitSection,
     RequestSection, mutexes, Goto
  <2>1. ASSUME NEW p \in Pids, Start(p)
        PROVE  MutualExclusion'
    BY <2>1 DEF Start, NewImage
  <2>2. ASSUME NEW p \in Pids, Exit(p)
        PROVE  MutualExclusion'
    BY <2>2 DEF Exit, Load, SetDescriptors, AllIdle
  <2>3. ASSUME NEW p \in Pids, SendTo(p)
        PROVE  MutualExclusion'
    BY <2>3 DEF SendTo
  <2>4. ASSUME NEW p \in Pids, NEW s \in Slots, Exec(p, s)
        PROVE  MutualExclusion'
    BY <2>4 DEF Exec, NewImage, Load, AllIdle
  <2>5. ASSUME NEW p \in Pids, NEW s \in Slots, NEW c \in Pids, Fork(p, s, c)
        PROVE  MutualExclusion'
    <3>1. pc[c] = AllIdle
      BY <2>5 DEF Fork, NothingLeft
    <3>2. QED
      BY <2>5, <3>1 DEF Fork, NewImage, Inherited
  <2>6. ASSUME NEW p \in Pids, NEW s \in Slots, NEW c \in Calls, Enter(p, s, c)
        PROVE  MutualExclusion'
    BY <2>6, CallStart DEF Enter
  <2>7. ASSUME NEW p \in Pids, NEW s \in Slots, InitLock(p, s)
        PROVE  MutualExclusion'
    BY <2>7 DEF InitLock
  <2>8. ASSUME NEW p \in Pids, NEW s \in Slots, DeinitLock(p, s)
        PROVE  MutualExclusion'
    BY <2>8 DEF DeinitLock
  <2>9. ASSUME NEW p \in Pids, NEW s \in Slots, DynInitLock(p, s)
        PROVE  MutualExclusion'
    BY <2>9 DEF DynInitLock, TakeRequestMutex
  <2>10. ASSUME NEW p \in Pids, NEW s \in Slots, DeinitRequestLock(p, s)
        PROVE  MutualExclusion'
    BY <2>10 DEF DeinitRequestLock, TakeRequestMutex
  <2>11. ASSUME NEW p \in Pids, NEW s \in Slots, SetInited(p, s)
        PROVE  MutualExclusion'
    BY <2>11 DEF SetInited
  <2>12. ASSUME NEW p \in Pids, NEW s \in Slots, InitUnlock(p, s)
        PROVE  MutualExclusion'
    BY <2>12 DEF InitUnlock
  <2>13. ASSUME NEW p \in Pids, NEW s \in Slots, DynInit(p, s)
        PROVE  MutualExclusion'
    BY <2>13 DEF DynInit, ReleaseRequestMutex
  <2>14. ASSUME NEW p \in Pids, NEW s \in Slots, DeinitClose(p, s)
        PROVE  MutualExclusion'
    BY <2>14 DEF DeinitClose, SetDescriptors, ReleaseRequestMutex
  <2>15. ASSUME NEW p \in Pids, NEW s \in Slots, TryLock(p, s)
        PROVE  MutualExclusion'
    <3>1. CASE g_dl_request_mutex[p] = Free
      BY <2>15, <3>1 DEF TryLock, TakeRequestMutex
    <3>2. CASE g_dl_request_mutex[p] # Free
      BY <2>15, <3>2 DEF TryLock
    <3>3. QED
      BY <3>1, <3>2
  <2>16. ASSUME NEW p \in Pids, NEW s \in Slots, CloseInherited(p, s)
        PROVE  MutualExclusion'
    BY <2>16 DEF CloseInherited, SetDescriptors, ReleaseRequestMutex
  <2>17. ASSUME NEW p \in Pids, NEW s \in Slots, Checked(p, s)
        PROVE  MutualExclusion'
    BY <2>17 DEF Checked
  <2>18. ASSUME NEW p \in Pids, NEW s \in Slots, Receive(p, s)
        PROVE  MutualExclusion'
    BY <2>18 DEF Receive
  <2>19. ASSUME NEW p \in Pids, NEW s \in Slots, DrainEnd(p, s)
        PROVE  MutualExclusion'
    BY <2>19 DEF DrainEnd, ReleaseRequestMutex
  <2>20. CASE UNCHANGED vars
    BY <2>20 DEF vars
  <2>21. QED
    BY <2>1, <2>2, <2>3, <2>4, <2>5, <2>6, <2>7, <2>8, <2>9, <2>10, <2>11,
       <2>12, <2>13, <2>14, <2>15, <2>16, <2>17, <2>18, <2>19, <2>20 DEF Next,
       Lock, Step
<1>3. QED
  BY <1>1, <1>2, ChannelTypeCorrect, NothingLeftHolds, PTL DEF Spec

(* A thread that replaces an inherited socket had the mutex that it takes again
   for the new one. *)
THEOREM RebindsWithMutexHolds == Spec => []RebindsWithMutex
<1>1. Init => RebindsWithMutex
  BY LoadedIdle, Distinct DEF Init, RebindsWithMutex
<1>2. TypeOK /\ NothingLeft /\ MutualExclusion /\ RebindsWithMutex /\ [Next]_vars
        => RebindsWithMutex'
  <2> SUFFICES ASSUME TypeOK, NothingLeft, MutualExclusion, RebindsWithMutex,
                      [Next]_vars
               PROVE  RebindsWithMutex'
    OBVIOUS
  <2>0. /\ pc \in [Pids -> [Slots -> Labels]]
        /\ gInitMutex \in [Pids -> Slots \cup {Free, Lost}]
        /\ g_dl_request_mutex \in [Pids -> Slots \cup {Free, Lost}]
    BY DEF TypeOK
  <2> USE <2>0, Distinct, LoadedIdle DEF RebindsWithMutex, mutexes, Goto
  <2>1. ASSUME NEW p \in Pids, Start(p)
        PROVE  RebindsWithMutex'
    BY <2>1 DEF Start, NewImage
  <2>2. ASSUME NEW p \in Pids, Exit(p)
        PROVE  RebindsWithMutex'
    BY <2>2 DEF Exit, Load, SetDescriptors, AllIdle
  <2>3. ASSUME NEW p \in Pids, SendTo(p)
        PROVE  RebindsWithMutex'
    BY <2>3 DEF SendTo
  <2>4. ASSUME NEW p \in Pids, NEW s \in Slots, Exec(p, s)
        PROVE  RebindsWithMutex'
    BY <2>4 DEF Exec, NewImage, Load, AllIdle
  <2>5. ASSUME NEW p \in Pids, NEW s \in Slots, NEW c \in Pids, Fork(p, s, c)
        PROVE  RebindsWithMutex'
    <3>1. pc[c] = AllIdle
      BY <2>5 DEF Fork, NothingLeft
    <3>2. QED
      BY <2>5, <3>1 DEF Fork, NewImage, Inherited
  <2>6. ASSUME NEW p \in Pids, NEW s \in Slots, NEW c \in Calls, Enter(p, s, c)
        PROVE  RebindsWithMutex'
    BY <2>6, CallStart DEF Enter
  <2>7. ASSUME NEW p \in Pids, NEW s \in Slots, InitLock(p, s)
        PROVE  RebindsWithMutex'
    BY <2>7 DEF InitLock
  <2>8. ASSUME NEW p \in Pids, NEW s \in Slots, DeinitLock(p, s)
        PROVE  RebindsWithMutex'
    BY <2>8 DEF DeinitLock
  <2>9. ASSUME NEW p \in Pids, NEW s \in Slots, DynInitLock(p, s)
        PROVE  RebindsWithMutex'
    BY <2>9 DEF DynInitLock, TakeRequestMutex
  <2>10. ASSUME NEW p \in Pids, NEW s \in Slots, DeinitRequestLock(p, s)
        PROVE  RebindsWithMutex'
    BY <2>10 DEF DeinitRequestLock, TakeRequestMutex
  <2>11. ASSUME NEW p \in Pids, NEW s \in Slots, SetInited(p, s)
        PROVE  RebindsWithMutex'
    BY <2>11 DEF SetInited
  <2>12. ASSUME NEW p \in Pids, NEW s \in Slots, InitUnlock(p, s)
        PROVE  RebindsWithMutex'
    BY <2>12 DEF InitUnlock
  <2>13. ASSUME NEW p \in Pids, NEW s \in Slots, DynInit(p, s)
        PROVE  RebindsWithMutex'
    BY <2>13 DEF DynInit, ReleaseRequestMutex
  <2>14. ASSUME NEW p \in Pids, NEW s \in Slots, DeinitClose(p, s)
        PROVE  RebindsWithMutex'
    BY <2>14 DEF DeinitClose, SetDescriptors, ReleaseRequestMutex
  <2>15. ASSUME NEW p \in Pids, NEW s \in Slots, TryLock(p, s)
        PROVE  RebindsWithMutex'
    <3>1. CASE g_dl_request_mutex[p] = Free
      BY <2>15, <3>1 DEF TryLock, TakeRequestMutex
    <3>2. CASE g_dl_request_mutex[p] # Free
      BY <2>15, <3>2 DEF TryLock
    <3>3. QED
      BY <3>1, <3>2
  <2>16. ASSUME NEW p \in Pids, NEW s \in Slots, CloseInherited(p, s)
        PROVE  RebindsWithMutex'
    BY <2>16 DEF CloseInherited, SetDescriptors, ReleaseRequestMutex
  <2>17. ASSUME NEW p \in Pids, NEW s \in Slots, Checked(p, s)
        PROVE  RebindsWithMutex'
    BY <2>17 DEF Checked
  <2>18. ASSUME NEW p \in Pids, NEW s \in Slots, Receive(p, s)
        PROVE  RebindsWithMutex'
    BY <2>18 DEF Receive
  <2>19. ASSUME NEW p \in Pids, NEW s \in Slots, DrainEnd(p, s)
        PROVE  RebindsWithMutex'
    BY <2>19 DEF DrainEnd, ReleaseRequestMutex
  <2>20. CASE UNCHANGED vars
    BY <2>20 DEF vars
  <2>21. QED
    BY <2>1, <2>2, <2>3, <2>4, <2>5, <2>6, <2>7, <2>8, <2>9, <2>10, <2>11,
       <2>12, <2>13, <2>14, <2>15, <2>16, <2>17, <2>18, <2>19, <2>20 DEF Next,
       Lock, Step
<1>3. QED
  BY <1>1, <1>2, ChannelTypeCorrect, NothingLeftHolds, SectionsHold,
     PTL DEF Spec

(* Whoever has g_dl_request_mutex waits for nothing. *)
LEMMA RequestHolderMoves ==
  ASSUME MutualExclusion, NEW p \in Pids, NEW u \in Slots,
         g_dl_request_mutex[p] = u
  PROVE  pc[p][u] # "idle" /\ WaitsOn(p, u) = Free
  BY DEF MutualExclusion, RequestSection, WaitsOn

(* Whoever has gInitMutex waits for g_dl_request_mutex at most. *)
LEMMA InitHolderMoves ==
  ASSUME MutualExclusion, NEW p \in Pids, NEW u \in Slots,
         gInitMutex[p] = u, g_dl_request_mutex[p] = Free
  PROVE  pc[p][u] # "idle" /\ WaitsOn(p, u) = Free
  BY DEF MutualExclusion, InitSection, WaitsOn

(* Only a fork strands anybody, and nobody who logs. *)
THEOREM OnlyForkStrandsHolds == Spec => []OnlyForkStrands
<1>1. ASSUME TypeOK, MutualExclusion, NEW p \in Pids, NEW v \in Slots,
             pc[p][v] # "idle", Lost \notin {gInitMutex[p], g_dl_request_mutex[p]}
      PROVE  \E s \in Slots : pc[p][s] # "idle" /\ WaitsOn(p, s) = Free
  <2>0. /\ gInitMutex[p] \in Slots \cup {Free}
        /\ g_dl_request_mutex[p] \in Slots \cup {Free}
    BY <1>1 DEF TypeOK
  <2>1. CASE g_dl_request_mutex[p] \in Slots
    BY <1>1, <2>1, RequestHolderMoves
  <2>2. CASE g_dl_request_mutex[p] = Free /\ gInitMutex[p] \in Slots
    BY <1>1, <2>2, InitHolderMoves
  <2>3. CASE g_dl_request_mutex[p] = Free /\ gInitMutex[p] = Free
    <3>1. WaitsOn(p, v) = Free
      BY <2>3 DEF WaitsOn
    <3>2. QED
      BY <1>1, <3>1
  <2>4. QED
    BY <2>0, <2>1, <2>2, <2>3
<1>2. ASSUME TypeOK, MutualExclusion, RebindsWithMutex, NEW p \in Pids,
             NEW s \in Slots, pc[p][s] = "rebind_lock",
             g_dl_request_mutex[p] # Free
      PROVE  \E u \in Slots : /\ g_dl_request_mutex[p] = u
                              /\ pc[p][u] # "idle" /\ WaitsOn(p, u) = Free
  <2>1. g_dl_request_mutex[p] \in Slots
    BY <1>2 DEF TypeOK, RebindsWithMutex
  <2>2. QED
    BY <1>2, <2>1, RequestHolderMoves
<1>3. TypeOK /\ MutualExclusion /\ RebindsWithMutex => OnlyForkStrands
  BY <1>1, <1>2, Zenon DEF OnlyForkStrands
<1>4. QED
  BY <1>3, ChannelTypeCorrect, SectionsHold, RebindsWithMutexHolds, PTL

-------------------------------------------------------------------------------
(* A socket that a process has open is held; a name keeps leading to a socket
   as long as somebody has it open. *)
LEMMA HeldByOne ==
  ASSUME NEW d, NEW p \in Pids, NEW k \in d[p]
  PROVE  k \in Held(d)
  BY DEF Held

(* What closing changes about a name. *)
LEMMA NameAfterClose ==
  ASSUME NEW d, SetDescriptors(d), NEW p \in Pids
  PROVE  file'[p] = IF file[p] \in Sockets \ Held(d) THEN Dead ELSE file[p]
  BY DEF SetDescriptors

(* A process that closes its socket leaves those of the others bound. *)
LEMMA CloseKeepsBound ==
  ASSUME TypeOK, BoundByPid, NEW p \in Pids,
         SetDescriptors([descriptors EXCEPT ![p] = @ \ {g_dl_socket[p]}]),
         g_dl_socket' = [g_dl_socket EXCEPT ![p] = NoSocket],
         UNCHANGED g_dl_socket_pid
  PROVE  BoundByPid'
  <1> DEFINE d == [descriptors EXCEPT ![p] = @ \ {g_dl_socket[p]}]
  <1>1. SUFFICES ASSUME NEW q \in Pids, g_dl_socket'[q] # NoSocket
                 PROVE  /\ g_dl_socket_pid'[q] \in Pids
                        /\ file'[g_dl_socket_pid'[q]] = g_dl_socket'[q]
    BY DEF BoundByPid
  <1>2. /\ q # p /\ g_dl_socket'[q] = g_dl_socket[q]
        /\ g_dl_socket_pid'[q] = g_dl_socket_pid[q]
        /\ g_dl_socket[q] \in descriptors[q]
    BY <1>1 DEF TypeOK
  <1>3. g_dl_socket[q] \in d[q]
    BY <1>2 DEF TypeOK
  <1>4. g_dl_socket[q] \in Held(d)
    BY <1>3, HeldByOne
  <1>5. /\ g_dl_socket_pid[q] \in Pids
        /\ file[g_dl_socket_pid[q]] = g_dl_socket[q]
    BY <1>1, <1>2 DEF BoundByPid
  <1>6. QED
    BY <1>2, <1>4, <1>5, NameAfterClose

(* The socket of a process is the one that the name with g_dl_socket_pid leads
   to. *)
THEOREM BoundByPidHolds == Spec => []BoundByPid
<1>1. Init => BoundByPid
  BY DEF Init, BoundByPid
<1>2. TypeOK /\ BoundByPid /\ [Next]_vars => BoundByPid'
  <2> SUFFICES ASSUME TypeOK, BoundByPid, [Next]_vars
               PROVE  BoundByPid'
    OBVIOUS
  <2>0. /\ running \in [Pids -> BOOLEAN] /\ isLogInited \in [Pids -> BOOLEAN]
        /\ pc \in [Pids -> [Slots -> Labels]]
        /\ descriptors \in [Pids -> SUBSET Sockets]
        /\ g_dl_socket \in [Pids -> Sockets \cup {NoSocket}]
        /\ g_dl_socket_pid \in [Pids -> Pids \cup {NoPid}]
        /\ gInitMutex \in [Pids -> Slots \cup {Free, Lost}]
        /\ g_dl_request_mutex \in [Pids -> Slots \cup {Free, Lost}]
        /\ file \in [Pids -> Sockets \cup {NoFile, Dead}]
    BY DEF TypeOK
  <2> USE <2>0, Distinct DEF BoundByPid, TypeOK, memory, mutexes, kernel, Goto
  <2>1. ASSUME NEW p \in Pids, Start(p)
        PROVE  BoundByPid'
    BY <2>1 DEF Start, NewImage
  <2>2. ASSUME NEW p \in Pids, Exit(p)
        PROVE  BoundByPid'
    <3>1. SetDescriptors([descriptors EXCEPT ![p] = {}])
      BY <2>2 DEF Exit
    <3>2. SUFFICES ASSUME NEW q \in Pids, g_dl_socket'[q] # NoSocket
                   PROVE  /\ g_dl_socket_pid'[q] \in Pids
                          /\ file'[g_dl_socket_pid'[q]] = g_dl_socket'[q]
      OBVIOUS
    <3>3. q # p /\ g_dl_socket'[q] = g_dl_socket[q]
            /\ g_dl_socket_pid'[q] = g_dl_socket_pid[q]
      BY <2>2, <3>2 DEF Exit, Load
    <3>4. g_dl_socket[q] \in [descriptors EXCEPT ![p] = {}][q]
      BY <3>2, <3>3
    <3>5. g_dl_socket[q] \in Held([descriptors EXCEPT ![p] = {}])
      BY <3>4, HeldByOne
    <3>6. QED
      BY <3>1, <3>2, <3>3, <3>5, NameAfterClose
  <2>3. ASSUME NEW p \in Pids, SendTo(p)
        PROVE  BoundByPid'
    BY <2>3 DEF SendTo
  <2>4. ASSUME NEW p \in Pids, NEW s \in Slots, Exec(p, s)
        PROVE  BoundByPid'
    BY <2>4 DEF Exec, NewImage, Load
  <2>5. ASSUME NEW p \in Pids, NEW s \in Slots, NEW c \in Pids, Fork(p, s, c)
        PROVE  BoundByPid'
    BY <2>5 DEF Fork, NewImage
  <2>6. ASSUME NEW p \in Pids, NEW s \in Slots, NEW c \in Calls, Enter(p, s, c)
        PROVE  BoundByPid'
    BY <2>6 DEF Enter
  <2>7. ASSUME NEW p \in Pids, NEW s \in Slots, InitLock(p, s)
        PROVE  BoundByPid'
    BY <2>7 DEF InitLock
  <2>8. ASSUME NEW p \in Pids, NEW s \in Slots, DeinitLock(p, s)
        PROVE  BoundByPid'
    BY <2>8 DEF DeinitLock
  <2>9. ASSUME NEW p \in Pids, NEW s \in Slots, DynInitLock(p, s)
        PROVE  BoundByPid'
    BY <2>9 DEF DynInitLock, TakeRequestMutex
  <2>10. ASSUME NEW p \in Pids, NEW s \in Slots, DeinitRequestLock(p, s)
        PROVE  BoundByPid'
    BY <2>10 DEF DeinitRequestLock, TakeRequestMutex
  <2>11. ASSUME NEW p \in Pids, NEW s \in Slots, SetInited(p, s)
        PROVE  BoundByPid'
    BY <2>11 DEF SetInited
  <2>12. ASSUME NEW p \in Pids, NEW s \in Slots, InitUnlock(p, s)
        PROVE  BoundByPid'
    BY <2>12 DEF InitUnlock
  <2>13. ASSUME NEW p \in Pids, NEW s \in Slots, DynInit(p, s)
        PROVE  BoundByPid'
    <3>1. ASSUME NEW k \in Sockets, file[p] = NoFile,
                 g_dl_socket' = [g_dl_socket EXCEPT ![p] = k],
                 g_dl_socket_pid' = [g_dl_socket_pid EXCEPT ![p] = p],
                 file' = [file EXCEPT ![p] = k]
          PROVE  BoundByPid'
      BY <3>1
    <3>2. ASSUME g_dl_socket' = [g_dl_socket EXCEPT ![p] = NoSocket],
                 UNCHANGED <<g_dl_socket_pid, file>>
          PROVE  BoundByPid'
      BY <3>2
    <3>3. QED
      BY <2>13, <3>1, <3>2, DynInitOutcome
  <2>14. ASSUME NEW p \in Pids, NEW s \in Slots, DeinitClose(p, s)
        PROVE  BoundByPid'
    BY <2>14, CloseKeepsBound DEF DeinitClose
  <2>15. ASSUME NEW p \in Pids, NEW s \in Slots, TryLock(p, s)
        PROVE  BoundByPid'
    BY <2>15 DEF TryLock, TakeRequestMutex
  <2>16. ASSUME NEW p \in Pids, NEW s \in Slots, CloseInherited(p, s)
        PROVE  BoundByPid'
    BY <2>16, CloseKeepsBound DEF CloseInherited
  <2>17. ASSUME NEW p \in Pids, NEW s \in Slots, Checked(p, s)
        PROVE  BoundByPid'
    BY <2>17 DEF Checked
  <2>18. ASSUME NEW p \in Pids, NEW s \in Slots, Receive(p, s)
        PROVE  BoundByPid'
    BY <2>18 DEF Receive
  <2>19. ASSUME NEW p \in Pids, NEW s \in Slots, DrainEnd(p, s)
        PROVE  BoundByPid'
    BY <2>19 DEF DrainEnd, ReleaseRequestMutex
  <2>20. CASE UNCHANGED vars
    BY <2>20 DEF vars
  <2>21. QED
    BY <2>1, <2>2, <2>3, <2>4, <2>5, <2>6, <2>7, <2>8, <2>9, <2>10, <2>11,
       <2>12, <2>13, <2>14, <2>15, <2>16, <2>17, <2>18, <2>19, <2>20 DEF Next,
       Lock, Step
<1>3. QED
  BY <1>1, <1>2, ChannelTypeCorrect, PTL DEF Spec

(* rdklogctrl reaches a process: the socket the process takes for its own is
   the one that the name with its pid leads to. *)
THEOREM NameLeadsHomeHolds == Spec => []NameLeadsHome
<1>1. BoundByPid => NameLeadsHome
  BY DEF BoundByPid, NameLeadsHome
<1>2. QED
  BY <1>1, BoundByPidHolds, PTL

(* A thread drains only the socket of its own process. *)
THEOREM DrainsOwnHolds == Spec => []DrainsOwn
<1>1. Init => DrainsOwn
  BY LoadedIdle DEF Init, DrainsOwn
<1>2. TypeOK /\ NothingLeft /\ MutualExclusion /\ DrainsOwn /\ [Next]_vars
        => DrainsOwn'
  <2> SUFFICES ASSUME TypeOK, NothingLeft, MutualExclusion, DrainsOwn,
                      [Next]_vars
               PROVE  DrainsOwn'
    OBVIOUS
  <2>0. /\ running \in [Pids -> BOOLEAN] /\ isLogInited \in [Pids -> BOOLEAN]
        /\ pc \in [Pids -> [Slots -> Labels]]
        /\ descriptors \in [Pids -> SUBSET Sockets]
        /\ g_dl_socket \in [Pids -> Sockets \cup {NoSocket}]
        /\ g_dl_socket_pid \in [Pids -> Pids \cup {NoPid}]
        /\ gInitMutex \in [Pids -> Slots \cup {Free, Lost}]
        /\ g_dl_request_mutex \in [Pids -> Slots \cup {Free, Lost}]
        /\ file \in [Pids -> Sockets \cup {NoFile, Dead}]
    BY DEF TypeOK
  <2> USE <2>0, Distinct, LoadedIdle DEF DrainsOwn, IsInherited, memory,
     mutexes, kernel, Goto
  <2>1. ASSUME NEW p \in Pids, Start(p)
        PROVE  DrainsOwn'
    BY <2>1 DEF Start, NewImage
  <2>2. ASSUME NEW p \in Pids, Exit(p)
        PROVE  DrainsOwn'
    BY <2>2 DEF Exit, Load, SetDescriptors
  <2>3. ASSUME NEW p \in Pids, SendTo(p)
        PROVE  DrainsOwn'
    BY <2>3 DEF SendTo
  <2>4. ASSUME NEW p \in Pids, NEW s \in Slots, Exec(p, s)
        PROVE  DrainsOwn'
    BY <2>4 DEF Exec, NewImage, Load
  <2>5. ASSUME NEW p \in Pids, NEW s \in Slots, NEW c \in Pids, Fork(p, s, c)
        PROVE  DrainsOwn'
    <3>1. pc[c] = AllIdle
      BY <2>5 DEF Fork, NothingLeft
    <3>2. QED
      BY <2>5, <3>1 DEF Fork, NewImage
  <2>6. ASSUME NEW p \in Pids, NEW s \in Slots, NEW c \in Calls, Enter(p, s, c)
        PROVE  DrainsOwn'
    <3>1. Goto(p, s, FirstLabel[c])
      BY <2>6 DEF Enter
    <3>2. \A q \in Pids, u \in Slots :
            pc'[q][u] = "drain" => pc[q][u] = "drain"
      BY <3>1, CallStart
    <3>3. UNCHANGED <<g_dl_socket, g_dl_socket_pid>>
      BY <2>6 DEF Enter
    <3>4. QED
      BY <3>2, <3>3
  <2>7. ASSUME NEW p \in Pids, NEW s \in Slots, InitLock(p, s)
        PROVE  DrainsOwn'
    <3>1. Goto(p, s, "init_unlock") \/ Goto(p, s, "bind_lock")
      BY <2>7 DEF InitLock
    <3>2. \A q \in Pids, u \in Slots :
            pc'[q][u] = "drain" => pc[q][u] = "drain"
      BY <3>1
    <3>3. UNCHANGED <<g_dl_socket, g_dl_socket_pid>>
      BY <2>7 DEF InitLock
    <3>4. QED
      BY <3>2, <3>3
  <2>8. ASSUME NEW p \in Pids, NEW s \in Slots, DeinitLock(p, s)
        PROVE  DrainsOwn'
    BY <2>8 DEF DeinitLock
  <2>9. ASSUME NEW p \in Pids, NEW s \in Slots, DynInitLock(p, s)
        PROVE  DrainsOwn'
    BY <2>9 DEF DynInitLock, TakeRequestMutex
  <2>10. ASSUME NEW p \in Pids, NEW s \in Slots, DeinitRequestLock(p, s)
        PROVE  DrainsOwn'
    BY <2>10 DEF DeinitRequestLock, TakeRequestMutex
  <2>11. ASSUME NEW p \in Pids, NEW s \in Slots, SetInited(p, s)
        PROVE  DrainsOwn'
    BY <2>11 DEF SetInited
  <2>12. ASSUME NEW p \in Pids, NEW s \in Slots, InitUnlock(p, s)
        PROVE  DrainsOwn'
    BY <2>12 DEF InitUnlock
  <2>13. ASSUME NEW p \in Pids, NEW s \in Slots, DynInit(p, s)
        PROVE  DrainsOwn'
    <3>1. \A u \in Slots : pc'[p][u] # "drain"
      BY <2>13, DynInitPlace DEF MutualExclusion, RequestSection
    <3>2. ASSUME NEW q \in Pids, q # p
          PROVE  /\ pc'[q] = pc[q] /\ g_dl_socket'[q] = g_dl_socket[q]
                 /\ g_dl_socket_pid'[q] = g_dl_socket_pid[q]
      BY <2>13, <3>2, DynInitPlace, DynInitOutcome
    <3>3. QED
      BY <3>1, <3>2
  <2>14. ASSUME NEW p \in Pids, NEW s \in Slots, DeinitClose(p, s)
        PROVE  DrainsOwn'
    BY <2>14 DEF DeinitClose, SetDescriptors, ReleaseRequestMutex
  <2>15. ASSUME NEW p \in Pids, NEW s \in Slots, TryLock(p, s)
        PROVE  DrainsOwn'
    <3>1. Goto(p, s, "check") \/ Goto(p, s, "idle")
      BY <2>15 DEF TryLock
    <3>2. \A q \in Pids, u \in Slots :
            pc'[q][u] = "drain" => pc[q][u] = "drain"
      BY <3>1
    <3>3. UNCHANGED <<g_dl_socket, g_dl_socket_pid>>
      BY <2>15 DEF TryLock
    <3>4. QED
      BY <3>2, <3>3
  <2>16. ASSUME NEW p \in Pids, NEW s \in Slots, CloseInherited(p, s)
        PROVE  DrainsOwn'
    BY <2>16 DEF CloseInherited, SetDescriptors, ReleaseRequestMutex
  <2>17. ASSUME NEW p \in Pids, NEW s \in Slots, Checked(p, s)
        PROVE  DrainsOwn'
    BY <2>17 DEF Checked
  <2>18. ASSUME NEW p \in Pids, NEW s \in Slots, Receive(p, s)
        PROVE  DrainsOwn'
    BY <2>18 DEF Receive
  <2>19. ASSUME NEW p \in Pids, NEW s \in Slots, DrainEnd(p, s)
        PROVE  DrainsOwn'
    BY <2>19 DEF DrainEnd, ReleaseRequestMutex
  <2>20. CASE UNCHANGED vars
    BY <2>20 DEF vars
  <2>21. QED
    BY <2>1, <2>2, <2>3, <2>4, <2>5, <2>6, <2>7, <2>8, <2>9, <2>10, <2>11,
       <2>12, <2>13, <2>14, <2>15, <2>16, <2>17, <2>18, <2>19, <2>20 DEF Next,
       Lock, Step
<1>3. QED
  BY <1>1, <1>2, ChannelTypeCorrect, SectionsHold, NothingLeftHolds, PTL DEF
     Spec

(* Closing sockets keeps the names and the queues in order: what waits in a
   socket goes with it. *)
LEMMA CloseKeepsNames ==
  ASSUME TypeOK, Names, NEW d, SetDescriptors(d)
  PROVE  Names'
  <1>1. /\ file \in [Pids -> Sockets \cup {NoFile, Dead}]
        /\ queue \in [Sockets -> Seq(Pids)]
        /\ descriptors' = d
    BY DEF TypeOK, SetDescriptors
  <1>2. \A p \in Pids :
          file'[p] = IF file[p] \in Sockets \ Held(d) THEN Dead ELSE file[p]
    BY NameAfterClose
  <1>3. \A k \in Sockets :
          queue'[k] = IF k \in Held(d) THEN queue[k] ELSE << >>
    BY DEF SetDescriptors
  <1>4. \A p \in Pids : file'[p] \in Sockets => file'[p] \in Held(descriptors')
    BY <1>1, <1>2, Distinct
  <1>5. ASSUME NEW p \in Pids, NEW q \in Pids,
               file'[p] \in Sockets, file'[p] = file'[q]
        PROVE  p = q
    BY <1>2, <1>5, Distinct DEF Names
  <1>6. ASSUME NEW k \in Sockets, NEW i \in DOMAIN queue'[k]
        PROVE  file'[queue'[k][i]] = k
    <2>1. k \in Held(d) /\ queue'[k] = queue[k]
      BY <1>3, <1>6
    <2>2. queue[k][i] \in Pids /\ file[queue[k][i]] = k
      BY <1>1, <1>6, <2>1 DEF Names
    <2>3. QED
      BY <1>2, <2>1, <2>2
  <1>7. QED
    BY <1>4, <1>5, <1>6 DEF Names, Held

(* Opening one more socket, or none, keeps those that were open. *)
LEMMA HeldGrows ==
  ASSUME NEW d, NEW e, \A p \in Pids : d[p] \subseteq e[p]
  PROVE  Held(d) \subseteq Held(e)
  BY DEF Held

(* A name leads to an open socket, two names never to the same, and what waits
   in a socket was sent to its name. *)
THEOREM NamesHold == Spec => []Names
<1>1. Init => Names
  BY Distinct DEF Init, Names
<1>2. TypeOK /\ NothingLeft /\ Names /\ [Next]_vars => Names'
  <2> SUFFICES ASSUME TypeOK, NothingLeft, Names, [Next]_vars
               PROVE  Names'
    OBVIOUS
  <2>0. /\ running \in [Pids -> BOOLEAN] /\ isLogInited \in [Pids -> BOOLEAN]
        /\ pc \in [Pids -> [Slots -> Labels]]
        /\ descriptors \in [Pids -> SUBSET Sockets]
        /\ g_dl_socket \in [Pids -> Sockets \cup {NoSocket}]
        /\ g_dl_socket_pid \in [Pids -> Pids \cup {NoPid}]
        /\ gInitMutex \in [Pids -> Slots \cup {Free, Lost}]
        /\ g_dl_request_mutex \in [Pids -> Slots \cup {Free, Lost}]
        /\ file \in [Pids -> Sockets \cup {NoFile, Dead}]
        /\ queue \in [Sockets -> Seq(Pids)]
    BY DEF TypeOK
  <2> USE <2>0, Distinct DEF kernel
  <2>1. ASSUME NEW p \in Pids, Start(p)
        PROVE  Names'
    <3>1. UNCHANGED <<descriptors, file, queue>>
      BY <2>1 DEF Start, kernel
    <3>2. QED
      BY <3>1 DEF Names, Held
  <2>2. ASSUME NEW p \in Pids, Exit(p)
        PROVE  Names'
    BY <2>2, CloseKeepsNames DEF Exit
  <2>3. ASSUME NEW p \in Pids, SendTo(p)
        PROVE  Names'
    <3>1. UNCHANGED <<descriptors, file>>
      BY <2>3 DEF SendTo
    <3>2. ASSUME NEW k \in Sockets, NEW i \in DOMAIN queue'[k]
          PROVE  file[queue'[k][i]] = k
      <4>1. CASE k = file[p]
        <5>1. queue'[k] = Append(queue[k], p)
          BY <2>3, <4>1 DEF SendTo
        <5>2. CASE i = Len(queue[k]) + 1
          BY <4>1, <5>1, <5>2
        <5>3. CASE i # Len(queue[k]) + 1
          BY <3>2, <5>1, <5>3 DEF Names
        <5>4. QED
          BY <5>2, <5>3
      <4>2. CASE k # file[p]
        BY <2>3, <3>2, <4>2 DEF SendTo, Names
      <4>3. QED
        BY <4>1, <4>2
    <3>3. QED
      BY <3>1, <3>2 DEF Names, Held
  <2>4. ASSUME NEW p \in Pids, NEW s \in Slots, Exec(p, s)
        PROVE  Names'
    <3>1. UNCHANGED <<descriptors, file, queue>>
      BY <2>4 DEF Exec, kernel
    <3>2. QED
      BY <3>1 DEF Names, Held
  <2>5. ASSUME NEW p \in Pids, NEW s \in Slots, NEW c \in Pids, Fork(p, s, c)
        PROVE  Names'
    <3>1. \A q \in Pids : descriptors[q] \subseteq descriptors'[q]
      BY <2>5 DEF Fork, NothingLeft
    <3>2. Held(descriptors) \subseteq Held(descriptors')
      BY <3>1, HeldGrows
    <3>3. UNCHANGED <<file, queue>>
      BY <2>5 DEF Fork
    <3>4. QED
      BY <3>2, <3>3 DEF Names, Held
  <2>6. ASSUME NEW p \in Pids, NEW s \in Slots, NEW c \in Calls, Enter(p, s, c)
        PROVE  Names'
    <3>1. UNCHANGED <<descriptors, file, queue>>
      BY <2>6 DEF Enter, kernel
    <3>2. QED
      BY <3>1 DEF Names, Held
  <2>7. ASSUME NEW p \in Pids, NEW s \in Slots, InitLock(p, s)
        PROVE  Names'
    <3>1. UNCHANGED <<descriptors, file, queue>>
      BY <2>7 DEF InitLock, kernel
    <3>2. QED
      BY <3>1 DEF Names, Held
  <2>8. ASSUME NEW p \in Pids, NEW s \in Slots, DeinitLock(p, s)
        PROVE  Names'
    <3>1. UNCHANGED <<descriptors, file, queue>>
      BY <2>8 DEF DeinitLock, kernel
    <3>2. QED
      BY <3>1 DEF Names, Held
  <2>9. ASSUME NEW p \in Pids, NEW s \in Slots, DynInitLock(p, s)
        PROVE  Names'
    <3>1. UNCHANGED <<descriptors, file, queue>>
      BY <2>9 DEF DynInitLock, kernel
    <3>2. QED
      BY <3>1 DEF Names, Held
  <2>10. ASSUME NEW p \in Pids, NEW s \in Slots, DeinitRequestLock(p, s)
        PROVE  Names'
    <3>1. UNCHANGED <<descriptors, file, queue>>
      BY <2>10 DEF DeinitRequestLock, kernel
    <3>2. QED
      BY <3>1 DEF Names, Held
  <2>11. ASSUME NEW p \in Pids, NEW s \in Slots, SetInited(p, s)
        PROVE  Names'
    <3>1. UNCHANGED <<descriptors, file, queue>>
      BY <2>11 DEF SetInited, kernel
    <3>2. QED
      BY <3>1 DEF Names, Held
  <2>12. ASSUME NEW p \in Pids, NEW s \in Slots, InitUnlock(p, s)
        PROVE  Names'
    <3>1. UNCHANGED <<descriptors, file, queue>>
      BY <2>12 DEF InitUnlock, kernel
    <3>2. QED
      BY <3>1 DEF Names, Held
  <2>13. ASSUME NEW p \in Pids, NEW s \in Slots, DynInit(p, s)
        PROVE  Names'
    <3>1. UNCHANGED queue
      BY <2>13 DEF DynInit
    <3>2. CASE UNCHANGED <<descriptors, file>>
      BY <3>1, <3>2 DEF Names, Held
    <3>3. ASSUME NEW k \in Sockets \ Held(descriptors), file[p] = NoFile,
                 descriptors' = [descriptors EXCEPT ![p] = @ \cup {k}],
                 file' = [file EXCEPT ![p] = k]
          PROVE  Names'
      <4>1. \A q \in Pids : file[q] # k
        BY DEF Names
      <4>2. \A q \in Pids : descriptors[q] \subseteq descriptors'[q]
        BY <3>3
      <4>3. Held(descriptors) \subseteq Held(descriptors')
        BY <4>2, HeldGrows
      <4>4. k \in descriptors'[p]
        BY <3>3
      <4>5. k \in Held(descriptors')
        BY <4>4, HeldByOne
      <4>6. \A q \in Pids : file'[q] \in Sockets => file'[q] \in Held(descriptors')
        BY <3>3, <4>3, <4>5 DEF Names
      <4>7. \A q, r \in Pids : file'[q] \in Sockets /\ file'[q] = file'[r] => q = r
        BY <3>3, <4>1 DEF Names
      <4>8. ASSUME NEW j \in Sockets, NEW i \in DOMAIN queue[j]
            PROVE  file'[queue[j][i]] = j
        <5>1. queue[j][i] \in Pids /\ file[queue[j][i]] = j
          BY <4>8 DEF Names
        <5>2. QED
          BY <3>3, <5>1
      <4>9. QED
        BY <3>1, <4>6, <4>7, <4>8 DEF Names, Held
    <3>4. QED
      BY <2>13, <3>2, <3>3, DynInitOutcome
  <2>14. ASSUME NEW p \in Pids, NEW s \in Slots, DeinitClose(p, s)
        PROVE  Names'
    BY <2>14, CloseKeepsNames DEF DeinitClose
  <2>15. ASSUME NEW p \in Pids, NEW s \in Slots, TryLock(p, s)
        PROVE  Names'
    <3>1. UNCHANGED <<descriptors, file, queue>>
      BY <2>15 DEF TryLock, kernel
    <3>2. QED
      BY <3>1 DEF Names, Held
  <2>16. ASSUME NEW p \in Pids, NEW s \in Slots, CloseInherited(p, s)
        PROVE  Names'
    BY <2>16, CloseKeepsNames DEF CloseInherited
  <2>17. ASSUME NEW p \in Pids, NEW s \in Slots, Checked(p, s)
        PROVE  Names'
    <3>1. UNCHANGED <<descriptors, file, queue>>
      BY <2>17 DEF Checked, kernel
    <3>2. QED
      BY <3>1 DEF Names, Held
  <2>18. ASSUME NEW p \in Pids, NEW s \in Slots, Receive(p, s)
        PROVE  Names'
    <3>1. UNCHANGED <<descriptors, file>>
      BY <2>18 DEF Receive
    <3>2. ASSUME NEW k \in Sockets, NEW i \in DOMAIN queue'[k]
          PROVE  file[queue'[k][i]] = k
      <4>1. CASE k = g_dl_socket[p]
        <5>1. queue'[k] = Tail(queue[k]) /\ queue[k] # << >>
          BY <2>18, <4>1 DEF Receive
        <5>2. i + 1 \in DOMAIN queue[k] /\ queue'[k][i] = queue[k][i + 1]
          BY <3>2, <5>1
        <5>3. QED
          BY <5>2 DEF Names
      <4>2. CASE k # g_dl_socket[p]
        BY <2>18, <3>2, <4>2 DEF Receive, Names
      <4>3. QED
        BY <4>1, <4>2
    <3>3. QED
      BY <3>1, <3>2 DEF Names, Held
  <2>19. ASSUME NEW p \in Pids, NEW s \in Slots, DrainEnd(p, s)
        PROVE  Names'
    <3>1. UNCHANGED <<descriptors, file, queue>>
      BY <2>19 DEF DrainEnd, kernel
    <3>2. QED
      BY <3>1 DEF Names, Held
  <2>20. CASE UNCHANGED vars
    <3>1. UNCHANGED <<descriptors, file, queue>>
      BY <2>20 DEF vars, kernel
    <3>2. QED
      BY <3>1 DEF Names, Held
  <2>21. QED
    BY <2>1, <2>2, <2>3, <2>4, <2>5, <2>6, <2>7, <2>8, <2>9, <2>10, <2>11,
       <2>12, <2>13, <2>14, <2>15, <2>16, <2>17, <2>18, <2>19, <2>20 DEF Next,
       Lock, Step
<1>3. QED
  BY <1>1, <1>2, ChannelTypeCorrect, NothingLeftHolds, PTL DEF Spec

(* A process that drains a socket finds in it only requests that were sent to
   its own pid: the socket is its own, the name with its pid leads there, and
   what waits there was sent to the only name that does. *)
THEOREM OnlyAddresseeHolds == Spec => []OnlyAddressee
<1>1. TypeOK /\ Names /\ BoundByPid /\ DrainsOwn => OnlyAddressee
  <2> SUFFICES ASSUME TypeOK, Names, BoundByPid, DrainsOwn,
                      NEW p \in Pids, NEW s \in Slots,
                      pc[p][s] = "drain", g_dl_socket[p] # NoSocket,
                      NEW i \in DOMAIN queue[g_dl_socket[p]]
               PROVE  queue[g_dl_socket[p]][i] = p
    BY DEF OnlyAddressee
  <2>1. file[p] = g_dl_socket[p] /\ g_dl_socket[p] \in Sockets
    BY DEF TypeOK, BoundByPid, DrainsOwn, IsInherited
  <2>2. /\ queue[g_dl_socket[p]][i] \in Pids
        /\ file[queue[g_dl_socket[p]][i]] = g_dl_socket[p]
    BY <2>1 DEF TypeOK, Names
  <2>3. QED
    BY <2>1, <2>2 DEF Names
<1>2. QED
  BY <1>1, ChannelTypeCorrect, NamesHold, BoundByPidHolds, DrainsOwnHolds, PTL

-------------------------------------------------------------------------------
(* A step that does not concern the process q. *)
LEMMA OneOpenerFrame ==
  ASSUME NEW q \in Pids, OneOpenerIn(q), pc'[q] = pc[q],
         g_dl_socket'[q] = g_dl_socket[q],
         g_dl_socket_pid'[q] = g_dl_socket_pid[q],
         isLogInited'[q] = isLogInited[q],
         gInitMutex'[q] = Lost <=> gInitMutex[q] = Lost
  PROVE  OneOpenerIn(q)'
  BY DEF OneOpenerIn, Opening, IsInherited

(* A process whose threads are all outside the library. *)
LEMMA OneOpenerIdle ==
  ASSUME NEW p \in Pids, \A s \in Slots : pc'[p][s] = "idle",
         g_dl_socket'[p] # NoSocket => isLogInited'[p] \/ gInitMutex'[p] = Lost
  PROVE  OneOpenerIn(p)'
  BY DEF OneOpenerIn, Opening

(* A thread of p that moves between places where no socket is opened or has
   just been opened, and changes nothing of p but perhaps the holder of a
   mutex. *)
LEMMA OneOpenerElsewhere ==
  ASSUME NEW p \in Pids, OneOpenerIn(p), NEW s \in Slots,
         pc \in [Pids -> [Slots -> Labels]],
         NEW label, Goto(p, s, label),
         label \notin {"bind_lock", "bind", "rebind_lock", "rebind", "inited"},
         pc[p][s] # "inited",
         UNCHANGED memory,
         gInitMutex[p] = Lost => gInitMutex'[p] = Lost
  PROVE  OneOpenerIn(p)'
  BY DEF OneOpenerIn, Opening, IsInherited, Goto, memory

(* One thread of a process at a time opens a socket, and only when there is
   none. *)
THEOREM OneOpenerHolds == Spec => []OneOpener
<1>1. Init => OneOpener
  BY LoadedIdle DEF Init, OneOpener, OneOpenerIn, Opening
<1>2. TypeOK /\ NothingLeft /\ MutualExclusion /\ OneOpener /\ [Next]_vars
        => OneOpener'
  <2> SUFFICES ASSUME TypeOK, NothingLeft, MutualExclusion, OneOpener,
                      [Next]_vars
               PROVE  OneOpener'
    OBVIOUS
  <2>0. /\ running \in [Pids -> BOOLEAN] /\ isLogInited \in [Pids -> BOOLEAN]
        /\ pc \in [Pids -> [Slots -> Labels]]
        /\ descriptors \in [Pids -> SUBSET Sockets]
        /\ g_dl_socket \in [Pids -> Sockets \cup {NoSocket}]
        /\ g_dl_socket_pid \in [Pids -> Pids \cup {NoPid}]
        /\ gInitMutex \in [Pids -> Slots \cup {Free, Lost}]
        /\ g_dl_request_mutex \in [Pids -> Slots \cup {Free, Lost}]
        /\ file \in [Pids -> Sockets \cup {NoFile, Dead}]
    BY DEF TypeOK
  <2> USE <2>0, Distinct, LoadedIdle DEF OneOpener, memory, mutexes, kernel,
     Goto
  <2>1. ASSUME NEW p \in Pids, Start(p)
        PROVE  OneOpener'
    <3>1. UNCHANGED <<memory, mutexes, pc>>
      BY <2>1 DEF Start
    <3>2. QED
      BY <3>1 DEF OneOpenerIn, Opening, IsInherited, memory, mutexes
  <2>2. ASSUME NEW p \in Pids, Exit(p)
        PROVE  OneOpener'
    <3>1. ASSUME NEW q \in Pids, q # p
          PROVE  OneOpenerIn(q)'
      <4>1. /\ pc'[q] = pc[q] /\ g_dl_socket'[q] = g_dl_socket[q]
            /\ g_dl_socket_pid'[q] = g_dl_socket_pid[q]
            /\ isLogInited'[q] = isLogInited[q]
            /\ gInitMutex'[q] = gInitMutex[q]
        BY <2>2, <3>1 DEF Exit, Load
      <4>2. QED
        BY <4>1, OneOpenerFrame
    <3>2. OneOpenerIn(p)'
      BY <2>2, OneOpenerIdle DEF Exit, Load
    <3>3. QED
      BY <3>1, <3>2
  <2>3. ASSUME NEW p \in Pids, SendTo(p)
        PROVE  OneOpener'
    <3>1. UNCHANGED <<memory, mutexes, pc>>
      BY <2>3 DEF SendTo
    <3>2. QED
      BY <3>1 DEF OneOpenerIn, Opening, IsInherited, memory, mutexes
  <2>4. ASSUME NEW p \in Pids, NEW s \in Slots, Exec(p, s)
        PROVE  OneOpener'
    <3>1. ASSUME NEW q \in Pids, q # p
          PROVE  OneOpenerIn(q)'
      <4>1. /\ pc'[q] = pc[q] /\ g_dl_socket'[q] = g_dl_socket[q]
            /\ g_dl_socket_pid'[q] = g_dl_socket_pid[q]
            /\ isLogInited'[q] = isLogInited[q]
            /\ gInitMutex'[q] = gInitMutex[q]
        BY <2>4, <3>1 DEF Exec, Load
      <4>2. QED
        BY <4>1, OneOpenerFrame
    <3>2. OneOpenerIn(p)'
      BY <2>4, OneOpenerIdle DEF Exec, Load
    <3>3. QED
      BY <3>1, <3>2
  <2>5. ASSUME NEW p \in Pids, NEW s \in Slots, NEW c \in Pids, Fork(p, s, c)
        PROVE  OneOpener'
    <3>1. ASSUME NEW q \in Pids, q # c
          PROVE  OneOpenerIn(q)'
      <4>1. /\ pc'[q] = pc[q] /\ g_dl_socket'[q] = g_dl_socket[q]
            /\ g_dl_socket_pid'[q] = g_dl_socket_pid[q]
            /\ isLogInited'[q] = isLogInited[q]
            /\ gInitMutex'[q] = gInitMutex[q]
        BY <2>5, <3>1 DEF Fork
      <4>2. QED
        BY <4>1, OneOpenerFrame
    <3>2. \A u \in Slots : pc'[c][u] = "idle"
      BY <2>5 DEF Fork, NothingLeft
    <3>3. ASSUME g_dl_socket'[c] # NoSocket
          PROVE  isLogInited'[c] \/ gInitMutex'[c] = Lost
      <4>1. /\ g_dl_socket[p] # NoSocket /\ isLogInited'[c] = isLogInited[p]
            /\ gInitMutex'[c] = Inherited(gInitMutex[p])
        BY <2>5, <3>3 DEF Fork
      <4>2. isLogInited[p] \/ gInitMutex[p] # Free
        BY <4>1 DEF OneOpenerIn, MutualExclusion, InitSection
      <4>3. QED
        BY <4>1, <4>2 DEF Inherited
    <3>4. OneOpenerIn(c)'
      BY <3>2, <3>3, OneOpenerIdle
    <3>5. QED
      BY <3>1, <3>4
  <2>6. ASSUME NEW p \in Pids, NEW s \in Slots, NEW c \in Calls, Enter(p, s, c)
        PROVE  OneOpener'
    <3>1. ASSUME NEW q \in Pids, q # p
          PROVE  OneOpenerIn(q)'
      <4>1. /\ pc'[q] = pc[q] /\ g_dl_socket'[q] = g_dl_socket[q]
            /\ g_dl_socket_pid'[q] = g_dl_socket_pid[q]
            /\ isLogInited'[q] = isLogInited[q]
            /\ gInitMutex'[q] = gInitMutex[q]
        BY <2>6, <3>1 DEF Enter
      <4>2. QED
        BY <4>1, OneOpenerFrame
    <3>2. /\ UNCHANGED memory /\ pc[p][s] # "inited"
          /\ gInitMutex[p] = Lost => gInitMutex'[p] = Lost
      BY <2>6 DEF Enter
    <3>3. \E label \in {"init_lock", "deinit_lock", "log_trylock"} : Goto(p, s, label)
      BY <2>6, CallStart DEF Enter
    <3>4. QED
      BY <3>1, <3>2, <3>3, OneOpenerElsewhere
  <2>7. ASSUME NEW p \in Pids, NEW s \in Slots, InitLock(p, s)
        PROVE  OneOpener'
    <3>1. ASSUME NEW q \in Pids, q # p
          PROVE  OneOpenerIn(q)'
      <4>1. /\ pc'[q] = pc[q] /\ g_dl_socket'[q] = g_dl_socket[q]
            /\ g_dl_socket_pid'[q] = g_dl_socket_pid[q]
            /\ isLogInited'[q] = isLogInited[q]
            /\ gInitMutex'[q] = gInitMutex[q]
        BY <2>7, <3>1 DEF InitLock
      <4>2. QED
        BY <4>1, OneOpenerFrame
    <3>2. \A u \in Slots : pc[p][u] \notin InitSection
      BY <2>7 DEF InitLock, MutualExclusion
    <3>3. CASE Goto(p, s, "init_unlock")
      BY <2>7, <3>1, <3>3, OneOpenerElsewhere DEF InitLock
    <3>4. CASE ~isLogInited[p] /\ Goto(p, s, "bind_lock")
      <4>1. g_dl_socket[p] = NoSocket /\ \A u \in Slots : ~Opening(p, u)
        BY <2>7, <3>2, <3>4 DEF InitLock, OneOpenerIn, Opening, InitSection
      <4>2. OneOpenerIn(p)'
        BY <2>7, <3>2, <3>4, <4>1
           DEF InitLock, OneOpenerIn, Opening, IsInherited, InitSection
      <4>3. QED
        BY <3>1, <4>2
    <3>5. QED
      BY <2>7, <3>3, <3>4 DEF InitLock
  <2>8. ASSUME NEW p \in Pids, NEW s \in Slots, DeinitLock(p, s)
        PROVE  OneOpener'
    <3>1. ASSUME NEW q \in Pids, q # p
          PROVE  OneOpenerIn(q)'
      <4>1. /\ pc'[q] = pc[q] /\ g_dl_socket'[q] = g_dl_socket[q]
            /\ g_dl_socket_pid'[q] = g_dl_socket_pid[q]
            /\ isLogInited'[q] = isLogInited[q]
            /\ gInitMutex'[q] = gInitMutex[q]
        BY <2>8, <3>1 DEF DeinitLock
      <4>2. QED
        BY <4>1, OneOpenerFrame
    <3>2. /\ UNCHANGED memory /\ pc[p][s] # "inited"
          /\ gInitMutex[p] = Lost => gInitMutex'[p] = Lost
      BY <2>8 DEF DeinitLock
    <3>3. \E label \in {"deinit_request_lock", "init_unlock"} : Goto(p, s, label)
      BY <2>8 DEF DeinitLock
    <3>4. QED
      BY <3>1, <3>2, <3>3, OneOpenerElsewhere
  <2>9. ASSUME NEW p \in Pids, NEW s \in Slots, DynInitLock(p, s)
        PROVE  OneOpener'
    <3>1. ASSUME NEW q \in Pids, q # p
          PROVE  OneOpenerIn(q)'
      <4>1. /\ pc'[q] = pc[q] /\ g_dl_socket'[q] = g_dl_socket[q]
            /\ g_dl_socket_pid'[q] = g_dl_socket_pid[q]
            /\ isLogInited'[q] = isLogInited[q]
            /\ gInitMutex'[q] = gInitMutex[q]
        BY <2>9, <3>1 DEF DynInitLock
      <4>2. QED
        BY <4>1, OneOpenerFrame
    <3>2. \/ pc[p][s] = "bind_lock" /\ Goto(p, s, "bind")
          \/ pc[p][s] = "rebind_lock" /\ Goto(p, s, "rebind")
      <4>1. /\ pc[p][s] \in {"bind_lock", "rebind_lock"}
            /\ Goto(p, s, [bind_lock |-> "bind",
                          rebind_lock |-> "rebind"][pc[p][s]])
        BY <2>9 DEF DynInitLock
      <4>2. CASE pc[p][s] = "bind_lock"
        BY <4>1, <4>2
      <4>3. CASE pc[p][s] = "rebind_lock"
        BY <4>1, <4>3
      <4>4. QED
        BY <4>1, <4>2, <4>3
    <3>3. UNCHANGED memory /\ gInitMutex'[p] = gInitMutex[p]
      BY <2>9 DEF DynInitLock
    <3>4. CASE pc[p][s] = "bind_lock" /\ Goto(p, s, "bind")
      BY <3>1, <3>3, <3>4 DEF OneOpenerIn, Opening, IsInherited
    <3>5. CASE pc[p][s] = "rebind_lock" /\ Goto(p, s, "rebind")
      BY <3>1, <3>3, <3>5 DEF OneOpenerIn, Opening, IsInherited
    <3>6. QED
      BY <3>2, <3>4, <3>5
  <2>10. ASSUME NEW p \in Pids, NEW s \in Slots, DeinitRequestLock(p, s)
        PROVE  OneOpener'
    <3>1. ASSUME NEW q \in Pids, q # p
          PROVE  OneOpenerIn(q)'
      <4>1. /\ pc'[q] = pc[q] /\ g_dl_socket'[q] = g_dl_socket[q]
            /\ g_dl_socket_pid'[q] = g_dl_socket_pid[q]
            /\ isLogInited'[q] = isLogInited[q]
            /\ gInitMutex'[q] = gInitMutex[q]
        BY <2>10, <3>1 DEF DeinitRequestLock
      <4>2. QED
        BY <4>1, OneOpenerFrame
    <3>2. /\ UNCHANGED memory /\ pc[p][s] # "inited"
          /\ gInitMutex[p] = Lost => gInitMutex'[p] = Lost
      BY <2>10 DEF DeinitRequestLock
    <3>3. \E label \in {"deinit_close"} : Goto(p, s, label)
      BY <2>10 DEF DeinitRequestLock
    <3>4. QED
      BY <3>1, <3>2, <3>3, OneOpenerElsewhere
  <2>11. ASSUME NEW p \in Pids, NEW s \in Slots, SetInited(p, s)
        PROVE  OneOpener'
    <3>1. ASSUME NEW q \in Pids, q # p
          PROVE  OneOpenerIn(q)'
      <4>1. /\ pc'[q] = pc[q] /\ g_dl_socket'[q] = g_dl_socket[q]
            /\ g_dl_socket_pid'[q] = g_dl_socket_pid[q]
            /\ isLogInited'[q] = isLogInited[q]
            /\ gInitMutex'[q] = gInitMutex[q]
        BY <2>11, <3>1 DEF SetInited
      <4>2. QED
        BY <4>1, OneOpenerFrame
    <3>2. gInitMutex[p] = s
      BY <2>11 DEF SetInited, MutualExclusion, InitSection
    <3>3. \A u \in Slots :
            pc[p][u] \in {"bind_lock", "bind", "inited"} => u = s
      BY <3>2 DEF MutualExclusion, InitSection
    <3>4. OneOpenerIn(p)'
      BY <2>11, <3>3 DEF SetInited, OneOpenerIn, Opening, IsInherited
    <3>5. QED
      BY <3>1, <3>4
  <2>12. ASSUME NEW p \in Pids, NEW s \in Slots, InitUnlock(p, s)
        PROVE  OneOpener'
    <3>1. ASSUME NEW q \in Pids, q # p
          PROVE  OneOpenerIn(q)'
      <4>1. /\ pc'[q] = pc[q] /\ g_dl_socket'[q] = g_dl_socket[q]
            /\ g_dl_socket_pid'[q] = g_dl_socket_pid[q]
            /\ isLogInited'[q] = isLogInited[q]
            /\ gInitMutex'[q] = gInitMutex[q]
        BY <2>12, <3>1 DEF InitUnlock
      <4>2. QED
        BY <4>1, OneOpenerFrame
    <3>2. pc[p][s] = "init_unlock" /\ gInitMutex[p] # Lost
      BY <2>12 DEF InitUnlock, MutualExclusion, InitSection
    <3>3. UNCHANGED memory /\ Goto(p, s, "idle")
      BY <2>12 DEF InitUnlock
    <3>4. QED
      BY <3>1, <3>2, <3>3, OneOpenerElsewhere
  <2>13. ASSUME NEW p \in Pids, NEW s \in Slots, DynInit(p, s)
        PROVE  OneOpener'
    <3>1. ASSUME NEW q \in Pids, q # p
          PROVE  OneOpenerIn(q)'
      <4>1. /\ pc'[q] = pc[q] /\ g_dl_socket'[q] = g_dl_socket[q]
            /\ g_dl_socket_pid'[q] = g_dl_socket_pid[q]
        BY <2>13, <3>1, DynInitPlace, DynInitOutcome
      <4>2. UNCHANGED <<isLogInited, gInitMutex>>
        BY <2>13 DEF DynInit
      <4>3. QED
        BY <4>1, <4>2, OneOpenerFrame
    <3>2. ~IsInherited(p)'
      BY <2>13, DynInitOutcome DEF IsInherited
    <3>3. UNCHANGED <<isLogInited, gInitMutex>>
      BY <2>13 DEF DynInit
    <3>4. \A u \in Slots : ~Opening(p, u)'
      <4>1. Opening(p, s)
        BY <2>13 DEF DynInit, Opening
      <4>2. \A u \in Slots : u # s => ~Opening(p, u) /\ pc'[p][u] = pc[p][u]
        BY <2>13, <4>1, DynInitPlace DEF OneOpenerIn
      <4>3. pc'[p][s] \in {"inited", "idle"}
        BY <2>13, DynInitPlace
      <4>4. QED
        BY <4>2, <4>3 DEF Opening
    <3>5. CASE pc[p][s] = "bind" /\ Goto(p, s, "inited")
      <4>1. ~isLogInited[p] /\ pc'[p][s] = "inited"
        BY <3>5 DEF OneOpenerIn
      <4>2. OneOpenerIn(p)'
        BY <3>2, <3>3, <3>4, <4>1 DEF OneOpenerIn, Opening
      <4>3. QED
        BY <3>1, <4>2
    <3>6. CASE pc[p][s] = "rebind" /\ Goto(p, s, "idle")
      <4>1. isLogInited[p] \/ gInitMutex[p] = Lost
        BY <3>6 DEF OneOpenerIn
      <4>2. \A u \in Slots : pc'[p][u] = "inited" => pc[p][u] = "inited"
        BY <3>6
      <4>3. \A u \in Slots : pc'[p][u] = "inited" => ~isLogInited[p]
        BY <4>2 DEF OneOpenerIn
      <4>4. OneOpenerIn(p)'
        BY <3>2, <3>3, <3>4, <4>1, <4>3 DEF OneOpenerIn, Opening
      <4>5. QED
        BY <3>1, <4>4
    <3>7. QED
      BY <2>13, <3>5, <3>6, DynInitPlace
  <2>14. ASSUME NEW p \in Pids, NEW s \in Slots, DeinitClose(p, s)
        PROVE  OneOpener'
    <3>1. ASSUME NEW q \in Pids, q # p
          PROVE  OneOpenerIn(q)'
      <4>1. /\ pc'[q] = pc[q] /\ g_dl_socket'[q] = g_dl_socket[q]
            /\ g_dl_socket_pid'[q] = g_dl_socket_pid[q]
            /\ isLogInited'[q] = isLogInited[q]
            /\ gInitMutex'[q] = gInitMutex[q]
        BY <2>14, <3>1 DEF DeinitClose
      <4>2. QED
        BY <4>1, OneOpenerFrame
    <3>2. /\ g_dl_socket'[p] = NoSocket /\ Goto(p, s, "init_unlock")
          /\ UNCHANGED <<isLogInited, gInitMutex>>
      BY <2>14 DEF DeinitClose
    <3>3. OneOpenerIn(p)'
      BY <3>2 DEF OneOpenerIn, Opening, IsInherited
    <3>4. QED
      BY <3>1, <3>3
  <2>15. ASSUME NEW p \in Pids, NEW s \in Slots, TryLock(p, s)
        PROVE  OneOpener'
    <3>1. ASSUME NEW q \in Pids, q # p
          PROVE  OneOpenerIn(q)'
      <4>1. /\ pc'[q] = pc[q] /\ g_dl_socket'[q] = g_dl_socket[q]
            /\ g_dl_socket_pid'[q] = g_dl_socket_pid[q]
            /\ isLogInited'[q] = isLogInited[q]
            /\ gInitMutex'[q] = gInitMutex[q]
        BY <2>15, <3>1 DEF TryLock
      <4>2. QED
        BY <4>1, OneOpenerFrame
    <3>2. /\ UNCHANGED memory /\ pc[p][s] # "inited"
          /\ gInitMutex[p] = Lost => gInitMutex'[p] = Lost
      BY <2>15 DEF TryLock
    <3>3. \E label \in {"check", "idle"} : Goto(p, s, label)
      BY <2>15 DEF TryLock
    <3>4. QED
      BY <3>1, <3>2, <3>3, OneOpenerElsewhere
  <2>16. ASSUME NEW p \in Pids, NEW s \in Slots, CloseInherited(p, s)
        PROVE  OneOpener'
    <3>1. ASSUME NEW q \in Pids, q # p
          PROVE  OneOpenerIn(q)'
      <4>1. /\ pc'[q] = pc[q] /\ g_dl_socket'[q] = g_dl_socket[q]
            /\ g_dl_socket_pid'[q] = g_dl_socket_pid[q]
            /\ isLogInited'[q] = isLogInited[q]
            /\ gInitMutex'[q] = gInitMutex[q]
        BY <2>16, <3>1 DEF CloseInherited
      <4>2. QED
        BY <4>1, OneOpenerFrame
    <3>2. /\ g_dl_socket'[p] = NoSocket /\ Goto(p, s, "rebind_lock")
          /\ UNCHANGED <<isLogInited, gInitMutex>>
      BY <2>16 DEF CloseInherited
    <3>3. /\ \A u \in Slots : ~Opening(p, u)
          /\ isLogInited[p] \/ gInitMutex[p] = Lost
      BY <2>16 DEF CloseInherited, OneOpenerIn, IsInherited
    <3>4. OneOpenerIn(p)'
      BY <3>2, <3>3 DEF OneOpenerIn, Opening, IsInherited
    <3>5. QED
      BY <3>1, <3>4
  <2>17. ASSUME NEW p \in Pids, NEW s \in Slots, Checked(p, s)
        PROVE  OneOpener'
    <3>1. ASSUME NEW q \in Pids, q # p
          PROVE  OneOpenerIn(q)'
      <4>1. /\ pc'[q] = pc[q] /\ g_dl_socket'[q] = g_dl_socket[q]
            /\ g_dl_socket_pid'[q] = g_dl_socket_pid[q]
            /\ isLogInited'[q] = isLogInited[q]
            /\ gInitMutex'[q] = gInitMutex[q]
        BY <2>17, <3>1 DEF Checked
      <4>2. QED
        BY <4>1, OneOpenerFrame
    <3>2. /\ UNCHANGED memory /\ pc[p][s] # "inited"
          /\ gInitMutex[p] = Lost => gInitMutex'[p] = Lost
      BY <2>17 DEF Checked
    <3>3. \E label \in {"drain"} : Goto(p, s, label)
      BY <2>17 DEF Checked
    <3>4. QED
      BY <3>1, <3>2, <3>3, OneOpenerElsewhere
  <2>18. ASSUME NEW p \in Pids, NEW s \in Slots, Receive(p, s)
        PROVE  OneOpener'
    <3>1. UNCHANGED <<memory, mutexes, pc>>
      BY <2>18 DEF Receive
    <3>2. QED
      BY <3>1 DEF OneOpenerIn, Opening, IsInherited, memory, mutexes
  <2>19. ASSUME NEW p \in Pids, NEW s \in Slots, DrainEnd(p, s)
        PROVE  OneOpener'
    <3>1. ASSUME NEW q \in Pids, q # p
          PROVE  OneOpenerIn(q)'
      <4>1. /\ pc'[q] = pc[q] /\ g_dl_socket'[q] = g_dl_socket[q]
            /\ g_dl_socket_pid'[q] = g_dl_socket_pid[q]
            /\ isLogInited'[q] = isLogInited[q]
            /\ gInitMutex'[q] = gInitMutex[q]
        BY <2>19, <3>1 DEF DrainEnd
      <4>2. QED
        BY <4>1, OneOpenerFrame
    <3>2. /\ UNCHANGED memory /\ pc[p][s] # "inited"
          /\ gInitMutex[p] = Lost => gInitMutex'[p] = Lost
      BY <2>19 DEF DrainEnd
    <3>3. \E label \in {"idle"} : Goto(p, s, label)
      BY <2>19 DEF DrainEnd
    <3>4. QED
      BY <3>1, <3>2, <3>3, OneOpenerElsewhere
  <2>20. CASE UNCHANGED vars
    <3>1. UNCHANGED <<memory, mutexes, pc>>
      BY <2>20 DEF vars
    <3>2. QED
      BY <3>1 DEF OneOpenerIn, Opening, IsInherited, memory, mutexes
  <2>21. QED
    BY <2>1, <2>2, <2>3, <2>4, <2>5, <2>6, <2>7, <2>8, <2>9, <2>10, <2>11,
       <2>12, <2>13, <2>14, <2>15, <2>16, <2>17, <2>18, <2>19, <2>20 DEF Next,
       Lock, Step
<1>3. QED
  BY <1>1, <1>2, ChannelTypeCorrect, NothingLeftHolds, SectionsHold, PTL DEF
     Spec

(* A process has no control socket open but the one in g_dl_socket and those
   that an exec left open: one is opened only when there is none. *)
THEOREM NoDescriptorLeakHolds == Spec => []NoDescriptorLeak
<1>1. Init => NoDescriptorLeak
  BY DEF Init, NoDescriptorLeak
<1>2. TypeOK /\ OneOpener /\ NoDescriptorLeak /\ [Next]_vars
        => NoDescriptorLeak'
  <2> SUFFICES ASSUME TypeOK, OneOpener, NoDescriptorLeak, [Next]_vars
               PROVE  NoDescriptorLeak'
    OBVIOUS
  <2>0. /\ running \in [Pids -> BOOLEAN] /\ isLogInited \in [Pids -> BOOLEAN]
        /\ pc \in [Pids -> [Slots -> Labels]]
        /\ descriptors \in [Pids -> SUBSET Sockets]
        /\ g_dl_socket \in [Pids -> Sockets \cup {NoSocket}]
        /\ g_dl_socket_pid \in [Pids -> Pids \cup {NoPid}]
        /\ gInitMutex \in [Pids -> Slots \cup {Free, Lost}]
        /\ g_dl_request_mutex \in [Pids -> Slots \cup {Free, Lost}]
        /\ file \in [Pids -> Sockets \cup {NoFile, Dead}]
        /\ kept \in [Pids -> SUBSET Sockets]
    BY DEF TypeOK
  <2> USE <2>0, Distinct DEF NoDescriptorLeak, memory, mutexes, kernel,
     history
  <2>1. ASSUME NEW p \in Pids, Start(p)
        PROVE  NoDescriptorLeak'
    BY <2>1 DEF Start, NewImage
  <2>2. ASSUME NEW p \in Pids, Exit(p)
        PROVE  NoDescriptorLeak'
    BY <2>2 DEF Exit, Load, SetDescriptors
  <2>3. ASSUME NEW p \in Pids, SendTo(p)
        PROVE  NoDescriptorLeak'
    BY <2>3 DEF SendTo
  <2>4. ASSUME NEW p \in Pids, NEW s \in Slots, Exec(p, s)
        PROVE  NoDescriptorLeak'
    BY <2>4 DEF Exec, NewImage, Load
  <2>5. ASSUME NEW p \in Pids, NEW s \in Slots, NEW c \in Pids, Fork(p, s, c)
        PROVE  NoDescriptorLeak'
    BY <2>5 DEF Fork, NewImage
  <2>6. ASSUME NEW p \in Pids, NEW s \in Slots, NEW c \in Calls, Enter(p, s, c)
        PROVE  NoDescriptorLeak'
    BY <2>6 DEF Enter
  <2>7. ASSUME NEW p \in Pids, NEW s \in Slots, InitLock(p, s)
        PROVE  NoDescriptorLeak'
    BY <2>7 DEF InitLock
  <2>8. ASSUME NEW p \in Pids, NEW s \in Slots, DeinitLock(p, s)
        PROVE  NoDescriptorLeak'
    BY <2>8 DEF DeinitLock
  <2>9. ASSUME NEW p \in Pids, NEW s \in Slots, DynInitLock(p, s)
        PROVE  NoDescriptorLeak'
    BY <2>9 DEF DynInitLock, TakeRequestMutex
  <2>10. ASSUME NEW p \in Pids, NEW s \in Slots, DeinitRequestLock(p, s)
        PROVE  NoDescriptorLeak'
    BY <2>10 DEF DeinitRequestLock, TakeRequestMutex
  <2>11. ASSUME NEW p \in Pids, NEW s \in Slots, SetInited(p, s)
        PROVE  NoDescriptorLeak'
    BY <2>11 DEF SetInited
  <2>12. ASSUME NEW p \in Pids, NEW s \in Slots, InitUnlock(p, s)
        PROVE  NoDescriptorLeak'
    BY <2>12 DEF InitUnlock
  <2>13. ASSUME NEW p \in Pids, NEW s \in Slots, DynInit(p, s)
        PROVE  NoDescriptorLeak'
    <3>1. g_dl_socket[p] = NoSocket
      BY <2>13 DEF DynInit, OneOpener, OneOpenerIn, Opening
    <3>2. descriptors[p] \subseteq kept[p]
      BY <3>1
    <3>3. UNCHANGED kept
      BY <2>13 DEF DynInit
    <3>4. CASE /\ g_dl_socket' = [g_dl_socket EXCEPT ![p] = NoSocket]
               /\ UNCHANGED descriptors
      BY <3>2, <3>3, <3>4
    <3>5. ASSUME NEW k \in Sockets,
                 g_dl_socket' = [g_dl_socket EXCEPT ![p] = k],
                 descriptors' = [descriptors EXCEPT ![p] = @ \cup {k}]
          PROVE  NoDescriptorLeak'
      BY <3>2, <3>3, <3>5
    <3>6. QED
      BY <2>13, <3>4, <3>5, DynInitOutcome
  <2>14. ASSUME NEW p \in Pids, NEW s \in Slots, DeinitClose(p, s)
        PROVE  NoDescriptorLeak'
    BY <2>14 DEF DeinitClose, SetDescriptors, ReleaseRequestMutex
  <2>15. ASSUME NEW p \in Pids, NEW s \in Slots, TryLock(p, s)
        PROVE  NoDescriptorLeak'
    BY <2>15 DEF TryLock, TakeRequestMutex
  <2>16. ASSUME NEW p \in Pids, NEW s \in Slots, CloseInherited(p, s)
        PROVE  NoDescriptorLeak'
    BY <2>16 DEF CloseInherited, SetDescriptors, ReleaseRequestMutex
  <2>17. ASSUME NEW p \in Pids, NEW s \in Slots, Checked(p, s)
        PROVE  NoDescriptorLeak'
    BY <2>17 DEF Checked
  <2>18. ASSUME NEW p \in Pids, NEW s \in Slots, Receive(p, s)
        PROVE  NoDescriptorLeak'
    BY <2>18 DEF Receive
  <2>19. ASSUME NEW p \in Pids, NEW s \in Slots, DrainEnd(p, s)
        PROVE  NoDescriptorLeak'
    BY <2>19 DEF DrainEnd, ReleaseRequestMutex
  <2>20. CASE UNCHANGED vars
    BY <2>20 DEF vars
  <2>21. QED
    BY <2>1, <2>2, <2>3, <2>4, <2>5, <2>6, <2>7, <2>8, <2>9, <2>10, <2>11,
       <2>12, <2>13, <2>14, <2>15, <2>16, <2>17, <2>18, <2>19, <2>20 DEF Next,
       Lock, Step
<1>3. QED
  BY <1>1, <1>2, ChannelTypeCorrect, OneOpenerHolds, PTL DEF Spec

(* What rdk_logger_deinit has closed stays closed: a socket is opened only
   during an initialisation, which is not done twice, or by a thread that is
   about to replace an inherited one. *)
THEOREM ClosedUnlessRebindingHolds == Spec => ClosedUnlessRebinding
<1>1. TypeOK /\ NothingLeft /\ OneOpener /\ [Next]_vars
        => [\A p \in Pids :
              /\ isLogInited[p] /\ g_dl_socket[p] = NoSocket
              /\ \A s \in Slots : pc[p][s] \notin {"rebind_lock", "rebind"}
              => g_dl_socket'[p] = NoSocket]_vars
  <2> SUFFICES ASSUME TypeOK, NothingLeft, OneOpener, Next,
                      NEW q \in Pids, isLogInited[q], g_dl_socket[q] = NoSocket,
                      \A s \in Slots : pc[q][s] \notin {"rebind_lock", "rebind"}
               PROVE  g_dl_socket'[q] = NoSocket
    OBVIOUS
  <2>0. g_dl_socket \in [Pids -> Sockets \cup {NoSocket}]
    BY DEF TypeOK
  <2> USE <2>0 DEF memory
  <2>1. ASSUME NEW p \in Pids, Start(p)
        PROVE  g_dl_socket'[q] = NoSocket
    BY <2>1 DEF Start, NewImage
  <2>2. ASSUME NEW p \in Pids, Exit(p)
        PROVE  g_dl_socket'[q] = NoSocket
    BY <2>2 DEF Exit, Load, SetDescriptors
  <2>3. ASSUME NEW p \in Pids, SendTo(p)
        PROVE  g_dl_socket'[q] = NoSocket
    BY <2>3 DEF SendTo
  <2>4. ASSUME NEW p \in Pids, NEW s \in Slots, Exec(p, s)
        PROVE  g_dl_socket'[q] = NoSocket
    BY <2>4 DEF Exec, NewImage, Load
  <2>5. ASSUME NEW p \in Pids, NEW s \in Slots, NEW c \in Pids, Fork(p, s, c)
        PROVE  g_dl_socket'[q] = NoSocket
    BY <2>5 DEF Fork, NothingLeft
  <2>6. ASSUME NEW p \in Pids, NEW s \in Slots, NEW c \in Calls, Enter(p, s, c)
        PROVE  g_dl_socket'[q] = NoSocket
    BY <2>6 DEF Enter
  <2>7. ASSUME NEW p \in Pids, NEW s \in Slots, InitLock(p, s)
        PROVE  g_dl_socket'[q] = NoSocket
    BY <2>7 DEF InitLock
  <2>8. ASSUME NEW p \in Pids, NEW s \in Slots, DeinitLock(p, s)
        PROVE  g_dl_socket'[q] = NoSocket
    BY <2>8 DEF DeinitLock
  <2>9. ASSUME NEW p \in Pids, NEW s \in Slots, DynInitLock(p, s)
        PROVE  g_dl_socket'[q] = NoSocket
    BY <2>9 DEF DynInitLock, TakeRequestMutex
  <2>10. ASSUME NEW p \in Pids, NEW s \in Slots, DeinitRequestLock(p, s)
        PROVE  g_dl_socket'[q] = NoSocket
    BY <2>10 DEF DeinitRequestLock, TakeRequestMutex
  <2>11. ASSUME NEW p \in Pids, NEW s \in Slots, SetInited(p, s)
        PROVE  g_dl_socket'[q] = NoSocket
    BY <2>11 DEF SetInited
  <2>12. ASSUME NEW p \in Pids, NEW s \in Slots, InitUnlock(p, s)
        PROVE  g_dl_socket'[q] = NoSocket
    BY <2>12 DEF InitUnlock
  <2>13. ASSUME NEW p \in Pids, NEW s \in Slots, DynInit(p, s)
        PROVE  g_dl_socket'[q] = NoSocket
    <3>1. CASE q = p
      <4>1. pc[p][s] = "bind"
        BY <2>13, <3>1 DEF DynInit
      <4>2. ~isLogInited[p]
        BY <4>1 DEF OneOpener, OneOpenerIn
      <4>3. QED
        BY <3>1, <4>2
    <3>2. CASE q # p
      BY <2>13, <3>2, DynInitOutcome
    <3>3. QED
      BY <3>1, <3>2
  <2>14. ASSUME NEW p \in Pids, NEW s \in Slots, DeinitClose(p, s)
        PROVE  g_dl_socket'[q] = NoSocket
    BY <2>14 DEF DeinitClose, SetDescriptors, ReleaseRequestMutex
  <2>15. ASSUME NEW p \in Pids, NEW s \in Slots, TryLock(p, s)
        PROVE  g_dl_socket'[q] = NoSocket
    BY <2>15 DEF TryLock, TakeRequestMutex
  <2>16. ASSUME NEW p \in Pids, NEW s \in Slots, CloseInherited(p, s)
        PROVE  g_dl_socket'[q] = NoSocket
    BY <2>16 DEF CloseInherited, SetDescriptors, ReleaseRequestMutex
  <2>17. ASSUME NEW p \in Pids, NEW s \in Slots, Checked(p, s)
        PROVE  g_dl_socket'[q] = NoSocket
    BY <2>17 DEF Checked
  <2>18. ASSUME NEW p \in Pids, NEW s \in Slots, Receive(p, s)
        PROVE  g_dl_socket'[q] = NoSocket
    BY <2>18 DEF Receive
  <2>19. ASSUME NEW p \in Pids, NEW s \in Slots, DrainEnd(p, s)
        PROVE  g_dl_socket'[q] = NoSocket
    BY <2>19 DEF DrainEnd, ReleaseRequestMutex
  <2>20. QED
    BY <2>1, <2>2, <2>3, <2>4, <2>5, <2>6, <2>7, <2>8, <2>9, <2>10, <2>11,
       <2>12, <2>13, <2>14, <2>15, <2>16, <2>17, <2>18, <2>19 DEF Next,
       Lock, Step
<1>2. QED
  BY <1>1, ChannelTypeCorrect, NothingLeftHolds, OneOpenerHolds, PTL
     DEF Spec, ClosedUnlessRebinding
-------------------------------------------------------------------------------
(* The sockets implement a mailbox for every pid. *)

(* A thread of p takes requests out of a socket. *)
Reading(p) == g_dl_socket[p] # NoSocket /\ \E s \in Slots : pc[p][s] = "drain"

(* A process that reads, reads its own mailbox and no other. *)
LooksHome ==
  \A p \in Pids :
    /\ LookingInto[p] = IF Reading(p) THEN {p} ELSE {}
    /\ Reading(p) => file[p] \in Sockets /\ file[p] = g_dl_socket[p]

(* The socket that a process drains is bound to the name with its pid, and no
   other name leads to it. *)
THEOREM LooksHomeHolds == Spec => []LooksHome
<1>1. TypeOK /\ Names /\ BoundByPid /\ DrainsOwn => LooksHome
  <2> SUFFICES ASSUME TypeOK, Names, BoundByPid, DrainsOwn, NEW p \in Pids
               PROVE  /\ LookingInto[p] = IF Reading(p) THEN {p} ELSE {}
                      /\ Reading(p) => file[p] \in Sockets /\ file[p] = g_dl_socket[p]
    BY DEF LooksHome
  <2>1. g_dl_socket[p] \in Sockets \cup {NoSocket}
    BY DEF TypeOK
  <2>2. Reading(p) => file[p] \in Sockets /\ file[p] = g_dl_socket[p]
    BY <2>1 DEF Reading, DrainsOwn, IsInherited, BoundByPid
  <2>3. \A q \in Pids : file[q] \in Sockets /\ file[q] = file[p] => q = p
    BY DEF Names
  <2>4. \A q : q \in LookingInto[p] <=> q \in IF Reading(p) THEN {p} ELSE {}
    BY <2>1, <2>2, <2>3, Distinct DEF LookingInto, Reading
  <2>5. QED
    BY <2>2, <2>4
<1>2. QED
  BY <1>1, ChannelTypeCorrect, NamesHold, BoundByPidHolds, DrainsOwnHolds, PTL

(* The state of every mailbox, what waits in it and who looks into it are
   functions of the pids. *)
LEMMA MailFunctions ==
  /\ MailboxState = [p \in Pids |-> MailboxState[p]]
  /\ MailboxState' = [p \in Pids |-> MailboxState'[p]]
  /\ MailWaiting = [p \in Pids |-> MailWaiting[p]]
  /\ MailWaiting' = [p \in Pids |-> MailWaiting'[p]]
  /\ LookingInto = [p \in Pids |-> LookingInto[p]]
  /\ LookingInto' = [p \in Pids |-> LookingInto'[p]]
  BY DEF MailboxState, MailWaiting, LookingInto

(* Who looks into a mailbox changes with who reads. *)
LEMMA LookingKept ==
  ASSUME LooksHome, LooksHome', \A q \in Pids : Reading(q)' <=> Reading(q)
  PROVE  LookingInto' = LookingInto
  <1>1. \A q \in Pids : LookingInto'[q] = LookingInto[q]
    BY DEF LooksHome
  <1>2. QED
    BY <1>1, MailFunctions

(* The state of the mailboxes changes with the names. *)
LEMMA StateKept ==
  ASSUME UNCHANGED file PROVE MailboxState' = MailboxState
  BY DEF MailboxState

(* What waits changes with the names and the queues. *)
LEMMA WaitingKept ==
  ASSUME UNCHANGED <<file, queue>> PROVE MailWaiting' = MailWaiting
  BY DEF MailWaiting

(* A step that leaves the names, the queues and the readers is none to the
   mailboxes. *)
LEMMA MailKept ==
  ASSUME LooksHome, LooksHome', UNCHANGED <<file, queue>>,
         \A q \in Pids : Reading(q)' <=> Reading(q)
  PROVE  UNCHANGED Mail!vars
  BY LookingKept, StateKept, WaitingKept DEF Mail!vars

(* A process that reads no more has turned away from its mailbox. *)
LEMMA LookingLeft ==
  ASSUME LooksHome, LooksHome', NEW p \in Pids, ~Reading(p)',
         \A q \in Pids \ {p} : Reading(q)' <=> Reading(q)
  PROVE  LookingInto' = [LookingInto EXCEPT ![p] = {}]
  <1>1. LookingInto'[p] = {}
    BY DEF LooksHome
  <1>2. \A q \in Pids \ {p} : LookingInto'[q] = LookingInto[q]
    BY DEF LooksHome
  <1>3. QED
    BY <1>1, <1>2, MailFunctions

(* A process stops reading, and nothing is closed. *)
LEMMA MailLeft ==
  ASSUME LooksHome, LooksHome', UNCHANGED <<file, queue>>,
         NEW p \in Pids, ~Reading(p)',
         \A q \in Pids \ {p} : Reading(q)' <=> Reading(q)
  PROVE  Mail!TurnAway(p, {})
  <1>1. MailboxState' = [c \in Pids |-> IF c \in {} THEN "gone" ELSE MailboxState[c]]
    BY StateKept, MailFunctions
  <1>2. MailWaiting' = [c \in Pids |-> IF c \in {} THEN 0 ELSE MailWaiting[c]]
    BY WaitingKept, MailFunctions
  <1>3. QED
    BY <1>1, <1>2, LookingLeft DEF Mail!TurnAway

(* Descriptors are closed by a process that does not read any more: the
   mailboxes whose sockets nobody has open are gone with what is in them, and
   nobody was reading those. *)
LEMMA MailClosed ==
  ASSUME LooksHome, LooksHome', NEW d, SetDescriptors(d),
         NEW p \in Pids, ~Reading(p)',
         \A q \in Pids \ {p} : Reading(q)' <=> Reading(q)
  PROVE  \E closed \in SUBSET Pids : Mail!TurnAway(p, closed)
  <1> DEFINE closed == {c \in Pids : file[c] \in Sockets \ Held(d)}
  <1>1. \A c \in Pids : file'[c] = IF c \in closed THEN Dead ELSE file[c]
    BY NameAfterClose
  <1>2. \A c \in closed : MailboxState[c] = "open" /\ MailboxState'[c] = "gone"
                          /\ MailWaiting'[c] = 0
    BY <1>1, Distinct DEF MailboxState, MailWaiting
  <1>3. ASSUME NEW c \in Pids, c \notin closed
        PROVE  MailboxState'[c] = MailboxState[c] /\ MailWaiting'[c] = MailWaiting[c]
    <2>1. file'[c] = file[c]
      BY <1>1, <1>3
    <2>2. MailboxState'[c] = MailboxState[c]
      BY <2>1 DEF MailboxState
    <2>3. CASE file[c] \in Sockets
      <3>1. queue'[file[c]] = queue[file[c]]
        BY <1>3, <2>3 DEF SetDescriptors
      <3>2. QED
        BY <2>1, <2>2, <3>1 DEF MailWaiting
    <2>4. CASE file[c] \notin Sockets
      BY <2>1, <2>2, <2>4 DEF MailWaiting
    <2>5. QED
      BY <2>3, <2>4
  <1>4. ASSUME NEW c \in closed, NEW b \in Pids
        PROVE  c \notin LookingInto'[b]
    <2>1. file'[c] \notin Sockets
      BY <1>1, Distinct
    <2>2. QED
      BY <2>1 DEF LookingInto
  <1>5. closed \in SUBSET Pids
    OBVIOUS
  <1> HIDE DEF closed
  <1>6. MailboxState' =
          [c \in Pids |-> IF c \in closed THEN "gone" ELSE MailboxState[c]]
    BY <1>2, <1>3, MailFunctions
  <1>7. MailWaiting' = [c \in Pids |-> IF c \in closed THEN 0 ELSE MailWaiting[c]]
    BY <1>2, <1>3, MailFunctions
  <1>8. Mail!TurnAway(p, closed)
    BY <1>2, <1>4, <1>6, <1>7, LookingLeft DEF Mail!TurnAway
  <1>9. QED
    BY <1>5, <1>8

(* A thread that goes elsewhere than to the draining makes nobody a reader. *)
LEMMA ReadersKept ==
  ASSUME pc \in [Pids -> [Slots -> Labels]], NEW p \in Pids, NEW s \in Slots,
         NEW label, Goto(p, s, label), label # "drain", pc[p][s] # "drain",
         UNCHANGED g_dl_socket
  PROVE  \A q \in Pids : Reading(q)' <=> Reading(q)
  <1>1. \A q \in Pids, u \in Slots : pc'[q][u] = "drain" <=> pc[q][u] = "drain"
    BY DEF Goto
  <1>2. QED
    BY <1>1 DEF Reading

(* While a thread is in another part of the section of g_dl_request_mutex, no
   thread of its process drains. *)
LEMMA NobodyDrains ==
  ASSUME MutualExclusion, NEW p \in Pids, NEW s \in Slots,
         pc[p][s] \in RequestSection \ {"drain"}
  PROVE  \A u \in Slots : pc[p][u] # "drain"
  <1> SUFFICES ASSUME NEW u \in Slots, pc[p][u] = "drain" PROVE FALSE
    OBVIOUS
  <1>1. g_dl_request_mutex[p] = s
    BY DEF MutualExclusion
  <1>2. g_dl_request_mutex[p] = u
    BY DEF MutualExclusion, RequestSection
  <1>3. QED
    BY <1>1, <1>2

(* When it leaves, elsewhere than to the draining, there is still none. *)
LEMMA StillNobodyDrains ==
  ASSUME TypeOK, MutualExclusion, NEW p \in Pids, NEW s \in Slots,
         pc[p][s] \in RequestSection \ {"drain"},
         NEW label, Goto(p, s, label), label # "drain"
  PROVE  /\ ~Reading(p) /\ ~Reading(p)'
         /\ \A q \in Pids \ {p} : pc'[q] = pc[q]
  <1>1. \A u \in Slots : pc[p][u] # "drain"
    BY NobodyDrains
  <1>2. pc \in [Pids -> [Slots -> Labels]]
    BY DEF TypeOK
  <1>3. \A u \in Slots : pc'[p][u] # "drain"
    BY <1>1, <1>2 DEF Goto
  <1>4. QED
    BY <1>1, <1>2, <1>3 DEF Reading, Goto

(* What a thread of p does to the place of p's threads and to p's socket leaves
   the other processes' reading. *)
LEMMA OthersRead ==
  ASSUME NEW p \in Pids,
         \A q \in Pids \ {p} : pc'[q] = pc[q] /\ g_dl_socket'[q] = g_dl_socket[q]
  PROVE  \A q \in Pids \ {p} : Reading(q)' <=> Reading(q)
  BY DEF Reading

(* The start of a process, and the child's of a fork: nobody looks anywhere
   else than before. *)
LEMMA MailFork ==
  ASSUME TypeOK, NothingLeft, LooksHome, LooksHome',
         NEW p \in Pids, NEW s \in Slots, NEW c \in Pids, Fork(p, s, c)
  PROVE  UNCHANGED Mail!vars
  <1>1. pc[c] = AllIdle /\ UNCHANGED <<pc, file, queue>>
    BY DEF Fork, NothingLeft
  <1>2. ~Reading(c) /\ ~Reading(c)'
    BY <1>1, LoadedIdle DEF Reading
  <1>3. \A q \in Pids \ {c} : g_dl_socket'[q] = g_dl_socket[q]
    BY DEF Fork, TypeOK
  <1>4. \A q \in Pids \ {c} : Reading(q)' <=> Reading(q)
    BY <1>1, <1>3 DEF Reading
  <1>5. QED
    BY <1>1, <1>2, <1>4, MailKept

(* An image that is loaded, or unloaded, reads nothing. *)
LEMMA LoadReads ==
  ASSUME TypeOK, NEW p \in Pids, Load(p)
  PROVE  ~Reading(p)' /\ \A q \in Pids \ {p} : Reading(q)' <=> Reading(q)
  <1>1. /\ \A q \in Pids \ {p} : pc'[q] = pc[q] /\ g_dl_socket'[q] = g_dl_socket[q]
        /\ g_dl_socket'[p] = NoSocket
    BY DEF Load, TypeOK
  <1>2. QED
    BY <1>1, OthersRead DEF Reading

(* What rdk_dyn_log_init does to the mailboxes: it opens the one of the process,
   with nothing in it, or none. *)
LEMMA MailOpens ==
  ASSUME TypeOK, TypeOK', MutualExclusion, Names, LooksHome, LooksHome',
         NEW p \in Pids, NEW s \in Slots, DynInit(p, s)
  PROVE  Mail!Open(p) \/ UNCHANGED Mail!vars
  <1>1. PICK label : Goto(p, s, label) /\ label # "drain"
    BY DynInitPlace
  <1>2. pc[p][s] \in RequestSection \ {"drain"}
    BY DynInitPlace DEF RequestSection
  <1>3. ~Reading(p) /\ ~Reading(p)' /\ \A q \in Pids \ {p} : pc'[q] = pc[q]
    BY <1>1, <1>2, StillNobodyDrains
  <1>4. \A q \in Pids \ {p} : g_dl_socket'[q] = g_dl_socket[q]
    <2>1. \E k : g_dl_socket' = [g_dl_socket EXCEPT ![p] = k]
      BY DynInitOutcome
    <2>2. g_dl_socket \in [Pids -> Sockets \cup {NoSocket}]
      BY DEF TypeOK
    <2>3. QED
      BY <2>1, <2>2
  <1>5. \A q \in Pids : Reading(q)' <=> Reading(q)
    BY <1>3, <1>4, OthersRead
  <1>6. UNCHANGED queue
    BY DEF DynInit
  <1>7. CASE UNCHANGED file
    BY <1>5, <1>6, <1>7, MailKept
  <1>8. ASSUME NEW k \in Sockets \ Held(descriptors), file[p] = NoFile,
               file' = [file EXCEPT ![p] = k]
        PROVE  Mail!Open(p)
    <2>1. file \in [Pids -> Sockets \cup {NoFile, Dead}]
          /\ queue \in [Sockets -> Seq(Pids)]
      BY DEF TypeOK
    <2>2. Len(queue[k]) = 0
      <3>1. SUFFICES ASSUME Len(queue[k]) # 0 PROVE FALSE
        OBVIOUS
      <3>2. 1 \in DOMAIN queue[k]
        BY <2>1, <3>1
      <3>3. queue[k][1] \in Pids /\ file[queue[k][1]] = k
        BY <2>1, <3>2 DEF Names
      <3>4. QED
        BY <1>8, <3>3 DEF Names
    <2>3. /\ MailboxState[p] = "new" /\ MailboxState'[p] = "open"
          /\ MailWaiting[p] = 0 /\ MailWaiting'[p] = 0
      BY <1>6, <1>8, <2>1, <2>2, Distinct DEF MailboxState, MailWaiting
    <2>4. \A q \in Pids \ {p} : /\ MailboxState'[q] = MailboxState[q]
                                /\ MailWaiting'[q] = MailWaiting[q]
      BY <1>6, <1>8, <2>1 DEF MailboxState, MailWaiting
    <2>5. MailboxState' = [MailboxState EXCEPT ![p] = "open"]
      BY <2>3, <2>4, MailFunctions
    <2>6. MailWaiting' = MailWaiting
      BY <2>3, <2>4, MailFunctions
    <2>7. QED
      BY <1>5, <2>3, <2>5, <2>6, LookingKept DEF Mail!Open
  <1>9. QED
    BY <1>7, <1>8, DynInitOutcome

(* A process that closes its socket does not read it meanwhile. *)
LEMMA MailCloses ==
  ASSUME TypeOK, MutualExclusion, LooksHome, LooksHome',
         NEW p \in Pids, NEW s \in Slots, DeinitClose(p, s) \/ CloseInherited(p, s)
  PROVE  \E closed \in SUBSET Pids : Mail!TurnAway(p, closed)
  <1>1. PICK label : Goto(p, s, label) /\ label # "drain"
    BY DEF DeinitClose, CloseInherited
  <1>2. pc[p][s] \in RequestSection \ {"drain"}
    BY DEF DeinitClose, CloseInherited, RequestSection
  <1>3. ~Reading(p)' /\ \A q \in Pids \ {p} : pc'[q] = pc[q]
    BY <1>1, <1>2, StillNobodyDrains
  <1>4. \A q \in Pids \ {p} : g_dl_socket'[q] = g_dl_socket[q]
    BY DEF DeinitClose, CloseInherited, TypeOK
  <1>5. SetDescriptors([descriptors EXCEPT ![p] = @ \ {g_dl_socket[p]}])
    BY DEF DeinitClose, CloseInherited
  <1>6. QED
    BY <1>3, <1>4, <1>5, OthersRead, MailClosed

(* The thread that holds g_dl_request_mutex begins to drain: the process looks
   into its own mailbox, which is open, or has no socket. *)
LEMMA MailLook ==
  ASSUME TypeOK, LooksHome, LooksHome',
         NEW p \in Pids, NEW s \in Slots, Checked(p, s)
  PROVE  Mail!Look(p) \/ UNCHANGED Mail!vars
  <1>1. UNCHANGED <<file, queue, g_dl_socket>> /\ Goto(p, s, "drain")
    BY DEF Checked, kernel, memory
  <1>2. \A q \in Pids \ {p} : pc'[q] = pc[q] /\ g_dl_socket'[q] = g_dl_socket[q]
    BY <1>1 DEF Goto, TypeOK
  <1>3. \A q \in Pids \ {p} : Reading(q)' <=> Reading(q)
    BY <1>2, OthersRead
  <1>4. CASE g_dl_socket[p] = NoSocket
    <2>1. ~Reading(p) /\ ~Reading(p)'
      BY <1>1, <1>4 DEF Reading
    <2>2. QED
      BY <1>1, <1>3, <2>1, MailKept
  <1>5. CASE g_dl_socket[p] # NoSocket
    <2>1. pc'[p][s] = "drain"
      BY <1>1 DEF Goto, TypeOK
    <2>2. Reading(p)'
      BY <1>1, <1>5, <2>1 DEF Reading
    <2>3. file[p] \in Sockets /\ LookingInto'[p] = {p}
      BY <1>1, <2>2 DEF LooksHome
    <2>4. \A q \in Pids \ {p} : LookingInto'[q] = LookingInto[q]
      BY <1>3 DEF LooksHome
    <2>5. LookingInto' = [LookingInto EXCEPT ![p] = {p}]
      BY <2>3, <2>4, MailFunctions
    <2>6. MailboxState[p] = "open"
      BY <2>3, Distinct DEF MailboxState
    <2>7. QED
      BY <1>1, <2>5, <2>6, StateKept, WaitingKept DEF Mail!Look
  <1>6. QED
    BY <1>4, <1>5

(* A queue that gets longer or shorter is the mailbox of one pid. *)
LEMMA OneMailbox ==
  ASSUME TypeOK, Names, NEW p \in Pids, file[p] \in Sockets, UNCHANGED file,
         \A k \in Sockets \ {file[p]} : queue'[k] = queue[k]
  PROVE  MailWaiting' = [MailWaiting EXCEPT ![p] = Len(queue'[file[p]])]
  <1>1. MailWaiting'[p] = Len(queue'[file[p]])
    BY DEF MailWaiting
  <1>2. \A q \in Pids \ {p} : MailWaiting'[q] = MailWaiting[q]
    BY DEF MailWaiting, Names
  <1>3. QED
    BY <1>1, <1>2, MailFunctions

(* A thread takes a request from the mailbox of its process. *)
LEMMA MailTake ==
  ASSUME TypeOK, Names, LooksHome, LooksHome',
         NEW p \in Pids, NEW s \in Slots, Receive(p, s)
  PROVE  Mail!Take(p)
  <1>1. /\ UNCHANGED <<file, g_dl_socket, pc>>
        /\ queue' = [queue EXCEPT ![g_dl_socket[p]] = Tail(@)]
        /\ queue[g_dl_socket[p]] # << >>
        /\ pc[p][s] = "drain" /\ g_dl_socket[p] # NoSocket
    BY DEF Receive, memory
  <1>2. file[p] \in Sockets /\ file[p] = g_dl_socket[p] /\ LookingInto[p] = {p}
    BY <1>1 DEF LooksHome, Reading
  <1>3. queue \in [Sockets -> Seq(Pids)]
    BY DEF TypeOK
  <1>4. PICK q \in Seq(Pids) : q = queue[file[p]] /\ q # << >>
    BY <1>1, <1>2, <1>3
  <1>5. queue'[file[p]] = Tail(q)
    BY <1>1, <1>2, <1>3, <1>4
  <1>6. Len(q) \in Nat /\ Len(q) > 0 /\ Len(Tail(q)) = Len(q) - 1
    BY <1>4
  <1>7. MailWaiting[p] = Len(q)
    BY <1>2, <1>4 DEF MailWaiting
  <1>8. MailWaiting' = [MailWaiting EXCEPT ![p] = Len(q) - 1]
    BY <1>1, <1>2, <1>3, <1>5, <1>6, OneMailbox
  <1>9. LookingInto' = LookingInto
    BY <1>1, LookingKept DEF Reading
  <1>10. QED
    BY <1>1, <1>2, <1>6, <1>7, <1>8, <1>9, StateKept DEF Mail!Take

(* rdklogctrl puts a request into the mailbox of the pid it was given. *)
LEMMA MailPost ==
  ASSUME TypeOK, Names, LooksHome, LooksHome', NEW p \in Pids, SendTo(p)
  PROVE  Mail!Post(p)
  <1>1. /\ UNCHANGED <<file, g_dl_socket, pc>> /\ file[p] \in Sockets
        /\ queue' = [queue EXCEPT ![file[p]] = Append(@, p)]
    BY DEF SendTo, memory
  <1>2. queue \in [Sockets -> Seq(Pids)]
    BY DEF TypeOK
  <1>3. queue'[file[p]] = Append(queue[file[p]], p)
    BY <1>1, <1>2
  <1>4. Len(queue'[file[p]]) = Len(queue[file[p]]) + 1
    BY <1>1, <1>2, <1>3
  <1>5. MailWaiting[p] = Len(queue[file[p]]) /\ MailboxState[p] = "open"
    BY <1>1, Distinct DEF MailWaiting, MailboxState
  <1>6. MailWaiting' = [MailWaiting EXCEPT ![p] = MailWaiting[p] + 1]
    BY <1>1, <1>2, <1>4, <1>5, OneMailbox
  <1>7. LookingInto' = LookingInto
    BY <1>1, LookingKept DEF Reading
  <1>8. QED
    BY <1>1, <1>5, <1>6, <1>7, StateKept DEF Mail!Post

(* The other threads' steps up to the mutexes and back: none of them reads
   before or after, and the names and the queues stay. *)
LEMMA MailElsewhere ==
  ASSUME TypeOK, LooksHome, LooksHome', NEW p \in Pids, NEW s \in Slots,
         \/ \E c \in Calls : Enter(p, s, c)
         \/ Lock(p, s) \/ SetInited(p, s) \/ InitUnlock(p, s) \/ TryLock(p, s)
  PROVE  UNCHANGED Mail!vars
  <1>1. UNCHANGED <<file, queue, g_dl_socket>> /\ pc[p][s] # "drain"
    BY DEF Enter, Lock, InitLock, DeinitLock, DynInitLock, DeinitRequestLock,
           SetInited, InitUnlock, TryLock, kernel, memory
  <1>2. \E label : Goto(p, s, label) /\ label # "drain"
    <2>1. CASE \E c \in Calls : Enter(p, s, c)
      BY <2>1, CallStart DEF Enter
    <2>2. CASE InitLock(p, s)
      BY <2>2 DEF InitLock
    <2>3. CASE DeinitLock(p, s)
      BY <2>3 DEF DeinitLock
    <2>4. CASE DynInitLock(p, s)
      <3>1. /\ pc[p][s] \in {"bind_lock", "rebind_lock"}
            /\ Goto(p, s, [bind_lock |-> "bind", rebind_lock |-> "rebind"][pc[p][s]])
        BY <2>4 DEF DynInitLock
      <3>2. [bind_lock |-> "bind", rebind_lock |-> "rebind"][pc[p][s]] # "drain"
        BY <3>1
      <3>3. QED
        BY <3>1, <3>2
    <2>5. CASE DeinitRequestLock(p, s)
      BY <2>5 DEF DeinitRequestLock
    <2>6. CASE SetInited(p, s)
      BY <2>6 DEF SetInited
    <2>7. CASE InitUnlock(p, s)
      BY <2>7 DEF InitUnlock
    <2>8. CASE TryLock(p, s)
      BY <2>8 DEF TryLock
    <2>9. QED
      BY <2>1, <2>2, <2>3, <2>4, <2>5, <2>6, <2>7, <2>8 DEF Lock
  <1>3. PICK label : Goto(p, s, label) /\ label # "drain"
    BY <1>2
  <1>4. pc \in [Pids -> [Slots -> Labels]]
    BY DEF TypeOK
  <1>5. \A q \in Pids : Reading(q)' <=> Reading(q)
    BY <1>1, <1>3, <1>4, ReadersKept
  <1>6. QED
    BY <1>1, <1>5, MailKept

(* A thread that has drained, and a process that execs, turns away without
   closing anything. *)
LEMMA MailLeaves ==
  ASSUME TypeOK, MutualExclusion, LooksHome, LooksHome',
         NEW p \in Pids, NEW s \in Slots, DrainEnd(p, s) \/ Exec(p, s)
  PROVE  Mail!TurnAway(p, {})
  <1>1. UNCHANGED <<file, queue>>
    BY DEF DrainEnd, Exec, kernel
  <1>2. CASE Exec(p, s)
    BY <1>1, <1>2, LoadReads, MailLeft DEF Exec
  <1>3. CASE DrainEnd(p, s)
    <2>1. pc[p][s] = "drain" /\ Goto(p, s, "idle") /\ UNCHANGED g_dl_socket
      BY <1>3 DEF DrainEnd, memory
    <2>2. \A u \in Slots \ {s} : pc[p][u] # "drain"
      BY <2>1, Distinct DEF MutualExclusion, RequestSection
    <2>3. \A u \in Slots : pc'[p][u] # "drain"
      BY <2>1, <2>2 DEF Goto, TypeOK
    <2>4. \A q \in Pids \ {p} : pc'[q] = pc[q] /\ g_dl_socket'[q] = g_dl_socket[q]
      BY <2>1 DEF Goto, TypeOK
    <2>5. QED
      BY <1>1, <2>3, <2>4, OthersRead, MailLeft DEF Reading
  <1>4. QED
    BY <1>2, <1>3

(* The control sockets implement the mailboxes: every step of a process, of a
   thread or of rdklogctrl opens a mailbox, puts a request into the one it is
   addressed to, is one of the process that owns the mailbox, closes mailboxes
   nobody is emptying, or is none to them. *)
THEOREM MailboxesImplemented == Spec => ImplementsMailboxes
<1>1. Init => Mail!Init
  <2> SUFFICES ASSUME Init PROVE Mail!Init
    OBVIOUS
  <2>1. /\ file = [p \in Pids |-> NoFile]
        /\ g_dl_socket = [p \in Pids |-> NoSocket]
    BY DEF Init
  <2>2. MailboxState = [a \in Pids |-> "new"]
    BY <2>1 DEF MailboxState
  <2>3. MailWaiting = [a \in Pids |-> 0]
    BY <2>1, Distinct DEF MailWaiting
  <2>4. \A p \in Pids : LookingInto[p] = {}
    BY <2>1, Distinct DEF LookingInto
  <2>5. LookingInto = [a \in Pids |-> {}]
    BY <2>4, MailFunctions
  <2>6. QED
    BY <2>2, <2>3, <2>5 DEF Mail!Init
<1>2. /\ TypeOK /\ TypeOK' /\ NothingLeft /\ MutualExclusion /\ Names
      /\ LooksHome /\ LooksHome' /\ [Next]_vars
      => [Mail!Next]_(Mail!vars)
  <2> SUFFICES ASSUME TypeOK, TypeOK', NothingLeft, MutualExclusion, Names,
                      LooksHome, LooksHome', [Next]_vars
               PROVE  Mail!Next \/ UNCHANGED Mail!vars
    OBVIOUS
  <2>1. ASSUME NEW p \in Pids, Start(p)
        PROVE  UNCHANGED Mail!vars
    <3>1. UNCHANGED <<file, queue, g_dl_socket, pc>>
      BY <2>1 DEF Start, kernel, memory
    <3>2. QED
      BY <3>1, MailKept DEF Reading
  <2>2. ASSUME NEW p \in Pids, Exit(p)
        PROVE  Mail!Next
    BY <2>2, LoadReads, MailClosed DEF Exit, Mail!Next
  <2>3. ASSUME NEW p \in Pids, SendTo(p)
        PROVE  Mail!Next
    BY <2>3, MailPost DEF Mail!Next
  <2>4. ASSUME NEW p \in Pids, NEW s \in Slots, NEW c \in Pids, Fork(p, s, c)
        PROVE  UNCHANGED Mail!vars
    BY <2>4, MailFork
  <2>5. ASSUME NEW p \in Pids, NEW s \in Slots,
               \/ \E c \in Calls : Enter(p, s, c)
               \/ Lock(p, s) \/ SetInited(p, s) \/ InitUnlock(p, s) \/ TryLock(p, s)
        PROVE  UNCHANGED Mail!vars
    BY <2>5, MailElsewhere
  <2>6. ASSUME NEW p \in Pids, NEW s \in Slots, DynInit(p, s)
        PROVE  Mail!Next \/ UNCHANGED Mail!vars
    BY <2>6, MailOpens DEF Mail!Next
  <2>7. ASSUME NEW p \in Pids, NEW s \in Slots,
               DeinitClose(p, s) \/ CloseInherited(p, s)
        PROVE  Mail!Next
    BY <2>7, MailCloses DEF Mail!Next
  <2>8. ASSUME NEW p \in Pids, NEW s \in Slots, Checked(p, s)
        PROVE  Mail!Next \/ UNCHANGED Mail!vars
    BY <2>8, MailLook DEF Mail!Next
  <2>9. ASSUME NEW p \in Pids, NEW s \in Slots, Receive(p, s)
        PROVE  Mail!Next
    BY <2>9, MailTake DEF Mail!Next
  <2>10. ASSUME NEW p \in Pids, NEW s \in Slots, DrainEnd(p, s) \/ Exec(p, s)
         PROVE  Mail!Next
    BY <2>10, MailLeaves DEF Mail!Next
  <2>11. CASE UNCHANGED vars
    <3>1. UNCHANGED <<file, queue, g_dl_socket, pc>>
      BY <2>11 DEF vars, kernel, memory
    <3>2. QED
      BY <3>1, MailKept DEF Reading
  <2>12. QED
    BY <2>1, <2>2, <2>3, <2>4, <2>5, <2>6, <2>7, <2>8, <2>9, <2>10, <2>11
       DEF Next, Step
<1>3. QED
  BY <1>1, <1>2, ChannelTypeCorrect, NothingLeftHolds, SectionsHold, NamesHold,
     LooksHomeHolds, PTL DEF Spec, ImplementsMailboxes, Mail!Spec
===============================================================================
