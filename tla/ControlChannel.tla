---------------------------- MODULE ControlChannel ----------------------------
(***************************************************************************)
(* The control sockets of several processes that run the same program with *)
(* librdkloggers: src/rdk_dynamic_logger.c with what rdk_logger_init and   *)
(* rdk_logger_deinit do about it, and utils/rdklogctrl.c as the sender.    *)
(*                                                                         *)
(* A process is known by its pid.  The socket of process p is bound to a   *)
(* name in /tmp made of the program's name and p; nothing ever removes the *)
(* name, and pids are used again.  A fork copies the memory of the library *)
(* and the descriptor of the socket, but only one thread; an exec keeps    *)
(* the descriptor and nothing else, for it is opened without SOCK_CLOEXEC. *)
(*                                                                         *)
(* The mutex gLoggingMutex, the configuration and the levels are in        *)
(* LoggerCore; here a log call ends where it would go on to print.         *)
(***************************************************************************)
EXTENDS Naturals, Sequences

CONSTANTS
  Pids,          (* the process identifiers                                 *)
  NoPid,         (* g_dl_socket_pid is -1                                   *)
  Slots,         (* the threads of each process                             *)
  Free, Lost,    (* a mutex nobody holds; one whose holder does not exist   *)
  Sockets,
  NoSocket,      (* g_dl_socket is -1                                       *)
  NoFile, Dead,  (* no such name; the name of a socket that is closed       *)
  Calls,         (* the functions the client calls                          *)
  MayExec,       (* a process may start another program image               *)
  SocketMayFail, (* socket may fail, or the program's name be too long      *)
  QueueLength,   (* bound: the kernel's limit on queued datagrams           *)
  MaxImages      (* bound: how many processes start, fork or exec in all    *)

CallKinds == {"init", "deinit", "log"}

ASSUME ChannelAssumption ==
  /\ NoPid \notin Pids
  /\ Free \notin Slots /\ Lost \notin Slots /\ Free # Lost
  /\ NoSocket \notin Sockets
  /\ NoFile \notin Sockets /\ Dead \notin Sockets /\ NoFile # Dead
  /\ Calls \subseteq CallKinds
  /\ MayExec \in BOOLEAN /\ SocketMayFail \in BOOLEAN
  /\ QueueLength \in Nat /\ MaxImages \in Nat

VARIABLES
  running,            (* is there a process with this pid?                  *)
  isLogInited, g_dl_socket, g_dl_socket_pid, (* the memory of each process  *)
  gInitMutex, g_dl_request_mutex,            (* and its mutexes             *)
  pc,                 (* where each thread of each process is               *)
  descriptors,        (* the sockets that each process has open             *)
  file,               (* the socket that each name in /tmp leads to         *)
  queue,              (* the addressees of the requests in each socket      *)
  kept,                (* history: the sockets an exec left open in each     *)
  images              (* how many processes have started, forked or execed  *)

memory  == <<isLogInited, g_dl_socket, g_dl_socket_pid>>
mutexes == <<gInitMutex, g_dl_request_mutex>>
kernel  == <<descriptors, file, queue>>

history == <<kept, images>>

vars == <<running, memory, mutexes, pc, kernel, history>>

AllIdle == [s \in Slots |-> "idle"]

Init ==
  /\ running = [p \in Pids |-> FALSE]
  /\ isLogInited = [p \in Pids |-> FALSE]
  /\ g_dl_socket = [p \in Pids |-> NoSocket]
  /\ g_dl_socket_pid = [p \in Pids |-> NoPid]
  /\ gInitMutex = [p \in Pids |-> Free]
  /\ g_dl_request_mutex = [p \in Pids |-> Free]
  /\ pc = [p \in Pids |-> AllIdle]
  /\ descriptors = [p \in Pids |-> {}]
  /\ file = [p \in Pids |-> NoFile]
  /\ queue = [k \in Sockets |-> << >>]
  /\ kept = [p \in Pids |-> {}]
  /\ images = 0

-------------------------------------------------------------------------------
(* The kernel. *)

Held(d) == UNION {d[p] : p \in Pids}

(* The processes have the sockets d open.  One that nobody has open any more
   is gone with what waits in it; its name stays. *)
SetDescriptors(d) ==
  /\ descriptors' = d
  /\ file' = [p \in Pids |->
                IF file[p] \in Sockets \ Held(d) THEN Dead ELSE file[p]]
  /\ queue' = [k \in Sockets |-> IF k \in Held(d) THEN queue[k] ELSE << >>]

(* The memory of a process image that has just been loaded. *)
Load(p) ==
  /\ isLogInited' = [isLogInited EXCEPT ![p] = FALSE]
  /\ g_dl_socket' = [g_dl_socket EXCEPT ![p] = NoSocket]
  /\ g_dl_socket_pid' = [g_dl_socket_pid EXCEPT ![p] = NoPid]
  /\ gInitMutex' = [gInitMutex EXCEPT ![p] = Free]
  /\ g_dl_request_mutex' = [g_dl_request_mutex EXCEPT ![p] = Free]
  /\ pc' = [pc EXCEPT ![p] = AllIdle]

NewImage == images < MaxImages /\ images' = images + 1

(* A process starts, with a pid that may have been used before. *)
Start(p) ==
  /\ ~running[p] /\ NewImage
  /\ running' = [running EXCEPT ![p] = TRUE]
  /\ UNCHANGED <<memory, mutexes, pc, kernel, kept>>

(* It ends, wherever its threads are. *)
Exit(p) ==
  /\ running[p]
  /\ running' = [running EXCEPT ![p] = FALSE]
  /\ Load(p)
  /\ SetDescriptors([descriptors EXCEPT ![p] = {}])
  /\ kept' = [kept EXCEPT ![p] = {}]
  /\ UNCHANGED images

(* Thread s of p, outside the library, loads the program anew. *)
Exec(p, s) ==
  /\ MayExec /\ running[p] /\ pc[p][s] = "idle" /\ NewImage
  /\ Load(p)
  /\ kept' = [kept EXCEPT ![p] = descriptors[p]]
  /\ UNCHANGED <<running, kernel>>

(* The child's copy of a mutex that another thread of p holds is lost. *)
Inherited(mutex) == IF mutex = Free THEN Free ELSE Lost

(* Thread s of p, outside the library, forks.  It is the only thread of the
   child c at first; the others are those the child may create. *)
Fork(p, s, c) ==
  /\ running[p] /\ pc[p][s] = "idle" /\ ~running[c] /\ NewImage
  /\ running' = [running EXCEPT ![c] = TRUE]
  /\ isLogInited' = [isLogInited EXCEPT ![c] = isLogInited[p]]
  /\ g_dl_socket' = [g_dl_socket EXCEPT ![c] = g_dl_socket[p]]
  /\ g_dl_socket_pid' = [g_dl_socket_pid EXCEPT ![c] = g_dl_socket_pid[p]]
  /\ gInitMutex' = [gInitMutex EXCEPT ![c] = Inherited(gInitMutex[p])]
  /\ g_dl_request_mutex' =
       [g_dl_request_mutex EXCEPT ![c] = Inherited(g_dl_request_mutex[p])]
  /\ descriptors' = [descriptors EXCEPT ![c] = descriptors[p]]
  /\ kept' = [kept EXCEPT ![c] = kept[p]]
  /\ UNCHANGED <<pc, file, queue>>

-------------------------------------------------------------------------------
(* rdk_logger_init *)

Goto(p, s, label) == pc' = [pc EXCEPT ![p][s] = label]

TakeRequestMutex(p, s) ==
  /\ g_dl_request_mutex[p] = Free
  /\ g_dl_request_mutex' = [g_dl_request_mutex EXCEPT ![p] = s]

ReleaseRequestMutex(p) ==
  g_dl_request_mutex' = [g_dl_request_mutex EXCEPT ![p] = Free]

FirstLabel ==
  [init |-> "init_lock", deinit |-> "deinit_lock", log |-> "log_trylock"]

Enter(p, s, c) ==
  /\ running[p] /\ pc[p][s] = "idle"
  /\ Goto(p, s, FirstLabel[c])
  /\ UNCHANGED <<running, memory, mutexes, kernel, history>>

(* Mutant: isLogInited is not looked at. *)
InitLockAlways(p, s) ==
  /\ pc[p][s] = "init_lock" /\ gInitMutex[p] = Free
  /\ gInitMutex' = [gInitMutex EXCEPT ![p] = s]
  /\ Goto(p, s, "bind_lock")
  /\ UNCHANGED <<running, memory, g_dl_request_mutex, kernel, history>>

(* With what comes before rdk_dyn_log_init, which may fail. *)
InitLock(p, s) ==
  /\ pc[p][s] = "init_lock" /\ gInitMutex[p] = Free
  /\ gInitMutex' = [gInitMutex EXCEPT ![p] = s]
  /\ \/ Goto(p, s, "init_unlock")
     \/ ~isLogInited[p] /\ Goto(p, s, "bind_lock")
  /\ UNCHANGED <<running, memory, g_dl_request_mutex, kernel, history>>

SetInited(p, s) ==
  /\ pc[p][s] = "inited"
  /\ isLogInited' = [isLogInited EXCEPT ![p] = TRUE]
  /\ Goto(p, s, "init_unlock")
  /\ UNCHANGED <<running, g_dl_socket, g_dl_socket_pid, mutexes, kernel,
                 history>>

InitUnlock(p, s) ==
  /\ pc[p][s] = "init_unlock"
  /\ gInitMutex' = [gInitMutex EXCEPT ![p] = Free]
  /\ Goto(p, s, "idle")
  /\ UNCHANGED <<running, memory, g_dl_request_mutex, kernel, history>>

-------------------------------------------------------------------------------
(* rdk_dyn_log_init, for rdk_logger_init and for a rebinding. *)

DynInitLock(p, s) ==
  /\ pc[p][s] \in {"bind_lock", "rebind_lock"}
  /\ TakeRequestMutex(p, s)
  /\ Goto(p, s, [bind_lock |-> "bind", rebind_lock |-> "rebind"][pc[p][s]])
  /\ UNCHANGED <<running, memory, gInitMutex, kernel, history>>

(* Mutant: a socket whose name is taken is kept. *)
DynInitKeeps(p, s) ==
  /\ pc[p][s] \in {"bind", "rebind"}
  /\ \E k \in Sockets \ Held(descriptors) :
       /\ g_dl_socket' = [g_dl_socket EXCEPT ![p] = k]
       /\ g_dl_socket_pid' = [g_dl_socket_pid EXCEPT ![p] = p]
       /\ descriptors' = [descriptors EXCEPT ![p] = @ \cup {k}]
       /\ file' = [file EXCEPT ![p] = IF @ = NoFile THEN k ELSE @]
  /\ ReleaseRequestMutex(p)
  /\ Goto(p, s, [bind |-> "inited", rebind |-> "idle"][pc[p][s]])
  /\ UNCHANGED <<running, isLogInited, gInitMutex, queue, history>>

(* Mutant: the return after a failed bind forgets the mutex. *)
DynInitHolds(p, s) ==
  /\ pc[p][s] \in {"bind", "rebind"}
  /\ \/ /\ file[p] = NoFile
        /\ \E k \in Sockets \ Held(descriptors) :
             /\ g_dl_socket' = [g_dl_socket EXCEPT ![p] = k]
             /\ g_dl_socket_pid' = [g_dl_socket_pid EXCEPT ![p] = p]
             /\ descriptors' = [descriptors EXCEPT ![p] = @ \cup {k}]
             /\ file' = [file EXCEPT ![p] = k]
        /\ ReleaseRequestMutex(p)
     \/ /\ file[p] # NoFile
        /\ g_dl_socket' = [g_dl_socket EXCEPT ![p] = NoSocket]
        /\ UNCHANGED <<g_dl_socket_pid, descriptors, file, g_dl_request_mutex>>
  /\ Goto(p, s, [bind |-> "inited", rebind |-> "idle"][pc[p][s]])
  /\ UNCHANGED <<running, isLogInited, gInitMutex, queue, history>>

(* socket and bind.  A name that exists cannot be bound, whether its socket
   is open or not, and one that is too long is not tried; the new socket is
   closed again. *)
DynInit(p, s) ==
  /\ pc[p][s] \in {"bind", "rebind"}
  /\ \/ /\ file[p] = NoFile
        /\ \E k \in Sockets \ Held(descriptors) :
             /\ g_dl_socket' = [g_dl_socket EXCEPT ![p] = k]
             /\ g_dl_socket_pid' = [g_dl_socket_pid EXCEPT ![p] = p]
             /\ descriptors' = [descriptors EXCEPT ![p] = @ \cup {k}]
             /\ file' = [file EXCEPT ![p] = k]
     \/ /\ file[p] # NoFile \/ SocketMayFail
        /\ g_dl_socket' = [g_dl_socket EXCEPT ![p] = NoSocket]
        /\ UNCHANGED <<g_dl_socket_pid, descriptors, file>>
  /\ ReleaseRequestMutex(p)
  /\ Goto(p, s, [bind |-> "inited", rebind |-> "idle"][pc[p][s]])
  /\ UNCHANGED <<running, isLogInited, gInitMutex, queue, history>>

-------------------------------------------------------------------------------
(* rdk_logger_deinit *)

DeinitLock(p, s) ==
  /\ pc[p][s] = "deinit_lock" /\ gInitMutex[p] = Free
  /\ gInitMutex' = [gInitMutex EXCEPT ![p] = s]
  /\ Goto(p, s, IF isLogInited[p] THEN "deinit_request_lock"
                ELSE "init_unlock")
  /\ UNCHANGED <<running, memory, g_dl_request_mutex, kernel, history>>

DeinitRequestLock(p, s) ==
  /\ pc[p][s] = "deinit_request_lock"
  /\ TakeRequestMutex(p, s)
  /\ Goto(p, s, "deinit_close")
  /\ UNCHANGED <<running, memory, gInitMutex, kernel, history>>

(* Mutant: the closed descriptor stays in g_dl_socket. *)
DeinitCloseOnly(p, s) ==
  /\ pc[p][s] = "deinit_close"
  /\ SetDescriptors([descriptors EXCEPT ![p] = @ \ {g_dl_socket[p]}])
  /\ ReleaseRequestMutex(p)
  /\ Goto(p, s, "init_unlock")
  /\ UNCHANGED <<running, memory, gInitMutex, history>>

(* rdk_dyn_log_deinit *)
DeinitClose(p, s) ==
  /\ pc[p][s] = "deinit_close"
  /\ g_dl_socket' = [g_dl_socket EXCEPT ![p] = NoSocket]
  /\ SetDescriptors([descriptors EXCEPT ![p] = @ \ {g_dl_socket[p]}])
  /\ ReleaseRequestMutex(p)
  /\ Goto(p, s, "init_unlock")
  /\ UNCHANGED <<running, isLogInited, g_dl_socket_pid, gInitMutex, history>>

-------------------------------------------------------------------------------
(* rdk_dyn_log_process_pending_request *)

TryLock(p, s) ==
  /\ pc[p][s] = "log_trylock"
  /\ IF g_dl_request_mutex[p] = Free
     THEN TakeRequestMutex(p, s) /\ Goto(p, s, "check")
     ELSE Goto(p, s, "idle") /\ UNCHANGED g_dl_request_mutex
  /\ UNCHANGED <<running, memory, gInitMutex, kernel, history>>

IsInherited(p) == g_dl_socket[p] # NoSocket /\ g_dl_socket_pid[p] # p

(* Mutant: the inherited socket is given up without closing it. *)
CloseInheritedNot(p, s) ==
  /\ pc[p][s] = "check" /\ IsInherited(p)
  /\ g_dl_socket' = [g_dl_socket EXCEPT ![p] = NoSocket]
  /\ ReleaseRequestMutex(p)
  /\ Goto(p, s, "rebind_lock")
  /\ UNCHANGED <<running, isLogInited, g_dl_socket_pid, gInitMutex, kernel,
                 history>>

(* Mutant: no new socket is bound. *)
CloseInheritedOnly(p, s) ==
  /\ pc[p][s] = "check" /\ IsInherited(p)
  /\ g_dl_socket' = [g_dl_socket EXCEPT ![p] = NoSocket]
  /\ SetDescriptors([descriptors EXCEPT ![p] = @ \ {g_dl_socket[p]}])
  /\ ReleaseRequestMutex(p)
  /\ Goto(p, s, "idle")
  /\ UNCHANGED <<running, isLogInited, g_dl_socket_pid, gInitMutex, history>>

(* With the call of rdk_dyn_log_init that follows. *)
CloseInherited(p, s) ==
  /\ pc[p][s] = "check" /\ IsInherited(p)
  /\ g_dl_socket' = [g_dl_socket EXCEPT ![p] = NoSocket]
  /\ SetDescriptors([descriptors EXCEPT ![p] = @ \ {g_dl_socket[p]}])
  /\ ReleaseRequestMutex(p)
  /\ Goto(p, s, "rebind_lock")
  /\ UNCHANGED <<running, isLogInited, g_dl_socket_pid, gInitMutex, history>>

(* Mutant: any socket is drained. *)
CheckedNot(p, s) ==
  /\ pc[p][s] = "check"
  /\ Goto(p, s, "drain")
  /\ UNCHANGED <<running, memory, mutexes, kernel, history>>

Checked(p, s) ==
  /\ pc[p][s] = "check" /\ ~IsInherited(p)
  /\ Goto(p, s, "drain")
  /\ UNCHANGED <<running, memory, mutexes, kernel, history>>

Receive(p, s) ==
  /\ pc[p][s] = "drain" /\ g_dl_socket[p] # NoSocket
  /\ queue[g_dl_socket[p]] # << >>
  /\ queue' = [queue EXCEPT ![g_dl_socket[p]] = Tail(@)]
  /\ UNCHANGED <<running, memory, mutexes, pc, descriptors, file, history>>

(* Nothing waits, there is no socket, or select or recvfrom fails. *)
DrainEnd(p, s) ==
  /\ pc[p][s] = "drain"
  /\ ReleaseRequestMutex(p)
  /\ Goto(p, s, "idle")
  /\ UNCHANGED <<running, memory, gInitMutex, kernel, history>>

-------------------------------------------------------------------------------
(* rdklogctrl has found process p in /proc, at any time since p was started
   for the first time, and sends a request to the name made of what it found
   and p.  It gets an error, and nothing changes, if the name leads nowhere or
   the queue is full. *)
SendTo(p) ==
  /\ file[p] \in Sockets
  /\ Len(queue[file[p]]) < QueueLength
  /\ queue' = [queue EXCEPT ![file[p]] = Append(@, p)]
  /\ UNCHANGED <<running, memory, mutexes, pc, descriptors, file, history>>

-------------------------------------------------------------------------------
(* What waits for a mutex, and the other steps of a thread. *)
Lock(p, s) ==
  InitLock(p, s) \/ DeinitLock(p, s) \/ DynInitLock(p, s)
    \/ DeinitRequestLock(p, s)

Step(p, s) ==
  \/ SetInited(p, s) \/ InitUnlock(p, s) \/ DynInit(p, s)
  \/ DeinitClose(p, s)
  \/ TryLock(p, s) \/ CloseInherited(p, s) \/ Checked(p, s)
  \/ Receive(p, s) \/ DrainEnd(p, s)

Next ==
  \E p \in Pids :
       \/ Start(p) \/ Exit(p) \/ SendTo(p)
       \/ \E s \in Slots :
            \/ Exec(p, s) \/ \E c \in Pids : Fork(p, s, c)
            \/ \E c \in Calls : Enter(p, s, c)
            \/ Lock(p, s) \/ Step(p, s)

Spec == Init /\ [][Next]_vars

(* Every thread gets to run; nobody has to start, end or send anything. *)
Fairness ==
  \A p \in Pids, s \in Slots : WF_vars(Step(p, s)) /\ SF_vars(Lock(p, s))

FairSpec == Spec /\ Fairness
===============================================================================
