-------------------------- MODULE ChannelProperties --------------------------
(***************************************************************************)
(* What the control sockets promise to the processes and to rdklogctrl.    *)
(***************************************************************************)
EXTENDS ControlChannel

Labels ==
  {"idle", "init_lock", "bind_lock", "bind", "rebind_lock", "rebind", "inited",
   "init_unlock", "deinit_lock", "deinit_request_lock", "deinit_close",
   "log_trylock", "check", "drain"}

(* Every variable has its type; in particular g_dl_socket is a descriptor that
   is open, or -1. *)
TypeOK ==
  /\ running \in [Pids -> BOOLEAN]
  /\ isLogInited \in [Pids -> BOOLEAN]
  /\ g_dl_socket \in [Pids -> Sockets \cup {NoSocket}]
  /\ g_dl_socket_pid \in [Pids -> Pids \cup {NoPid}]
  /\ gInitMutex \in [Pids -> Slots \cup {Free, Lost}]
  /\ g_dl_request_mutex \in [Pids -> Slots \cup {Free, Lost}]
  /\ pc \in [Pids -> [Slots -> Labels]]
  /\ descriptors \in [Pids -> SUBSET Sockets]
  /\ \A p \in Pids : g_dl_socket[p] \in descriptors[p] \cup {NoSocket}
  /\ file \in [Pids -> Sockets \cup {NoFile, Dead}]
  /\ queue \in [Sockets -> Seq(Pids)]
  /\ kept \in [Pids -> SUBSET Sockets]
  /\ images \in 0..MaxImages

(* A process that drains a socket finds in it only requests that rdklogctrl
   was told to send to this very pid: a child never takes the requests of its
   parent, and a process whose pid was used before none of its predecessor's
   children. *)
OnlyAddressee ==
  \A p \in Pids, s \in Slots :
    pc[p][s] = "drain" /\ g_dl_socket[p] # NoSocket =>
      \A i \in DOMAIN queue[g_dl_socket[p]] : queue[g_dl_socket[p]][i] = p

(* The socket a process takes for its own is the one that the name with its
   pid leads to, so that rdklogctrl reaches it. *)
NameLeadsHome ==
  \A p \in Pids :
    g_dl_socket[p] # NoSocket /\ g_dl_socket_pid[p] = p =>
      file[p] = g_dl_socket[p]

(* However often it was forked, bound anew and closed, a process has no control
   socket open but the one in g_dl_socket and those that an exec left open. *)
NoDescriptorLeak ==
  \A p \in Pids : descriptors[p] \subseteq kept[p] \cup {g_dl_socket[p]}

(* A process that is initialised and has no socket never gets one again,
   except for a thread of it that is already about to replace an inherited
   one: a later rdk_logger_init or log call does not reopen what
   rdk_logger_deinit closed. *)
ClosedUnlessRebinding ==
  [][\A p \in Pids :
       /\ isLogInited[p] /\ g_dl_socket[p] = NoSocket
       /\ \A s \in Slots : pc[p][s] \notin {"rebind_lock", "rebind"}
       => g_dl_socket'[p] = NoSocket]_vars

HasOwnSocket(p) == g_dl_socket[p] # NoSocket /\ g_dl_socket_pid[p] = p

(* p has no socket because bind failed: its name is taken, and nobody is about
   to try again. *)
BindFailed(p) ==
  /\ g_dl_socket[p] = NoSocket /\ file[p] # NoFile
  /\ \A s \in Slots : pc[p][s] \notin {"rebind_lock", "rebind"}

(* A process with an inherited socket gets one of its own once a thread of it
   logs, whatever its other threads do meanwhile, unless its name in /tmp is
   taken or it ends first: the window between closing the old socket and
   binding the new one does not swallow the new one.  Excepted is a child
   forked while another thread of its parent was at the socket. *)
ChildRebinds ==
  \A p \in Pids, s \in Slots :
    pc[p][s] = "log_trylock" /\ IsInherited(p) /\ g_dl_request_mutex[p] # Lost
      ~> HasOwnSocket(p) \/ BindFailed(p) \/ ~running[p]

(* The mutex that thread s of p is about to take, or Free. *)
WaitsOn(p, s) ==
  CASE pc[p][s] \in {"init_lock", "deinit_lock"} -> gInitMutex[p]
    [] pc[p][s] \in {"bind_lock", "rebind_lock", "deinit_request_lock"} ->
         g_dl_request_mutex[p]
    [] OTHER -> Free

(* Only a fork strands anybody: unless one of its mutexes was held by another
   thread when the process was forked, somebody in the library can go on.  And
   it strands nobody who logs: the thread that replaces an inherited socket
   finds g_dl_request_mutex free, or held by one that waits for nothing. *)
OnlyForkStrands ==
  \A p \in Pids :
    /\ Lost \notin {gInitMutex[p], g_dl_request_mutex[p]}
       /\ (\E s \in Slots : pc[p][s] # "idle") =>
         \E s \in Slots : pc[p][s] # "idle" /\ WaitsOn(p, s) = Free
    /\ \A s \in Slots :
         pc[p][s] = "rebind_lock" /\ g_dl_request_mutex[p] # Free =>
           \E u \in Slots : /\ g_dl_request_mutex[p] = u
                            /\ pc[p][u] # "idle" /\ WaitsOn(p, u) = Free

(* The mailbox of a pid is the socket its name in /tmp leads to. *)
MailboxState ==
  [p \in Pids |-> IF file[p] = NoFile THEN "new"
                  ELSE IF file[p] \in Sockets THEN "open" ELSE "gone"]

MailWaiting ==
  [p \in Pids |-> IF file[p] \in Sockets THEN Len(queue[file[p]]) ELSE 0]

(* The mailboxes that a process is draining. *)
LookingInto ==
  [p \in Pids |->
     {q \in Pids : /\ file[q] \in Sockets /\ file[q] = g_dl_socket[p]
                   /\ \E s \in Slots : pc[p][s] = "drain"}]

Mail ==
  INSTANCE Mailboxes WITH Addresses <- Pids, state <- MailboxState,
    waiting <- MailWaiting, looking <- LookingInto

(* To rdklogctrl the sockets, with their descriptors handed on by fork and
   exec, closed by several threads and bound to names that are never removed,
   look like one mailbox for every pid, which only the process with this pid
   empties, and from which nothing is lost as long as it is open. *)
ImplementsMailboxes == Mail!Spec

-------------------------------------------------------------------------------
(* What makes the properties above inductive. *)

(* Where a thread holds each of the two mutexes. *)
InitSection ==
  {"bind_lock", "bind", "inited", "init_unlock", "deinit_request_lock",
   "deinit_close"}

RequestSection == {"bind", "rebind", "deinit_close", "check", "drain"}

MutualExclusion ==
  \A p \in Pids, s \in Slots :
    /\ gInitMutex[p] = s <=> pc[p][s] \in InitSection
    /\ g_dl_request_mutex[p] = s <=> pc[p][s] \in RequestSection

(* A log call that replaces an inherited socket had g_dl_request_mutex: it was
   not lost. *)
RebindsWithMutex ==
  \A p \in Pids, s \in Slots :
    pc[p][s] \in {"check", "rebind_lock"} => g_dl_request_mutex[p] # Lost

(* Where there is no process there is nothing of one. *)
NothingLeft ==
  \A p \in Pids :
    ~running[p] =>
      /\ pc[p] = AllIdle /\ descriptors[p] = {} /\ ~isLogInited[p]

(* A name leads to a socket that some process has open, two names never to the
   same, and what waits in a socket was sent to its name. *)
Names ==
  /\ \A p \in Pids : file[p] \in Sockets => file[p] \in Held(descriptors)
  /\ \A p, q \in Pids : file[p] \in Sockets /\ file[p] = file[q] => p = q
  /\ \A k \in Sockets :
       \A i \in DOMAIN queue[k] : file[queue[k][i]] = k

(* The socket of a process is the one that the name with g_dl_socket_pid leads
   to, its own or that of the ancestor it inherited the socket from. *)
BoundByPid ==
  \A p \in Pids :
    g_dl_socket[p] # NoSocket =>
      /\ g_dl_socket_pid[p] \in Pids
      /\ file[g_dl_socket_pid[p]] = g_dl_socket[p]

(* A thread drains only the socket of its own process. *)
DrainsOwn ==
  \A p \in Pids, s \in Slots :
    pc[p][s] = "drain" => ~IsInherited(p)

(* Who is about to open a socket. *)
Opening(p, s) == pc[p][s] \in {"bind_lock", "bind", "rebind_lock", "rebind"}

(* One thread of p at a time opens a socket, and only when there is none.  The
   first socket comes with the initialisation, under gInitMutex; a process
   that was forked during it has lost that mutex. *)
OneOpenerIn(p) ==
  /\ \A s \in Slots :
       Opening(p, s) =>
         /\ g_dl_socket[p] = NoSocket
         /\ \A u \in Slots : Opening(p, u) => u = s
  /\ \A s \in Slots :
       pc[p][s] \in {"bind_lock", "bind", "inited"} => ~isLogInited[p]
  /\ \A s \in Slots :
       pc[p][s] = "inited" => ~IsInherited(p)
  /\ \A s \in Slots :
       pc[p][s] \in {"rebind_lock", "rebind"} =>
         isLogInited[p] \/ gInitMutex[p] = Lost
  /\ g_dl_socket[p] # NoSocket =>
       \/ isLogInited[p] \/ gInitMutex[p] = Lost
       \/ \E s \in Slots : pc[p][s] = "inited"

OneOpener == \A p \in Pids : OneOpenerIn(p)

-------------------------------------------------------------------------------
(* What the documentation says and the code does not do. *)

(* Every process in which rdk_logger_init has succeeded, and which has not
   called rdk_logger_deinit, has a control socket. *)
InitedHasSocket ==
  \A p \in Pids :
    isLogInited[p] /\ (\A s \in Slots : pc[p][s] = "idle") =>
      g_dl_socket[p] # NoSocket
===============================================================================
