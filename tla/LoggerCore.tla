------------------------------ MODULE LoggerCore ------------------------------
(***************************************************************************)
(* One process that uses librdkloggers from several threads: the functions *)
(* of src/rdk_logger_init.c, the initialisation, configuration, logging    *)
(* and level functions of src/rdk_debug_priv.c, and the control socket of  *)
(* src/rdk_dynamic_logger.c as its own process sees it.                    *)
(*                                                                         *)
(* A thread takes one step for every statement that another thread could   *)
(* notice: an access to a shared variable, or taking a mutex.  Releasing a *)
(* mutex is part of the step before it.                                    *)
(*                                                                         *)
(* The library has three mutexes.  gLoggingMutex protects the categories   *)
(* of log4c in every function but rdk_logger_init, which writes them under *)
(* gInitMutex alone.  The properties at the end say what that costs and    *)
(* what still holds.                                                       *)
(***************************************************************************)
EXTENDS Log4cCategories, FiniteSets

CONSTANTS
  Threads,       (* the threads of the client process                       *)
  NoThread,      (* the holder of a free mutex                              *)
  Root,          (* the category LOG.RDK                                    *)
  Default,       (* the name LOG.RDK.DEFAULT in debug.ini                   *)
  Files,         (* the lines, of those not skipped, of each file there is  *)
  DebugConfFile, (* debug.ini in the working directory                      *)
  LoggerInitFile,(* the one RDK_LOGGER_INIT takes: the first there is of
                    /opt/debug.ini and /nvram/debug.ini, or /etc/debug.ini  *)
  RcPriority,    (* the priority log4crc gives LOG.RDK                      *)
  RcMayFail,     (* log4c_init may fail                                     *)
  Calls,         (* the calls the client makes                              *)
  LogAfterInit,  (* the client logs only once rdk_logger_init has succeeded *)
  Commands,      (* what rdklogctrl and other senders may send              *)
  QueueLength,   (* bound: the kernel's limit on queued datagrams           *)
  MaxRequests,   (* bound: datagrams sent in a behaviour                    *)
  ReceiveMayFail (* select or recvfrom on the control socket may fail       *)

CallKinds == {"init", "ext_init", "deinit", "log", "set", "get", "enabled"}

(* A call and its arguments.  config is the file rdk_logger_init is given, one
   that exists, another or NULL, or what rdk_logger_ext_init is given: a usable
   configuration, a FILE output without a policy, or NULL. *)
CallRecords ==
  [kind : CallKinds, cat : Categories, level : RdkLevels,
   config : DOMAIN Files \cup {"missing", "usable", "no_policy", "null"}]

(* A line of a file, as rdk_logger_parse_config splits it. *)
LineRecords ==
  [name : (Categories \ {Root}) \cup {Default}, value : ConfigValues]

(* valid: the datagram has the size, the terminators, the signature and the
   program name that the receiver checks. *)
CommandRecords == [cat : Categories, level : RdkLevels, valid : BOOLEAN]

ASSUME LoggerAssumption ==
  /\ NoThread \notin Threads
  /\ Root \in Categories
  /\ Default \notin Categories
  /\ \A f \in DOMAIN Files : Files[f] \in Seq(LineRecords)
  /\ RcPriority \in Priorities \ {PriorityNotSet}
  /\ Calls \subseteq CallRecords
  /\ Commands \subseteq CommandRecords
  /\ RcMayFail \in BOOLEAN /\ LogAfterInit \in BOOLEAN
  /\ ReceiveMayFail \in BOOLEAN
  /\ QueueLength \in Nat /\ MaxRequests \in Nat

VARIABLES
  gInitMutex, g_dl_request_mutex, gLoggingMutex, (* the holders            *)
  isLogInited,   (* rdk_logger_init has succeeded                           *)
  isInited,      (* log4c_init has succeeded                                *)
  gRootPriority,
  priority,      (* the priority of every category                          *)
  appender,      (* does the category have an appender?                     *)
  additive,      (* the additivity of every category                        *)
  line,          (* the next line of debug.ini, in rdk_logger_parse_config  *)
  socket,        (* g_dl_socket is open and bound                           *)
  queue,         (* the datagrams waiting in the socket                     *)
  sent,          (* how many datagrams have been sent                       *)
  message,       (* the datagram a thread has received                      *)
  pc,            (* where a thread is; "idle" is outside the library        *)
  call,          (* the call a thread is making                             *)
  failed,        (* the call's ret is RDK_FAILURE                           *)
  (* History, which no step reads: *)
  wanted,        (* the priority last given to a category by debug.ini,
                    log4crc, the API or a request; PriorityNotSet if none   *)
  applied,       (* the number of the request applied last                  *)
  outcome,       (* what became of the message of the current log call      *)
  promise        (* the message is_logLevel_enabled last said TRUE of       *)

mutexes  == <<gInitMutex, g_dl_request_mutex, gLoggingMutex>>
initVars == <<isLogInited, isInited, line>>
levels   == <<gRootPriority, priority, wanted>>
routing  == <<appender, additive>>
control  == <<socket, queue, sent, message, applied>>
calls    == <<call, failed, promise>>

vars == <<mutexes, initVars, levels, routing, control, calls, pc, outcome>>

NoCall == [kind |-> "none", cat |-> Root, level |-> NONE, config |-> "null"]

NoMessage == [id |-> 0, cat |-> Root, level |-> NONE, valid |-> FALSE]

NoPromise == <<Root, NONE>>

Init ==
  /\ gInitMutex = NoThread /\ g_dl_request_mutex = NoThread
  /\ gLoggingMutex = NoThread
  /\ isLogInited = FALSE /\ isInited = FALSE
  /\ gRootPriority = LevelToPriority(WARN)
  /\ priority = [c \in Categories |-> PriorityNotSet]
  /\ wanted = [c \in Categories |-> PriorityNotSet]
  /\ appender = [c \in Categories |-> FALSE]
  /\ additive = [c \in Categories |-> TRUE]
  /\ line = 1
  /\ socket = FALSE /\ queue = << >> /\ sent = 0 /\ applied = 0
  /\ message = [t \in Threads |-> NoMessage]
  /\ pc = [t \in Threads |-> "idle"]
  /\ call = [t \in Threads |-> NoCall]
  /\ failed = [t \in Threads |-> FALSE]
  /\ outcome = [t \in Threads |-> "none"]
  /\ promise = [t \in Threads |-> NoPromise]

-------------------------------------------------------------------------------
(* How threads move. *)

Goto(t, label) == pc' = [pc EXCEPT ![t] = label]

(* t leaves the library. *)
Return(t) ==
  /\ Goto(t, "idle")
  /\ call' = [call EXCEPT ![t] = NoCall]
  /\ failed' = [failed EXCEPT ![t] = FALSE]
  /\ outcome' = [outcome EXCEPT ![t] = "none"]

(* c is given priority p on purpose. *)
SetPriority(c, p) ==
  /\ priority' = [priority EXCEPT ![c] = p]
  /\ wanted' = [wanted EXCEPT ![c] = p]

FirstLabel ==
  [init |-> "init_lock", ext_init |-> "init_lock", deinit |-> "deinit_lock",
   log |-> "log_trylock", set |-> "set_lock", get |-> "get_lock",
   enabled |-> "enabled_lock"]

(* The client calls a function.  rdk_logger_is_logLevel_enabled answers FALSE
   to NONE before it takes the mutex: no step of interest. *)
Enter(t, c) ==
  /\ pc[t] = "idle"
  /\ c.kind = "log" /\ LogAfterInit => isLogInited
  /\ c.kind = "enabled" => c.level # NONE
  /\ Goto(t, FirstLabel[c.kind])
  /\ call' = [call EXCEPT ![t] = c]
  /\ promise' = [promise EXCEPT ![t] = IF c.kind = "log" THEN @ ELSE NoPromise]
  /\ UNCHANGED <<mutexes, initVars, levels, routing, control, failed, outcome>>

-------------------------------------------------------------------------------
(* rdk_logger_init, rdk_logger_ext_init *)

(* Mutant: isLogInited is not looked at. *)
InitLockAlways(t) ==
  /\ pc[t] = "init_lock" /\ gInitMutex = NoThread
  /\ gInitMutex' = t
  /\ Goto(t, "priv_init")
  /\ UNCHANGED <<g_dl_request_mutex, gLoggingMutex, initVars, levels, routing,
                 control, calls, outcome>>

InitLock(t) ==
  /\ pc[t] = "init_lock" /\ gInitMutex = NoThread
  /\ gInitMutex' = t
  /\ Goto(t, IF isLogInited THEN "init_unlock" ELSE "priv_init")
  /\ UNCHANGED <<g_dl_request_mutex, gLoggingMutex, initVars, levels, routing,
                 control, calls, outcome>>

(* rdk_dbg_priv_init, which has log4c read log4crc once, and the first half of
   rdk_dbg_priv_config, which makes LOG.RDK the category gRootCat. *)
PrivInit(t) ==
  /\ pc[t] = "priv_init"
  /\ \/ /\ ~isInited
        /\ isInited' = TRUE
        /\ SetPriority(Root, RcPriority)
        /\ appender' = [appender EXCEPT ![Root] = TRUE]
     \/ /\ isInited \/ RcMayFail
        /\ UNCHANGED <<isInited, priority, wanted, appender>>
  /\ Goto(t, "open_config")
  /\ UNCHANGED <<mutexes, isLogInited, line, gRootPriority, additive, control,
                 calls, outcome>>

(* The file a call configures the logger from: rdk_logger_init is given one or
   takes debug.ini of the working directory, rdk_logger_ext_init has
   RDK_LOGGER_INIT choose. *)
File(t) ==
  IF call[t].kind = "ext_init" THEN LoggerInitFile
  ELSE IF call[t].config # "null" THEN call[t].config ELSE DebugConfFile

Lines(t) == IF File(t) \in DOMAIN Files THEN Files[File(t)] ELSE << >>

(* rdk_logger_parse_config opens the file. *)
OpenConfig(t) ==
  /\ pc[t] = "open_config"
  /\ \/ File(t) \in DOMAIN Files /\ Goto(t, "parse") /\ UNCHANGED failed
     \/ Goto(t, "config_end") /\ failed' = [failed EXCEPT ![t] = TRUE]
  /\ UNCHANGED <<mutexes, initVars, levels, routing, control, call, promise,
                 outcome>>

(* A line for a module. *)
ParseModule(t) ==
  /\ pc[t] = "parse" /\ line \in DOMAIN Lines(t)
  /\ Lines(t)[line].name # Default
  /\ SetPriority(Lines(t)[line].name, ConfiguredPriority(Lines(t)[line].value))
  /\ line' = line + 1
  /\ UNCHANGED <<mutexes, isLogInited, isInited, gRootPriority,
                 routing, control, calls, pc, outcome>>

(* A line for LOG.RDK.DEFAULT: the priority of LOG.RDK, which text that is no
   level leaves as it is, and then gRootPriority. *)
ParseDefault(t) ==
  /\ pc[t] = "parse" /\ line \in DOMAIN Lines(t)
  /\ Lines(t)[line].name = Default
  /\ IF Lines(t)[line].value = OtherText
     THEN UNCHANGED <<priority, wanted>>
     ELSE SetPriority(Root, ConfiguredPriority(Lines(t)[line].value))
  /\ line' = line + 1
  /\ Goto(t, "parse_default")
  /\ UNCHANGED <<mutexes, isLogInited, isInited, gRootPriority,
                 routing, control, calls, outcome>>

ParseRootPriority(t) ==
  /\ pc[t] = "parse_default"
  /\ gRootPriority' = priority[Root]
  /\ Goto(t, "parse")
  /\ UNCHANGED <<mutexes, initVars, priority, wanted, routing, control, calls,
                 outcome>>

ParseEnd(t) ==
  /\ pc[t] = "parse" /\ line \notin DOMAIN Lines(t)
  /\ Goto(t, "config_end")
  /\ UNCHANGED <<mutexes, initVars, levels, routing, control, calls, outcome>>

(* The second half of rdk_dbg_priv_config. *)
ConfigEnd(t) ==
  /\ pc[t] = "config_end"
  /\ gRootPriority' = priority[Root]
  /\ line' = 1
  /\ Goto(t, IF failed[t] THEN "init_unlock" ELSE "dyn_init_lock")
  /\ UNCHANGED <<mutexes, isLogInited, isInited, priority, wanted,
                 routing, control, calls, outcome>>

(* rdk_dyn_log_init *)
DynInitLock(t) ==
  /\ pc[t] = "dyn_init_lock" /\ g_dl_request_mutex = NoThread
  /\ g_dl_request_mutex' = t
  /\ Goto(t, "dyn_init")
  /\ UNCHANGED <<gInitMutex, gLoggingMutex, initVars, levels, routing, control,
                 calls, outcome>>

(* Mutant: the return after a failed bind forgets the mutex. *)
DynInitKeepsMutex(t) ==
  /\ pc[t] = "dyn_init"
  /\ socket' \in BOOLEAN
  /\ g_dl_request_mutex' = IF socket' THEN NoThread ELSE t
  /\ Goto(t, "inited")
  /\ UNCHANGED <<gInitMutex, gLoggingMutex, initVars, levels, routing, queue,
                 sent, message, applied, calls, outcome>>

(* socket and bind; when either fails the socket is closed again, which
   rdk_logger_init does not learn. *)
DynInit(t) ==
  /\ pc[t] = "dyn_init"
  /\ socket' \in BOOLEAN
  /\ g_dl_request_mutex' = NoThread
  /\ Goto(t, "inited")
  /\ UNCHANGED <<gInitMutex, gLoggingMutex, initVars, levels, routing, queue,
                 sent, message, applied, calls, outcome>>

(* Mutant: isLogInited is not set. *)
SetInitedNot(t) ==
  /\ pc[t] = "inited"
  /\ Goto(t, "init_unlock")
  /\ UNCHANGED <<mutexes, initVars, levels, routing, control, calls, outcome>>

SetInited(t) ==
  /\ pc[t] = "inited"
  /\ isLogInited' = TRUE
  /\ Goto(t, "init_unlock")
  /\ UNCHANGED <<mutexes, isInited, line, levels, routing, control,
                 calls, outcome>>

(* Mutant: rdk_logger_ext_init keeps the mutex its initialisation took. *)
InitUnlockNested(t) ==
  /\ pc[t] = "init_unlock"
  /\ IF call[t].kind = "ext_init" /\ ~failed[t]
     THEN Goto(t, "ext_lock") /\ UNCHANGED <<gInitMutex, call, failed, outcome>>
     ELSE Return(t) /\ gInitMutex' = NoThread
  /\ UNCHANGED <<g_dl_request_mutex, gLoggingMutex, initVars, levels, routing,
                 control, promise>>

(* The end of rdk_logger_init, where rdk_logger_ext_init goes on if it was
   the caller and the initialisation succeeded, and of rdk_logger_deinit. *)
InitUnlock(t) ==
  /\ pc[t] = "init_unlock"
  /\ gInitMutex' = NoThread
  /\ IF call[t].kind = "ext_init" /\ ~failed[t]
     THEN Goto(t, "ext_lock") /\ UNCHANGED <<call, failed, outcome>>
     ELSE Return(t)
  /\ UNCHANGED <<g_dl_request_mutex, gLoggingMutex, initVars, levels, routing,
                 control, promise>>

ExtLock(t) ==
  /\ pc[t] = "ext_lock" /\ gInitMutex = NoThread
  /\ gInitMutex' = t
  /\ Goto(t, IF call[t].config = "null" THEN "ext_unlock" ELSE "ext_logging_lock")
  /\ UNCHANGED <<g_dl_request_mutex, gLoggingMutex, initVars, levels, routing,
                 control, calls, outcome>>

ExtLoggingLock(t) ==
  /\ pc[t] = "ext_logging_lock" /\ gLoggingMutex = NoThread
  /\ gLoggingMutex' = t
  /\ Goto(t, "ext_apply")
  /\ UNCHANGED <<gInitMutex, g_dl_request_mutex, initVars, levels, routing,
                 control, calls, outcome>>

(* Mutant: the module stays additive. *)
ExtApplyAdditive(t) ==
  /\ pc[t] = "ext_apply"
  /\ IF call[t].config = "no_policy"
     THEN UNCHANGED <<priority, wanted, appender>>
     ELSE /\ appender' = [appender EXCEPT ![call[t].cat] = TRUE]
          /\ SetPriority(call[t].cat, LevelToPriority(call[t].level))
  /\ gLoggingMutex' = NoThread
  /\ Goto(t, "ext_unlock")
  /\ UNCHANGED <<gInitMutex, g_dl_request_mutex, initVars, gRootPriority,
                 additive, control, calls, outcome>>

(* rdk_dbg_priv_ext_init on the categories: the module, or LOG.RDK, gets an
   appender of its own and its level, and stops being additive. *)
ExtApply(t) ==
  /\ pc[t] = "ext_apply"
  /\ IF call[t].config = "no_policy"
     THEN UNCHANGED <<priority, wanted, appender, additive>>
     ELSE /\ appender' = [appender EXCEPT ![call[t].cat] = TRUE]
          /\ additive' = [additive EXCEPT ![call[t].cat] = FALSE]
          /\ SetPriority(call[t].cat, LevelToPriority(call[t].level))
  /\ gLoggingMutex' = NoThread
  /\ Goto(t, "ext_unlock")
  /\ UNCHANGED <<gInitMutex, g_dl_request_mutex, initVars, gRootPriority,
                 control, calls, outcome>>

ExtUnlock(t) ==
  /\ pc[t] = "ext_unlock"
  /\ gInitMutex' = NoThread
  /\ Return(t)
  /\ UNCHANGED <<g_dl_request_mutex, gLoggingMutex, initVars, levels, routing,
                 control, promise>>

-------------------------------------------------------------------------------
(* rdk_logger_deinit, which leaves isLogInited as it is. *)

DeinitLock(t) ==
  /\ pc[t] = "deinit_lock" /\ gInitMutex = NoThread
  /\ gInitMutex' = t
  /\ Goto(t, IF isLogInited THEN "deinit_request_lock" ELSE "init_unlock")
  /\ UNCHANGED <<g_dl_request_mutex, gLoggingMutex, initVars, levels, routing,
                 control, calls, outcome>>

DeinitRequestLock(t) ==
  /\ pc[t] = "deinit_request_lock" /\ g_dl_request_mutex = NoThread
  /\ g_dl_request_mutex' = t
  /\ Goto(t, "deinit_close")
  /\ UNCHANGED <<gInitMutex, gLoggingMutex, initVars, levels, routing, control,
                 calls, outcome>>

(* rdk_dyn_log_deinit; what still waits in the socket is lost. *)
DeinitClose(t) ==
  /\ pc[t] = "deinit_close"
  /\ socket' = FALSE
  /\ queue' = << >>
  /\ g_dl_request_mutex' = NoThread
  /\ Goto(t, "init_unlock")
  /\ UNCHANGED <<gInitMutex, gLoggingMutex, initVars, levels, routing, sent,
                 message, applied, calls, outcome>>

-------------------------------------------------------------------------------
(* rdk_dbg_priv_log and the draining of the control socket. *)

(* Where the call goes on when rdk_dyn_log_process_pending_request returns. *)
AfterDrain(t) ==
  IF call[t].level = NONE
  THEN Return(t)
  ELSE Goto(t, "log_lock") /\ UNCHANGED <<call, failed, outcome>>

LogTryLock(t) ==
  /\ pc[t] = "log_trylock"
  /\ IF g_dl_request_mutex = NoThread
     THEN /\ g_dl_request_mutex' = t
          /\ Goto(t, "drain")
          /\ UNCHANGED <<call, failed, outcome>>
     ELSE AfterDrain(t) /\ UNCHANGED g_dl_request_mutex
  /\ UNCHANGED <<gInitMutex, gLoggingMutex, initVars, levels, routing, control,
                 promise>>

(* Mutant: the mutex is released before the request is applied. *)
ReceiveUnlocked(t) ==
  /\ pc[t] = "drain" /\ socket /\ queue # << >>
  /\ message' = [message EXCEPT ![t] = Head(queue)]
  /\ queue' = Tail(queue)
  /\ IF Head(queue).valid THEN Goto(t, "apply_lock") ELSE UNCHANGED pc
  /\ g_dl_request_mutex' = NoThread
  /\ UNCHANGED <<gInitMutex, gLoggingMutex, initVars, levels, routing, socket,
                 sent, applied, calls, outcome>>

(* Mutant: a datagram that is not valid is only looked at. *)
ReceivePeeks(t) ==
  /\ pc[t] = "drain" /\ socket /\ queue # << >>
  /\ message' = [message EXCEPT ![t] = Head(queue)]
  /\ IF Head(queue).valid
     THEN Goto(t, "apply_lock") /\ queue' = Tail(queue)
     ELSE UNCHANGED <<pc, queue>>
  /\ UNCHANGED <<mutexes, initVars, levels, routing, socket, sent, applied,
                 calls, outcome>>

Receive(t) ==
  /\ pc[t] = "drain" /\ socket /\ queue # << >>
  /\ message' = [message EXCEPT ![t] = Head(queue)]
  /\ queue' = Tail(queue)
  /\ IF Head(queue).valid THEN Goto(t, "apply_lock") ELSE UNCHANGED pc
  /\ UNCHANGED <<mutexes, initVars, levels, routing, socket, sent, applied,
                 calls, outcome>>

ApplyLock(t) ==
  /\ pc[t] = "apply_lock" /\ gLoggingMutex = NoThread
  /\ gLoggingMutex' = t
  /\ Goto(t, "apply")
  /\ UNCHANGED <<gInitMutex, g_dl_request_mutex, initVars, levels, routing,
                 control, calls, outcome>>

Apply(t) ==
  /\ pc[t] = "apply"
  /\ SetPriority(message[t].cat, LevelToPriority(message[t].level))
  /\ applied' = message[t].id
  /\ message' = [message EXCEPT ![t] = NoMessage]
  /\ gLoggingMutex' = NoThread
  /\ Goto(t, "drain")
  /\ UNCHANGED <<gInitMutex, g_dl_request_mutex, initVars, gRootPriority,
                 routing, socket, queue, sent, calls, outcome>>

(* Mutant: the draining ends although a request waits. *)
DrainEndEarly(t) ==
  /\ pc[t] = "drain"
  /\ g_dl_request_mutex' = NoThread
  /\ message' = [message EXCEPT ![t] = NoMessage]
  /\ AfterDrain(t)
  /\ UNCHANGED <<gInitMutex, gLoggingMutex, initVars, levels, routing, socket,
                 queue, sent, applied, promise>>

(* Nothing waits, the socket is closed, or select or recvfrom failed. *)
DrainEnd(t) ==
  /\ pc[t] = "drain"
  /\ ~socket \/ queue = << >> \/ ReceiveMayFail
  /\ g_dl_request_mutex' = NoThread
  /\ message' = [message EXCEPT ![t] = NoMessage]
  /\ AfterDrain(t)
  /\ UNCHANGED <<gInitMutex, gLoggingMutex, initVars, levels, routing, socket,
                 queue, sent, applied, promise>>

LogLock(t) ==
  /\ pc[t] = "log_lock" /\ gLoggingMutex = NoThread
  /\ gLoggingMutex' = t
  /\ Goto(t, "log_read")
  /\ UNCHANGED <<gInitMutex, g_dl_request_mutex, initVars, levels, routing,
                 control, calls, outcome>>

(* Mutant: every category is given gRootPriority. *)
LogReadInherits(t) ==
  /\ pc[t] = "log_read"
  /\ Goto(t, "log_inherit")
  /\ UNCHANGED <<mutexes, initVars, levels, routing, control, calls, outcome>>

(* Mutant: a category without a priority is left to its parents. *)
LogReadChained(t) ==
  /\ pc[t] = "log_read"
  /\ Goto(t, "log_check")
  /\ UNCHANGED <<mutexes, initVars, levels, routing, control, calls, outcome>>

LogRead(t) ==
  /\ pc[t] = "log_read"
  /\ Goto(t, IF priority[call[t].cat] = PriorityNotSet THEN "log_inherit"
             ELSE "log_check")
  /\ UNCHANGED <<mutexes, initVars, levels, routing, control, calls, outcome>>

(* Mutant: the default compiled in, whatever debug.ini says. *)
LogInheritWarn(t) ==
  /\ pc[t] = "log_inherit"
  /\ priority' = [priority EXCEPT ![call[t].cat] = LevelToPriority(WARN)]
  /\ Goto(t, "log_check")
  /\ UNCHANGED <<mutexes, initVars, gRootPriority, wanted, routing, control,
                 calls, outcome>>

(* A category without a priority is given gRootPriority for good. *)
LogInherit(t) ==
  /\ pc[t] = "log_inherit"
  /\ priority' = [priority EXCEPT ![call[t].cat] = gRootPriority]
  /\ Goto(t, "log_check")
  /\ UNCHANGED <<mutexes, initVars, gRootPriority, wanted, routing, control,
                 calls, outcome>>

LogCheck(t) ==
  /\ pc[t] = "log_check"
  /\ outcome' = [outcome EXCEPT ![t] =
       IF IsPriorityEnabled(priority, call[t].cat, LevelToPriority(call[t].level))
       THEN "printed" ELSE "dropped"]
  /\ Goto(t, "log_unlock")
  /\ UNCHANGED <<mutexes, initVars, levels, routing, control, calls>>

LogUnlock(t) ==
  /\ pc[t] = "log_unlock"
  /\ gLoggingMutex' = NoThread
  /\ Return(t)
  /\ UNCHANGED <<gInitMutex, g_dl_request_mutex, initVars, levels, routing,
                 control, promise>>

-------------------------------------------------------------------------------
(* The level functions: one critical section each. *)

LevelLock(t) ==
  /\ pc[t] \in {"set_lock", "get_lock", "enabled_lock"}
  /\ gLoggingMutex = NoThread
  /\ gLoggingMutex' = t
  /\ Goto(t, [set_lock |-> "set", get_lock |-> "get",
              enabled_lock |-> "enabled"][pc[t]])
  /\ UNCHANGED <<gInitMutex, g_dl_request_mutex, initVars, levels, routing,
                 control, calls, outcome>>

(* rdk_dbg_priv_set_level, for rdk_logger_set_logLevel and for
   rdk_logger_enable_logLevel, which ignores its last argument. *)
SetLevel(t) ==
  /\ pc[t] = "set"
  /\ SetPriority(call[t].cat, LevelToPriority(call[t].level))
  /\ gLoggingMutex' = NoThread
  /\ Return(t)
  /\ UNCHANGED <<gInitMutex, g_dl_request_mutex, initVars, gRootPriority,
                 routing, control, promise>>

(* rdk_dbg_priv_get_level: what it writes to *level. *)
GetLevelResult(c) ==
  PriorityToLevel(IF priority[c] = PriorityNotSet THEN gRootPriority
                  ELSE priority[c])

GetLevel(t) ==
  /\ pc[t] = "get"
  /\ gLoggingMutex' = NoThread
  /\ Return(t)
  /\ UNCHANGED <<gInitMutex, g_dl_request_mutex, initVars, levels, routing,
                 control, promise>>

(* rdk_logger_is_logLevel_enabled *)
IsLevelEnabled(t) ==
  /\ pc[t] = "enabled"
  /\ promise' = [promise EXCEPT ![t] =
       IF IsPriorityEnabled(priority, call[t].cat, LevelToPriority(call[t].level))
       THEN <<call[t].cat, call[t].level>> ELSE NoPromise]
  /\ gLoggingMutex' = NoThread
  /\ Return(t)
  /\ UNCHANGED <<gInitMutex, g_dl_request_mutex, initVars, levels, routing,
                 control>>

-------------------------------------------------------------------------------
(* A datagram arrives.  A sender that finds the socket closed or its queue
   full gets an error and nothing is sent. *)
Send(m) ==
  /\ socket /\ Len(queue) < QueueLength /\ sent < MaxRequests
  /\ sent' = sent + 1
  /\ queue' = Append(queue, [id |-> sent + 1, cat |-> m.cat, level |-> m.level,
                             valid |-> m.valid])
  /\ UNCHANGED <<mutexes, initVars, levels, routing, socket, message, applied,
                 calls, pc, outcome>>

-------------------------------------------------------------------------------
(* The steps that wait for a mutex, and the others. *)
Lock(t) ==
  \/ InitLock(t) \/ ExtLock(t) \/ DeinitLock(t)
  \/ DynInitLock(t) \/ DeinitRequestLock(t)
  \/ ExtLoggingLock(t) \/ ApplyLock(t) \/ LogLock(t) \/ LevelLock(t)

Step(t) ==
  \/ PrivInit(t) \/ OpenConfig(t) \/ ParseModule(t) \/ ParseDefault(t)
  \/ ParseRootPriority(t) \/ ParseEnd(t) \/ ConfigEnd(t) \/ DynInit(t)
  \/ SetInited(t) \/ InitUnlock(t) \/ ExtApply(t) \/ ExtUnlock(t)
  \/ DeinitClose(t)
  \/ LogTryLock(t) \/ Receive(t) \/ Apply(t) \/ DrainEnd(t)
  \/ LogRead(t) \/ LogInherit(t) \/ LogCheck(t) \/ LogUnlock(t)
  \/ SetLevel(t) \/ GetLevel(t) \/ IsLevelEnabled(t)

Next ==
  \/ \E t \in Threads : (\E c \in Calls : Enter(t, c)) \/ Lock(t) \/ Step(t)
  \/ \E m \in Commands : Send(m)

Spec == Init /\ [][Next]_vars

(* The scheduler lets every thread run and no thread waits for ever for a
   mutex that keeps being released; clients and senders owe nothing. *)
Fairness == \A t \in Threads : WF_vars(Step(t)) /\ SF_vars(Lock(t))

FairSpec == Spec /\ Fairness
==============================================================================
