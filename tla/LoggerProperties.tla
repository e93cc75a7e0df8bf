--------------------------- MODULE LoggerProperties ---------------------------
(***************************************************************************)
(* What the logger promises, over the states of LoggerCore.                *)
(***************************************************************************)
EXTENDS LoggerCore

Labels ==
  {"idle", "init_lock", "priv_init", "open_config", "parse", "parse_default",
   "config_end", "dyn_init_lock", "dyn_init", "inited", "init_unlock",
   "ext_lock", "ext_logging_lock", "ext_apply", "ext_unlock",
   "deinit_lock", "deinit_request_lock", "deinit_close",
   "log_trylock", "drain", "apply_lock", "apply", "log_lock", "log_read",
   "log_inherit", "log_check", "log_unlock",
   "set_lock", "set", "get_lock", "get", "enabled_lock", "enabled"}

Requests ==
  [id : Nat, cat : Categories, level : RdkLevels, valid : BOOLEAN]

TypeMutexes ==
  /\ gInitMutex \in Threads \cup {NoThread}
  /\ g_dl_request_mutex \in Threads \cup {NoThread}
  /\ gLoggingMutex \in Threads \cup {NoThread}

TypeInit ==
  isLogInited \in BOOLEAN /\ isInited \in BOOLEAN /\ line \in Nat \ {0}

TypeLevels ==
  /\ gRootPriority \in Priorities
  /\ priority \in [Categories -> Priorities]
  /\ wanted \in [Categories -> Priorities]

TypeRouting ==
  /\ appender \in [Categories -> BOOLEAN]
  /\ additive \in [Categories -> BOOLEAN]

TypeControl ==
  /\ socket \in BOOLEAN
  /\ queue \in Seq(Requests)
  /\ sent \in Nat /\ applied \in Nat
  /\ message \in [Threads -> Requests]

TypeThreads ==
  /\ pc \in [Threads -> Labels]
  /\ call \in [Threads -> Calls \cup {NoCall}]
  /\ failed \in [Threads -> BOOLEAN]
  /\ outcome \in [Threads -> {"none", "printed", "dropped"}]
  /\ promise \in [Threads -> Categories \X RdkLevels]

(* Every variable has its type; in particular no category ever has a priority
   that is neither that of a level nor one of the special values. *)
TypeOK ==
  /\ TypeMutexes /\ TypeInit /\ TypeLevels
  /\ TypeRouting /\ TypeControl /\ TypeThreads

(* The priority a module is meant to have: the one it was last given, or else
   that of LOG.RDK.DEFAULT.  Only when there is no such default either, because
   log4crc and debug.ini both leave LOG.RDK alone, do its parents count. *)
MeantPriority(c) ==
  IF wanted[c] # PriorityNotSet THEN wanted[c]
  ELSE IF gRootPriority # PriorityNotSet THEN gRootPriority
  ELSE ChainedPriority(priority, c)

(* The level last given to a module, by debug.ini, rdk_logger_set_logLevel,
   rdk_logger_ext_init or a control request, is the level it has: the value
   that rdk_dbg_priv_log writes into a category without one never replaces
   it. *)
LastLevelWins ==
  \A c \in Categories :
    wanted[c] # PriorityNotSet => priority[c] = wanted[c]

(* Once rdk_logger_init has succeeded, a module that nobody gave a level has
   none or the one of LOG.RDK.DEFAULT. *)
InheritsDefault ==
  isLogInited =>
    \A c \in Categories :
      wanted[c] = PriorityNotSet =>
        priority[c] \in {PriorityNotSet, gRootPriority}

(* rdk_dbg_priv_log prints a message if, and only if, the level the module is
   meant to have lets it through. *)
LogFollowsLevel ==
  \A t \in Threads :
    pc[t] = "log_unlock" =>
      (outcome[t] = "printed" <=>
         LevelToPriority(call[t].level) <= MeantPriority(call[t].cat))

(* When rdk_logger_get_logLevel answers with a level below NONE, the messages
   that are printed for the module are those of that level and the more
   severe ones.  The answer NONE, which stands for every priority that is not
   of a level, means that messages of all levels are printed or none is, once
   there is a default. *)
GetTellsWhatIsPrinted ==
  \A t \in Threads :
    LET level   == GetLevelResult(call[t].cat)
        printed == outcome[t] = "printed"
    IN  pc[t] = "log_unlock" =>
          /\ level # NONE => (printed <=> call[t].level <= level)
          /\ level = NONE /\ gRootPriority # PriorityNotSet =>
               (printed <=> LevelToPriority(TRACE) <= ChainedPriority(priority, call[t].cat))

(* The configuration is read once: as soon as rdk_logger_init has succeeded, no
   call of it, of rdk_logger_ext_init or of rdk_logger_deinit ever changes the
   default priority or starts reading debug.ini again. *)
ConfiguredOnce ==
  [][isLogInited =>
       /\ gRootPriority' = gRootPriority
       /\ line' = line
       /\ isLogInited']_vars

(* Every message of every module reaches exactly one appender once log4crc has
   been read, and at most one at any time, whichever modules were given
   appenders of their own. *)
OneReceiver ==
  \A c \in Categories :
    LET n == Cardinality(Receivers(appender, additive, c))
    IN  n <= 1 /\ (isInited => n = 1)

(* The messages on which rdk_dbg_priv_log has decided and that it has not
   returned from. *)
Decided ==
  [t \in Threads |->
     IF outcome[t] = "none" THEN {}
     ELSE {[cat |-> call[t].cat, level |-> call[t].level,
            printed |-> outcome[t] = "printed"]}]

Register ==
  INSTANCE LevelRegister WITH Clients <- Threads, given <- wanted,
    default <- gRootPriority, ready <- isLogInited, decided <- Decided

(* To a client that logs after the initialisation, the priorities in log4c, the
   inheritance of the default by the first message of a module, the mutexes and
   the draining of the control socket look like one register of levels: every
   message is judged in one instant, by what the last change before it left. *)
ImplementsRegister == Register!Spec

(* t has received a request and not applied it yet. *)
Applying(t) == pc[t] \in {"apply_lock", "apply"}

(* Requests take effect in the order in which they were sent, and each at most
   once, however many threads drain the socket. *)
RequestsInOrder ==
  /\ \A t \in Threads : Applying(t) =>
       /\ message[t].id > applied
       /\ \A i \in DOMAIN queue : queue[i].id > message[t].id
  /\ \A i \in DOMAIN queue : queue[i].id > applied
  /\ \A i, j \in DOMAIN queue : i < j => queue[i].id < queue[j].id

(* A socket that is closed when rdk_logger_init has succeeded stays closed: no
   request is accepted after rdk_logger_deinit, by any later call. *)
ClosedForGood == [][isLogInited /\ ~socket => ~socket']_vars

(* rdk_dyn_log_init never overwrites the descriptor of an open socket. *)
NoSocketLeaked == \A t \in Threads : pc[t] = "dyn_init" => ~socket

(* The rank of the mutex a thread waits for, and of those it holds. *)
WaitsFor(t) ==
  CASE pc[t] \in {"init_lock", "ext_lock", "deinit_lock"} -> 1
    [] pc[t] \in {"dyn_init_lock", "deinit_request_lock"} -> 2
    [] pc[t] \in {"ext_logging_lock", "apply_lock", "log_lock", "set_lock",
                  "get_lock", "enabled_lock"} -> 3
    [] OTHER -> 0

Holds(t) ==
  {m \in 1..3 : <<gInitMutex, g_dl_request_mutex, gLoggingMutex>>[m] = t}

(* gInitMutex, g_dl_request_mutex and gLoggingMutex are taken in this order
   only, so however many threads there are, they never wait for each other in
   a circle, and none waits for itself. *)
LockOrder ==
  \A t \in Threads :
    WaitsFor(t) # 0 => \A m \in Holds(t) : m < WaitsFor(t)

(* t finds the mutex free that it is about to take, if it is about to take
   one. *)
CanGoOn(t) ==
  LET m == WaitsFor(t)
  IN  m # 0 => <<gInitMutex, g_dl_request_mutex, gLoggingMutex>>[m] = NoThread

(* As long as somebody is in the library, somebody in it can go on: whichever
   mutexes are held and waited for, and by however many threads. *)
SomebodyGoesOn ==
  (\E t \in Threads : pc[t] # "idle") =>
    \E t \in Threads : pc[t] # "idle" /\ CanGoOn(t)

(* The lines of the file that rdk_logger_parse_config has not dealt with. *)
LinesLeft(t) == IF line <= Len(Lines(t)) THEN Len(Lines(t)) + 1 - line ELSE 0

(* How many steps a thread takes at most until its call returns, unless more
   requests arrive: two for each of the lines that are left of the file, three
   for each request that waits. *)
StepsFrom(label, lines, left, requests) ==
  CASE label = "idle" -> 0
    [] label = "init_lock" -> 13 + 2 * lines
    [] label = "priv_init" -> 12 + 2 * left
    [] label \in {"open_config", "parse_default"} -> 11 + 2 * left
    [] label = "parse" -> 10 + 2 * left
    [] label = "config_end" -> 9
    [] label \in {"dyn_init_lock", "deinit_lock"} -> 8
    [] label \in {"dyn_init", "deinit_request_lock"} -> 7
    [] label \in {"inited", "deinit_close"} -> 6
    [] label = "apply_lock" -> 8 + 3 * requests
    [] label \in {"log_trylock", "apply"} -> 7 + 3 * requests
    [] label = "drain" -> 6 + 3 * requests
    [] label \in {"init_unlock", "log_lock"} -> 5
    [] label \in {"ext_lock", "log_read"} -> 4
    [] label \in {"ext_logging_lock", "log_inherit"} -> 3
    [] label \in {"ext_apply", "log_check", "set_lock", "get_lock",
                  "enabled_lock"} -> 2
    [] OTHER -> 1

StepsLeft(t) == StepsFrom(pc[t], Len(Lines(t)), LinesLeft(t), Len(queue))

(* Every step that a thread takes brings its call nearer to its end, and what
   the other threads do takes it no farther away; a request that arrives costs
   at most three steps.  So a call takes a bounded number of steps however it
   is interleaved with others, apart from the requests that keep arriving. *)
CallsBounded ==
  [][\A t \in Threads :
       /\ Lock(t) \/ Step(t) => StepsLeft(t)' < StepsLeft(t)
       /\ pc[t] # "idle" =>
            StepsLeft(t)' <= StepsLeft(t) + 3 * (sent' - sent)]_vars

(* Every call returns: the three mutexes are never taken in an order in which
   threads wait for each other. *)
CallsReturn == \A t \in Threads : pc[t] # "idle" ~> pc[t] = "idle"

(* If the client keeps draining the socket, what waits in it is taken out,
   although rdk_dyn_log_process_pending_request gives up as soon as another
   thread is at it. *)
RequestsDrained ==
  []<>(\E t \in Threads : pc[t] = "drain") =>
    \A i \in 1..MaxRequests :
      (\E k \in DOMAIN queue : queue[k].id = i) ~>
        ~(\E k \in DOMAIN queue : queue[k].id = i)

-------------------------------------------------------------------------------
(* What makes the properties above inductive, and what they assume. *)

(* Where a thread holds each of the three mutexes. *)
ConfigSection ==
  {"priv_init", "open_config", "parse", "parse_default", "config_end",
   "dyn_init_lock", "dyn_init", "inited"}

InitSection ==
  ConfigSection \cup
  {"init_unlock", "ext_logging_lock", "ext_apply", "ext_unlock",
   "deinit_request_lock", "deinit_close"}

RequestSection == {"dyn_init", "deinit_close", "drain", "apply_lock", "apply"}

LoggingSection ==
  {"ext_apply", "apply", "log_read", "log_inherit", "log_check", "log_unlock",
   "set", "get", "enabled"}

(* A thread holds a mutex exactly where the code says so; two threads are
   therefore never in the same section. *)
MutualExclusion ==
  \A t \in Threads :
    /\ gInitMutex = t <=> pc[t] \in InitSection
    /\ g_dl_request_mutex = t <=> pc[t] \in RequestSection
    /\ gLoggingMutex = t <=> pc[t] \in LoggingSection

(* debug.ini is being read only as long as rdk_logger_init has not succeeded,
   and until the socket has been tried. *)
InitOrder ==
  /\ \A t \in Threads : pc[t] \in ConfigSection => ~isLogInited
  /\ socket => isLogInited \/ \E t \in Threads : pc[t] = "inited"

(* Where a thread is in rdk_dbg_priv_log. *)
LogSection ==
  {"log_trylock", "drain", "apply_lock", "apply", "log_lock", "log_read",
   "log_inherit", "log_check", "log_unlock"}

(* Between reading the priority of a category and using it nothing changes:
   LogInherit finds the category as LogRead left it, LogCheck finds a category
   without a priority only if there is no default either.  A message of level
   NONE does not come that far. *)
LogSteps ==
  /\ \A t \in Threads : pc[t] \in LogSection => isLogInited
  /\ \A t \in Threads :
       pc[t] = "log_inherit" => priority[call[t].cat] = PriorityNotSet
  /\ \A t \in Threads :
       pc[t] \in {"log_check", "log_unlock"}
         /\ priority[call[t].cat] = PriorityNotSet =>
           gRootPriority = PriorityNotSet
  /\ \A t \in Threads :
       pc[t] \in {"log_lock", "log_read", "log_inherit", "log_check",
                 "log_unlock"} => call[t].level # NONE

(* A category that was never given a priority on purpose has none, or that of
   the default, and this only once debug.ini has been read. *)
InheritedPriority ==
  \A c \in Categories :
    wanted[c] = PriorityNotSet =>
      \/ priority[c] = PriorityNotSet
      \/ isLogInited /\ priority[c] = gRootPriority

(* Every module is below LOG.RDK, as its name says: the parser and rdklogctrl
   take no other, but rdk_logger_ext_init and the logging functions do. *)
BelowRoot ==
  \A c \in Categories :
    \A i \in DOMAIN Path[c] : Path[c][i] = Root <=> i = Len(Path[c])

(* A category other than LOG.RDK is additive until it has an appender. *)
Routed ==
  /\ isInited => appender[Root]
  /\ \A c \in Categories \ {Root} : appender[c] <=> ~additive[c]

(* The numbers of requests never run ahead of the number sent. *)
RequestNumbers ==
  /\ applied <= sent
  /\ \A i \in DOMAIN queue : queue[i].id <= sent
  /\ \A t \in Threads : Applying(t) => message[t].id <= sent

-------------------------------------------------------------------------------
(* What the documentation says and the code does not do, and what it does
   instead. *)

(* The two things NONE means: given as the word in debug.ini it silences a
   module, given as a level by a call or a request it lets everything through. *)
NoneTwoWays ==
  \A t \in Threads :
    pc[t] = "log_unlock" =>
      /\ wanted[call[t].cat] = PriorityNone => outcome[t] # "printed"
      /\ wanted[call[t].cat] = LevelToPriority(NONE) => outcome[t] = "printed"

(* A module whose level was last set to NONE prints nothing. *)
NoneDisables ==
  \A t \in Threads :
    outcome[t] = "printed" =>
      wanted[call[t].cat] \notin {LevelToPriority(NONE), PriorityNone}

(* A message of which rdk_logger_is_logLevel_enabled has just said TRUE, and
   which the same, only thread then logs, is printed. *)
EnabledIsPrinted ==
  \A t \in Threads :
    outcome[t] = "dropped" => promise[t] # <<call[t].cat, call[t].level>>

(* Nothing reaches an appender before rdk_logger_init has succeeded. *)
QuietBeforeInit ==
  \A t \in Threads :
    outcome[t] = "printed" /\ ~isLogInited =>
      Receivers(appender, additive, call[t].cat) = {}
===============================================================================
