--------------------------------- MODULE LogCtrl ---------------------------------
(***************************************************************************)
(* One run of utils/rdklogctrl.c: its arguments are checked, the name of   *)
(* the process is read from /proc, and a datagram is sent to the socket    *)
(* that name and pid make up; and the checks that                          *)
(* src/rdk_dynamic_logger.c makes of what arrives.  The sockets themselves *)
(* are in ControlChannel, the effect of a request in LoggerCore.           *)
(*                                                                         *)
(* Text is abstracted to what is tested of it: a name is its length and a  *)
(* tag that tells names apart, a level the word that its text begins with  *)
(* and whether more follows.                                               *)
(***************************************************************************)
EXTENDS Integers, FiniteSets, Sequences

CONSTANTS
  Pids,          (* the pids of the processes there may be: numbers         *)
  Programs,      (* their names                                             *)
  ArgumentLists, (* how rdklogctrl is called                                *)
  NameMax,       (* RDK_DYNAMIC_LOG_APP_NAME_MAX, ..._COMPONENT_NAME_MAX    *)
  PathSize,      (* sizeof(sun_path)                                        *)
  IntMax, LongMax,
  Nothing

FATAL == 0
NONE  == 7
Levels == FATAL..NONE

(* enum rdk_LogLevel, in its order: the level l is called LevelNames[l + 1]. *)
LevelNames ==
  <<"FATAL", "ERROR", "WARN", "NOTICE", "INFO", "DEBUG", "TRACE", "NONE">>

Names == [length : Nat, tag : Nat]

(* rdk_dynamic_log_message_t, but for what is the same in every one *)
Messages == [log_level : Levels, app_name : Names, component_name : Names]

(* pid: Nothing stands for text with something else than digits, and a number
   beyond LongMax for one strtol cannot hold.  level: "WARNING" is the word WARN
   with more after it; text that begins with no level's name is any other word. *)
ASSUME LogCtrlAssumption ==
  /\ Pids \subseteq 1..IntMax /\ Programs \subseteq Names
  /\ Nothing \notin Int \cup Programs
  /\ Nothing \notin [pid : Pids, message : Messages]
  /\ NameMax \in Nat /\ PathSize \in Nat
  /\ IntMax \in Nat /\ LongMax \in Nat /\ IntMax <= LongMax
  /\ \A a \in ArgumentLists :
       /\ a.argc \in Nat /\ a.pid \in Nat \cup {Nothing}
       /\ a.component \in Names /\ a.prefixed \in BOOLEAN
       /\ a.level \in [word : STRING, longer : BOOLEAN]

VARIABLES
  args, step,
  process_name,  (* what rdklogctrl has found out                           *)
  result,        (* what main returns; Nothing as long as it runs             *)
  progname,      (* __progname of each process that listens, else Nothing     *)
  cmdline,       (* the name in its argv[0], which it may change            *)
  received,      (* the datagram that has arrived at a socket, and whose     *)
  disturbed      (* history: a process came, went or changed its name, or
                    a system call failed                                    *)

logCtrlVars == <<args, step, process_name, result, progname, cmdline, received, disturbed>>

LogCtrlInit ==
  /\ args \in ArgumentLists
  /\ step = "check"
  /\ process_name = Nothing /\ result = Nothing
  /\ progname \in [Pids -> Programs \cup {Nothing}]
  /\ cmdline = progname
  /\ received = Nothing /\ disturbed = FALSE

Return(value) == step' = "end" /\ result' = value

(* Mutant: a name of the largest length is refused. *)
ComponentShort(c) == c.length > 0 /\ c.length < NameMax

ComponentFits(c) == c.length > 0 /\ c.length <= NameMax

Codes == [FATAL |-> 0, ERROR |-> 1, WARN |-> 2, NOTICE |-> 3, INFO |-> 4,
          DEBUG |-> 5, TRACE |-> 6, NONE |-> 7]

(* Mutant: TRACE returns what the branch before it does. *)
LevelOfRepeated(level) ==
  IF level.word \in DOMAIN Codes THEN Codes[IF level.word = "TRACE" THEN "DEBUG" ELSE level.word]
  ELSE -1

(* validate_loglevel: what follows the word does not matter, but for TRACE, which
   is compared with its end. *)
LevelOf(level) ==
  IF level.word \in DOMAIN Codes /\ ~(level.word = "TRACE" /\ level.longer)
  THEN Codes[level.word]
  ELSE -1

(* What main refuses before it looks at the process. *)
Usable(a) ==
  /\ a.argc = 4
  /\ a.pid # Nothing /\ a.pid > 0 /\ a.pid <= LongMax /\ a.pid <= IntMax
  /\ ComponentFits(a.component)
  /\ a.prefixed
  /\ LevelOf(a.level) # -1

Check ==
  /\ step = "check"
  /\ IF Usable(args) THEN step' = "resolve" /\ UNCHANGED result ELSE Return(-1)
  /\ UNCHANGED <<args, process_name, progname, cmdline, received, disturbed>>

(* Mutant: a longer name is taken, and cut when it is copied. *)
ResolveAny ==
  /\ step = "resolve"
  /\ LET name == IF args.pid \in Pids THEN cmdline[args.pid] ELSE Nothing
     IN  IF name # Nothing /\ name.length > 0
         THEN step' = "send" /\ process_name' = name /\ UNCHANGED result
         ELSE Return(-1) /\ UNCHANGED process_name
  /\ UNCHANGED <<args, progname, cmdline, received, disturbed>>

(* process_name_for_pid: /proc/<pid>/cmdline *)
Resolve ==
  /\ step = "resolve"
  /\ LET name == IF args.pid \in Pids THEN cmdline[args.pid] ELSE Nothing
     IN  IF name # Nothing /\ name.length \in 1..NameMax
         THEN step' = "send" /\ process_name' = name /\ UNCHANGED result
         ELSE Return(-1) /\ UNCHANGED process_name
  /\ UNCHANGED <<args, progname, cmdline, received, disturbed>>

Digits(number) == Cardinality({k \in 0..9 : number >= 10 ^ k})

(* The size of the path "/tmp/.logger_<name>.<pid>" with its end, on both
   sides. *)
PathLength(name, pid) == 12 + 1 + name.length + 1 + Digits(pid) + 1

(* Is there a socket of that name? *)
Listens(pid, name) ==
  pid \in Pids /\ progname[pid] = name /\ PathLength(name, pid) <= PathSize

(* What snprintf leaves of a name in a field of NameMax + 1 bytes. *)
Field(name) ==
  [length |-> IF name.length <= NameMax THEN name.length ELSE NameMax, tag |-> name.tag]

Message ==
  [log_level |-> LevelOf(args.level), app_name |-> Field(process_name),
   component_name |-> Field(args.component)]

(* Mutant: that nobody could be reached is not reported. *)
SendIgnoringErrors ==
  /\ step = "send"
  /\ IF Listens(args.pid, process_name)
     THEN received' = [pid |-> args.pid, message |-> Message]
     ELSE UNCHANGED received
  /\ Return(0)
  /\ UNCHANGED <<args, process_name, progname, cmdline, disturbed>>

(* socket, the path, sendto, close; socket may fail and the receiver's queue
   may be full. *)
Send ==
  /\ step = "send"
  /\ \/ /\ Listens(args.pid, process_name)
        /\ received' = [pid |-> args.pid, message |-> Message]
        /\ Return(0)
        /\ UNCHANGED disturbed
     \/ /\ Return(-1)
        /\ disturbed' = (disturbed \/ Listens(args.pid, process_name))
        /\ UNCHANGED received
  /\ UNCHANGED <<args, process_name, progname, cmdline>>

(* The other processes: one ends or takes the pid of one that has ended, or
   changes what /proc says it is called. *)
Replace(p, name) ==
  /\ result = Nothing
  /\ progname' = [progname EXCEPT ![p] = name]
  /\ cmdline' = [cmdline EXCEPT ![p] = name]
  /\ disturbed' = TRUE
  /\ UNCHANGED <<args, step, process_name, result, received>>

Rename(p, name) ==
  /\ result = Nothing /\ cmdline[p] # Nothing
  /\ cmdline' = [cmdline EXCEPT ![p] = name]
  /\ disturbed' = TRUE
  /\ UNCHANGED <<args, step, process_name, result, progname, received>>

LogCtrlNext ==
  \/ Check \/ Resolve \/ Send
  \/ \E p \in Pids :
       (\E name \in Programs \cup {Nothing} : Replace(p, name))
         \/ (\E name \in Programs : Rename(p, name))

LogCtrlSpec == LogCtrlInit /\ [][LogCtrlNext]_logCtrlVars

-------------------------------------------------------------------------------
(* rdk_dyn_log_process_pending_request and rdk_dyn_log_validate_component_name
   apply a datagram that was received whole. *)
Accepts(name, message) ==
  message.app_name = name /\ message.log_level \in Levels

(* Whatever reaches a socket is accepted by the process that receives it, and
   is the change that was asked for: the level is the one of that name in enum
   rdk_LogLevel, and no module and no name is changed or cut on the way, for the
   process that is called so at this moment. *)
SentIsApplied ==
  [][received' # received =>
       /\ Accepts(progname[received'.pid], received'.message)
       /\ received'.pid = args.pid
       /\ LevelNames[received'.message.log_level + 1] = args.level.word
       /\ received'.message.component_name = args.component]_logCtrlVars

(* rdklogctrl returns 0 if, and only if, a process has been sent the change. *)
ResultTrue == result # Nothing => (result = 0 <=> received # Nothing)

(* A change to any level, of any module whose name fits into the datagram, to a
   process whose name does, is sent unless something got in the way. *)
NoneRefused ==
  LET p == args.pid
  IN  result = -1 /\ ~disturbed /\ p \in Pids =>
        \/ args.argc # 4 \/ ~args.prefixed
        \/ args.level.word \notin {LevelNames[l + 1] : l \in Levels}
        \/ args.level.word = "TRACE" /\ args.level.longer
        \/ args.component.length \notin 1..NameMax
        \/ progname[p] = Nothing \/ progname[p].length \notin 1..NameMax

(* Whatever name of a permitted length a process has, the path of its socket is
   not cut: so it is with 64 characters, ten digits and 108 bytes. *)
PathsFit ==
  \A p \in Pids, name \in Programs :
    name.length <= NameMax => PathLength(name, p) <= PathSize
=================================================================================
