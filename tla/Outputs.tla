-------------------------------- MODULE Outputs --------------------------------
(***************************************************************************)
(* The appenders behind the categories: what rdk_dbg_priv_ext_init makes   *)
(* of its configuration, the console, syslog and journal appenders of      *)
(* src/rdk_debug_priv.c, and the way of a message through the layout to    *)
(* its output.  gLoggingMutex is held from the choice of the appender to   *)
(* the output, and throughout rdk_dbg_priv_ext_init.                       *)
(*                                                                         *)
(* Every category has two appenders of its own, whose names are the        *)
(* category's with .file and .print behind it; names are taken to be short *)
(* enough for app_name.  How log4c opens, closes and writes appenders, and *)
(* its rolling files, are outside the repository.  openlog, which sets an  *)
(* option of syslog, is left out.                                          *)
(***************************************************************************)
EXTENDS Layouts, Integers

CONSTANTS
  Modules,       (* the categories rdk_logger_ext_init is called for        *)
  CategoryOf,    (* CategoryOf[m]: the characters of the name of m          *)
  Configs,       (* the configurations it is given                          *)
  Messages,      (* what is logged: a priority and a text                   *)
  Memory,        (* the addresses of the user data of rolling files         *)
  NULL, Stdout,
  LongMax,       (* LONG_MAX                                                *)
  DefaultSize    (* ROLLINGPOLICY_SIZE_DEFAULT_MAX_FILE_SIZE                *)

(* rdk_LogOutput *)
OutputKinds == {"console", "syslog", "journal", "file"}

(* The parts of rdk_logger_ext_config_t and rdk_LogOutput_File that outputs
   depend on; countMax is an int8_t, sizeMax an int64_t. *)
ASSUME OutputAssumption ==
  /\ NULL \notin Memory \cup Modules \cup {Stdout} /\ Stdout \notin Memory
  /\ LongMax \in Nat /\ DefaultSize \in 1..LongMax
  /\ CategoryOf \in [Modules -> Seq(STRING)]
  /\ \A c \in Configs :
       /\ c.output \in OutputKinds /\ c.format \in Formats /\ c.file # NULL
       /\ c.countMax \in -128..127 /\ c.sizeMax \in Int
  /\ \A msg \in Messages : msg.level \in Nat /\ msg.text \in Seq(STRING)

Appenders == Modules \X {"print", "file"}

VARIABLES
  own,         (* the appender of each module; NULL before its ext_init     *)
  type, isopen, udata, layout,  (* of each appender                         *)
  heap,        (* the file named in the user data at each address; NULL if
                  the address is free                                       *)
  streams,     (* the FILEs that are open: the user data and the file       *)
  limits,      (* file_maxsize in the policy of each module's file appender *)
  logging,     (* the module whose message is on its way; NULL if none      *)
  written,     (* history: what the last step wrote                         *)
  configured   (* history: the last configuration each module was given     *)

appenderVars == <<own, type, isopen, udata, layout, heap, streams, limits>>

vars == <<layoutVars, appenderVars, logging, written, configured>>

Nothing == [where |-> "nowhere", severity |-> -1, text |-> << >>]

Init ==
  /\ LayoutInit
  /\ own = [m \in Modules |-> NULL]
  /\ type = [a \in Appenders |-> "stream"]
  /\ isopen = [a \in Appenders |-> FALSE]
  /\ udata = [a \in Appenders |-> NULL]
  /\ layout = [a \in Appenders |-> PLAINTEXT]
  /\ heap = [u \in Memory |-> NULL]
  /\ streams = {}
  /\ limits = [m \in Modules |-> DefaultSize]
  /\ logging = NULL
  /\ written = Nothing
  /\ configured = [m \in Modules |-> NULL]

-------------------------------------------------------------------------------
(* rdk_dbg_priv_ext_init with a configuration it accepts *)

(* The value of an int64_t stored in a long. *)
AsLong(v) == LET half == LongMax + 1 IN ((v + half) % (2 * half)) - half

(* Mutant: a size of 0 is taken as it is. *)
MaxBytesOrZero(sizeMax) == AsLong(IF sizeMax >= 0 THEN sizeMax ELSE DefaultSize)

MaxBytes(sizeMax) == AsLong(IF sizeMax > 0 THEN sizeMax ELSE DefaultSize)

(* Mutant: an appender keeps the layout it had. *)
AttachOldLayout(m, a, config) ==
  /\ own' = [own EXCEPT ![m] = a]
  /\ type' = [type EXCEPT ![a] = config.output]
  /\ configured' = [configured EXCEPT ![m] = config]
  /\ written' = Nothing
  /\ UNCHANGED layout

(* What all outputs have in common. *)
Attach(m, a, config) ==
  /\ own' = [own EXCEPT ![m] = a]
  /\ type' = [type EXCEPT ![a] = config.output]
  /\ layout' = [layout EXCEPT ![a] = LayoutOf(config.format)]
  /\ configured' = [configured EXCEPT ![m] = config]
  /\ written' = Nothing

(* An output other than FILE: an open appender changes its type. *)
ExtInitPrint(m, config) ==
  /\ logging = NULL /\ config.output # "file"
  /\ Attach(m, <<m, "print">>, config)
  /\ UNCHANGED <<layoutVars, isopen, udata, heap, streams, limits, logging>>

(* Mutant: the appender is not closed. *)
CloseAppenderNot(a) == UNCHANGED <<isopen, streams>>

(* log4c_appender_close, which does nothing to one that is not open. *)
CloseAppender(a) ==
  /\ isopen' = [isopen EXCEPT ![a] = FALSE]
  /\ streams' = IF isopen[a] THEN {s \in streams : s.udata # udata[a]} ELSE streams

(* Mutant: the appender keeps the address it has freed when there is no memory. *)
NewUdataDangling(a, u, file) ==
  /\ u \in {NULL, udata[a]} \cup {v \in Memory : heap[v] = NULL}
  /\ udata' = [udata EXCEPT ![a] = IF u = NULL THEN @ ELSE u]
  /\ heap' = [v \in Memory |-> IF v = u THEN file ELSE IF v = udata[a] THEN NULL ELSE heap[v]]

(* The old user data is freed, and unless there is no memory the new one is at
   u, which may be the same address. *)
NewUdata(a, u, file) ==
  /\ u \in {NULL, udata[a]} \cup {v \in Memory : heap[v] = NULL}
  /\ udata' = [udata EXCEPT ![a] = u]
  /\ heap' = [v \in Memory |-> IF v = u THEN file ELSE IF v = udata[a] THEN NULL ELSE heap[v]]

(* FILE.  The policy is found again by its name; without memory for new limits
   it keeps those it had. *)
ExtInitFile(m, config) ==
  LET a == <<m, "file">>
  IN  /\ logging = NULL /\ config.output = "file"
      /\ Attach(m, a, config)
      /\ CloseAppender(a)
      /\ \E u \in Memory \cup {NULL} : NewUdata(a, u, config.file)
      /\ \/ /\ udata'[a] # NULL /\ config.countMax > 0
            /\ limits' = [limits EXCEPT ![m] = MaxBytes(config.sizeMax)]
         \/ UNCHANGED limits
      /\ UNCHANGED <<layoutVars, logging>>

-------------------------------------------------------------------------------
(* log4c_appender_append on the appender of the module of a message. *)

(* to_console_open takes stdout, a rolling file opens the file its user data
   names, and the others have nothing to open. *)
Open(a) ==
  /\ isopen' = [isopen EXCEPT ![a] = TRUE]
  /\ udata' = [udata EXCEPT ![a] = IF type[a] = "console" THEN Stdout ELSE @]
  /\ streams' = IF type[a] = "file" /\ udata[a] # NULL
                THEN streams \cup {[udata |-> udata[a], file |-> heap[udata[a]]]}
                ELSE streams

Log(m, msg) ==
  /\ logging = NULL /\ own[m] # NULL
  /\ logging' = m /\ written' = Nothing
  /\ IF isopen[own[m]] THEN UNCHANGED <<isopen, udata, streams>> ELSE Open(own[m])
  /\ StartRendering([format |-> layout[own[m]], category |-> CategoryOf[m],
                     level |-> msg.level, msg |-> msg.text])
  /\ UNCHANGED <<own, type, layout, heap, limits, configured>>

Render == Rendering /\ UNCHANGED <<appenderVars, logging, written, configured>>

(* get_syslog_priority, of the priority of a level *)
SyslogPriority(level) ==
  CASE level = 0 -> 0 [] level \in 1..4 -> level + 2 [] OTHER -> 7

(* to_console_append, to_syslog_append, to_journal_append, or log4c's own,
   which writes into a file of its own choice if there is no user data. *)
Destination(a) ==
  IF type[a] # "file" THEN type[a]
  ELSE IF udata[a] \in {s.udata : s \in streams}
       THEN (CHOOSE s \in streams : s.udata = udata[a]).file
       ELSE "nowhere"

Write ==
  /\ stage = "rendered"
  /\ written' = [where |-> Destination(own[logging]),
                 severity |-> IF type[own[logging]] \in {"syslog", "journal"}
                              THEN SyslogPriority(event.level) ELSE -1,
                 text |-> buf]
  /\ logging' = NULL
  /\ EndRendering
  /\ UNCHANGED <<appenderVars, configured>>

Next ==
  \/ \E m \in Modules, config \in Configs :
       ExtInitPrint(m, config) \/ ExtInitFile(m, config)
  \/ \E m \in Modules, msg \in Messages : Log(m, msg)
  \/ Render
  \/ Write

Spec == Init /\ [][Next]_vars

-------------------------------------------------------------------------------
TypeOK ==
  /\ own \in [Modules -> Appenders \cup {NULL}]
  /\ type \in [Appenders -> OutputKinds \cup {"stream"}]
  /\ isopen \in [Appenders -> BOOLEAN]
  /\ udata \in [Appenders -> Memory \cup {NULL, Stdout}]
  /\ layout \in [Appenders -> PLAINTEXT..DETAIL_WITHOUT_TS]
  /\ limits \in [Modules -> Int]
  /\ logging \in Modules \cup {NULL}
  /\ stage \in {"free", "print", "check", "rendered"}
  /\ size \in Nat /\ n \in Nat /\ refused \in BOOLEAN

(* User data is in use exactly while one file appender points to it: however
   often a module is configured, nothing that was freed is used, and nothing
   that was allocated is forgotten. *)
UdataTracked ==
  \A u \in Memory :
    Cardinality({a \in Appenders : udata[a] = u}) = (IF heap[u] = NULL THEN 0 ELSE 1)

(* A FILE that is open belongs to an open appender and is the file that was
   configured last: a file that was configured before is closed, with what was
   buffered for it. *)
StreamsOwned ==
  \A s \in streams :
    \E m \in Modules :
      udata[<<m, "file">>] = s.udata /\ isopen[<<m, "file">>] /\ heap[s.udata] = s.file

(* The output that configuration c promises for a module whose file appender's
   user data is u. *)
Promised(c, u) ==
  IF c.output # "file" THEN c.output ELSE IF u = NULL THEN "nowhere" ELSE c.file

(* A message goes to the output, and begins as the format says, that its module
   was configured with last, whatever outputs it had before and although an
   open appender changes its type without being closed. *)
Delivered ==
  [][logging # NULL /\ logging' = NULL =>
       LET c == configured[logging]
           e == [event EXCEPT !.format = LayoutOf(c.format)]
       IN  /\ written'.where = Promised(c, udata[<<logging, "file">>])
           /\ \A i \in DOMAIN written'.text : written'.text[i] = Line(e)[i]]_vars

(* No file is limited to a size that is not positive, which would start a new
   file with every message, as long as the sizes fit into a long. *)
LimitsPositive ==
  (\A c \in Configs : c.sizeMax <= LongMax) => \A m \in Modules : limits[m] > 0
================================================================================
