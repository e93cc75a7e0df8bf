------------------------------- MODULE MCLogger -------------------------------
(***************************************************************************)
(* The constants of the TLC runs of LoggerCore.  Three categories: LOG.RDK *)
(* itself, a module and a submodule of it.                                 *)
(***************************************************************************)
EXTENDS LoggerProperties, TLC

CONSTANTS rdk, mod, sub

MCCategories == {rdk, mod, sub}

MCPath == rdk :> <<rdk>> @@ mod :> <<mod, rdk>> @@ sub :> <<sub, mod, rdk>>

MCSymmetry == Permutations(Threads)

Line(name, value) == [name |-> name, value |-> value]

(* debug.ini of the working directory and the one rdk_logger_ext_init takes.
   One has LOG.RDK.DEFAULT=INFO and, in this order, a level for the module; the
   other turns the module off. *)
InfoDebug ==
  [debug_ini |-> <<Line(Default, INFO), Line(mod, DEBUG)>>,
   etc_ini   |-> <<Line(mod, NONE), Line(Default, WARN)>>]

(* The module is turned off, and the default is misspelt.  The process runs in
   /etc: both names are of this file. *)
NoneBad == [debug_ini |-> <<Line(mod, NONE), Line(Default, OtherText)>>]

C(kind, cat, level) ==
  [kind |-> kind, cat |-> cat, level |-> level, config |-> "null"]

InitCall   == C("init", rdk, NONE)
DeinitCall == C("deinit", rdk, NONE)
Ext(cat, level, config) ==
  [kind |-> "ext_init", cat |-> cat, level |-> level, config |-> config]

Logs(cats, lvls)  == {C("log", c, l) : c \in cats, l \in lvls}
Sets(cats, lvls)  == {C("set", c, l) : c \in cats, l \in lvls}

NoCommands == {}

(* What the runs let the client call. *)
LevelCalls ==
  {InitCall, C("get", sub, NONE), C("enabled", sub, DEBUG),
   Ext(mod, INFO, "usable"), Ext(rdk, ERROR, "usable"), Ext(mod, INFO, "no_policy")}
    \cup Logs({mod, sub}, {ERROR, DEBUG}) \cup Sets({sub}, {WARN, NONE}) \cup Sets({rdk}, {WARN})

LevelCommands == {[cat |-> mod, level |-> TRACE, valid |-> TRUE]}

(* A client that logs before or while it initialises the logger. *)
StartCalls == {InitCall} \cup Logs({mod, sub}, {ERROR, DEBUG})

ProgressCalls ==
  {InitCall, DeinitCall, Ext(sub, INFO, "usable"), Ext(mod, INFO, "no_policy"),
   Ext(rdk, INFO, "null")}
    \cup Logs({mod}, {INFO, NONE}) \cup Sets({mod}, {WARN})

ControlCommands ==
  {[cat |-> mod, level |-> TRACE, valid |-> TRUE],
   [cat |-> mod, level |-> WARN, valid |-> FALSE]}
===============================================================================
