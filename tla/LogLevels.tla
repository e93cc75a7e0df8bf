------------------------------ MODULE LogLevels ------------------------------
(***************************************************************************)
(* The log levels of include/rdk_logger.h, the log4c priorities they are   *)
(* translated to, and the two translations of src/rdk_debug_priv.c.        *)
(*                                                                         *)
(* log4c orders priorities downwards: a category whose priority is p lets  *)
(* through every message whose own priority is at most p.                  *)
(***************************************************************************)
EXTENDS Integers

(* enum rdk_LogLevel *)
FATAL  == 0
ERROR  == 1
WARN   == 2
NOTICE == 3
INFO   == 4
DEBUG  == 5
TRACE  == 6
NONE   == 7

RdkLevels == FATAL..NONE

(* log4c_priority_level_t, as far as the code uses it *)
PriorityFatal   == 0
PriorityNotSet  == 900
PriorityUnknown == 1000
(* LOG4C_PRIORITY_NONE, the private value below every priority *)
PriorityNone    == -1

(* Mutant: the level is stored as it is. *)
LevelAsPriority(level) == IF level = NONE THEN PriorityUnknown ELSE level

(* rdk_logLevel_to_log4c_priority: ERROR..TRACE are 300, 400, ..., 800; NONE
   and everything that is not a level are LOG4C_PRIORITY_UNKNOWN. *)
LevelToPriority(level) ==
  IF level = FATAL THEN PriorityFatal
  ELSE IF level \in ERROR..TRACE THEN 100 * (level + 2)
  ELSE PriorityUnknown

(* Every value a category's priority can take. *)
Priorities ==
  {PriorityNone, PriorityFatal, 300, 400, 500, 600, 700, 800, PriorityNotSet,
   PriorityUnknown}

(* Mutant: the offset between the two scales is forgotten. *)
PriorityToNextLevel(priority) ==
  IF priority = PriorityFatal THEN FATAL
  ELSE IF priority \in {100 * (l + 2) : l \in ERROR..TRACE}
       THEN (priority \div 100) - 1
       ELSE NONE

(* log4c_priority_to_rdk_logLevel: everything that is not the priority of a
   level reads back as NONE. *)
PriorityToLevel(priority) ==
  IF priority = PriorityFatal THEN FATAL
  ELSE IF priority \in {100 * (l + 2) : l \in ERROR..TRACE}
       THEN (priority \div 100) - 2
       ELSE NONE

(***************************************************************************)
(* A value of a line of debug.ini as rdk_logger_level_from_string and the  *)
(* test for "NONE" before it see it: one of the levels below NONE, the     *)
(* word NONE, or anything else.                                            *)
(***************************************************************************)
OtherText == 8

ConfigValues == RdkLevels \cup {OtherText}

(* The priority a line of debug.ini gives the category it names. *)
ConfiguredPriority(value) ==
  IF value \in FATAL..TRACE THEN LevelToPriority(value) ELSE PriorityNone
==============================================================================
