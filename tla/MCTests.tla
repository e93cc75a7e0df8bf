-------------------------------- MODULE MCTests --------------------------------
(***************************************************************************)
(* The constants of the TLC run of UnitTests.                              *)
(***************************************************************************)
EXTENDS UnitTests

MCThreads == {main, second}

StepsOf(i) == UNION {ToSet(part[main]) \cup ToSet(part[second]) : part \in ToSet(Tests[i])}

Done == {s.do : s \in UNION {StepsOf(i) : i \in DOMAIN Tests}}

MCCalls == {c \in Done : c.kind \in CallKinds}

MCCommands ==
  {[cat |-> c.cat, level |-> c.level, valid |-> TRUE] :
     c \in {d \in Done : d.kind = "rdklogctrl"}}

(* Every module that is named in a file or in a call. *)
MCCategories ==
  {"LOG.RDK", "DEFAULT", "TESTMOD", "TEST", "ERROR", "MODULE0", "MODULE99", "MODULE999",
   "LONG", "LONGEST", "EMPTY", "TEST_WITH_UNDERSCORES", "TEST-WITH-DASHES",
   "TEST.WITH.DOTS", "WARNING", "GET_LEVEL", "MEDIUM002", "PERFORMANCE", "STRESS",
   "FATAL", "WARN", "NOTICE", "INFO", "DEBUG", "TRACE", "NONE"} \cup ToSet(Modules)

MCPath == [c \in MCCategories |-> IF c = Root THEN <<Root>> ELSE <<c, Root>>]
================================================================================
