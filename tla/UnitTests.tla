-------------------------------- MODULE UnitTests --------------------------------
(***************************************************************************)
(* The programs of unittests/ that use the library in one process, as      *)
(* clients of LoggerCore: what they call, in which order, and what they    *)
(* expect.  The tests share the process, and with it all state of the      *)
(* library; main.cpp runs them in the order in which they are linked.      *)
(*                                                                         *)
(* Left out are calls that return before they touch anything (a NULL name  *)
(* or format), the onboarding log, the measured times, and the two suites  *)
(* that reinitialise log4c in a forked child.  A loop is run once; the     *)
(* prefix LOG.RDK. is left out, and so are the texts of messages.          *)
(***************************************************************************)
EXTENDS LoggerCore, SequencesExt

CONSTANTS main, second   (* the threads of the test program                  *)

VARIABLES
  test,        (* the number of the test that runs                           *)
  phase,       (* the part of it: the parts are separated by joins           *)
  todo,        (* what is left of this part, for every thread                *)
  failures     (* the tests that have failed                                 *)

testVars == <<test, phase, todo, failures>>

-------------------------------------------------------------------------------
(* What tests are made of. *)

Call(kind, cat, level, config) ==
  [kind |-> kind, cat |-> cat, level |-> level, config |-> config]

InitWith(file)  == Call("init", Root, NONE, file)
Deinit          == Call("deinit", Root, NONE, "null")
Log(level, cat) == Call("log", cat, level, "null")
Set(cat, level) == Call("set", cat, level, "null")
Get(cat)        == Call("get", cat, NONE, "null")
Enabled(cat, level) == Call("enabled", cat, level, "null")

(* A run of rdklogctrl with arguments it accepts or refuses, and a call of
   rdk_logger_level_from_string; neither is a call of LoggerCore. *)
Control(cat, level) == Call("rdklogctrl", cat, level, "accepted")
Refused             == Call("rdklogctrl", Root, NONE, "refused")
FromString(word)    == Call("from_string", Root, word, "null")

(* A step and what it must return.  RDK_FAILURE is -1, FALSE, RDK_SUCCESS and
   a message that is not printed are 0, TRUE and one that is are 1; Get returns
   the level.  ASSERT_ ends the test, EXPECT_ does not. *)
Must(do, result)   == [do |-> do, expect |-> {result}, fatal |-> TRUE]
Expect(do, result) == [do |-> do, expect |-> {result}, fatal |-> FALSE]
Do(do)             == [do |-> do, expect |-> -1..NONE, fatal |-> FALSE]

DoAll(list) == [i \in DOMAIN list |-> Do(list[i])]

(* A part that the first thread alone goes through, and one for two threads. *)
Alone(steps)     == main :> steps @@ second :> << >>
Both(one, other) == main :> one @@ second :> other

(* A test of one thread, and one of a fixture whose TearDown calls
   rdk_logger_deinit. *)
Test(steps)      == <<Alone(steps), Alone(<< >>)>>
Torn(steps)      == <<Alone(steps), Alone(<<Do(Deinit)>>)>>

GtestFile == "sample_gtest_debug.ini"
InitGtest == <<Must(InitWith(GtestFile), 0)>>

(* rdk_logger_level_from_string, on the words the tests use. *)
LevelFromString(word) ==
  CASE word = "FATAL" -> FATAL                  [] word = "ERROR" -> ERROR
    [] word \in {"WARN", "WARNING", "Warning"} -> WARN
    [] word = "NOTICE" -> NOTICE                [] word \in {"INFO", "info"} -> INFO
    [] word \in {"DEBUG", "debug", "Debug"} -> DEBUG
    [] word = "TRACE" -> TRACE                  [] OTHER -> NONE

(* A file: names and words, in order. *)
Ini(lines) ==
  [i \in DOMAIN lines |->
     [name  |-> IF lines[i][1] = "DEFAULT" THEN Default ELSE lines[i][1],
      value |-> IF LevelFromString(lines[i][2]) = NONE THEN OtherText
                ELSE LevelFromString(lines[i][2])]]

-------------------------------------------------------------------------------
(* The files *)

SampleGtest ==
  Ini(<<<<"DEFAULT", "ERROR">>,
        <<"ONLYFATAL", "FATAL">>, <<"ONLYERROR", "ERROR">>, <<"ONLYWARNING", "WARNING">>,
        <<"ONLYINFO", "INFO">>, <<"ONLYDEBUG", "DEBUG">>, <<"ONLYNOTICE", "NOTICE">>,
        <<"ONLYTRACE", "TRACE">>, <<"ONLYALL", "ALL">>,
        <<"NODEBUG", "FATAL">>, <<"NOERROR", "FATAL">>, <<"NOWARNING", "FATAL">>,
        <<"NONOTICE", "FATAL">>, <<"NOTRACE", "FATAL">>, <<"NOFATAL", "WARNING">>,
        <<"NOALL", "FATAL">>, <<"ALLLOGLEVELS", "ALL">>>>)

ConfigTestFiles ==
  LET TestDebug == <<"TEST", "DEBUG">>
  IN  [valid |-> Ini(<<<<"DEFAULT", "INFO">>, TestDebug, <<"ERROR", "ERROR">>>>),
       empty |-> << >>,
       malformed |-> Ini(<<<<"DEFAULT", "INFO">>, TestDebug>>),
       comments |-> Ini(<<<<"DEFAULT", "WARNING">>, TestDebug>>),
       whitespace |-> Ini(<<<<"DEFAULT", "INFO">>, TestDebug, <<"ERROR", "ERROR">>>>),
       large |-> Ini(<<<<"MODULE0", "DEBUG">>, <<"MODULE999", "DEBUG">>>>),
       duplicate |-> Ini(<<TestDebug, <<"TEST", "ERROR">>, <<"TEST", "INFO">>>>),
       invalid_levels |->
         Ini(<<<<"DEFAULT", "INVALID_LEVEL">>, TestDebug, <<"ERROR", "UNKNOWN_LEVEL">>>>),
       long_names |-> Ini(<<<<"DEFAULT", "INFO">>, <<"LONG", "DEBUG">>>>),
       special_chars |->
         Ini(<<<<"DEFAULT", "INFO">>, <<"TEST_WITH_UNDERSCORES", "DEBUG">>,
               <<"TEST-WITH-DASHES", "ERROR">>, <<"TEST.WITH.DOTS", "WARNING">>>>),
       mixed_case |-> Ini(<<<<"DEFAULT", "info">>, <<"TEST", "debug">>,
                            <<"ERROR", "ERROR">>, <<"WARNING", "Warning">>>>)]

ErrorTestFile == Ini(<<<<"DEFAULT", "INFO">>, <<"TEST", "DEBUG">>>>)

PerformanceTestFile ==
  Ini(<<<<"DEFAULT", "INFO">>, <<"PERFORMANCE", "DEBUG">>, <<"STRESS", "TRACE">>>>)

TestFiles ==
  ConfigTestFiles @@ GtestFile :> SampleGtest
    @@ [error_test |-> ErrorTestFile, performance_test |-> PerformanceTestFile]

-------------------------------------------------------------------------------
(* The tests *)

InitTests ==
  <<Test(<<Must(InitWith("null"), -1)>>),
    Test(InitGtest \o <<Expect(Enabled("ONLYERROR", ERROR), 1)>>),
    Test(InitGtest \o <<Expect(Enabled("ONLYERROR", ERROR), 1)>>
         \o InitGtest \o <<Expect(Enabled("ONLYERROR", ERROR), 1)>>)>>

MessageLevels == <<ERROR, FATAL, WARN, NOTICE, DEBUG, INFO, TRACE>>

Modules ==
  <<"ONLYFATAL", "ONLYERROR", "ONLYWARNING", "ONLYINFO", "ONLYDEBUG", "ONLYNOTICE",
    "ONLYTRACE", "ONLYALL", "NODEBUG", "NOERROR", "NOWARNING", "NONOTICE", "NOTRACE",
    "NOFATAL", "NOALL", "ALLLOGLEVELS">>

MessageTest(module, levels_) ==
  Test(InitGtest \o [i \in DOMAIN levels_ |-> Do(Log(levels_[i], module))])

MessageTests ==
  [i \in DOMAIN Modules |-> MessageTest(Modules[i], MessageLevels)]

MsgPrintfTests ==
  [MessageTests EXCEPT ![6] = MessageTest("ONLYNOTICE", Append(MessageLevels, NONE))]

MsgVsprintfTests ==
  [MessageTests EXCEPT ![1] = MessageTest("ONLYFATAL", Tail(MessageLevels))]

MsgRawTests == Tail(MessageTests)

MsgRaw1Tests ==
  [MessageTests EXCEPT ![1] = MessageTest("ONLYFATAL", Tail(MessageLevels))]

(* MessageProcessingViaSystem: rdklogctrl runs in a thread of its own, which is
   joined at the end. *)
ControlTest(do) ==
  <<Alone(<<Expect(InitWith(GtestFile), 0)>>),
    Both(<<Do(Log(ERROR, "TESTMOD"))>>, <<Do(do)>>), Alone(<< >>)>>

ControlTests ==
  LET named == <<Control("FATAL", FATAL), Control("ERROR", ERROR), Control("WARN", WARN),
                 Control("NOTICE", NOTICE), Control("INFO", INFO), Control("DEBUG", DEBUG),
                 Control("TRACE", TRACE), Control("NONE", NONE), Refused>>
  IN  [i \in DOMAIN named |-> ControlTest(named[i])]

(* Critical001, Medium005 *)
ArgumentTests ==
  <<Test(InitGtest
         \o <<Must(Set("LONGEST", NONE), 1), Must(Control("LONGEST", INFO), 0),
              Do(Log(ERROR, "TESTMOD")), Expect(Get("LONGEST"), INFO)>>),
    Test(<<Expect(Refused, -1)>>),
    Test(<<Expect(Refused, -1), Expect(Refused, -1)>>)>>

(* Medium002: after the level has been raised, two threads log at once and
   every message must be printed. *)
ConcurrentTest ==
  LET messages == <<Expect(Log(INFO, "MEDIUM002"), 1), Expect(Log(INFO, "MEDIUM002"), 1)>>
  IN  <<Alone(InitGtest \o <<Expect(Control("MEDIUM002", INFO), 0),
                             Do(Log(INFO, "MEDIUM002"))>>),
        Both(messages, messages),
        Alone(<<Expect(Log(INFO, "MEDIUM002"), 1)>>), Alone(<< >>)>>

ConfigTest(file, enabled) ==
  Torn(<<Must(InitWith(file), 0)>>
       \o [i \in DOMAIN enabled |-> Expect(Enabled(enabled[i][1], enabled[i][2]), 1)])

ConfigTests ==
  LET TestDebug == <<"TEST", DEBUG>>
  IN  <<ConfigTest("valid", <<TestDebug, <<"ERROR", ERROR>>>>),
        ConfigTest("empty", << >>),
        ConfigTest("malformed", <<TestDebug>>),
        ConfigTest("comments", <<TestDebug>>),
        ConfigTest("whitespace", <<TestDebug>>),
        ConfigTest("null", << >>),
        ConfigTest("large", <<<<"MODULE0", DEBUG>>, <<"MODULE999", DEBUG>>>>),
        ConfigTest("duplicate", <<<<"TEST", INFO>>>>),
        ConfigTest("invalid_levels", <<TestDebug>>),
        ConfigTest("long_names", <<<<"LONG", DEBUG>>>>),
        ConfigTest("special_chars", <<<<"TEST_WITH_UNDERSCORES", DEBUG>>>>),
        ConfigTest("mixed_case", <<TestDebug, <<"WARNING", WARN>>>>)>>

SetAndLog(module, level) ==
  Test(InitGtest \o <<Expect(Set(module, level), 1), Expect(Enabled(module, level), 1),
                      Do(Log(level, module))>>)

EnableLogLevelTests ==
  <<Test(InitGtest),
    Test(InitGtest
         \o <<Expect(Set("ONLYFATAL", FATAL), 1), Do(Log(FATAL, "ONLYFATAL")),
              Do(Enabled("ONLYFATAL", FATAL)), Do(Log(FATAL, "ONLYFATAL"))>>),
    SetAndLog("ONLYERROR", ERROR), SetAndLog("ONLYWARNING", WARN),
    SetAndLog("ONLYINFO", INFO), SetAndLog("ONLYDEBUG", DEBUG),
    SetAndLog("ONLYNOTICE", NOTICE),
    Test(InitGtest
         \o <<Must(Set("GET_LEVEL", INFO), 1), Expect(Get("GET_LEVEL"), INFO),
              Must(Set("GET_LEVEL", NONE), 1), Expect(Get("GET_LEVEL"), NONE)>>)>>

LevelFromStringTests ==
  LET Word(word, level) == InitGtest \o <<Expect(FromString(word), level)>>
  IN  <<Test(Word("TEST", NONE)), Test(Word("FATAL", FATAL)), Test(Word("ERROR", ERROR)),
        Test(Word("WARN", WARN)), Test(Word("NOTICE", NOTICE)), Test(Word("INFO", INFO)),
        Test(Word("DEBUG", DEBUG)), Test(Word("TRACE", TRACE)),
        Test(Word("NONE", NONE) \o <<Must(Deinit, 0)>>)>>

(* To set a level out of range is to set NONE: both are priority UNKNOWN.  To
   log with one is left out; the call is not that with NONE, which returns
   before it looks at the category. *)
ErrorTests ==
  LET init == <<Must(InitWith("error_test"), 0)>>
      log  == <<Do(Log(INFO, "TEST"))>>
  IN  <<Torn(init),
        Torn(init \o <<Do(Log(INFO, "EMPTY")), Do(Log(INFO, "TEST")),
                       Do(Set("EMPTY", INFO)), Do(Enabled("EMPTY", INFO))>>),
        Torn(init \o <<Do(Set("TEST", NONE))>>),
        Torn(init \o log),
        Torn(init \o DoAll(<<Log(INFO, "LONG"), Set("LONG", INFO), Enabled("LONG", INFO)>>)),
        Torn(init \o log \o log \o log), Torn(init \o log \o log \o log),
        Torn(init \o init \o log),
        Torn(<<Must(Deinit, 0)>> \o log),
        Torn(init \o <<Must(Deinit, 0)>> \o log),
        Torn(init \o DoAll(<<Set("EMPTY", INFO), Set("TEST", NONE)>>)),
        Torn(init \o <<Do(Enabled("EMPTY", INFO))>>),
        Torn(<<Expect(FromString(""), NONE), Expect(FromString("INVALID_LEVEL"), NONE),
               Expect(FromString("DEBU"), NONE), Expect(FromString("debug"), DEBUG),
               Expect(FromString("Debug"), DEBUG)>>),
        Torn(init), Torn(init),
        Torn(init \o DoAll(<<Log(INFO, "MODULE0"), Log(INFO, "MODULE999")>>) \o log)>>

PerformanceTests ==
  LET Logging(levels_, modules) ==
        Torn(<<Must(InitWith("performance_test"), 0)>>
             \o [i \in DOMAIN levels_ |-> Do(Log(levels_[i], modules[i]))])
      One == Logging(<<INFO>>, <<"PERFORMANCE">>)
  IN  <<One,
        Logging(<<FATAL, ERROR, WARN, NOTICE, INFO, DEBUG, TRACE>>,
                [i \in 1..7 |-> "PERFORMANCE"]),
        Logging(<<INFO, INFO>>, <<"MODULE0", "MODULE99">>), One, One,
        Logging(<<INFO, DEBUG, ERROR>>, [i \in 1..3 |-> "PERFORMANCE"]), One, One,
        Torn(<<Must(Call("ext_init", "PERFORMANCE", DEBUG, "usable"), 0),
               Do(Log(INFO, "PERFORMANCE"))>>),
        One, Logging(<<INFO, INFO>>, <<"EMPTY", "PERFORMANCE">>),
        Logging(<<INFO, INFO, INFO>>, <<"PERFORMANCE", "STRESS", "DEFAULT">>), One,
        Logging(<< >>, << >>)>>

(* All of them, in the order of CMakeLists.txt. *)
Tests ==
  InitTests \o MsgPrintfTests \o MsgVsprintfTests \o MsgRawTests \o MsgRaw1Tests
    \o ControlTests \o SubSeq(ArgumentTests, 1, 2) \o <<ConcurrentTest>>
    \o SubSeq(ArgumentTests, 3, 3)
    \o ConfigTests \o EnableLogLevelTests \o LevelFromStringTests
    \o ErrorTests \o PerformanceTests

-------------------------------------------------------------------------------
(* The test program.  --gtest_filter may have it begin with any test. *)

TestInit ==
  /\ Init
  /\ test \in DOMAIN Tests
  /\ phase = 1 /\ todo = Tests[test][1]
  /\ failures = {}

(* What the call that t is about to return from returns. *)
Answer(t) ==
  CASE call[t].kind \in {"init", "deinit"} -> IF failed[t] THEN -1 ELSE 0
    [] call[t].kind = "ext_init" ->
         IF failed[t] \/ call[t].config # "usable" THEN -1 ELSE 0
    [] call[t].kind = "log" -> IF outcome[t] = "printed" THEN 1 ELSE 0
    [] call[t].kind = "set" -> 1
    [] call[t].kind = "get" -> GetLevelResult(call[t].cat)
    [] call[t].kind = "enabled" -> IF promise'[t] = NoPromise THEN 0 ELSE 1

(* The step of thread t is done: the test goes on, or goes to its last part. *)
Judge(t, answer) ==
  LET step == Head(todo[t])
      ok   == answer \in step.expect
  IN  /\ failures' = IF ok THEN failures ELSE failures \cup {test}
      /\ IF ok \/ ~step.fatal
         THEN todo' = [todo EXCEPT ![t] = Tail(@)] /\ UNCHANGED phase
         ELSE /\ todo' = [u \in Threads |-> << >>]
              /\ phase' = Len(Tests[test]) - 1
      /\ UNCHANGED test

NextStep(t, kinds) ==
  /\ pc[t] = "idle" /\ todo[t] # << >>
  /\ Head(todo[t]).do.kind \in kinds

CallLibrary(t) ==
  /\ NextStep(t, CallKinds)
  /\ Enter(t, Head(todo[t]).do)
  /\ UNCHANGED testVars

(* The files exist and the socket can be bound. *)
InLibrary(t) ==
  /\ Lock(t) \/ Step(t)
  /\ pc[t] = "open_config" /\ File(t) \in DOMAIN Files => ~failed'[t]
  /\ pc[t] = "dyn_init" => socket'
  /\ IF pc'[t] = "idle" THEN Judge(t, Answer(t))
     ELSE UNCHANGED <<test, phase, todo, failures>>

RunFromString(t) ==
  /\ NextStep(t, {"from_string"})
  /\ Judge(t, LevelFromString(Head(todo[t]).do.level))
  /\ UNCHANGED vars

RunControl(t) ==
  /\ NextStep(t, {"rdklogctrl"})
  /\ LET do == Head(todo[t]).do
         m  == [cat |-> do.cat, level |-> do.level, valid |-> TRUE]
     IN  IF do.config = "accepted" /\ socket /\ Len(queue) < QueueLength
         THEN Send(m) /\ Judge(t, 0)
         ELSE UNCHANGED vars /\ Judge(t, -1)

(* pthread_join, and the next part or the next test. *)
NextPart ==
  /\ \A t \in Threads : todo[t] = << >>
  /\ IF phase < Len(Tests[test])
     THEN phase' = phase + 1 /\ UNCHANGED test
     ELSE test' = test + 1 /\ phase' = 1 /\ test < Len(Tests)
  /\ todo' = Tests[test'][phase']
  /\ UNCHANGED <<vars, failures>>

TestNext ==
  \/ NextPart
  \/ \E t \in Threads :
       CallLibrary(t) \/ InLibrary(t) \/ RunFromString(t) \/ RunControl(t)

TestSpec == TestInit /\ [][TestNext]_<<vars, testVars>>

-------------------------------------------------------------------------------
(* The files a test has the logger read. *)
FilesOf(i) ==
  LET inits == {s.do : s \in UNION {ToSet(part[main]) : part \in ToSet(Tests[i])}}
  IN  {IF c.kind = "ext_init" THEN LoggerInitFile
       ELSE IF c.config = "null" THEN DebugConfFile
       ELSE c.config : c \in {d \in inits : d.kind \in {"init", "ext_init"}}}

(* Every test whose files exist meets all of its expectations, wherever the
   program begins: TearDown has reset the state of the logger, as its comment
   says, so that a test finds the levels of the file it gave to
   rdk_logger_init. *)
TestsPass == \A i \in failures : ~(FilesOf(i) \subseteq DOMAIN Files)
==================================================================================
