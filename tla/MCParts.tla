-------------------------------- MODULE MCParts --------------------------------
(***************************************************************************)
(* The parts that share no state with each other or with the logger: the   *)
(* lines of debug.ini, one run of rdklogctrl, the appended logs.  A        *)
(* behaviour is one of the first, the second or the third; the others rest *)
(* in an initial state.                                                    *)
(***************************************************************************)
EXTENDS ConfigFile, LogCtrl, AppendedLogs

VARIABLE part

(* Every file of up to six characters. *)
MCTexts == UNION {[1..k -> Characters] : k \in 0..6}

Name(length, tag) == [length |-> length, tag |-> tag]

Level(word, longer) == [word |-> word, longer |-> longer]

(* A short name, the longest there may be, and a longer one. *)
MCPrograms == {Name(1, 1), Name(64, 2), Name(65, 3)}

(* Usable arguments, and each of them spoilt in every way. *)
MCArgumentLists ==
  LET good == [argc |-> 4, pid |-> 1, component |-> Name(9, 4),
               prefixed |-> TRUE, level |-> Level("DEBUG", FALSE)]
  IN  {[good EXCEPT !.argc = 3], [good EXCEPT !.prefixed = FALSE]}
        \cup {[good EXCEPT !.pid = p] : p \in {Nothing, 0, 1, 12, 1000, 1001}}
        \cup {[good EXCEPT !.component.length = k] : k \in {0, 64, 65}}
        \cup {[good EXCEPT !.level = l] :
                l \in {Level(LevelNames[i], longer) : i \in 1..8, longer \in BOOLEAN}
                       \cup {Level("LOUD", TRUE)}}

(* One message with both control characters, longer than the buffer with the
   newline the format adds. *)
MCArguments == {<<"x", EOL, "\r">>}

MCSymmetry == Permutations(Processes)

MCInit ==
  /\ \/ part = "config"
     \/ part \in {"rdklogctrl", "appended"} /\ text = << >>
  /\ \/ part = "rdklogctrl"
     \/ /\ part # "rdklogctrl"
        /\ args = CHOOSE a \in ArgumentLists : TRUE
        /\ progname = [p \in Pids |-> Nothing]
  /\ ConfigFileInit /\ LogCtrlInit /\ AppendedLogsInit

MCNext ==
  /\ UNCHANGED part
  /\ \/ /\ part = "config" /\ ConfigFileNext
        /\ UNCHANGED <<logCtrlVars, appendedLogsVars>>
     \/ /\ part = "rdklogctrl" /\ LogCtrlNext
        /\ UNCHANGED <<configFileVars, appendedLogsVars>>
     \/ /\ part = "appended" /\ AppendedLogsNext
        /\ UNCHANGED <<configFileVars, logCtrlVars>>

MCSpec == MCInit /\ [][MCNext]_<<configFileVars, logCtrlVars, appendedLogsVars, part>>
================================================================================
