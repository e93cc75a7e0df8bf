-------------------------------- MODULE MCOutputs --------------------------------
(***************************************************************************)
(* The constants of the TLC run of Outputs: a module and one whose name    *)
(* ends in a dot, four configurations, and messages of which one is empty, *)
(* one ends in a newline and one, too long for the first buffer, in two.   *)
(***************************************************************************)
EXTENDS Outputs

CONSTANTS mod, odd

MCModules == {mod, odd}
MCCategoryOf == [m \in MCModules |-> IF m = mod THEN <<"R", ".", "M">> ELSE <<"R", ".">>]

Config(output, format, file, countMax, sizeMax) ==
  [output |-> output, format |-> format, file |-> file, countMax |-> countMax,
   sizeMax |-> sizeMax]

MCConfigs ==
  {Config("console", DETAIL_WITH_TS, "none", 0, 0),
   Config("syslog", DETAIL_WITHOUT_TS + 1, "none", 0, 0),
   Config("file", DETAIL_WITHOUT_TS, "a.log", 2, 0),
   Config("file", WITH_TS_TID, "b.log", 2, 3)}

MCMessages ==
  {[level |-> 1, text |-> t] : t \in {<< >>, <<"x", NL>>, <<"x", "y", NL, NL>>}}
==================================================================================
