--------------------------- MODULE Log4cCategories ---------------------------
(***************************************************************************)
(* The part of log4c that the logger relies on: the tree of categories,    *)
(* the priority in force for a category, and the appenders that a message  *)
(* of a category reaches.  log4c is a library outside the repository; this *)
(* is what src/rdk_debug_priv.c uses of it.                                *)
(*                                                                         *)
(* log4c_category_get creates a category that is asked for the first time  *)
(* with no priority, no appender and additivity on.  That is also how a    *)
(* category nobody asked for behaves, so every category exists from the    *)
(* start here.                                                             *)
(***************************************************************************)
EXTENDS LogLevels, Sequences

CONSTANTS
  Categories, (* the names of modules, LOG.RDK among them                  *)
  Path        (* Path[c]: c, its parent, ... up to the topmost category    *)

ASSUME PathAssumption ==
  /\ Path \in [Categories -> Seq(Categories)]
  /\ \A c \in Categories : Path[c] # << >> /\ Path[c][1] = c

(* log4c_category_get_chainedpriority: the priority of the nearest category
   on the way up that has one. *)
ChainedPriority(priority, c) ==
  LET set == {i \in DOMAIN Path[c] : priority[Path[c][i]] # PriorityNotSet}
  IN  IF set = {} THEN PriorityNotSet
      ELSE priority[Path[c][CHOOSE i \in set : \A j \in set : i <= j]]

(* log4c_category_is_priority_enabled *)
IsPriorityEnabled(priority, c, p) == ChainedPriority(priority, c) >= p

(* log4c_category_vlog hands the event to the appender of every category on
   the way up, and stops behind the first that is not additive: the
   categories whose appender gets a message of c. *)
Receivers(appender, additive, c) ==
  {Path[c][i] : i \in {k \in DOMAIN Path[c] :
                         /\ appender[Path[c][k]]
                         /\ \A j \in 1..(k - 1) : additive[Path[c][j]]}}
==============================================================================
