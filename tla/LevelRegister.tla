------------------------------ MODULE LevelRegister ------------------------------
(***************************************************************************)
(* What a client may rely on that logs after a successful rdk_logger_init: *)
(* a level for every module and a default, and messages of which each is   *)
(* judged in one instant by the level its module has at that instant.      *)
(* There are no mutexes, no lazy inheritance, no sockets and no files.     *)
(* LoggerProperties shows LoggerCore to implement this.                    *)
(***************************************************************************)
EXTENDS Log4cCategories

CONSTANT Clients  (* the threads that log *)

VARIABLES
  given,    (* the priority every module was given last; PriorityNotSet if
               it was given none                                            *)
  default,  (* that of the modules without one                              *)
  ready,    (* the logger is initialised                                    *)
  decided   (* the messages on which a decision has just been made, and it  *)

vars == <<given, default, ready, decided>>

Init ==
  /\ given = [c \in Categories |-> PriorityNotSet]
  /\ default = LevelToPriority(WARN)
  /\ ready = FALSE
  /\ decided = [t \in Clients |-> {}]

(* debug.ini, the client or a control request gives a module a level. *)
Give(c, p) ==
  /\ given' = [given EXCEPT ![c] = p]
  /\ UNCHANGED <<default, ready, decided>>

(* The default is known before the first message. *)
SetDefault(p) ==
  /\ ~ready
  /\ default' = p
  /\ UNCHANGED <<given, ready, decided>>

BecomeReady ==
  /\ ready' = TRUE
  /\ UNCHANGED <<given, default, decided>>

(* The priority in force for a module.  Its parents count only if nothing has
   set a default. *)
Meant(c) ==
  IF given[c] # PriorityNotSet THEN given[c]
  ELSE IF default # PriorityNotSet THEN default
  ELSE ChainedPriority(given, c)

Decide(t, c, level) ==
  /\ ready /\ decided[t] = {}
  /\ decided' = [decided EXCEPT ![t] =
       {[cat |-> c, level |-> level,
         printed |-> LevelToPriority(level) <= Meant(c)]}]
  /\ UNCHANGED <<given, default, ready>>

Forget(t) ==
  /\ decided' = [decided EXCEPT ![t] = {}]
  /\ UNCHANGED <<given, default, ready>>

Next ==
  \/ \E c \in Categories, p \in Priorities : Give(c, p)
  \/ \E p \in Priorities : SetDefault(p)
  \/ BecomeReady
  \/ \E t \in Clients :
       Forget(t) \/ \E c \in Categories, level \in FATAL..TRACE : Decide(t, c, level)

Spec == Init /\ [][Next]_vars
==================================================================================
