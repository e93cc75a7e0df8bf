------------------------------ MODULE Mailboxes ------------------------------
(***************************************************************************)
(* What rdklogctrl may rely on: a mailbox for every pid, opened at most    *)
(* once, that only the process with this pid empties, and that closes with *)
(* what is in it.  There are no sockets, no descriptors that a fork or an  *)
(* exec hands on, no threads and no mutexes.  ChannelProperties shows      *)
(* ControlChannel to implement this.                                       *)
(***************************************************************************)
EXTENDS Naturals

CONSTANT Addresses  (* the pids *)

VARIABLES
  state,    (* of the mailbox of each address: it can be opened only if new  *)
  waiting,  (* how many requests are in it                                   *)
  looking   (* the addresses whose mailbox each process is emptying          *)

vars == <<state, waiting, looking>>

Init ==
  /\ state = [a \in Addresses |-> "new"]
  /\ waiting = [a \in Addresses |-> 0]
  /\ looking = [a \in Addresses |-> {}]

Open(a) ==
  /\ state[a] = "new"
  /\ state' = [state EXCEPT ![a] = "open"]
  /\ UNCHANGED <<waiting, looking>>

(* A request is put into the mailbox it is addressed to and into no other. *)
Post(a) ==
  /\ state[a] = "open"
  /\ waiting' = [waiting EXCEPT ![a] = @ + 1]
  /\ UNCHANGED <<state, looking>>

(* Process a turns to its own mailbox, never to another. *)
Look(a) ==
  /\ state[a] = "open"
  /\ looking' = [looking EXCEPT ![a] = {a}]
  /\ UNCHANGED <<state, waiting>>

Take(a) ==
  /\ a \in looking[a] /\ waiting[a] > 0
  /\ waiting' = [waiting EXCEPT ![a] = @ - 1]
  /\ UNCHANGED <<state, looking>>

(* Process a turns away, and the mailboxes of the addresses in closed are gone
   for good; these may be its own and those of processes that ended before it,
   but none that somebody is emptying. *)
TurnAway(a, closed) ==
  /\ looking' = [looking EXCEPT ![a] = {}]
  /\ \A c \in closed : state[c] = "open" /\ \A b \in Addresses : c \notin looking'[b]
  /\ state' = [c \in Addresses |-> IF c \in closed THEN "gone" ELSE state[c]]
  /\ waiting' = [c \in Addresses |-> IF c \in closed THEN 0 ELSE waiting[c]]

Next ==
  \E a \in Addresses :
    \/ Open(a) \/ Post(a) \/ Look(a) \/ Take(a)
    \/ \E closed \in SUBSET Addresses : TurnAway(a, closed)

Spec == Init /\ [][Next]_vars
===============================================================================
