------------------------------ MODULE MCChannel ------------------------------
(***************************************************************************)
(* The constants of the TLC runs of ControlChannel.                        *)
(***************************************************************************)
EXTENDS ChannelProperties, TLC

AllCalls == CallKinds

LoggingCalls == {"init", "log"}

ChannelSymmetry ==
  Permutations(Pids) \cup Permutations(Slots) \cup Permutations(Sockets)
===============================================================================
