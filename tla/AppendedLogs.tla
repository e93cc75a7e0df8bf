------------------------------ MODULE AppendedLogs ------------------------------
(***************************************************************************)
(* The onboarding log of src/rdk_logger_onboard.c and the milestones of    *)
(* src/rdk_logger_milestone.c, with the programs of utils/ that call them: *)
(* several threads, of one process or of several, append lines to two      *)
(* files without a lock, and a marker file ends the onboarding log at any  *)
(* moment.                                                                 *)
(*                                                                         *)
(* A line shorter than the buffer of a FILE reaches the file in one write, *)
(* at its end, when fclose flushes it.  A message is a sequence of         *)
(* characters of which some are control characters; a field of fixed width *)
(* (the brackets, the separators) is left out.  That the threads of one    *)
(* process share the buffer of localtime is not modelled: time is read in  *)
(* one step.                                                               *)
(***************************************************************************)
EXTENDS Integers, SequencesExt

CONSTANTS
  Processes,     (* the threads that call, of one process or of several      *)
  Markers,       (* DEVICE_ONBOARDED and DISABLE_ONBOARDING                 *)
  Arguments,     (* the messages, some of them with control characters      *)
  NoText,        (* no message, no module                                   *)
  MaxBufSize,    (* MAX_BUF_SIZE                                            *)
  MaxCalls,      (* bound: the calls of each thread                         *)
  MaxTime        (* bound: the clock                                        *)

EOL == "\n"
ControlCharacters == {EOL, "\r"}

ASSUME AppendedLogsAssumption ==
  /\ Markers \subseteq {"onboarded", "disabled"}
  /\ NoText \notin Arguments /\ Arguments \subseteq Seq(STRING)
  /\ MaxBufSize \in Nat \ {0} /\ MaxCalls \in Nat /\ MaxTime \in Nat

VARIABLES
  now,         (* the clock                                                 *)
  markers,     (* the marker files that exist                               *)
  onboarding,  (* OnBoardingLog.txt.0: its lines                            *)
  milestones,  (* rdk_milestones.log                                        *)
  at,          (* where each thread is                                      *)
  line,        (* the line it is about to write                             *)
  made,        (* how many calls it has made                                *)
  late         (* history: the lines a thread wrote after a marker appeared *)

appendedLogsVars == <<now, markers, onboarding, milestones, at, line, made, late>>

NoLine == [process |-> NoText, number |-> 0, time |-> 0, module |-> NoText, text |-> << >>,
           before |-> 0]

AppendedLogsInit ==
  /\ now = 0 /\ markers = {}
  /\ onboarding = << >> /\ milestones = << >>
  /\ at = [p \in Processes |-> "idle"]
  /\ line = [p \in Processes |-> NoLine]
  /\ made = [p \in Processes |-> 0]
  /\ late = [p \in Processes |-> 0]

Move(p, label) == at' = [at EXCEPT ![p] = label]

Done(p) == Move(p, "idle") /\ line' = [line EXCEPT ![p] = NoLine]

(* The call number made[p] of thread p has these arguments. *)
Called(p, module, text) ==
  /\ at[p] = "idle" /\ made[p] < MaxCalls
  /\ made' = [made EXCEPT ![p] = @ + 1]
  /\ line' = [line EXCEPT ![p] =
       [process |-> p, number |-> made[p] + 1, time |-> 0, module |-> module, text |-> text,
        before |-> Len(milestones)]]
  /\ UNCHANGED <<now, markers, onboarding, milestones, late>>

-------------------------------------------------------------------------------
(* rdk_logger_log_onboard *)

(* A program's call, or one of rdk_logger_onboard_main, whose format adds a
   newline and whose module may be missing. *)
CallOnboard(p) ==
  \E module \in Arguments \cup {NoText}, text \in Arguments :
    Called(p, module, Append(text, EOL)) /\ Move(p, "marker 1")

(* Mutant: only the first marker is looked at. *)
SeeOneMarker(p) ==
  /\ at[p] \in {"marker 1", "marker 2"}
  /\ IF "onboarded" \in markers THEN Done(p) ELSE Move(p, "format") /\ UNCHANGED line
  /\ UNCHANGED <<now, markers, onboarding, milestones, made, late>>

(* access, of one marker after the other *)
SeeMarker(p) ==
  /\ at[p] \in {"marker 1", "marker 2"}
  /\ IF (IF at[p] = "marker 1" THEN "onboarded" ELSE "disabled") \in markers
     THEN Done(p)
     ELSE /\ Move(p, IF at[p] = "marker 1" THEN "marker 2" ELSE "format")
          /\ UNCHANGED line
  /\ UNCHANGED <<now, markers, onboarding, milestones, made, late>>

(* Mutant: only the carriage return is replaced. *)
SanitizeReturn(s) == [i \in DOMAIN s |-> IF s[i] = "\r" THEN " " ELSE s[i]]

(* sanitize_log_message *)
Sanitize(s) == [i \in DOMAIN s |-> IF s[i] \in ControlCharacters THEN " " ELSE s[i]]

(* Mutant: the last character of the buffer is no zero. *)
CutFull(s) == SubSeq(s, 1, Min({Len(s), MaxBufSize}))

(* What vsnprintf leaves in a buffer of MAX_BUF_SIZE. *)
Cut(s) == SubSeq(s, 1, Min({Len(s), MaxBufSize - 1}))

(* The time, then the message and the module. *)
Format(p) ==
  /\ at[p] = "format"
  /\ line' = [line EXCEPT ![p].time = now,
                          ![p].text = Sanitize(Cut(@)),
                          ![p].module = IF @ = NoText THEN NoText ELSE Sanitize(Cut(@))]
  /\ Move(p, "write")
  /\ UNCHANGED <<now, markers, onboarding, milestones, made, late>>

(* fopen, fprintf, fclose; when the file cannot be opened the line goes to the
   console. *)
WriteOnboard(p) ==
  /\ at[p] = "write"
  /\ onboarding' \in {onboarding, Append(onboarding, line[p])}
  /\ late' = [late EXCEPT ![p] = IF markers = {} THEN @ ELSE @ + 1]
  /\ Done(p)
  /\ UNCHANGED <<now, markers, milestones, made>>

-------------------------------------------------------------------------------
(* logMilestone *)

CallMilestone(p) ==
  \E text \in Arguments : Called(p, NoText, text) /\ Move(p, "open")

(* Mutant: milliseconds in 32 bits start again at 0. *)
UptimeMSWrapped(time) == time % 2

(* getUptimeMS: 64 bits of milliseconds *)
UptimeMS(time) == time

(* fopen succeeds, then getUptimeMS; or nothing is written at all. *)
OpenMilestones(p) ==
  /\ at[p] = "open"
  /\ \/ Move(p, "append") /\ line' = [line EXCEPT ![p].time = UptimeMS(now)]
     \/ Done(p)
  /\ UNCHANGED <<now, markers, onboarding, milestones, made, late>>

AppendMilestone(p) ==
  /\ at[p] = "append"
  /\ milestones' = Append(milestones, line[p])
  /\ Done(p)
  /\ UNCHANGED <<now, markers, onboarding, made, late>>

-------------------------------------------------------------------------------
(* The rest of the system. *)

Tick ==
  /\ now < MaxTime
  /\ now' = now + 1
  /\ UNCHANGED <<markers, onboarding, milestones, at, line, made, late>>

Mark(m) ==
  /\ markers' = markers \cup {m}
  /\ UNCHANGED <<now, onboarding, milestones, at, line, made, late>>

Step(p) ==
  \/ CallOnboard(p) \/ SeeMarker(p) \/ Format(p) \/ WriteOnboard(p)
  \/ CallMilestone(p) \/ OpenMilestones(p) \/ AppendMilestone(p)

AppendedLogsNext == (\E p \in Processes : Step(p)) \/ Tick \/ (\E m \in Markers : Mark(m))

AppendedLogsSpec == AppendedLogsInit /\ [][AppendedLogsNext]_appendedLogsVars

-------------------------------------------------------------------------------
(* In particular the lines of the onboarding log fit into its buffers. *)
AppendedLogsTypeOK ==
  /\ now \in 0..MaxTime /\ markers \subseteq Markers
  /\ at \in [Processes -> {"idle", "marker 1", "marker 2", "format", "write", "open", "append"}]
  /\ made \in [Processes -> 0..MaxCalls] /\ late \in [Processes -> 0..MaxCalls]
  /\ \A i \in DOMAIN onboarding : Len(onboarding[i].text) < MaxBufSize

(* A call adds one line to the onboarding log at most, whatever its message and
   its module contain: no line can be made to look like two. *)
OneLinePerCall ==
  \A i \in DOMAIN onboarding :
    /\ ToSet(onboarding[i].text) \cap ControlCharacters = {}
    /\ onboarding[i].module # NoText => ToSet(onboarding[i].module) \cap ControlCharacters = {}
    /\ \A j \in DOMAIN onboarding :
         i # j => <<onboarding[i].process, onboarding[i].number>>
                    # <<onboarding[j].process, onboarding[j].number>>

(* Once a marker has appeared, a thread adds at most the one line that it was
   already past the test with: a process of several threads, one line for each. *)
LateOnce == \A p \in Processes : late[p] <= 1

(* Milestones of concurrent calls may stand in any order, but the times tell
   the truth: one that was in the file when a call began has no later time. *)
MilestonesInOrder ==
  \A i, j \in DOMAIN milestones :
    i <= milestones[j].before => milestones[i].time <= milestones[j].time
=================================================================================
