-------------------------------- MODULE Layouts --------------------------------
(***************************************************************************)
(* The layouts of src/rdk_debug_priv.c: how rdk_format_log renders an      *)
(* event into the buffer log4c gives it, growing the buffer when the line  *)
(* does not fit and removing the second of two newlines at its end.        *)
(*                                                                         *)
(* A line is a sequence of characters; a field whose width is fixed (the   *)
(* time, the level, the thread's identifier) counts as one.                *)
(***************************************************************************)
EXTENDS Naturals, SequencesExt

CONSTANTS
  InitialSize,     (* the size of the buffer log4c allocates for an event   *)
  MaxSize,         (* buf_maxsize: 0 if the buffer may grow                 *)
  ReallocMayFail

ASSUME LayoutAssumption ==
  /\ InitialSize \in Nat \ {0}
  /\ MaxSize \in {0, InitialSize}
  /\ ReallocMayFail \in BOOLEAN

NL == "\n"

(* rdk_LogFormat, and a value that is none of its members *)
PLAINTEXT == 0
WITH_TS == 1
WITH_TID == 2
WITH_TS_TID == 3
DETAIL_WITH_TS == 4
DETAIL_WITHOUT_TS == 5

Formats == PLAINTEXT..(DETAIL_WITHOUT_TS + 1)

VARIABLES
  event,   (* the event being rendered                                       *)
  buf,     (* buf_data: the characters before the terminating zero           *)
  size,    (* buf_size                                                       *)
  n,       (* what snprintf returned                                         *)
  stage,   (* "free", "print", "check" or "rendered"                         *)
  refused  (* history: realloc has failed for this event                     *)

layoutVars == <<event, buf, size, n, stage, refused>>

NoEvent == [format |-> PLAINTEXT, category |-> << >>, level |-> 0, msg |-> << >>]

LayoutInit ==
  /\ event = NoEvent
  /\ buf = << >> /\ size = InitialSize /\ n = 0
  /\ stage = "free" /\ refused = FALSE

(* Mutant: a value that is no format is kept. *)
LayoutOfAny(format) == format

(* The layout of an appender: log4crc ties the layouts' names to the functions
   rdk_plaintext, rdk_with_ts, ..., and each of those to a format. *)
LayoutOf(format) == IF format \in PLAINTEXT..DETAIL_WITHOUT_TS THEN format ELSE PLAINTEXT

(* getModuleName: what is behind the last dot of a category. *)
ModuleName(category) ==
  LET dots == {i \in DOMAIN category : category[i] = "."}
      from == IF dots = {} THEN 1 ELSE Max(dots) + 1
  IN  IF category = << >> \/ category[1] = "." \/ Last(category) = "."
      THEN <<"UNKNOWN">> ELSE SubSeq(category, from, Len(category))

Header(e) ==
  LET timed    == {WITH_TS, WITH_TS_TID, DETAIL_WITH_TS}
      detailed == {DETAIL_WITH_TS, DETAIL_WITHOUT_TS}
      threaded == {WITH_TID, WITH_TS_TID} \cup detailed
      field(yes, text) == IF yes THEN text ELSE << >>
  IN  field(e.format \in timed, <<"time">>) \o <<"level">>
        \o field(e.format \in detailed, ModuleName(e.category))
        \o field(e.format \in threaded, <<"tid">>)

(* What snprintf is asked to write. *)
Line(e) == Header(e) \o e.msg \o <<NL>>

StartRendering(e) ==
  /\ stage = "free"
  /\ event' = e
  /\ stage' = "print"
  /\ UNCHANGED <<buf, size, n, refused>>

(* snprintf cuts what it writes, not what it returns. *)
PrintLine ==
  /\ stage = "print"
  /\ n' = Len(Line(event))
  /\ buf' = SubSeq(Line(event), 1, Min({n', size - 1}))
  /\ stage' = "check"
  /\ UNCHANGED <<event, size, refused>>

(* Mutant: no room for the terminating zero. *)
GrowByOneLess ==
  /\ stage = "check" /\ n >= size /\ MaxSize = 0
  /\ size' = n
  /\ stage' = "print"
  /\ UNCHANGED <<event, buf, n, refused>>

(* The line did not fit and the buffer is made larger: once more. *)
Grow ==
  /\ stage = "check" /\ n >= size /\ MaxSize = 0
  /\ size' = n + 1
  /\ stage' = "print"
  /\ UNCHANGED <<event, buf, n, refused>>

(* The two newlines at the end of the buffer. *)
Redundant == n >= 2 /\ n < size /\ buf[n] = NL /\ buf[n - 1] = NL

(* Mutant: a line that fills the buffer is taken for one that fits. *)
FinishFull ==
  /\ stage = "check"
  /\ n > size => MaxSize # 0 \/ ReallocMayFail
  /\ refused' = (n > size /\ MaxSize = 0)
  /\ buf' = IF Redundant THEN SubSeq(buf, 1, n - 1) ELSE buf
  /\ stage' = "rendered"
  /\ UNCHANGED <<event, size, n>>

(* The line fits, may not grow, or realloc has failed. *)
Finish ==
  /\ stage = "check"
  /\ n >= size => MaxSize # 0 \/ ReallocMayFail
  /\ refused' = (n >= size /\ MaxSize = 0)
  /\ buf' = IF Redundant THEN SubSeq(buf, 1, n - 1) ELSE buf
  /\ stage' = "rendered"
  /\ UNCHANGED <<event, size, n>>

(* log4c frees the event with its buffer. *)
EndRendering ==
  /\ stage = "rendered"
  /\ event' = NoEvent /\ buf' = << >> /\ size' = InitialSize /\ n' = 0
  /\ stage' = "free" /\ refused' = FALSE

Rendering == PrintLine \/ Grow \/ Finish

-------------------------------------------------------------------------------
(* The line of an event: its header, its message and one newline, which may
   be the last character of the message. *)
WholeLine(e) ==
  Header(e) \o e.msg \o (IF e.msg # << >> /\ Last(e.msg) = NL THEN << >> ELSE <<NL>>)

(* If the buffer can grow, nothing of an event is cut off, and no newline is
   added to a message that ends in one, whatever the length of the line.
   Otherwise as much of it is there as the buffer holds: cutting loses the end
   of a line and nothing else. *)
Rendered ==
  stage = "rendered" =>
    LET line == WholeLine(event)
    IN  /\ buf = SubSeq(line, 1, Min({Len(line), size - 1}))
        /\ MaxSize = 0 /\ ~refused => buf = line

(* rdk_format_log calls itself at most once: the buffer it has made larger is
   large enough. *)
GrowsOnce == stage = "check" /\ size > InitialSize => n < size
================================================================================
