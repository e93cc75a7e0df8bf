----------------------------- MODULE OutputProofs -----------------------------
(***************************************************************************)
(* Layouts and Outputs, for all sizes of the buffer, messages, categories, *)
(* configurations and addresses.                                           *)
(***************************************************************************)
EXTENDS Outputs, SequenceLemmas

(***************************************************************************)
(* Lines.                                                                  *)
(***************************************************************************)

(* What lines are made of. *)
Glyphs == STRING \cup {NL, "time", "level", "tid", "UNKNOWN"}

Events ==
  [format : Formats, category : Seq(STRING), level : Nat, msg : Seq(STRING)]

(* What is behind the last dot is part of the category. *)
LEMMA ModuleNameType ==
  ASSUME NEW category \in Seq(STRING)
  PROVE  ModuleName(category) \in Seq(Glyphs)
  <1> DEFINE dots == {i \in DOMAIN category : category[i] = "."}
             from == IF dots = {} THEN 1 ELSE Max(dots) + 1
  <1>1. Len(category) \in Nat /\ DOMAIN category = 1..Len(category)
    BY LenProperties
  <1>2. from \in Nat /\ from >= 1
    <2>1. dots \in SUBSET (0..Len(category))
      BY <1>1
    <2>2. dots # {} => Max(dots) \in dots
      BY <1>1, <2>1, MaxOfSet
    <2>3. QED
      BY <1>1, <2>1, <2>2
  <1>3. \A i \in from..Len(category) : category[i] \in Glyphs
    <2>1. \A i \in 1..Len(category) : category[i] \in STRING
      BY ElementOfSeq
    <2>2. QED
      BY <1>1, <1>2, <2>1 DEF Glyphs
  <1>4. SubSeq(category, from, Len(category)) \in Seq(Glyphs)
    BY <1>1, <1>2, <1>3, SubSeqProperties
  <1>5. <<"UNKNOWN">> \in Seq(Glyphs)
    BY DEF Glyphs
  <1>6. QED
    BY <1>4, <1>5 DEF ModuleName

(* No line begins with its message, and no header ends in a newline. *)
LEMMA HeaderShape ==
  ASSUME NEW e \in Events
  PROVE  /\ Header(e) \in Seq(Glyphs)
         /\ Len(Header(e)) \in Nat \ {0}
         /\ Last(Header(e)) # NL
  <1> DEFINE timed    == {WITH_TS, WITH_TS_TID, DETAIL_WITH_TS}
             detailed == {DETAIL_WITH_TS, DETAIL_WITHOUT_TS}
             threaded == {WITH_TID, WITH_TS_TID} \cup detailed
             field(yes, text) == IF yes THEN text ELSE << >>
             time   == field(e.format \in timed, <<"time">>)
             level  == <<"level">>
             module == field(e.format \in detailed, ModuleName(e.category))
             tid    == field(e.format \in threaded, <<"tid">>)
  <1>1. /\ <<"time">> \in Seq(Glyphs) /\ <<"level">> \in Seq(Glyphs)
        /\ <<"tid">> \in Seq(Glyphs) /\ << >> \in Seq(Glyphs)
    BY DEF Glyphs
  <1>2. ModuleName(e.category) \in Seq(Glyphs)
    BY ModuleNameType DEF Events
  <1>3. time \in Seq(Glyphs) /\ module \in Seq(Glyphs) /\ tid \in Seq(Glyphs)
    BY <1>1, <1>2
  <1>4. Header(e) = ((time \o level) \o module) \o tid
    BY DEF Header
  <1>5. e.format \in detailed => tid = <<"tid">>
    OBVIOUS
  <1>6. e.format \notin detailed => module = << >>
    OBVIOUS
  <1>7. tid = <<"tid">> \/ tid = << >>
    OBVIOUS
  <1> HIDE DEF timed, detailed, threaded, time, module, tid
  <1>8. /\ time \o level \in Seq(Glyphs) /\ Len(time \o level) = Len(time) + 1
        /\ (time \o level)[Len(time) + 1] = "level" /\ Len(time) \in Nat
    BY <1>1, <1>3, ConcatProperties, LenProperties
  <1> DEFINE front == (time \o level) \o module
  <1>9. /\ front \in Seq(Glyphs) /\ Len(front) = Len(time) + 1 + Len(module)
        /\ Len(module) \in Nat
        /\ module = << >> => front = time \o level
    BY <1>3, <1>8, ConcatProperties, ConcatEmptySeq, LenProperties
  <1> HIDE DEF front
  <1>10. CASE tid = <<"tid">>
    <2>1. /\ front \o <<"tid">> \in Seq(Glyphs) /\ Len(front) \in Nat
          /\ Len(front \o <<"tid">>) = Len(front) + 1
          /\ (front \o <<"tid">>)[Len(front) + 1] = "tid"
      <3>1. "tid" \in Glyphs
        BY DEF Glyphs
      <3>2. QED
        BY <1>9, <3>1, OneMore
    <2>2. Header(e) = front \o <<"tid">>
      BY <1>4, <1>10 DEF front
    <2>3. QED
      BY <2>1, <2>2 DEF Last, NL
  <1>11. CASE tid = << >>
    <2>1. front \o << >> = front
      BY <1>9, ConcatEmptySeq
    <2>2. tid # <<"tid">>
      BY <1>11
    <2>3. front = time \o level
      BY <1>5, <1>6, <1>9, <2>2
    <2>4. Header(e) = time \o level
      BY <1>4, <1>11, <2>1, <2>3 DEF front
    <2>5. QED
      BY <1>8, <2>4 DEF Last, NL
  <1>12. QED
    BY <1>7, <1>10, <1>11

(* The message stands between the header and the newline. *)
LEMMA LineShape ==
  ASSUME NEW e \in Events
  PROVE  /\ Line(e) \in Seq(Glyphs)
         /\ Len(e.msg) \in Nat
         /\ Len(Line(e)) = Len(Header(e)) + Len(e.msg) + 1
         /\ Line(e)[Len(Line(e))] = NL
         /\ Line(e)[Len(Line(e)) - 1]
              = IF e.msg = << >> THEN Last(Header(e)) ELSE Last(e.msg)
         /\ WholeLine(e)
              = IF e.msg # << >> /\ Last(e.msg) = NL
                THEN SubSeq(Line(e), 1, Len(Line(e)) - 1) ELSE Line(e)
  <1> DEFINE h == Header(e)
             front == h \o e.msg
  <1>1. h \in Seq(Glyphs) /\ Len(h) \in Nat \ {0}
    BY HeaderShape
  <1>2. e.msg \in Seq(Glyphs) /\ <<NL>> \in Seq(Glyphs)
    <2>1. e.msg \in Seq(STRING) /\ STRING \subseteq Glyphs
      BY DEF Events, Glyphs
    <2>2. QED
      BY <2>1, SeqMonotonic DEF Glyphs
  <1>3. Len(e.msg) \in Nat /\ (e.msg # << >> => Len(e.msg) # 0)
    BY <1>2, LenProperties, EmptySeq
  <1>4. /\ front \in Seq(Glyphs) /\ Len(front) = Len(h) + Len(e.msg)
        /\ \A i \in 1..(Len(h) + Len(e.msg)) :
             front[i] = IF i <= Len(h) THEN h[i] ELSE e.msg[i - Len(h)]
    BY <1>1, <1>2, ConcatProperties
  <1>5. Line(e) = front \o <<NL>>
    BY DEF Line
  <1> HIDE DEF h, front
  <1>6. /\ Line(e) \in Seq(Glyphs) /\ Len(Line(e)) = Len(front) + 1
        /\ Line(e)[Len(front) + 1] = NL
        /\ \A i \in 1..Len(front) : Line(e)[i] = front[i]
    <2>1. NL \in Glyphs
      BY DEF Glyphs
    <2>2. QED
      BY <1>4, <1>5, <2>1, OneMore
  <1>7. Len(front) \in Nat \ {0}
    BY <1>1, <1>3, <1>4
  <1>8. front[Len(front)] = IF e.msg = << >> THEN h[Len(h)] ELSE e.msg[Len(e.msg)]
    <2>1. CASE e.msg = << >>
      BY <1>1, <1>4, <2>1
    <2>2. CASE e.msg # << >>
      BY <1>1, <1>3, <1>4, <2>2
    <2>3. QED
      BY <2>1, <2>2
  <1>9. Line(e)[Len(front)] = front[Len(front)]
    BY <1>6, <1>7
  <1>10. SubSeq(Line(e), 1, Len(front)) = front
    <2>1. Len(front) \in 1..Len(front) /\ 1 \in 1..Len(front)
      BY <1>1, <1>3, <1>4
    <2>2. QED
      BY <1>2, <1>4, <1>5, <2>1, SubSeqOfConcat1, SubSeqFull
  <1>11. front \o << >> = front
    BY <1>4, ConcatEmptySeq
  <1>12. WholeLine(e) = IF e.msg # << >> /\ Last(e.msg) = NL THEN front ELSE Line(e)
    BY <1>5, <1>11 DEF WholeLine, h, front
  <1>13. Len(Line(e)) - 1 = Len(front)
    BY <1>1, <1>3, <1>4, <1>6
  <1>14. QED
    BY <1>1, <1>3, <1>4, <1>6, <1>7, <1>8, <1>9, <1>10, <1>12, <1>13 DEF Last, h

(***************************************************************************)
(* Layouts.                                                                *)
(***************************************************************************)

(* What one event's buffer holds after snprintf. *)
Printed == n = Len(Line(event)) /\ buf = SubSeq(Line(event), 1, Min({n, size - 1}))

(* Either the buffer has the size log4c has given it, or it has been made large
   enough for the event that is rendered now. *)
LayoutInv ==
  /\ stage \in {"free", "print", "check", "rendered"}
  /\ event \in Events
  /\ size \in Nat \ {0} /\ n \in Nat /\ refused \in BOOLEAN
  /\ \/ size = InitialSize
     \/ stage # "free" /\ MaxSize = 0 /\ size = Len(Line(event)) + 1
  /\ stage = "check" => Printed
  /\ Rendered

(* Between two messages there is an event as well. *)
LEMMA NoEventType == NoEvent \in Events
  <1>1. << >> \in Seq(STRING)
    BY EmptySeq
  <1>2. QED
    BY <1>1 DEF NoEvent, Events, Formats, PLAINTEXT, DETAIL_WITHOUT_TS

(* At the start nothing is rendered and the buffer has its first size. *)
LEMMA LayoutInvInit == LayoutInit => LayoutInv
  <1> SUFFICES ASSUME LayoutInit PROVE LayoutInv
    OBVIOUS
  <1>1. stage = "free" /\ event \in Events /\ size = InitialSize /\ n = 0
    BY NoEventType DEF LayoutInit
  <1>2. refused \in BOOLEAN
    BY DEF LayoutInit
  <1>3. QED
    BY <1>1, <1>2, LayoutAssumption DEF LayoutInv, Rendered

(* An event is rendered from the buffer log4c allocates. *)
LEMMA StartStep ==
  ASSUME LayoutInv, NEW e \in Events, StartRendering(e)
  PROVE  LayoutInv'
  BY DEF LayoutInv, StartRendering, Rendered

(* snprintf leaves the beginning of the line, and returns its length. *)
LEMMA PrintStep == LayoutInv /\ PrintLine => LayoutInv'
  <1> SUFFICES ASSUME LayoutInv, PrintLine PROVE LayoutInv'
    OBVIOUS
  <1>1. Len(Line(event)) \in Nat
    BY LineShape, LenProperties DEF LayoutInv
  <1>2. QED
    BY <1>1 DEF LayoutInv, PrintLine, Printed, Rendered

(* snprintf has returned the length of the line, so the new buffer holds it. *)
LEMMA GrowStep == LayoutInv /\ Grow => LayoutInv'
  BY DEF LayoutInv, Grow, Printed, Rendered

(* Whatever was cut off, the buffer holds the beginning of the whole line. *)
LEMMA FinishStep == LayoutInv /\ Finish => LayoutInv'
  <1> SUFFICES ASSUME LayoutInv, Finish PROVE LayoutInv'
    OBVIOUS
  <1> DEFINE line  == Line(event)
             whole == WholeLine(event)
             ended == event.msg # << >> /\ Last(event.msg) = NL
  <1>1. event \in Events /\ Printed /\ n \in Nat /\ size \in Nat \ {0}
    BY DEF LayoutInv, Finish
  <1>2. /\ line \in Seq(Glyphs) /\ n = Len(line) /\ n >= 2
        /\ line[n] = NL
        /\ line[n - 1] = IF event.msg = << >> THEN Last(Header(event)) ELSE Last(event.msg)
        /\ whole = IF ended THEN SubSeq(line, 1, n - 1) ELSE line
    BY <1>1, LineShape, HeaderShape DEF Printed
  <1>3. line[n - 1] = NL <=> ended
    BY <1>1, <1>2, HeaderShape
  <1>4. /\ buf = SubSeq(line, 1, Min({n, size - 1}))
        /\ UNCHANGED <<event, size, n>> /\ stage' = "rendered"
        /\ refused' = (n >= size /\ MaxSize = 0)
        /\ buf' = IF Redundant THEN SubSeq(buf, 1, n - 1) ELSE buf
    BY <1>1 DEF Finish, Printed
  <1> HIDE DEF line, whole, ended
  <1>5. Min({n, size - 1}) = IF n <= size - 1 THEN n ELSE size - 1
    BY <1>1, MinOfTwo
  <1>6. SubSeq(line, 1, n) = line
    BY <1>2, SubSeqFull
  <1>7. /\ Len(SubSeq(line, 1, n - 1)) = n - 1
        /\ SubSeq(line, 1, n - 1) \in Seq(Glyphs)
    BY <1>1, <1>2, BeginningOf
  <1>8. whole \in Seq(Glyphs) /\ Len(whole) = IF ended THEN n - 1 ELSE n
    BY <1>2, <1>7
  <1>9. Min({Len(whole), size - 1}) = IF Len(whole) <= size - 1 THEN Len(whole) ELSE size - 1
    BY <1>1, <1>2, <1>8, MinOfTwo
  <1>10. SubSeq(whole, 1, Len(whole)) = whole
    BY <1>8, SubSeqFull
  <1>11. CASE n < size
    <2>1. buf = line
      <3>1. Min({n, size - 1}) = n
        BY <1>1, <1>5, <1>11
      <3>2. QED
        BY <1>4, <1>6, <3>1
    <2>2. Redundant <=> ended
      BY <1>2, <1>3, <1>11, <2>1 DEF Redundant
    <2>3. buf' = whole
      BY <1>2, <1>4, <2>1, <2>2
    <2>4. Len(whole) <= size - 1
      BY <1>1, <1>2, <1>8, <1>11
    <2>5. buf' = SubSeq(whole, 1, Min({Len(whole), size - 1}))
      BY <1>9, <1>10, <2>3, <2>4
    <2>6. QED
      BY <1>4, <2>3, <2>5 DEF LayoutInv, Rendered, whole
  <1>12. CASE n >= size
    <2>1. ~Redundant
      BY <1>1, <1>12 DEF Redundant
    <2>2. buf' = SubSeq(line, 1, size - 1)
      <3>1. Min({n, size - 1}) = size - 1
        BY <1>1, <1>5, <1>12
      <3>2. buf' = buf
        BY <1>4, <2>1
      <3>3. QED
        BY <1>4, <3>1, <3>2
    <2>3. Len(whole) >= size - 1
      BY <1>1, <1>2, <1>8, <1>12
    <2>4. Min({Len(whole), size - 1}) = size - 1
      BY <1>1, <1>2, <1>8, <1>9, <2>3
    <2>5. SubSeq(whole, 1, size - 1) = SubSeq(line, 1, size - 1)
      BY <1>1, <1>2, <1>12, BeginningOfBeginning
    <2>6. buf' = SubSeq(whole, 1, Min({Len(whole), size - 1}))
      BY <2>2, <2>4, <2>5
    <2>7. MaxSize = 0 => refused'
      BY <1>4, <1>12
    <2>8. QED
      BY <1>4, <2>6, <2>7 DEF LayoutInv, Rendered, whole
  <1>13. QED
    BY <1>1, <1>11, <1>12

(* The next event gets a buffer of the first size again. *)
LEMMA EndStep == LayoutInv /\ EndRendering => LayoutInv'
  <1> SUFFICES ASSUME LayoutInv, EndRendering PROVE LayoutInv'
    OBVIOUS
  <1>1. stage' = "free" /\ event' \in Events /\ size' = InitialSize /\ n' = 0
    BY NoEventType DEF EndRendering
  <1>2. refused' \in BOOLEAN
    BY DEF EndRendering
  <1>3. QED
    BY <1>1, <1>2, LayoutAssumption DEF LayoutInv, Rendered

(* What is not about the layouts leaves the buffer alone. *)
LEMMA LayoutStutter == LayoutInv /\ UNCHANGED layoutVars => LayoutInv'
  <1> SUFFICES ASSUME LayoutInv, UNCHANGED layoutVars PROVE LayoutInv'
    OBVIOUS
  <1>1. UNCHANGED <<event, buf, size, n, stage, refused>>
    BY DEF layoutVars
  <1>2. Rendered'
    BY <1>1, Zenon DEF LayoutInv, Rendered
  <1>3. QED
    BY <1>1, <1>2 DEF LayoutInv, Printed

(* One of the steps of rdk_format_log. *)
LEMMA RenderingStep == LayoutInv /\ Rendering => LayoutInv'
  BY PrintStep, GrowStep, FinishStep DEF Rendering

(***************************************************************************)
(* Appenders.                                                              *)
(***************************************************************************)

FileOf(m) == <<m, "file">>
PrintOf(m) == <<m, "print">>

AppenderTypes ==
  /\ own \in [Modules -> Appenders \cup {NULL}]
  /\ type \in [Appenders -> OutputKinds \cup {"stream"}]
  /\ isopen \in [Appenders -> BOOLEAN]
  /\ udata \in [Appenders -> Memory \cup {NULL, Stdout}]
  /\ layout \in [Appenders -> PLAINTEXT..DETAIL_WITHOUT_TS]
  /\ limits \in [Modules -> Int]
  /\ logging \in Modules \cup {NULL}
  /\ configured \in [Modules -> Configs \cup {NULL}]
  /\ \A s \in streams : s.udata \in Memory

(* A module's two appenders never take each other's kind of output: only the
   one for files has user data that was allocated. *)
KindsApart ==
  \A m \in Modules :
    /\ type[FileOf(m)] \in {"stream", "file"} /\ type[PrintOf(m)] # "file"
    /\ udata[FileOf(m)] \in Memory \cup {NULL} /\ udata[PrintOf(m)] \in {NULL, Stdout}

(* No two file appenders share user data, and what is allocated is in use. *)
UdataOwned ==
  /\ \A m, o \in Modules :
       udata[FileOf(m)] # NULL /\ udata[FileOf(m)] = udata[FileOf(o)] => m = o
  /\ \A u \in Memory : heap[u] # NULL <=> \E m \in Modules : udata[FileOf(m)] = u

(* The appender of a module is what the last configuration made of it. *)
AsConfigured ==
  \A m \in Modules : own[m] # NULL =>
    LET c == configured[m]
    IN  /\ c \in Configs
        /\ own[m] = IF c.output = "file" THEN FileOf(m) ELSE PrintOf(m)
        /\ type[own[m]] = c.output /\ layout[own[m]] = LayoutOf(c.format)
        /\ c.output = "file" /\ udata[FileOf(m)] # NULL => heap[udata[FileOf(m)]] = c.file

(* An open appender with user data has its file open. *)
OpenHasStream ==
  \A m \in Modules :
    type[FileOf(m)] = "file" /\ isopen[FileOf(m)] /\ udata[FileOf(m)] # NULL =>
      [udata |-> udata[FileOf(m)], file |-> heap[udata[FileOf(m)]]] \in streams

(* The message on its way was given to the appender its module has. *)
OnItsWay ==
  /\ logging = NULL <=> stage = "free"
  /\ logging # NULL =>
       own[logging] # NULL /\ isopen[own[logging]] /\ event.format = layout[own[logging]]

OutputInv ==
  /\ LayoutInv /\ AppenderTypes /\ KindsApart /\ UdataOwned /\ AsConfigured
  /\ StreamsOwned /\ OpenHasStream /\ OnItsWay /\ LimitsPositive
(* Appenders are told apart by their modules and their kinds. *)
LEMMA AppenderFacts ==
  /\ \A m \in Modules : FileOf(m) \in Appenders /\ PrintOf(m) \in Appenders
  /\ \A m, o \in Modules :
       /\ FileOf(m) # PrintOf(o)
       /\ FileOf(m) = FileOf(o) => m = o
       /\ PrintOf(m) = PrintOf(o) => m = o
  /\ \A a \in Appenders : \E m \in Modules : a = FileOf(m) \/ a = PrintOf(m)
  BY DEF FileOf, PrintOf, Appenders

(* A value that is no format is taken for PLAINTEXT. *)
LEMMA LayoutOfType ==
  ASSUME NEW format
  PROVE  LayoutOf(format) \in PLAINTEXT..DETAIL_WITHOUT_TS
  BY DEF LayoutOf, PLAINTEXT, DETAIL_WITHOUT_TS

(* Nothing is open or allocated at the start. *)
LEMMA OutputInvInit == Init => OutputInv
  <1> SUFFICES ASSUME Init PROVE OutputInv
    OBVIOUS
  <1>1. LayoutInv /\ stage = "free"
    BY LayoutInvInit DEF Init, LayoutInit
  <1>2. AppenderTypes
    <2>1. PLAINTEXT \in PLAINTEXT..DETAIL_WITHOUT_TS /\ DefaultSize \in Int
      BY OutputAssumption DEF PLAINTEXT, DETAIL_WITHOUT_TS
    <2>2. QED
      BY <2>1 DEF Init, AppenderTypes
  <1>3. KindsApart
    BY AppenderFacts, OutputAssumption DEF Init, KindsApart
  <1>4. UdataOwned
    BY AppenderFacts, OutputAssumption DEF Init, UdataOwned
  <1>5. AsConfigured /\ StreamsOwned
    BY DEF Init, AsConfigured, StreamsOwned
  <1>6. OpenHasStream
    BY AppenderFacts DEF Init, OpenHasStream
  <1>7. OnItsWay
    BY <1>1 DEF Init, OnItsWay
  <1>8. LimitsPositive
    BY OutputAssumption DEF Init, LimitsPositive
  <1>9. QED
    BY <1>1, <1>2, <1>3, <1>4, <1>5, <1>6, <1>7, <1>8 DEF OutputInv

(* An output other than FILE touches the appender for the others only. *)
LEMMA ExtInitPrintStep ==
  ASSUME OutputInv, NEW m \in Modules, NEW config \in Configs, ExtInitPrint(m, config)
  PROVE  OutputInv'
  <1>1. /\ LayoutInv /\ AppenderTypes /\ KindsApart /\ UdataOwned /\ AsConfigured
        /\ StreamsOwned /\ OpenHasStream /\ OnItsWay /\ LimitsPositive
    BY DEF OutputInv
  <1>2. /\ logging = NULL /\ config.output # "file"
        /\ own' = [own EXCEPT ![m] = PrintOf(m)]
        /\ type' = [type EXCEPT ![PrintOf(m)] = config.output]
        /\ layout' = [layout EXCEPT ![PrintOf(m)] = LayoutOf(config.format)]
        /\ configured' = [configured EXCEPT ![m] = config]
        /\ UNCHANGED <<layoutVars, isopen, udata, heap, streams, limits, logging>>
    BY DEF ExtInitPrint, Attach, PrintOf
  <1>3. config.output \in OutputKinds
    BY OutputAssumption
  <1>4. LayoutInv'
    BY <1>1, <1>2, LayoutStutter
  <1>5. AppenderTypes'
    BY <1>1, <1>2, <1>3, AppenderFacts, LayoutOfType DEF AppenderTypes
  <1>6. KindsApart'
    BY <1>1, <1>2, AppenderFacts DEF KindsApart, AppenderTypes
  <1>7. UdataOwned'
    BY <1>1, <1>2 DEF UdataOwned
  <1>8. AsConfigured'
    BY <1>1, <1>2, AppenderFacts DEF AsConfigured, AppenderTypes
  <1>9. StreamsOwned'
    BY <1>1, <1>2 DEF StreamsOwned
  <1>10. OpenHasStream'
    BY <1>1, <1>2, AppenderFacts DEF OpenHasStream, AppenderTypes
  <1>11. OnItsWay'
    BY <1>1, <1>2 DEF OnItsWay, layoutVars
  <1>12. LimitsPositive'
    BY <1>1, <1>2 DEF LimitsPositive
  <1>13. QED
    BY <1>4, <1>5, <1>6, <1>7, <1>8, <1>9, <1>10, <1>11, <1>12 DEF OutputInv
(* A size that fits into a long is stored as it is. *)
LEMMA MaxBytesPositive ==
  ASSUME NEW v \in Int
  PROVE  MaxBytes(v) \in Int /\ (v <= LongMax => MaxBytes(v) > 0)
  <1> DEFINE w == IF v > 0 THEN v ELSE DefaultSize
             half == LongMax + 1
  <1>1. LongMax \in Nat /\ DefaultSize \in 1..LongMax
    BY OutputAssumption
  <1>2. half \in Nat \ {0} /\ 2 * half \in Nat \ {0} /\ w + half \in Int
    BY <1>1
  <1>3. MaxBytes(v) = ((w + half) % (2 * half)) - half
    BY DEF MaxBytes, AsLong
  <1>4. (w + half) % (2 * half) \in Int
    BY <1>2
  <1>5. v <= LongMax => w + half \in 0..(2 * half - 1) /\ w > 0
    BY <1>1
  <1>6. v <= LongMax => (w + half) % (2 * half) = w + half
    <2> HIDE DEF w, half
    <2>1. QED
      BY <1>2, <1>5, SmallRemainder
  <1>7. QED
    BY <1>1, <1>2, <1>3, <1>4, <1>5, <1>6

(* FILE.  The FILE of the appender is closed before its user data goes, and the
   new user data is at an address nobody else uses. *)
LEMMA ExtInitFileStep ==
  ASSUME OutputInv, NEW m \in Modules, NEW config \in Configs, ExtInitFile(m, config)
  PROVE  OutputInv'
  <1> DEFINE a == FileOf(m)
  <1>1. /\ LayoutInv /\ AppenderTypes /\ KindsApart /\ UdataOwned /\ AsConfigured
        /\ StreamsOwned /\ OpenHasStream /\ OnItsWay /\ LimitsPositive
    BY DEF OutputInv
  <1>2. /\ logging = NULL /\ config.output = "file"
        /\ own' = [own EXCEPT ![m] = a]
        /\ type' = [type EXCEPT ![a] = config.output]
        /\ layout' = [layout EXCEPT ![a] = LayoutOf(config.format)]
        /\ configured' = [configured EXCEPT ![m] = config]
        /\ isopen' = [isopen EXCEPT ![a] = FALSE]
        /\ streams' = IF isopen[a] THEN {s \in streams : s.udata # udata[a]} ELSE streams
        /\ UNCHANGED <<layoutVars, logging>>
    BY DEF ExtInitFile, Attach, CloseAppender, FileOf
  <1>3. PICK u \in Memory \cup {NULL} : NewUdata(a, u, config.file)
    BY DEF ExtInitFile, FileOf
  <1>4. /\ u \in {NULL, udata[a]} \cup {v \in Memory : heap[v] = NULL}
        /\ udata' = [udata EXCEPT ![a] = u]
        /\ heap' = [v \in Memory |->
                     IF v = u THEN config.file ELSE IF v = udata[a] THEN NULL ELSE heap[v]]
    BY <1>3 DEF NewUdata
  <1>5. /\ NULL \notin Memory /\ Stdout \notin Memory /\ NULL # Stdout
        /\ config.file # NULL /\ config.output \in OutputKinds
    BY OutputAssumption
  <1>6. a \in Appenders /\ \A o \in Modules : FileOf(o) = a => o = m
    BY AppenderFacts
  <1>7. udata[a] \in Memory \cup {NULL}
    BY <1>1 DEF KindsApart
  <1>8. /\ udata'[a] = u
        /\ \A o \in Modules \ {m} : /\ udata'[FileOf(o)] = udata[FileOf(o)]
                                  /\ isopen'[FileOf(o)] = isopen[FileOf(o)]
                                  /\ type'[FileOf(o)] = type[FileOf(o)]
        /\ isopen'[a] = FALSE
    BY <1>1, <1>2, <1>4, <1>6, AppenderFacts DEF AppenderTypes
  (* Nobody else's user data is touched. *)
  <1>9. ASSUME NEW o \in Modules \ {m}, udata[FileOf(o)] # NULL
        PROVE  /\ udata[FileOf(o)] \in Memory /\ udata[FileOf(o)] \notin {u, udata[a]}
               /\ heap'[udata[FileOf(o)]] = heap[udata[FileOf(o)]]
    <2>1. udata[FileOf(o)] \in Memory
      BY <1>1, <1>9 DEF KindsApart
    <2>2. udata[FileOf(o)] # udata[a] /\ heap[udata[FileOf(o)]] # NULL
      BY <1>1, <1>9, <2>1 DEF UdataOwned
    <2>3. udata[FileOf(o)] # u
      BY <1>4, <1>9, <2>2
    <2>4. QED
      BY <1>4, <2>1, <2>2, <2>3
  (* The FILEs that stay open are those of the other appenders. *)
  <1>10. \A s \in streams' : /\ s \in streams
                             /\ \E o \in Modules \ {m} :
                                  /\ udata[FileOf(o)] = s.udata /\ isopen[FileOf(o)]
                                  /\ heap[s.udata] = s.file
    <2>1. TAKE s \in streams'
    <2>2. s \in streams /\ (isopen[a] => s.udata # udata[a])
      BY <1>2
    <2>3. PICK o \in Modules :
            udata[FileOf(o)] = s.udata /\ isopen[FileOf(o)] /\ heap[s.udata] = s.file
      BY <1>1, <2>2 DEF StreamsOwned, FileOf
    <2>4. o # m
      BY <2>2, <2>3
    <2>5. QED
      BY <2>2, <2>3, <2>4
  <1>11. LayoutInv'
    BY <1>1, <1>2, LayoutStutter
  <1>12. AppenderTypes'
    <2>1. /\ own' \in [Modules -> Appenders \cup {NULL}]
          /\ type' \in [Appenders -> OutputKinds \cup {"stream"}]
          /\ isopen' \in [Appenders -> BOOLEAN]
          /\ udata' \in [Appenders -> Memory \cup {NULL, Stdout}]
          /\ layout' \in [Appenders -> PLAINTEXT..DETAIL_WITHOUT_TS]
          /\ logging' \in Modules \cup {NULL}
          /\ configured' \in [Modules -> Configs \cup {NULL}]
      BY <1>1, <1>2, <1>4, <1>5, <1>6, LayoutOfType DEF AppenderTypes
    <2>2. limits' \in [Modules -> Int]
      BY <1>1, MaxBytesPositive, OutputAssumption DEF ExtInitFile, AppenderTypes
    <2>3. \A s \in streams' : s.udata \in Memory
      BY <1>1, <1>10 DEF AppenderTypes
    <2>4. QED
      BY <2>1, <2>2, <2>3 DEF AppenderTypes
  <1>13. KindsApart'
    BY <1>1, <1>2, <1>4, <1>6, <1>7, <1>8, AppenderFacts DEF KindsApart, AppenderTypes
  <1>14. UdataOwned'
    <2>1. ASSUME NEW o \in Modules, NEW q \in Modules,
                 udata'[FileOf(o)] # NULL, udata'[FileOf(o)] = udata'[FileOf(q)]
          PROVE  o = q
      BY <1>1, <1>8, <1>9, <2>1 DEF UdataOwned
    <2>2. ASSUME NEW v \in Memory
          PROVE  heap'[v] # NULL <=> \E o \in Modules : udata'[FileOf(o)] = v
      <3>1. CASE v = u
        BY <1>4, <1>5, <1>8, <3>1
      <3>2. CASE v # u /\ v = udata[a]
        <4>1. heap'[v] = NULL
          BY <1>4, <3>2
        <4>2. \A o \in Modules : udata'[FileOf(o)] # v
          BY <1>5, <1>8, <1>9, <3>2
        <4>3. QED
          BY <4>1, <4>2
      <3>3. CASE v # u /\ v # udata[a]
        <4>1. heap'[v] = heap[v]
          BY <1>4, <3>3
        <4>2. (\E o \in Modules : udata'[FileOf(o)] = v)
                <=> (\E o \in Modules : udata[FileOf(o)] = v)
          BY <1>8, <3>3
        <4>3. QED
          BY <1>1, <4>1, <4>2 DEF UdataOwned
      <3>4. QED
        BY <3>1, <3>2, <3>3
    <2>3. QED
      BY <2>1, <2>2 DEF UdataOwned
  <1>15. AsConfigured'
    <2>1. ASSUME NEW o \in Modules, own'[o] # NULL
          PROVE  LET c == configured'[o]
                 IN  /\ c \in Configs
                     /\ own'[o] = IF c.output = "file" THEN FileOf(o) ELSE PrintOf(o)
                     /\ type'[own'[o]] = c.output
                     /\ layout'[own'[o]] = LayoutOf(c.format)
                     /\ c.output = "file" /\ udata'[FileOf(o)] # NULL
                          => heap'[udata'[FileOf(o)]] = c.file
      <3>1. CASE o = m
        <4>1. u # NULL => heap'[u] = config.file
          BY <1>4
        <4>2. QED
          BY <1>1, <1>2, <1>6, <1>8, <3>1, <4>1 DEF AppenderTypes
      <3>2. CASE o # m
        <4>1. own'[o] = own[o] /\ configured'[o] = configured[o] /\ own[o] # NULL
          BY <1>1, <1>2, <2>1, <3>2 DEF AppenderTypes
        <4>2. own[o] # a /\ own[o] \in Appenders
          BY <1>1, <3>2, <4>1, AppenderFacts DEF AsConfigured
        <4>3. type'[own[o]] = type[own[o]] /\ layout'[own[o]] = layout[own[o]]
          BY <1>1, <1>2, <4>2 DEF AppenderTypes
        <4>4. QED
          BY <1>1, <1>8, <1>9, <3>2, <4>1, <4>3 DEF AsConfigured
      <3>3. QED
        BY <3>1, <3>2
    <2>2. QED
      BY <2>1 DEF AsConfigured
  <1>16. StreamsOwned'
    <2>1. ASSUME NEW s \in streams'
          PROVE  \E o \in Modules :
                   udata'[FileOf(o)] = s.udata /\ isopen'[FileOf(o)] /\ heap'[s.udata] = s.file
      <3>1. PICK o \in Modules \ {m} :
              udata[FileOf(o)] = s.udata /\ isopen[FileOf(o)] /\ heap[s.udata] = s.file
        BY <1>10
      <3>2. s.udata \in Memory
        BY <1>1, <1>10 DEF AppenderTypes
      <3>3. QED
        BY <1>5, <1>8, <1>9, <3>1, <3>2
    <2>2. QED
      BY <2>1 DEF StreamsOwned, FileOf
  <1>17. OpenHasStream'
    <2>1. ASSUME NEW o \in Modules, type'[FileOf(o)] = "file", isopen'[FileOf(o)],
                 udata'[FileOf(o)] # NULL
          PROVE  [udata |-> udata'[FileOf(o)], file |-> heap'[udata'[FileOf(o)]]] \in streams'
      <3>1. o # m
        BY <1>8, <2>1
      <3>2. [udata |-> udata[FileOf(o)], file |-> heap[udata[FileOf(o)]]] \in streams
        BY <1>1, <1>8, <2>1, <3>1 DEF OpenHasStream
      <3>3. heap'[udata'[FileOf(o)]] = heap[udata[FileOf(o)]] /\ udata[FileOf(o)] # udata[a]
        BY <1>8, <1>9, <2>1, <3>1
      <3>4. \A x, y : [udata |-> x, file |-> y].udata = x
        OBVIOUS
      <3>5. [udata |-> udata[FileOf(o)], file |-> heap[udata[FileOf(o)]]] \in streams'
        BY <1>2, <3>2, <3>3, <3>4
      <3>6. QED
        BY <1>8, <3>1, <3>3, <3>5
    <2>2. QED
      BY <2>1 DEF OpenHasStream
  <1>18. OnItsWay'
    BY <1>1, <1>2 DEF OnItsWay, layoutVars
  <1>19. LimitsPositive'
    <2>1. limits' = [limits EXCEPT ![m] = MaxBytes(config.sizeMax)] \/ limits' = limits
      BY DEF ExtInitFile
    <2>2. config.sizeMax \in Int
      BY OutputAssumption
    <2>3. config.sizeMax <= LongMax => MaxBytes(config.sizeMax) > 0
      BY <2>2, MaxBytesPositive
    <2>4. QED
      BY <1>1, <2>1, <2>3 DEF LimitsPositive, AppenderTypes
  <1>20. QED
    BY <1>11, <1>12, <1>13, <1>14, <1>15, <1>16, <1>17, <1>18, <1>19 DEF OutputInv
(* A message is on its way: its appender is open, and if it was not, what it
   has opened is its own. *)
LEMMA LogStep ==
  ASSUME OutputInv, NEW m \in Modules, NEW msg \in Messages, Log(m, msg)
  PROVE  OutputInv'
  <1> DEFINE a == own[m]
             e == [format |-> layout[own[m]], category |-> CategoryOf[m],
                   level |-> msg.level, msg |-> msg.text]
  <1>1. /\ LayoutInv /\ AppenderTypes /\ KindsApart /\ UdataOwned /\ AsConfigured
        /\ StreamsOwned /\ OpenHasStream /\ OnItsWay /\ LimitsPositive
    BY DEF OutputInv
  <1>2. /\ logging = NULL /\ a # NULL /\ logging' = m
        /\ StartRendering(e)
        /\ UNCHANGED <<own, type, layout, heap, limits, configured>>
        /\ IF isopen[a] THEN UNCHANGED <<isopen, udata, streams>> ELSE Open(a)
    BY DEF Log
  <1>3. NULL \notin Memory /\ Stdout \notin Memory /\ NULL # Stdout /\ NULL \notin Modules
    BY OutputAssumption
  <1>4. a \in Appenders
    BY <1>1, <1>2 DEF AppenderTypes
  <1>5. /\ a = FileOf(m) \/ a = PrintOf(m)
        /\ type[a] = "file" <=> a = FileOf(m)
        /\ \A o \in Modules : FileOf(o) = a => o = m
    BY <1>1, <1>2, AppenderFacts DEF AsConfigured
  <1>6. /\ isopen'[a] = TRUE
        /\ \A b \in Appenders \ {a} : isopen'[b] = isopen[b] /\ udata'[b] = udata[b]
        /\ isopen' \in [Appenders -> BOOLEAN]
        /\ udata' \in [Appenders -> Memory \cup {NULL, Stdout}]
        /\ a = FileOf(m) => udata'[a] = udata[a]
        /\ a = PrintOf(m) => udata'[a] \in {udata[a], Stdout}
    <2>1. CASE isopen[a]
      BY <1>1, <1>2, <1>4, <2>1 DEF AppenderTypes
    <2>2. CASE ~isopen[a]
      BY <1>1, <1>2, <1>4, <1>5, <2>2 DEF AppenderTypes, Open
    <2>3. QED
      BY <2>1, <2>2
  <1>7. /\ \A o \in Modules : udata'[FileOf(o)] = udata[FileOf(o)]
        /\ \A o \in Modules : isopen[FileOf(o)] => isopen'[FileOf(o)]
    BY <1>4, <1>5, <1>6, AppenderFacts
  <1>8. /\ streams \subseteq streams'
        /\ \A s \in streams' : \/ s \in streams
                              \/ /\ a = FileOf(m) /\ udata[a] # NULL
                                 /\ s.udata = udata[a] /\ s.file = heap[udata[a]]
        /\ ~isopen[a] /\ a = FileOf(m) /\ udata[a] # NULL
             => [udata |-> udata[a], file |-> heap[udata[a]]] \in streams'
    BY <1>2, <1>5 DEF Open
  <1>9. LayoutInv'
    <2>1. e \in Events
      <3>1. layout[a] \in Formats
        BY <1>1, <1>4 DEF AppenderTypes, Formats, PLAINTEXT, DETAIL_WITHOUT_TS
      <3>2. /\ CategoryOf[m] \in Seq(STRING) /\ msg.level \in Nat
            /\ msg.text \in Seq(STRING)
        BY OutputAssumption
      <3>3. QED
        BY <3>1, <3>2 DEF Events
    <2>2. QED
      BY <1>1, <1>2, <2>1, StartStep
  <1>10. AppenderTypes'
    <2>1. \A s \in streams' : s.udata \in Memory
      BY <1>1, <1>8 DEF AppenderTypes, KindsApart
    <2>2. QED
      BY <1>1, <1>2, <1>6, <2>1 DEF AppenderTypes
  <1>11. KindsApart'
    <2>1. ASSUME NEW o \in Modules
          PROVE  udata'[PrintOf(o)] \in {NULL, Stdout}
      <3>1. udata[PrintOf(o)] \in {NULL, Stdout} /\ PrintOf(o) \in Appenders
        BY <1>1, AppenderFacts DEF KindsApart
      <3>2. CASE PrintOf(o) = a
        BY <1>5, <1>6, <3>1, <3>2, AppenderFacts
      <3>3. CASE PrintOf(o) # a
        BY <1>6, <3>1, <3>3
      <3>4. QED
        BY <3>2, <3>3
    <2>2. QED
      BY <1>1, <1>2, <1>7, <2>1 DEF KindsApart
  <1>12. UdataOwned'
    BY <1>1, <1>2, <1>7 DEF UdataOwned
  <1>13. AsConfigured'
    BY <1>1, <1>2, <1>7 DEF AsConfigured
  <1>14. StreamsOwned'
    <2>1. ASSUME NEW s \in streams'
          PROVE  \E o \in Modules :
                   udata'[FileOf(o)] = s.udata /\ isopen'[FileOf(o)] /\ heap'[s.udata] = s.file
      <3>1. CASE s \in streams
        BY <1>1, <1>2, <1>7, <3>1 DEF StreamsOwned, FileOf
      <3>2. CASE a = FileOf(m) /\ s.udata = udata[a] /\ s.file = heap[udata[a]]
        BY <1>2, <1>6, <1>7, <3>2
      <3>3. QED
        BY <1>8, <3>1, <3>2
    <2>2. QED
      BY <2>1 DEF StreamsOwned, FileOf
  <1>15. OpenHasStream'
    <2>1. ASSUME NEW o \in Modules, type'[FileOf(o)] = "file", isopen'[FileOf(o)],
                 udata'[FileOf(o)] # NULL
          PROVE  [udata |-> udata'[FileOf(o)], file |-> heap'[udata'[FileOf(o)]]] \in streams'
      <3>1. CASE isopen[FileOf(o)]
        BY <1>1, <1>2, <1>7, <1>8, <2>1, <3>1 DEF OpenHasStream
      <3>2. CASE ~isopen[FileOf(o)]
        <4>1. FileOf(o) = a /\ o = m
          BY <1>5, <1>6, <2>1, <3>2, AppenderFacts
        <4>2. QED
          BY <1>2, <1>7, <1>8, <2>1, <3>2, <4>1
      <3>3. QED
        BY <3>1, <3>2
    <2>2. QED
      BY <2>1 DEF OpenHasStream
  <1>16. OnItsWay'
    <2>1. stage' = "print" /\ event' = e
      BY <1>2 DEF StartRendering
    <2>2. QED
      BY <1>2, <1>3, <1>6, <2>1 DEF OnItsWay
  <1>17. LimitsPositive'
    BY <1>1, <1>2 DEF LimitsPositive
  <1>18. QED
    BY <1>9, <1>10, <1>11, <1>12, <1>13, <1>14, <1>15, <1>16, <1>17 DEF OutputInv

(* While an event is rendered, and when log4c frees it, no appender changes. *)
LEMMA AppendersKept ==
  ASSUME OutputInv, UNCHANGED <<appenderVars, configured>>, LayoutInv',
         logging' \in Modules \cup {NULL}, OnItsWay'
  PROVE  OutputInv'
  <1>1. UNCHANGED <<own, type, isopen, udata, layout, heap, streams, limits, configured>>
    BY DEF appenderVars
  <1>2. AppenderTypes' /\ KindsApart' /\ UdataOwned' /\ AsConfigured'
    BY <1>1 DEF OutputInv, AppenderTypes, KindsApart, UdataOwned, AsConfigured
  <1>3. StreamsOwned' /\ OpenHasStream' /\ LimitsPositive'
    BY <1>1 DEF OutputInv, StreamsOwned, OpenHasStream, LimitsPositive
  <1>4. QED
    BY <1>2, <1>3 DEF OutputInv

(* Rendering keeps the appenders, and the message its way. *)
LEMMA RenderStep == OutputInv /\ Render => OutputInv'
  <1> SUFFICES ASSUME OutputInv, Render PROVE OutputInv'
    OBVIOUS
  <1>1. LayoutInv'
    BY RenderingStep DEF OutputInv, Render
  <1>2. stage # "free" /\ stage' # "free" /\ event' = event
    BY DEF Render, Rendering, PrintLine, Grow, Finish
  <1>3. /\ UNCHANGED <<appenderVars, configured>> /\ logging' = logging
        /\ UNCHANGED <<own, isopen, layout>>
    BY DEF Render, appenderVars
  <1>4. OnItsWay'
    BY <1>2, <1>3 DEF OutputInv, OnItsWay
  <1>5. logging' \in Modules \cup {NULL}
    BY <1>3 DEF OutputInv, AppenderTypes
  <1>6. QED
    BY <1>1, <1>3, <1>4, <1>5, AppendersKept

(* After the output no message is on its way. *)
LEMMA WriteStep == OutputInv /\ Write => OutputInv'
  <1> SUFFICES ASSUME OutputInv, Write PROVE OutputInv'
    OBVIOUS
  <1>1. LayoutInv'
    BY EndStep DEF OutputInv, Write
  <1>2. stage' = "free" /\ logging' = NULL /\ UNCHANGED <<appenderVars, configured>>
    BY DEF Write, EndRendering
  <1>3. OnItsWay'
    BY <1>2 DEF OnItsWay
  <1>4. QED
    BY <1>1, <1>2, <1>3, AppendersKept

(* Every step keeps the invariant. *)
LEMMA OutputInvStep == OutputInv /\ [Next]_vars => OutputInv'
  <1> SUFFICES ASSUME OutputInv, [Next]_vars PROVE OutputInv'
    OBVIOUS
  <1>1. ASSUME NEW m \in Modules, NEW config \in Configs, ExtInitPrint(m, config)
        PROVE  OutputInv'
    BY <1>1, ExtInitPrintStep
  <1>2. ASSUME NEW m \in Modules, NEW config \in Configs, ExtInitFile(m, config)
        PROVE  OutputInv'
    BY <1>2, ExtInitFileStep
  <1>3. ASSUME NEW m \in Modules, NEW msg \in Messages, Log(m, msg)
        PROVE  OutputInv'
    BY <1>3, LogStep
  <1>4. ASSUME UNCHANGED vars
        PROVE  OutputInv'
    <2>1. /\ UNCHANGED layoutVars /\ UNCHANGED <<appenderVars, configured>>
          /\ UNCHANGED <<logging, stage, event, own, isopen, layout>>
      BY <1>4 DEF vars, layoutVars, appenderVars
    <2>2. LayoutInv'
      BY <2>1, LayoutStutter DEF OutputInv
    <2>3. OnItsWay' /\ logging' \in Modules \cup {NULL}
      BY <2>1 DEF OutputInv, OnItsWay, AppenderTypes
    <2>4. QED
      BY <2>1, <2>2, <2>3, AppendersKept
  <1>5. QED
    BY <1>1, <1>2, <1>3, <1>4, RenderStep, WriteStep DEF Next

(* The invariant from which the theorems follow. *)
LEMMA OutputInvHolds == Spec => []OutputInv
  BY OutputInvInit, OutputInvStep, PTL DEF Spec

(***************************************************************************)
(* What follows.                                                           *)
(***************************************************************************)

(* Every variable of the appenders and the layouts has its type. *)
THEOREM OutputTypeHolds == Spec => []TypeOK
<1>1. OutputInv => TypeOK
  BY DEF OutputInv, LayoutInv, AppenderTypes, TypeOK
<1>2. QED
  BY <1>1, OutputInvHolds, PTL

(* Whatever the sizes of the buffer and the line, what is rendered is the whole
   line, or its beginning if the buffer may not grow or memory is used up. *)
THEOREM RenderedHolds == Spec => []Rendered
<1>1. OutputInv => Rendered
  BY DEF OutputInv, LayoutInv
<1>2. QED
  BY <1>1, OutputInvHolds, PTL

(* rdk_format_log calls itself at most once, for lines of any length. *)
THEOREM GrowsOnceHolds == Spec => []GrowsOnce
<1>1. OutputInv => GrowsOnce
  BY LayoutAssumption DEF OutputInv, LayoutInv, Printed, GrowsOnce
<1>2. QED
  BY <1>1, OutputInvHolds, PTL

(* No user data of a rolling file is used after it was freed, none is shared
   and none is forgotten, for any number of modules and configurations. *)
THEOREM UdataTrackedHolds == Spec => []UdataTracked
<1>1. ASSUME OutputInv, NEW u \in Memory
      PROVE  Cardinality({a \in Appenders : udata[a] = u}) = (IF heap[u] = NULL THEN 0 ELSE 1)
  <2> DEFINE users == {a \in Appenders : udata[a] = u}
  <2>1. KindsApart /\ UdataOwned /\ NULL \notin Memory /\ Stdout \notin Memory
    BY <1>1, OutputAssumption DEF OutputInv
  <2>2. \A a \in users : \E m \in Modules : a = FileOf(m) /\ udata[FileOf(m)] = u
    <3>1. TAKE a \in users
    <3>2. PICK m \in Modules : a = FileOf(m) \/ a = PrintOf(m)
      BY AppenderFacts
    <3>3. a # PrintOf(m)
      BY <2>1, <3>2 DEF KindsApart
    <3>4. QED
      BY <3>2, <3>3
  <2>3. CASE heap[u] = NULL
    <3>1. users = {}
      BY <2>1, <2>2, <2>3 DEF UdataOwned
    <3>2. QED
      BY <2>3, <3>1, FS_EmptySet
  <2>4. CASE heap[u] # NULL
    <3>1. PICK m \in Modules : udata[FileOf(m)] = u
      BY <2>1, <2>4 DEF UdataOwned
    <3>2. users = {FileOf(m)}
      <4>1. FileOf(m) \in users
        BY <3>1, AppenderFacts
      <4>2. \A a \in users : a = FileOf(m)
        BY <2>1, <2>2, <3>1 DEF UdataOwned
      <4>3. QED
        BY <4>1, <4>2
    <3>3. Cardinality(users) = 1
      BY <3>2, FS_Singleton
    <3>4. QED
      BY <2>4, <3>3
  <2>5. QED
    BY <2>3, <2>4
<1>2. OutputInv => UdataTracked
  BY <1>1 DEF UdataTracked
<1>3. QED
  BY <1>2, OutputInvHolds, PTL

(* A FILE that is open belongs to an open appender and is the file that was
   configured last. *)
THEOREM StreamsOwnedHolds == Spec => []StreamsOwned
<1>1. OutputInv => StreamsOwned
  BY DEF OutputInv
<1>2. QED
  BY <1>1, OutputInvHolds, PTL

(* No file has a limit that is not positive, if the sizes fit into a long. *)
THEOREM LimitsPositiveHolds == Spec => []LimitsPositive
<1>1. OutputInv => LimitsPositive
  BY DEF OutputInv
<1>2. QED
  BY <1>1, OutputInvHolds, PTL
(* What is rendered is the beginning of what snprintf was asked to write. *)
LEMMA RenderedText ==
  ASSUME LayoutInv, stage = "rendered"
  PROVE  \A i \in DOMAIN buf : buf[i] = Line(event)[i]
  <1> DEFINE line  == Line(event)
             whole == WholeLine(event)
             k == Min({Len(whole), size - 1})
  <1>1. event \in Events /\ size \in Nat \ {0} /\ buf = SubSeq(whole, 1, k)
    BY DEF LayoutInv, Rendered
  <1>2. line \in Seq(Glyphs) /\ Len(line) \in Nat \ {0}
    BY <1>1, LineShape, HeaderShape
  <1>3. whole = line \/ whole = SubSeq(line, 1, Len(line) - 1)
    BY <1>1, LineShape
  <1> HIDE DEF line, whole, k
  <1>4. \E j \in 0..Len(line) : whole = SubSeq(line, 1, j)
    <2>1. line = SubSeq(line, 1, Len(line))
      BY <1>2, SubSeqFull
    <2>2. Len(line) \in 0..Len(line) /\ Len(line) - 1 \in 0..Len(line)
      BY <1>2
    <2>3. QED
      BY <1>3, <2>1, <2>2
  <1>5. PICK j \in 0..Len(line) : whole = SubSeq(line, 1, j)
    BY <1>4
  <1>6. Len(whole) = j /\ whole \in Seq(Glyphs)
    BY <1>2, <1>5, BeginningOf
  <1>7. k \in 0..j
    BY <1>1, <1>2, <1>6, MinOfTwo DEF k
  <1>8. buf = SubSeq(line, 1, k)
    BY <1>1, <1>2, <1>5, <1>7, BeginningOfBeginning
  <1>9. k \in 0..Len(line)
    BY <1>2, <1>7
  <1>10. /\ buf \in Seq(Glyphs) /\ Len(buf) = k
         /\ \A i \in 1..k : buf[i] = line[i]
    BY <1>2, <1>8, <1>9, BeginningOf
  <1>11. DOMAIN buf = 1..k
    BY <1>10, LenProperties
  <1>12. QED
    BY <1>10, <1>11 DEF line

(* A message goes where the last configuration of its module sends it. *)
LEMMA DestinationPromised ==
  ASSUME OutputInv, NEW m \in Modules, own[m] # NULL, isopen[own[m]]
  PROVE  Destination(own[m]) = Promised(configured[m], udata[FileOf(m)])
  <1> DEFINE c == configured[m]
             u == udata[FileOf(m)]
  <1>1. /\ own[m] = IF c.output = "file" THEN FileOf(m) ELSE PrintOf(m)
        /\ type[own[m]] = c.output
        /\ c.output = "file" /\ u # NULL => heap[u] = c.file
    BY DEF OutputInv, AsConfigured
  <1>2. CASE c.output # "file"
    BY <1>1, <1>2 DEF Destination, Promised
  <1>3. CASE c.output = "file" /\ u = NULL
    <2>1. u \notin {s.udata : s \in streams}
      BY <1>3, OutputAssumption DEF OutputInv, AppenderTypes
    <2>2. QED
      BY <1>1, <1>3, <2>1 DEF Destination, Promised
  <1>4. CASE c.output = "file" /\ u # NULL
    <2>1. [udata |-> u, file |-> heap[u]] \in streams
      BY <1>1, <1>4 DEF OutputInv, OpenHasStream
    <2>2. PICK s \in streams : s.udata = u
      BY <2>1
    <2>3. (CHOOSE r \in streams : r.udata = u) \in streams
          /\ (CHOOSE r \in streams : r.udata = u).udata = u
      BY <2>2
    <2>4. \A r \in streams : r.udata = u => r.file = heap[u]
      BY DEF OutputInv, StreamsOwned
    <2>5. Destination(own[m]) = (CHOOSE r \in streams : r.udata = u).file
      BY <1>1, <1>4, <2>2 DEF Destination
    <2>6. QED
      BY <1>1, <1>4, <2>3, <2>4, <2>5 DEF Promised
  <1>5. QED
    BY <1>2, <1>3, <1>4

(* A message goes to the output its module was configured with last, in the
   format it was configured with, whatever came before. *)
THEOREM DeliveredHolds == Spec => Delivered
<1>1. ASSUME OutputInv, Next, logging # NULL, logging' = NULL
      PROVE  LET c == configured[logging]
                 e == [event EXCEPT !.format = LayoutOf(c.format)]
             IN  /\ written'.where = Promised(c, udata[FileOf(logging)])
                 /\ \A i \in DOMAIN written'.text : written'.text[i] = Line(e)[i]
  <2> DEFINE c == configured[logging]
             e == [event EXCEPT !.format = LayoutOf(c.format)]
  <2>1. Write
    BY <1>1 DEF Next, ExtInitPrint, ExtInitFile, Log, Render
  <2>2. /\ stage = "rendered"
        /\ written'.where = Destination(own[logging]) /\ written'.text = buf
    BY <2>1 DEF Write
  <2>3. /\ logging \in Modules /\ own[logging] # NULL /\ isopen[own[logging]]
        /\ event.format = layout[own[logging]] /\ event \in Events
    BY <1>1 DEF OutputInv, AppenderTypes, OnItsWay, LayoutInv
  <2>4. layout[own[logging]] = LayoutOf(c.format)
    BY <1>1, <2>3 DEF OutputInv, AsConfigured
  <2>5. e = event
    BY <2>3, <2>4 DEF Events
  <2>6. \A i \in DOMAIN buf : buf[i] = Line(event)[i]
    BY <1>1, <2>2, RenderedText DEF OutputInv
  <2>7. written'.where = Promised(c, udata[FileOf(logging)])
    BY <1>1, <2>2, <2>3, DestinationPromised
  <2>8. QED
    BY <2>2, <2>5, <2>6, <2>7
<1>2. OutputInv /\ [Next]_vars =>
        [logging # NULL /\ logging' = NULL =>
           LET c == configured[logging]
               e == [event EXCEPT !.format = LayoutOf(c.format)]
           IN  /\ written'.where = Promised(c, udata[<<logging, "file">>])
               /\ \A i \in DOMAIN written'.text : written'.text[i] = Line(e)[i]]_vars
  BY <1>1 DEF FileOf
<1>3. QED
  BY <1>2, OutputInvHolds, PTL DEF Spec, Delivered
===============================================================================
