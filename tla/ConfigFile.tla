------------------------------- MODULE ConfigFile -------------------------------
(***************************************************************************)
(* How rdk_logger_parse_config of src/rdk_debug_priv.c cuts a file into    *)
(* settings: it reads pieces with fgets into a buffer, skips those that    *)
(* begin with a hash or have no equals sign, and trims what is on either   *)
(* side of the first one.  LoggerCore takes over with the settings; what a *)
(* setting does is there.                                                  *)
(*                                                                         *)
(* A file is a sequence of characters: newlines, blanks, hashes, equals    *)
(* signs, and letters that stand for all others.                           *)
(***************************************************************************)
EXTENDS Naturals, SequencesExt

CONSTANTS
  BufferLength,  (* line_buf_len                                             *)
  Texts          (* the files                                                *)

Newline == "\n"
Blanks == {" ", Newline}
Characters == Blanks \cup {"#", "=", "x"}

ASSUME ConfigFileAssumption ==
  /\ BufferLength \in Nat \ {0, 1}
  /\ Texts \subseteq Seq(Characters)

VARIABLES
  text,        (* the file                                                   *)
  position,    (* how many of its characters have been read                  *)
  lineBuffer,  (* the piece read last, until it has been dealt with          *)
  settings     (* the names and values found so far                          *)

configFileVars == <<text, position, lineBuffer, settings>>

ConfigFileInit ==
  /\ text \in Texts
  /\ position = 0 /\ lineBuffer = << >> /\ settings = << >>

(* The first place of a character in a sequence, 0 if there is none. *)
First(c, s) ==
  LET places == {i \in DOMAIN s : s[i] = c} IN IF places = {} THEN 0 ELSE Min(places)

(* Mutant: blanks and the newline at the end stay. *)
TrimLeft(s) ==
  LET solid == {i \in DOMAIN s : s[i] \notin Blanks}
  IN  IF solid = {} THEN << >> ELSE SubSeq(s, Min(solid), Len(s))

(* trim *)
Trim(s) ==
  LET solid == {i \in DOMAIN s : s[i] \notin Blanks}
  IN  IF solid = {} THEN << >> ELSE SubSeq(s, Min(solid), Max(solid))

(* What is not skipped, and how it is split.  Where the copies end in memory is
   not modelled: of a piece that fills the buffer and begins with the equals
   sign, value[length] is one past the array. *)
IsSetting(piece) == First("=", piece) # 0 /\ piece[1] # "#"

Setting(piece) ==
  LET equals == First("=", piece)
  IN  [name  |-> Trim(SubSeq(piece, 1, equals - 1)),
       value |-> Trim(SubSeq(piece, equals + 1, Len(piece)))]

(* fgets: up to and including a newline, as far as the buffer goes. *)
PieceLength(rest) ==
  LET full == Min({Len(rest), BufferLength - 1})
      eol  == First(Newline, rest)
  IN  IF eol = 0 THEN full ELSE Min({eol, full})

ReadPiece ==
  LET rest == SubSeq(text, position + 1, Len(text))
  IN  /\ lineBuffer = << >> /\ rest # << >>
      /\ lineBuffer' = SubSeq(rest, 1, PieceLength(rest))
      /\ position' = position + PieceLength(rest)
      /\ UNCHANGED <<text, settings>>

(* Mutant: a comment with an equals sign is a setting. *)
ParseComment ==
  /\ lineBuffer # << >>
  /\ settings' = IF First("=", lineBuffer) # 0
                 THEN Append(settings, Setting(lineBuffer)) ELSE settings
  /\ lineBuffer' = << >>
  /\ UNCHANGED <<text, position>>

ParsePiece ==
  /\ lineBuffer # << >>
  /\ settings' = IF IsSetting(lineBuffer)
                 THEN Append(settings, Setting(lineBuffer)) ELSE settings
  /\ lineBuffer' = << >>
  /\ UNCHANGED <<text, position>>

ConfigFileNext == ReadPiece \/ ParsePiece

ConfigFileSpec == ConfigFileInit /\ [][ConfigFileNext]_configFileVars

-------------------------------------------------------------------------------
(* The reference: where the lines of a file begin, and where, in a line too
   long for the buffer, the parts begin that the buffer holds. *)
LineStarts == {i \in DOMAIN text : i = 1 \/ text[i - 1] = Newline}

LineStart(i) == Max({j \in LineStarts : j <= i})

PieceStarts == {i \in DOMAIN text : (i - LineStart(i)) % (BufferLength - 1) = 0}

PieceEnd(i) == Min({j \in PieceStarts : j > i} \cup {Len(text) + 1}) - 1

PieceAt(i) == SubSeq(text, i, PieceEnd(i))

(* Where the settings begin among the first k characters. *)
SettingStarts(k) == {i \in PieceStarts : i <= k /\ IsSetting(PieceAt(i))}

ConfigFileTypeOK ==
  /\ text \in Seq(Characters)
  /\ position \in 0..Len(text)
  /\ Len(lineBuffer) < BufferLength
  /\ settings \in Seq([name : Seq(Characters), value : Seq(Characters)])

(* The settings are those of the lines of the file, one after the other, a line
   longer than the buffer counting as several; nothing is read twice or lost
   where two pieces meet. *)
LinesRead ==
  LET found == SettingStarts(position - Len(lineBuffer))
  IN  /\ Len(settings) = Cardinality(found)
      /\ \A i \in found : settings[Cardinality({j \in found : j <= i})] = Setting(PieceAt(i))

(* No setting has a name with an equals sign, or blanks or newlines around its
   name or value: what is compared with LOG.RDK.DEFAULT, NONE and the names of
   levels is the bare word, whatever stands around it and in however many
   pieces the line was read. *)
SettingsBare ==
  \A k \in DOMAIN settings :
    /\ First("=", settings[k].name) = 0
    /\ \A s \in {settings[k].name, settings[k].value} :
         s # << >> => {Head(s), Last(s)} \cap Blanks = {}
=================================================================================
