----------------------------- MODULE IniReader -----------------------------
(***************************************************************************)
(* How config.ini is read (myPub/myInih.cpp), before any thread exists.    *)
(*                                                                         *)
(* A line of the file is what somebody wrote and the pieces in which       *)
(* fgets() returns it: one, or more if the line is longer than the buffer  *)
(* of 200 bytes; the parser takes each piece for a line.  The kinds of a   *)
(* piece are the cases of ini_parse_stream once white space is stripped:   *)
(*   "comment"   blank, or behind ';' or '#'                               *)
(*   "section"   [name], or [name without the bracket that closes it       *)
(*   "pair"      name=value or name:value                                  *)
(*   "text"      anything else                                             *)
(* A name is a word and its spelling in capital or small letters; that of a *)
(* section may be longer than the 49 characters that there is room for     *)
(* (MAX_SECTION): its word stands for those, its rest is what is behind    *)
(* them.  A value is a sequence of characters.                             *)
(***************************************************************************)
EXTENDS Bytes

CONSTANTS
  NewLine,   \* '\n'
  Lines,     \* the lines that a file may have
  MaxLines   \* bound: how many it has

Name == [word : STRING, capital : BOOLEAN]
SectionName == [word : STRING, rest : Seq(Char), capital : BOOLEAN]
Piece ==
  [kind : {"comment", "text"}]
    \cup [kind : {"section"}, name : SectionName, closed : BOOLEAN]
    \cup [kind : {"pair"}, name : Name, value : Seq(Char)]

ASSUME LinesAssumption == NewLine \in Char /\ Lines \subseteq Seq(Piece) \ {<<>>}

VARIABLES
  file,    \* the lines that were read
  reader   \* ini_parse_stream's section, lineno and error, and _values

-----------------------------------------------------------------------------
(* INIReader::MakeKey: section=name in small letters. *)
MakeKey(section, name) == <<section.word, section.rest, name.word>>

Store(values, key, val) ==
  [k \in DOMAIN values \cup {key} |-> IF k = key THEN val ELSE values[k]]

(* Definitions named ...Slip are mistakes a maintainer could make in the one *)
(* that follows; no specification uses them, the properties notice each.     *)
ValueHandlerSlip(values, key, val) == Store(values, key, val)

(* A key that occurs again goes on on a new line. *)
ValueHandler(values, key, val) ==
  LET before == IF key \in DOMAIN values THEN values[key] ELSE <<>>
  IN  Store(values, key, IF before # <<>> /\ val # <<>> THEN before \o <<NewLine>> \o val
                                                        ELSE before \o val)

BadSlip(r) == [r EXCEPT !.error = r.lineno]
Bad(r) == IF r.error = 0 THEN [r EXCEPT !.error = r.lineno] ELSE r

(* ini_strncpy0: what has no room is left out, and nobody is told. *)
Shortened(name) == [name EXCEPT !.rest = <<>>]

(* One turn of the loop of ini_parse_stream. *)
Take(before, piece) ==
  LET r == [before EXCEPT !.lineno = @ + 1]
  IN  CASE piece.kind = "comment" -> r
        [] piece.kind = "section" ->
             IF piece.closed THEN [r EXCEPT !.section = Shortened(piece.name)] ELSE Bad(r)
        [] piece.kind = "pair" ->
             [r EXCEPT !.values = ValueHandler(@, MakeKey(r.section, piece.name), piece.value)]
        [] piece.kind = "text" -> Bad(r)

NoReader ==
  [section |-> [word |-> "", rest |-> <<>>, capital |-> FALSE], lineno |-> 0, error |-> 0,
   values |-> <<>>]
IniInit == file = <<>> /\ reader = NoReader

(* ini_parse_stream, piece by piece. *)
After(line, r) ==
  LET upTo[i \in 0 .. Len(line)] == IF i = 0 THEN r ELSE Take(upTo[i - 1], line[i])
  IN  upTo[Len(line)]

ReadLine(line) ==
  /\ Len(file) < MaxLines
  /\ file' = Append(file, line)
  /\ reader' = After(line, reader)

(* INIReader::GetString *)
GetString(values, key, default) ==
  IF key \in DOMAIN values /\ values[key] # <<>> THEN values[key] ELSE default

(* INIReader::GetInteger.  strtol() reads the digits that the value begins  *)
(* with; the files of the model write neither signs, nor leading zeros,     *)
(* which would make the number octal or hexadecimal.                        *)
GetInteger(values, key, default) ==
  LET digits == Leading(GetString(values, key, <<>>))
  IN  IF digits # <<>> THEN Number(digits) ELSE default

-----------------------------------------------------------------------------
Whole(line) == Len(line) = 1
Broken(line) == line[1].kind = "section" /\ ~line[1].closed
TooLong(line) == line[1].kind = "section" /\ line[1].name.rest # <<>>

(* The section of line i: that of the last header, which is closed or not;  *)
(* lines before all headers have one without a name.                        *)
Header(lines, i) == CHOOSE h \in 0 .. i :
  /\ h # 0 => lines[h][1].kind = "section"
  /\ \A j \in h + 1 .. i : lines[j][1].kind # "section"
SectionOf(lines, i) ==
  LET h == Header(lines, i) IN IF h = 0 THEN NoReader.section ELSE lines[h][1].name

(* The text that lines give a key: the values that they write for it, one   *)
(* below the other.                                                         *)
Pairs(lines) == {i \in DOMAIN lines : lines[i][1].kind = "pair"}
KeyAt(lines, i) == MakeKey(SectionOf(lines, i), lines[i][1].name)
Writes(lines, i, key) ==
  i \in Pairs(lines) /\ key = KeyAt(lines, i) /\ lines[i][1].value # <<>>
Below(text, value) == IF text = <<>> THEN value ELSE text \o <<NewLine>> \o value
TextOf(lines, key) ==
  LET upTo[i \in 0 .. Len(lines)] ==
        IF i = 0 THEN <<>>
        ELSE IF Writes(lines, i, key) THEN Below(upTo[i - 1], lines[i][1].value)
                                      ELSE upTo[i - 1]
  IN  upTo[Len(lines)]

(* A value is what the lines under its section's header wrote for it, one   *)
(* below the other, whatever lines with errors stand between them: unless a *)
(* header lacks its bracket, whose pairs go to the section above, or has a  *)
(* name of more than 49 characters, whose pairs go to the section of those, *)
(* or a line is longer than the buffer (INIReader::ValueHandler,            *)
(* ini_parse_stream, ini_strncpy0).                                         *)
Understood(line) == Whole(line) /\ ~Broken(line) /\ ~TooLong(line)
ReadsAsWritten ==
  (\A i \in DOMAIN file : Understood(file[i])) =>
    \A key \in DOMAIN reader.values \cup {KeyAt(file, i) : i \in Pairs(file)} :
      GetString(reader.values, key, <<>>) = TextOf(file, key)

(* ParseError() is the number of the first line with an error (myInih.h:45), *)
(* or 0: and so, while no line is longer than the buffer, is it known from   *)
(* 0 that no bracket is missing and no line was passed over.  That the name  *)
(* of a section was cut is no error, and 0 says nothing of it.               *)
FirstErrorFound ==
  (\A i \in DOMAIN file : Whole(file[i])) =>
    LET bad == {i \in DOMAIN file : Broken(file[i]) \/ file[i][1].kind = "text"}
    IN  /\ reader.error \in bad \cup {0}
        /\ (reader.error = 0) <=> (bad = {})
        /\ \A i \in bad : reader.error <= i
=============================================================================
