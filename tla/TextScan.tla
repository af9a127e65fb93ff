------------------------------ MODULE TextScan ------------------------------
(***************************************************************************)
(* The ConsumeX methods of String (strings.h), which the HTTP client reads *)
(* headers and chunks with: a reference into a buffer advances over it and *)
(* gives the pieces it passed as references.  A character is one of        *)
(* "\n", "\r", " ", a word character, or any other one; the buffer ends    *)
(* with a null character, and offsets start at 0.                          *)
(***************************************************************************)
EXTENDS Integers, Sequences, FiniteSetsExt

CONSTANTS
  Buffers,    \* the texts read
  Tokens,     \* what ConsumeUntil is asked to stop at
  Counts      \* how many characters Consume is asked for

\* Lines end with "\n" or "\r\n", and it is told which: a "\r" has a "\n" after it, and
\* none before it, but that of another "\r\n".  (Of "\n\r\n" ConsumeLine takes "\n\r" for
\* a line end, and the next line, whose "\r" is before it, has a length of -1.)
LineEndsTold(text) ==
  \A i \in DOMAIN text: text[i] = "\r" =>
    /\ i + 1 \in DOMAIN text /\ text[i + 1] = "\n"
    /\ i > 1 /\ text[i - 1] = "\n" => i > 2 /\ text[i - 2] = "\r"

ScanAssumption ==
  /\ Buffers \subseteq Seq(STRING) /\ \A text \in Buffers: LineEndsTold(text)
  /\ "\n" \notin Tokens /\ Counts \subseteq Nat

VARIABLES
  buffer,     \* the text around the String
  data,       \* String::data, as an offset in the text
  length,     \* String::length
  piece       \* the String the last call returned: [at, length, line]

vars == <<buffer, data, length, piece>>

NullChar == "null"
IsNewline(c) == c \in {"\n", "\r"}
IsWhitespace(c) == c = " " \/ IsNewline(c)
IsWord(c) == c \notin {NullChar, "other"} /\ ~IsWhitespace(c)

\* What is before the buffer is no newline.
CharAt(i) == IF i \in 0..Len(buffer) - 1 THEN buffer[i + 1] ELSE NullChar

End == data + length
Ref(at, len) == [at |-> at, length |-> len, line |-> FALSE]
Line(at, len) == [Ref(at, len) EXCEPT !.line = TRUE]

\* Where a loop that goes on at the offsets of a set stops.
Stop(from, goesOn) == Min((from..Len(buffer)) \ goesOn)

Init ==
  /\ buffer \in Buffers
  /\ data = 0 /\ length = Len(buffer)
  /\ piece = Ref(0, 0)

Advance(to) ==
  /\ data' = to
  /\ length' = length - (to - data)
  /\ UNCHANGED buffer

\* A line ends with "\n", and with the "\r" before it or else the one after.
Newlines == {i \in data..End - 1: CharAt(i) = "\n"}
\* Mutated: only "\n" is cut off.
LineEndPlain(nl) == nl

LineEnd(nl) == IF CharAt(nl - 1) = "\r" THEN nl - 1 ELSE nl
PastLine(nl) == IF CharAt(nl - 1) # "\r" /\ CharAt(nl + 1) = "\r" THEN nl + 2 ELSE nl + 1

ConsumeLine ==
  IF Newlines = {}
  THEN Advance(End) /\ piece' = Line(data, length)
  ELSE LET nl == Min(Newlines)
       IN Advance(PastLine(nl)) /\ piece' = Line(data, LineEnd(nl) - data)

AfterWhitespace == Stop(data, {i \in data..End - 1: IsWhitespace(CharAt(i))})

ConsumeWhitespace ==
  /\ Advance(AfterWhitespace)
  /\ piece' = Ref(data, 0)

\* The word is what is left of it even beyond the String's length.
ConsumeWord ==
  LET start == AfterWhitespace
      end == IF start < End THEN Stop(start, {i \in start..Len(buffer): IsWord(CharAt(i))}) ELSE start
  IN Advance(end) /\ piece' = Ref(start, end - start)

ConsumeUntil(token) ==
  LET end == Stop(data, {i \in data..End - 1: CharAt(i) \notin {NullChar, token}})
  IN Advance(end) /\ piece' = Ref(data, end - data)

Consume(count) ==
  LET end == Stop(data, {i \in data..End - 1: CharAt(i) # NullChar /\ i < data + count})
  IN Advance(end) /\ piece' = Ref(data, end - data)

\* Callers do not ask Consume to stop between the characters of a line end:
\* ConsumeLine would take the "\r" it left for a part of the next line.
SplitsLineEnd(at) == CharAt(at - 1) = "\r" /\ CharAt(at) = "\n"

\* A line is scanned in turn.
EnterLine ==
  /\ piece.line /\ piece.length > 0
  /\ data' = piece.at /\ length' = piece.length
  /\ piece' = Ref(piece.at, 0)
  /\ UNCHANGED buffer

Next ==
  \/ ConsumeLine
  \/ ConsumeWhitespace
  \/ ConsumeWord
  \/ \E c \in Tokens: ConsumeUntil(c)
  \/ \E n \in Counts: ~SplitsLineEnd(data + n) /\ Consume(n)
  \/ EnterLine

Spec == Init /\ [][Next]_vars
----------------------------------------------------------------------------
TypeOK ==
  /\ buffer \in Buffers
  /\ data \in 0..Len(buffer) /\ length \in 0..Len(buffer)
  /\ piece \in [at: 0..Len(buffer), length: Int, line: BOOLEAN]

\* A call only moves forward, never past the end of the String, and what it
\* returns lies between where the String was and where it is: the pieces come
\* in the order of the text and none overlaps another.
PiecesFollow ==
  [][EnterLine \/
     /\ data' >= data /\ End' = End /\ length' >= 0
     /\ piece'.length >= 0
     /\ piece'.at >= data /\ piece'.at + piece'.length <= data']_vars

\* A line is what precedes its line end, "\n" or "\r\n", without either; what
\* is left starts after it, so that a program that reads line by line gets
\* every line, empty ones included, and comes to the end of the text.
LinesAreLines ==
  [][ConsumeLine =>
       /\ \A i \in data..data + piece'.length - 1: ~IsNewline(CharAt(i))
       /\ \A i \in data + piece'.length..data' - 1: IsNewline(CharAt(i))
       /\ Cardinality({i \in data..data' - 1: CharAt(i) = "\n"}) <= 1
       /\ length > 0 => length' < length]_vars

=============================================================================
