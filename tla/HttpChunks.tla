------------------------------ MODULE HttpChunks ------------------------------
(***************************************************************************)
(* The body of a response with "Transfer-Encoding: chunked": every Read of *)
(* http.cpp looks at all of the body that has arrived so far and takes the *)
(* chunks out of it, until it meets the last one.  The server sends a      *)
(* number of chunks, each with its size, of digits, on a line of its own;  *)
(* what has arrived may end anywhere, inside a size or a line end too.     *)
(***************************************************************************)
EXTENDS Integers, SequencesExt

CONSTANTS
  Contents,   \* the chunks a server may send, one sequence for each response
  Digits(_)   \* the digits of a size

VARIABLES
  chunks,     \* the chunks of this response
  sent,       \* its body, as the server encodes it
  received,   \* how much of it has arrived
  body,       \* response->body, once it is there
  state       \* "reading", "done", or "failed" in an assertion

vars == <<chunks, sent, received, body, state>>

LineEnd == <<"\r", "\n">>
Zero == "0"
NullChar == "null"

\* The encoding, with its last chunk and the empty trailer.
Encoded(cs) ==
  FlattenSeq([i \in DOMAIN cs |-> Digits(Len(cs[i])) \o LineEnd \o cs[i] \o LineEnd])
    \o <<Zero>> \o LineEnd \o LineEnd

Init ==
  /\ chunks \in Contents
  /\ sent = Encoded(chunks)
  /\ received = 0
  /\ body = <<>>
  /\ state = "reading"

\* String body, over what has arrived, at an offset.
Scan(text, at) == INSTANCE TextScan
  WITH buffer <- text, data <- at, length <- Len(text) - at, piece <- <<>>,
       Buffers <- {}, Tokens <- {}, Counts <- {}

\* Where ConsumeLine leaves the String, and what it returns.
NextLine(text, at) ==
  LET newlines == Scan(text, at)!Newlines
  IN IF newlines = {} THEN Len(text) ELSE Scan(text, at)!PastLine(Min(newlines))

\* String::ToI32 is strtol from where the line begins: white space is passed, line
\* ends too, and the digits that follow are read.
Digit == {Digits(n)[1]: n \in 1..3} \cup {Zero}
SizeAt(text, at) ==
  LET from == Min((at..Len(text)) \ {i \in at..Len(text) - 1: text[i + 1] \in {"\r", "\n"}})
      to == Min((from..Len(text)) \ {i \in from..Len(text) - 1: text[i + 1] \in Digit})
      digits == SubSeq(text, from + 1, to)
      sizes == {k \in 0..Len(sent): Digits(k) = digits}
  IN IF digits = <<>> THEN -1 ELSE IF digits = <<Zero>> THEN 0
     ELSE IF sizes = {} THEN Len(sent) ELSE Min(sizes)

\* A chunk is kept if something follows it.
Whole(size, left) == size < left

\* String::Consume: no further than the end of the text, or a null character in it.
Consumed(text, start, size) ==
  Min({start + size, Len(text)} \cup {i \in start..Len(text) - 1: text[i + 1] = NullChar})

\* String::Empty: nothing is left, or one null character.
NothingLeft(text, at) == Len(text) - at = 0 \/ (Len(text) - at = 1 /\ text[at + 1] = NullChar)

\* Mutated: the line end after a chunk is not passed.
AfterChunkSameLine(text, at) == at

\* Where the header of the next chunk is.
AfterChunk(text, at) == NextLine(text, at)

IsLast(size, left) == size = 0

\* The loop over the chunks, at an offset of the body.
Parsed(text) ==
  LET parse[at \in 0..Len(text)] ==
        LET start == NextLine(text, at)
            size == SizeAt(text, at)
            rest == parse[AfterChunk(text, Consumed(text, start, size))]
        IN IF NothingLeft(text, at) THEN [state |-> "reading", body |-> <<>>]
           ELSE IF size < 0 THEN [state |-> "failed", body |-> <<>>]
           ELSE IF IsLast(size, Len(text) - start) THEN [state |-> "done", body |-> <<>>]
           ELSE IF Whole(size, Len(text) - start)
           THEN [rest EXCEPT !.body = SubSeq(text, start + 1, start + size) \o @]
           ELSE rest
  IN parse[0]

\* String::Clone asserts that what was collected has a last character; a null one is
\* left out, as if it ended the text.
Finished(result) ==
  IF result.state = "done" /\ result.body = <<>> THEN "failed" ELSE result.state
Cloned(text) == IF Last(text) = NullChar THEN Front(text) ELSE text

\* Read: some more of the body arrives, and all of it is looked at again.
Read ==
  /\ state = "reading"
  /\ \E n \in received + 1..Len(sent):
       LET result == Parsed(SubSeq(sent, 1, n)) IN
       /\ received' = n
       /\ state' = Finished(result)
       /\ body' = IF Finished(result) = "done" THEN Cloned(result.body) ELSE body
  /\ UNCHANGED <<chunks, sent>>

Next == Read
Spec == Init /\ [][Next]_vars

----------------------------------------------------------------------------
TypeOK ==
  /\ received \in 0..Len(sent)
  /\ state \in {"reading", "done", "failed"}

\* Consume stops at a null character, and so it is passed only with the rest of its
\* line: the chunks that are read aright have no line end behind one.
NullInLine(text) ==
  \A i, k \in DOMAIN text: text[i] = NullChar /\ i < k => text[k] # "\n"
ReadAright == \A i \in DOMAIN chunks: NullInLine(chunks[i])

\* However the body is split into reads, it is put together from its chunks, without
\* their sizes and line ends, and never before its last chunk is there; only a null
\* character at its very end is lost.  A body without a chunk is not: reading it ends
\* in the assertion of Last.
BodyIsWhole ==
  ReadAright =>
    /\ state = "failed" => chunks = <<>>
    /\ state = "done" => /\ chunks # <<>> /\ body = Cloned(FlattenSeq(chunks))
                         /\ received > Len(sent) - 5

\* A body that has arrived is recognized: the client does not wait for more.
WholeBodyRecognized ==
  ReadAright /\ received = Len(sent) => state = (IF chunks = <<>> THEN "failed" ELSE "done")

\* Refuted: no response ends in a failed assertion.  One without a chunk does, and one
\* with a line end behind a null character can.
NeverFails == state # "failed"

=============================================================================
