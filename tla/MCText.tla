------------------------------- MODULE MCText -------------------------------
(***************************************************************************)
(* The searches of strings.h, the json of json.h, and the reflectors that  *)
(* write and read typed data in binary form and as json, one at a time.    *)
(***************************************************************************)
EXTENDS Integers, FiniteSets, SequencesExt

CONSTANTS
  Components,  \* the components a run looks at
  noText, NoValue

VARIABLES
  which,  \* the component that runs
  fText, fFind, fLen, fAnswer,
  jText, jFlags, jWritten, jPass, jOffset, jWant, jStack, jSized, jUsed,
  jResult,
  bMode, bReading, bCalls, bInfos, bPlace, bBuffer, bBufferHead, bError,
  bWrote, bRead,
  tMode, tVersions, tCalls, tStack, tPlace, tTree, tError, tWrote, tRead

LowerCase(c) == IF c = "A" THEN "a" ELSE c

-----------------------------------------------------------------------------
(* Values: scalars, and lists and objects of up to two of them, twice nested. *)
Val(type, chars, items) == [type |-> type, chars |-> chars, items |-> items]
One == Val("number", <<"1">>, <<>>)
Quoted(chars) == Val("string", chars, <<>>)
Items(S) == UNION {[1..n -> S]: n \in 0..2}
Unnamed(l) == [i \in DOMAIN l |-> [key |-> <<>>, value |-> l[i]]]
Named(l) == [i \in DOMAIN l |-> [key |-> IF i = 1 THEN <<"a">> ELSE <<>>, value |-> l[i]]]
Trees(S) == {Val("array", <<>>, Unnamed(l)): l \in Items(S)}
              \cup {Val("object", <<>>, Named(l)): l \in Items(S)}
Scalars == {Val("true", <<>>, <<>>), One, Quoted(<<"a", "\n", "\"">>)}
JsonValues == Scalars \cup Trees(Scalars) \cup
  Trees({One, Val("array", <<>>, <<>>), Val("object", <<>>, Named(<<One>>)),
         Val("array", <<>>, Unnamed(<<Quoted(<<>>), Val("array", <<>>, <<>>)>>))})

(* Texts: lexemes in any order, with and without the brackets around them,    *)
(* and what may be in a string or a number.                                   *)
Relaxed == {"trailing_comma", "global_object", "equals_in_object", "no_commas", "unquoted_keys"}
Joined(lexemes, n) == {FlattenSeq(l): l \in BoundedSeq(lexemes, n)}
Between(open, texts, close) == {<<open>> \o t \o <<close>>: t \in texts}
Structures == Joined({<<"{">>, <<"}">>, <<"[">>, <<"]">>, <<",">>, <<":">>, <<"\"", "a", "\"">>,
                     <<"1">>, <<" ">>, <<"ctrl">>}, 3)
Plain == {<<"}">>, <<"]">>, <<",">>, <<":">>, <<"\"", "\"">>, <<"1">>, <<"[">>}
Members(lexemes, n) == LET texts == Joined(lexemes, n)
                       IN Between("{", texts, "}") \cup Between("[", texts, "]")
StringTexts(n) == Between("\"", BoundedSeq({"\\", "n", "u1", "u2", "hi", "lo", "\"", "ctrl"}, n), "\"")
NumberTexts == BoundedSeq({"0", "1", "-", "+", ".", "e"}, 4)
JsonInputs ==
  Structures \X {{}, {"trailing_comma"}, Relaxed}
    \cup Members(Plain, 4) \X {{}}
    \cup Members(Plain \cup {<<"a">>, <<"=">>}, 3) \X {Relaxed}
    \cup StringTexts(4) \X {{}} \cup StringTexts(3) \X {{"multi_line_strings", "location"}}
    \cup NumberTexts \X {{}, {"leading_plus_sign", "decimal_point"}}
    \cup Between("[", BoundedSeq({"0", "-", ".", "e"}, 3), "]") \X {{}}

-----------------------------------------------------------------------------
(* Types of up to two fields, in every order.  Field 1 is a value, 2 an array *)
(* of one or two, 3 another type of up to two fields, 4 two of those.         *)
F == INSTANCE Reflection
Inner == {F!Type(<<>>), F!Type(<<F!Field(1, F!Raw)>>)}
           \cup {F!Type(<<F!Field(i, F!Raw), F!Field(3 - i, F!Raw)>>): i \in 1..2}
Outer(fields) ==
  {F!Type(<<>>)} \cup {F!Type(<<f>>): f \in fields}
    \cup {F!Type(<<p[1], p[2]>>): p \in {p \in fields \X fields: p[1].id # p[2].id}}
Nested == {F!Field(3, t): t \in Inner} \cup {F!Field(4, F!List(2, t)): t \in Inner}
BinaryVersions ==
  Outer({F!Field(1, F!Raw)} \cup {F!Field(2, F!Fixed(n, F!Raw)): n \in 1..2} \cup Nested)
TreeVersions ==
  Outer({F!Field(1, F!RawOf(kind)): kind \in {"number", "string"}}
          \cup {F!Field(2, F!List(1, F!Raw)), F!Field(2, F!Raw)} \cup Nested)

Search == INSTANCE TextSearch WITH
  TextArgs <- BoundedSeq({"a", "A", "b"}, 4),
  FindArgs <- BoundedSeq({"a", "A", "b"}, 3), Separator <- ",",
  Lower <- LowerCase, text <- fText, find <- fFind, len <- fLen,
  answer <- fAnswer

Json == INSTANCE JsonText WITH
  Inputs <- JsonInputs, Values <- JsonValues, NoValue <- NoValue,
  text <- jText, flags <- jFlags, written <- jWritten, pass <- jPass,
  offset <- jOffset, want <- jWant, stack <- jStack, sized <- jSized,
  used <- jUsed, result <- jResult

Bin == INSTANCE BinaryReflector WITH
  Versions <- BinaryVersions \X BinaryVersions, mode <- bMode,
  reading <- bReading, calls <- bCalls, infos <- bInfos, place <- bPlace,
  buffer <- bBuffer, bufferHead <- bBufferHead, error <- bError,
  wrote <- bWrote, read <- bRead

Tree == INSTANCE JsonReflector WITH
  Versions <- TreeVersions \X TreeVersions, NoString <- noText, mode <- tMode,
  versions <- tVersions, calls <- tCalls, stack <- tStack, place <- tPlace,
  tree <- tTree, error <- tError, wrote <- tWrote, read <- tRead

searchVars == <<fText, fFind, fLen, fAnswer>>
jsonVars == <<jText, jFlags, jWritten, jPass, jOffset, jWant, jStack,
              jSized, jUsed, jResult>>
binVars == <<bMode, bReading, bCalls, bInfos, bPlace, bBuffer, bBufferHead,
             bError, bWrote, bRead>>
treeVars == <<tMode, tVersions, tCalls, tStack, tPlace, tTree, tError,
              tWrote, tRead>>
vars == <<which, searchVars, jsonVars, binVars, treeVars>>

\* One component runs; the others stay as they are.
Init ==
  /\ which \in Components
  /\ IF which = "search" THEN Search!Init ELSE
       /\ fText = <<>> /\ fFind = <<>> /\ fLen = 0 /\ fAnswer = <<>>
  /\ IF which = "json" THEN Json!Init ELSE
       /\ jText = <<>> /\ jFlags = {} /\ jWritten = NoValue
       /\ jPass = "none" /\ jOffset = 0 /\ jWant = FALSE /\ jStack = <<>>
       /\ jSized = 0 /\ jUsed = 0 /\ jResult = NoValue
  /\ IF which = "binary" THEN Bin!Init ELSE
       /\ bMode = "none" /\ bReading = <<>> /\ bCalls = <<>>
       /\ bInfos = <<>> /\ bPlace = <<>> /\ bBuffer = <<>>
       /\ bBufferHead = 0 /\ bError = "Ok" /\ bWrote = <<>> /\ bRead = <<>>
  /\ IF which = "tree" THEN Tree!Init ELSE
       /\ tMode = "none" /\ tVersions = <<>> /\ tCalls = <<>>
       /\ tStack = <<>> /\ tPlace = <<>> /\ tTree = <<>> /\ tError = "Ok"
       /\ tWrote = <<>> /\ tRead = <<>>

OnlySearch ==
  /\ which = "search"
  /\ UNCHANGED <<which, jsonVars,
                 binVars, treeVars>>
RunSearch == OnlySearch /\ Search!Next

OnlyJson ==
  /\ which = "json"
  /\ UNCHANGED <<which, searchVars,
                 binVars, treeVars>>
RunJson == OnlyJson /\ Json!Next

OnlyBin ==
  /\ which = "binary"
  /\ UNCHANGED <<which, searchVars,
                 jsonVars, treeVars>>
RunBin == OnlyBin /\ Bin!Next

OnlyTree ==
  /\ which = "tree"
  /\ UNCHANGED <<which, searchVars,
                 jsonVars, binVars>>
RunTree == OnlyTree /\ Tree!Next

Next == RunSearch \/ RunJson \/ RunBin \/ RunTree

Spec == Init /\ [][Next]_vars

\* CloneReplace, of the arguments the searches get.
RewriteSpec == Init /\ [][OnlySearch /\ Search!Rewrite]_vars

\* The parser is not interrupted.  What it does with a text of more than
\* EndsLength symbols is left to chance: to find out whether a fair step can be
\* taken costs TLC more than to take it.
EndsLength == 4
FairJson == OnlyJson /\ Len(jText) <= EndsLength /\ Json!Next
FairSpec == Spec /\ WF_vars(FairJson)

-----------------------------------------------------------------------------
\* A search finds what is there, the first or the last of it, and the distance of
\* two texts is the least number of edits.
SearchFindsWhatIsThere ==
  which = "search" => Search!TypeOK /\ Search!FindsWhatIsThere /\ Search!DistanceIsLeast

\* The parser's second pass fits what its first pass counted, and the writers and
\* the extraction fill the room they compute.
JsonPassesAgree == which = "json" => Json!TypeOK /\ Json!PassesAgree /\ Json!RoomIsExact

\* Without flags the parser accepts nothing but json, except for a minus sign that
\* ends the text and for control characters in strings; and what the writers wrote it
\* reads back as it was.
JsonAcceptsOnlyJson ==
  which = "json" => Json!AcceptsOnlyJson /\ Json!ReadsAsWritten

\* Both passes of the parser end, whatever the text and the flags: none of its
\* loops goes round without moving on, and there is always a branch to take.
JsonParserEnds == which = "json" /\ Len(jText) <= EndsLength => Json!Ends

\* A binary or json reader gets every member that both versions of a type have,
\* and never leaves the types and fields that were written.
RoundTrip ==
  /\ which = "binary" => Bin!TypeOK /\ Bin!RoundTrip /\ Bin!HeadWithinTypes
  /\ which = "tree" => Tree!TypeOK /\ Tree!RoundTrip

\* "Clone src string, while replacing all instances of match with subst"
\* (strings.h:700)
ReplacesEveryInstance == which = "search" => Search!ReplacesEveryInstance

=============================================================================
