------------------------------ MODULE JsonText ------------------------------
(***************************************************************************)
(* json_parse_ex and the writers of json.h.  The parser runs twice over    *)
(* the text: the first pass finds out whether the text is json and how     *)
(* many bytes its values need (sized), the second one trusts the first,    *)
(* checks nothing and fills one allocation of that size (used).  The two   *)
(* are separate functions that walk the same grammar, and neither the dom  *)
(* nor the data area has a bound the second pass looks at.                 *)
(*                                                                         *)
(* A text is a sequence of symbols: characters, the literals true, false   *)
(* and null (one symbol each), and the part of a \uXXXX escape after the   *)
(* backslash, by what it decodes to (Unicode).  "ctrl" is a control        *)
(* character that is neither white space nor has an escape of its own.     *)
(* The recursion of the code is the stack of open objects and arrays.      *)
(* Comments, single quotes, hexadecimal numbers, Infinity and NaN need     *)
(* flags this model leaves out.                                            *)
(***************************************************************************)
EXTENDS Integers, Sequences, SequencesExt, FiniteSets, FiniteSetsExt

CONSTANTS Inputs,       \* pairs of a text and the set of the flags given
          Values,       \* the values whose written form is read back
          NoValue

VARIABLES text, flags, \* src and flags_bitset
          written,     \* the value the text was written from, or NoValue
          pass,        \* "size", "parse", "returned" or "failed"
          offset,      \* state->offset
          want,        \* a value is read next, not a turn of a loop
          stack,       \* the objects and arrays being read
          sized, used, \* bytes counted and bytes written, of dom and data
          result       \* the value returned

vars == <<text, flags, written, pass, offset, want, stack, sized, used, result>>

Space == {" ", "\n", "\t", "\r"}
Digit == {"0", "1"}
Unicode == {"u1", "u2", "u3", "hi", "lo"}
Escape == {"\"", "\\", "n"}
Literal == {"true", "false", "null"}
KeyChar == {"0", "1", "a", "n"}

Size == Len(text)
At(p) == IF p \in 0..(Size - 1) THEN text[p + 1] ELSE "end"
Past(set, p) == IF p >= Size THEN p ELSE Min({q \in p..Size : At(q) \notin set})
SkipAll(p) == Past(Space, p)

Bad == [at |-> -1, chars |-> <<>>, data |-> 0]
Read(p, cs, n) == [at |-> p, chars |-> cs, data |-> n]

(***************************************************************************)
(* Strings.  high: the escape before was the first half of a surrogate     *)
(* pair.  The first pass counts, the second decodes.                       *)
(***************************************************************************)
StringSize(start) ==
    LET count(r, n) == [r EXCEPT !.data = @ + n]
        bytes == [u1 |-> 1, u2 |-> 2, u3 |-> 3, hi |-> 1]
        from[p \in 0..Size, high \in BOOLEAN] ==
            LET c == At(p)  d == At(p + 1) IN
            IF p = Size \/ c = "\t" THEN Bad
            ELSE IF c = "\"" THEN Read(p + 1, <<>>, 1)
            ELSE IF c # "\\"
                 THEN IF c \in {"\r", "\n"} /\ "multi_line_strings" \notin flags
                      THEN Bad ELSE count(from[p + 1, high], 1)
            ELSE IF d \in Escape THEN count(from[p + 2, high], 1)
            ELSE IF d \notin Unicode \/ high # (d = "lo") THEN Bad
            ELSE IF high THEN count(from[p + 2, FALSE], 4)
            ELSE IF d = "hi" /\ (At(p + 2) # "\\" \/ At(p + 3) \notin Unicode) THEN Bad
            ELSE count(from[p + 2, d = "hi"], bytes[d])
    IN  IF At(start) # "\"" THEN Bad ELSE from[start + 1, FALSE]

StringParsed(start) ==
    LET put(c, n, r) == [r EXCEPT !.chars = <<c>> \o @, !.data = @ + n]
        decoded == [u1 |-> "a", u2 |-> "ch2", u3 |-> "ch3", lo |-> "ch4",
                    n |-> "\n"]
        bytes == [u1 |-> 1, u2 |-> 2, u3 |-> 3, lo |-> 4]
        from[p \in 0..Size] ==
            LET c == At(p)  d == At(p + 1) IN
            IF p = Size \/ c = "\"" THEN Read(p + 1, <<>>, 1)
            ELSE IF c # "\\" THEN put(c, 1, from[p + 1])
            ELSE IF d = "hi" THEN from[p + 2]
            ELSE IF d \in Unicode THEN put(decoded[d], bytes[d], from[p + 2])
            ELSE put(IF d = "n" THEN "\n" ELSE d, 1, from[p + 2])
    IN  from[start + 1]

UnquotedKey(p) == LET q == Past(KeyChar, p) IN Read(q, SubSeq(text, p + 1, q), q - p + 1)
KeyOr(quoted(_), p) ==
    IF "unquoted_keys" \in flags /\ At(p) # "\"" THEN UnquotedKey(p) ELSE quoted(p)
KeySize(p) == KeyOr(StringSize, p)
KeyParsed(p) == KeyOr(StringParsed, p)

\* Mutated: the flags are not asked.
NumberStartLoose == Digit \cup {"-", "+", "."}

(***************************************************************************)
(* Numbers.  The first pass knows their grammar, the second takes          *)
(* whatever symbol occurs in one.                                          *)
(***************************************************************************)
NumberStart == Digit \cup {"-"}
               \cup (IF "leading_plus_sign" \in flags THEN {"+"} ELSE {})
               \cup (IF "decimal_point" \in flags THEN {"."} ELSE {})
NumberFollow == Space \cup {"}", ",", "]", "end"}
                \cup (IF "equals_in_object" \in flags THEN {"="} ELSE {})

NumberSize(start) ==
    LET signed == At(start) \in {"-", "+"}
        p == IF signed THEN start + 1 ELSE start    \* after the sign
        i == Past(Digit, p)                         \* after the integer part
        f == IF At(i) = "." THEN Past(Digit, i + 1) ELSE i
        s == IF At(f + 1) \in {"-", "+"} THEN f + 2 ELSE f + 1
        e == IF At(f) = "e" THEN Past(Digit, s + 1) ELSE f
    IN  IF \/ signed /\ p < Size /\ At(p) \notin Digit
              /\ ("decimal_point" \notin flags \/ At(p) # ".")
           \/ At(p) = "0" /\ At(p + 1) \in Digit
           \/ At(i) = "." /\ At(i + 1) \notin Digit
              /\ ("decimal_point" \notin flags \/ i = p)
           \/ At(f) = "e" /\ s < Size /\ At(s) \notin Digit
           \/ At(e) \notin NumberFollow
        THEN Bad
        ELSE Read(e, <<>>, e - start + 1)

NumberParsed(start) ==
    LET q == Past(Digit \cup {".", "e", "+", "-"}, start)
    IN  Read(q, SubSeq(text, start + 1, q), q - start + 1)

(***************************************************************************)
(* The structs, in words.                                                  *)
(***************************************************************************)
Words == [object |-> 2, array |-> 2, string |-> 2, number |-> 2, member |-> 3, element |-> 2]
ValueWords == IF "location" \in flags THEN 5 ELSE 2
KeyWords == IF "location" \in flags THEN 5 ELSE 2
More(area, dom, data) == [dom |-> area.dom + dom, data |-> area.data + data]

Kind(p) == CASE At(p) = "{" -> "object" [] At(p) = "[" -> "array"
             [] At(p) = "\"" -> "string" [] At(p) \in NumberStart -> "number"
             [] At(p) \in Literal -> At(p) [] OTHER -> "invalid"
ItemWords(kind) == IF kind = "object" THEN Words.member ELSE Words.element
Payload(kind) == IF kind \in Literal THEN 0 ELSE Words[kind]
Frame(kind, global) == [kind |-> kind, global |-> global, comma |-> FALSE,
                        count |-> 0, items |-> <<>>, key |-> <<>>]
Value(kind, chars, items) == [type |-> kind, chars |-> chars, items |-> items]

Top == stack[Len(stack)]
Held(frames, items) ==      \* a value is done: what holds it counts and links it
    [frames EXCEPT ![Len(frames)].comma = TRUE, ![Len(frames)].count = @ + 1,
                   ![Len(frames)].items = @ \o items]
Global == "global_object" \in flags /\ Top.kind = "root"

(***************************************************************************)
(* The first pass.  A turn of the loop of an object or an array ends it,   *)
(* goes round again after a comma, goes on to a value, or rejects.         *)
(***************************************************************************)
Turn(step, p, n) == [step |-> step, at |-> p, data |-> n]
Rejected == Turn("reject", offset, 0)

SizeTurn ==
    LET object == Top.kind = "object"
        o == SkipAll(offset)
        p == IF Top.comma /\ At(o) = "," THEN o + 1 ELSE o
        q == IF Top.comma THEN SkipAll(p) ELSE p
        k == KeySize(q)
        c == SkipAll(k.at)
    IN  IF o = Size THEN IF Top.global THEN Turn("close", o, 0) ELSE Rejected
        ELSE IF ~Top.global /\ At(o) = (IF object THEN "}" ELSE "]")
             THEN Turn("close", o + 1, 0)
        ELSE IF Top.comma /\ p = o /\ "no_commas" \notin flags THEN Rejected
        ELSE IF Top.comma /\ "trailing_comma" \in flags THEN Turn("again", p, 0)
        ELSE IF q = Size THEN Rejected
        ELSE IF ~object THEN Turn("value", q, 0)
        ELSE IF k.at = -1 \/ SkipAll(c + 1) = Size THEN Rejected
        ELSE IF At(c) = ":" \/ (At(c) = "=" /\ "equals_in_object" \in flags)
             THEN Turn("value", SkipAll(c + 1), k.data)
        ELSE Rejected

\* Mutated: the terminator of a number is not counted.
ScalarSizeUnterminated(p) ==
    CASE Kind(p) = "string" -> StringSize(p)
      [] Kind(p) = "number" -> [NumberSize(p) EXCEPT !.data = @ - 1]
      [] OTHER -> Read(p + 1, <<>>, 0)

ScalarSize(p) == CASE Kind(p) = "string" -> StringSize(p)
                   [] Kind(p) = "number" -> NumberSize(p)
                   [] OTHER -> Read(p + 1, <<>>, 0)
Opens(p) == Global \/ Kind(p) \in {"object", "array"}
Opened(p) ==
    LET braced == At(p) \in {"{", "["} IN
    [frame |-> Frame(IF Global THEN "object" ELSE Kind(p), Global /\ At(p) # "{"),
     at |-> IF Global /\ At(p) # "{" THEN p ELSE p + 1]

SizeOpen ==         \* json_get_object_size and json_get_array_size begin
    /\ pass = "size" /\ want /\ Opens(SkipAll(offset))
    /\ LET new == Opened(SkipAll(offset)) IN
       /\ offset' = new.at /\ stack' = Append(stack, new.frame)
       /\ sized' = More(sized, ValueWords + Words[new.frame.kind], 0)
    /\ want' = FALSE
    /\ UNCHANGED <<text, flags, written, pass, used, result>>

SizeScalar ==       \* the other branches of json_get_value_size
    /\ pass = "size" /\ want
    /\ LET p == SkipAll(offset) IN
       /\ ~Opens(p) /\ Kind(p) # "invalid" /\ ScalarSize(p).at # -1
       /\ offset' = ScalarSize(p).at
       /\ sized' = More(sized, ValueWords + Payload(Kind(p)), ScalarSize(p).data)
    /\ stack' = Held(stack, <<>>) /\ want' = FALSE
    /\ UNCHANGED <<text, flags, written, pass, used, result>>

\* Mutated: a turn does not forget that a comma may come.
SizeLoopKeepsComma ==
    /\ pass = "size" /\ ~want /\ Top.kind # "root"
    /\ SizeTurn.step \in {"again", "value"}
    /\ offset' = SizeTurn.at
    /\ want' = (SizeTurn.step = "value")
    /\ sized' = IF want' /\ Top.kind = "object" THEN More(sized, KeyWords, SizeTurn.data) ELSE sized
    /\ UNCHANGED <<text, flags, written, pass, stack, used, result>>

SizeLoop ==
    /\ pass = "size" /\ ~want /\ Top.kind # "root"
    /\ SizeTurn.step \in {"again", "value"}
    /\ offset' = SizeTurn.at
    /\ want' = (SizeTurn.step = "value")
    /\ stack' = [stack EXCEPT ![Len(stack)].comma = FALSE]
    /\ sized' = IF want' /\ Top.kind = "object" THEN More(sized, KeyWords, SizeTurn.data) ELSE sized
    /\ UNCHANGED <<text, flags, written, pass, used, result>>

SizeClose ==
    /\ pass = "size" /\ ~want /\ Top.kind # "root" /\ SizeTurn.step = "close"
    /\ offset' = SizeTurn.at /\ stack' = Held(Front(stack), <<>>)
    /\ sized' = More(sized, ItemWords(Top.kind) * Top.count, 0)
    /\ UNCHANGED <<text, flags, written, pass, want, used, result>>

Reject ==           \* every early return of the first pass, and trailing characters
    /\ pass = "size"
    /\ IF want THEN LET p == SkipAll(offset) IN
                    ~Opens(p) /\ (Kind(p) = "invalid" \/ ScalarSize(p).at = -1)
       ELSE IF Top.kind = "root" THEN SkipAll(offset) # Size
       ELSE SizeTurn.step = "reject"
    /\ pass' = "failed"
    /\ UNCHANGED <<text, flags, written, offset, want, stack, sized, used, result>>

Accept ==           \* json_parse_ex allocates and starts over
    /\ pass = "size" /\ ~want /\ Top.kind = "root" /\ SkipAll(offset) = Size
    /\ pass' = "parse" /\ offset' = 0 /\ want' = TRUE
    /\ stack' = <<Frame("root", FALSE)>>
    /\ UNCHANGED <<text, flags, written, sized, used, result>>

(***************************************************************************)
(* The second pass.                                                        *)
(***************************************************************************)
ParseTurn ==
    LET object == Top.kind = "object"
        o == SkipAll(offset)
        k == KeyParsed(o)
    IN  IF o = Size THEN Turn("close", o, 0)
        ELSE IF ~Top.global /\ At(o) = (IF object THEN "}" ELSE "]")
             THEN Turn("close", o + 1, 0)
        ELSE IF Top.comma /\ At(o) = "," THEN Turn("again", o + 1, 0)
        ELSE IF object THEN Turn("value", SkipAll(SkipAll(k.at) + 1), k.data)
        ELSE Turn("value", o, 0)

ParseOpen ==
    /\ pass = "parse" /\ want /\ Opens(SkipAll(offset))
    /\ LET new == Opened(SkipAll(offset)) IN
       /\ offset' = new.at /\ stack' = Append(stack, new.frame)
       /\ used' = More(used, ValueWords + Words[new.frame.kind], 0)
    /\ want' = FALSE
    /\ UNCHANGED <<text, flags, written, pass, sized, result>>

ScalarParsed(p) == CASE Kind(p) = "string" -> StringParsed(p)
                     [] Kind(p) = "number" -> NumberParsed(p)
                     [] OTHER -> Read(p + 1, <<>>, 0)

ParseScalar ==
    /\ pass = "parse" /\ want
    /\ LET p == SkipAll(offset)  r == ScalarParsed(p)  IN
       /\ ~Opens(p)
       /\ offset' = r.at
       /\ used' = More(used, ValueWords + Payload(Kind(p)), r.data)
       /\ stack' = Held(stack, <<[key |-> Top.key,
                                  value |-> Value(Kind(p), r.chars, <<>>)]>>)
    /\ want' = FALSE
    /\ UNCHANGED <<text, flags, written, pass, sized, result>>

ParseLoop ==
    /\ pass = "parse" /\ ~want /\ Top.kind # "root"
    /\ ParseTurn.step \in {"again", "value"}
    /\ offset' = ParseTurn.at
    /\ want' = (ParseTurn.step = "value")
    /\ IF ~want' THEN stack' = [stack EXCEPT ![Len(stack)].comma = FALSE] /\ used' = used
       ELSE /\ stack' = IF Top.kind = "array" THEN stack
                        ELSE [stack EXCEPT ![Len(stack)].key = KeyParsed(SkipAll(offset)).chars]
            /\ used' = More(used, ItemWords(Top.kind) + (IF Top.kind = "object" THEN KeyWords ELSE 0),
                            ParseTurn.data)
    /\ UNCHANGED <<text, flags, written, pass, sized, result>>

ParseClose ==
    /\ pass = "parse" /\ ~want /\ Top.kind # "root" /\ ParseTurn.step = "close"
    /\ offset' = ParseTurn.at
    /\ LET held == Front(stack) IN
       stack' = Held(held, <<[key |-> held[Len(held)].key,
                              value |-> Value(Top.kind, <<>>, Top.items)]>>)
    /\ UNCHANGED <<text, flags, written, pass, want, sized, used, result>>

Return ==
    /\ pass = "parse" /\ ~want /\ Top.kind = "root"
    /\ pass' = "returned" /\ result' = Top.items[1].value
    /\ UNCHANGED <<text, flags, written, offset, want, stack, sized, used>>

Next == \/ SizeOpen \/ SizeScalar \/ SizeLoop \/ SizeClose \/ Reject \/ Accept
        \/ ParseOpen \/ ParseScalar \/ ParseLoop \/ ParseClose \/ Return

(***************************************************************************)
(* The writers: what they compute the size of, and what they write.        *)
(***************************************************************************)
EscapedString(cs) ==
    LET escaped(c) == CASE c \in {"\"", "\\"} -> <<"\\", c>> [] c = "\n" -> <<"\\", "n">>
                        [] OTHER -> <<c>>
    IN  <<"\"">> \o FlattenSeq([i \in DOMAIN cs |-> escaped(cs[i])]) \o <<"\"">>
StringRoom(cs) == 2 + Len(cs) + Cardinality({i \in DOMAIN cs : cs[i] \in {"\"", "\\", "\n"}})

Unsigned(cs) == IF Head(cs) \in {"+", "-"} THEN Tail(cs) ELSE cs
LeadingPoint(cs) == Unsigned(cs) # <<>> /\ Head(Unsigned(cs)) = "."
TrailingPoint(cs) == /\ ~LeadingPoint(cs) /\ Last(cs) = "."
                     /\ \A i \in 1..(Len(Unsigned(cs)) - 1) : Unsigned(cs)[i] \in Digit
NumberText(cs) == (IF Head(cs) = "-" THEN <<"-">> ELSE <<>>)
                  \o (IF LeadingPoint(cs) THEN <<"0">> ELSE <<>>)
                  \o Unsigned(cs)
                  \o (IF TrailingPoint(cs) THEN <<"0">> ELSE <<>>)
NumberRoom(cs) == Len(cs) + (IF LeadingPoint(cs) \/ TrailingPoint(cs) THEN 1 ELSE 0)
                          - (IF Head(cs) = "+" THEN 1 ELSE 0)

Scalar(v) == CASE v.type = "string" -> EscapedString(v.chars)
               [] v.type = "number" -> NumberText(v.chars)
               [] OTHER -> <<v.type>>
ScalarRoom(v) == CASE v.type = "string" -> StringRoom(v.chars)
                   [] v.type = "number" -> NumberRoom(v.chars)
                   [] OTHER -> 1
Brackets(v) == IF v.type = "object" THEN <<"{", "}">> ELSE <<"[", "]">>
IsScalar(v) == v.type \notin {"object", "array"}

\* json_write_minified_value and json_write_minified_get_value_size.
RECURSIVE Minified(_)
Minified(v) ==
    LET item(i) == (IF i > 1 THEN <<",">> ELSE <<>>)
                   \o (IF v.type = "object" THEN EscapedString(v.items[i].key) \o <<":">> ELSE <<>>)
                   \o Minified(v.items[i].value)
    IN  IF IsScalar(v) THEN Scalar(v)
        ELSE <<Brackets(v)[1]>> \o FlattenSeq([i \in DOMAIN v.items |-> item(i)])
             \o <<Brackets(v)[2]>>

RECURSIVE MinifiedRoom(_)
MinifiedRoom(v) ==
    LET n == Len(v.items)
        item(i) == MinifiedRoom(v.items[i].value)
                   + (IF v.type = "object" THEN StringRoom(v.items[i].key) ELSE 0)
    IN  IF IsScalar(v) THEN ScalarRoom(v)
        ELSE 2 + (IF v.type = "object" THEN n ELSE 0) + (IF n > 1 THEN n - 1 ELSE 0)
             + FoldLeft(+, 0, [i \in 1..n |-> item(i)])

\* json_write_pretty_value and json_write_pretty_get_value_size.
NewLine == <<"\n">>
Indent(depth) == [i \in 1..(2 * depth) |-> " "]

RECURSIVE Pretty(_, _)
Pretty(v, depth) ==
    LET item(i) == (IF i > 1 THEN <<",">> \o NewLine ELSE <<>>) \o Indent(depth + 1)
                   \o (IF v.type = "object" THEN EscapedString(v.items[i].key) \o <<" ", ":", " ">>
                       ELSE <<>>)
                   \o Pretty(v.items[i].value, depth + 1)
    IN  IF IsScalar(v) THEN Scalar(v)
        ELSE IF v.items = <<>> THEN Brackets(v)
        ELSE <<Brackets(v)[1]>> \o NewLine \o FlattenSeq([i \in DOMAIN v.items |-> item(i)])
             \o NewLine \o Indent(depth) \o <<Brackets(v)[2]>>

RECURSIVE PrettyRoom(_, _)
PrettyRoom(v, depth) ==
    LET n == Len(v.items)
        item(i) == (depth + 1) * 2 + 1 + PrettyRoom(v.items[i].value, depth + 1)
                   + (IF v.type = "object" THEN StringRoom(v.items[i].key) + 3 ELSE 0)
    IN  IF IsScalar(v) THEN ScalarRoom(v)
        ELSE IF n = 0 THEN 2
        ELSE 2 + 1 + n - 1 + FoldLeft(+, 0, [i \in 1..n |-> item(i)]) + depth * 2

Init ==
    /\ \/ \E in \in Inputs : text = in[1] /\ flags = in[2] /\ written = NoValue
       \/ \E v \in Values : /\ text \in {Pretty(v, 0), Minified(v)} /\ flags = {}
                            /\ written = v
    /\ pass = "size" /\ offset = 0 /\ want = TRUE
    /\ stack = <<Frame("root", FALSE)>>
    /\ sized = [dom |-> 0, data |-> 0] /\ used = [dom |-> 0, data |-> 0]
    /\ result = Value("null", <<>>, <<>>)

Spec == Init /\ [][Next]_vars
Fairness == WF_vars(Next)
FairSpec == Spec /\ Fairness

(***************************************************************************)
(* json_extract_value_ex: the room its copy is given, from the value.      *)
(***************************************************************************)
RECURSIVE ExtractRoom(_)
ExtractRoom(v) ==
    LET n == Len(v.items)
        rooms == [i \in 1..n |-> ExtractRoom(v.items[i].value)]
        keys == [i \in 1..n |-> IF v.type = "object" THEN Len(v.items[i].key) + 1 ELSE 0]
        own == IF IsScalar(v) THEN Payload(v.type)
               ELSE Words[v.type] + ItemWords(v.type) * n
                    + (IF v.type = "object" THEN Words.string * n ELSE 0)
    IN  [dom |-> 2 + own + FoldLeft(+, 0, [i \in 1..n |-> rooms[i].dom]),
         data |-> FoldLeft(+, 0, keys) + FoldLeft(+, 0, [i \in 1..n |-> rooms[i].data])
                  + (CASE v.type = "string" -> Len(v.chars) + 1
                       [] v.type = "number" -> Len(v.chars) [] OTHER -> 0)]

(***************************************************************************)
(* Properties.                                                             *)
(***************************************************************************)
Symbols == Space \cup Digit \cup Unicode \cup Escape \cup Literal \cup KeyChar
           \cup {"{", "}", "[", "]", ",", ":", "=", "-", "+", ".", "e", "ctrl"}

\* The types of the variables.
TypeOK ==
    /\ \A i \in DOMAIN text : text[i] \in Symbols
    /\ written \in Values \cup {NoValue}
    /\ pass \in {"size", "parse", "returned", "failed"}
    /\ offset \in Nat /\ want \in BOOLEAN
    /\ stack # <<>> /\ \A i \in DOMAIN stack : stack[i].kind \in {"root", "object", "array"}
    /\ sized \in [dom : Nat, data : Nat] /\ used \in [dom : Nat, data : Nat]
    /\ result.type \in Literal \cup {"object", "array", "string", "number"}

\* The second pass never writes past what the first pass counted, and when it
\* returns it has read the whole text and filled the dom exactly, whatever flags
\* were given (json_parse_ex lays out dom and data back to back).
PassesAgree ==
    /\ used.dom <= sized.dom /\ used.data <= sized.data
    /\ pass = "returned" => SkipAll(offset) = Size /\ used.dom = sized.dom

\* The numbers of json, and those in a value.
Parts(cs, i, j, k) == <<SubSeq(cs, 1, i), SubSeq(cs, i + 1, j), SubSeq(cs, j + 1, k),
                        SubSeq(cs, k + 1, Len(cs))>>
Digits(s) == s # <<>> /\ \A i \in DOMAIN s : s[i] \in Digit
IsNumber(cs) ==
    \E i \in 0..Len(cs) : \E j \in i..Len(cs) : \E k \in j..Len(cs) :
        LET p == Parts(cs, i, j, k) IN
        /\ p[1] \in {<<>>, <<"-">>}
        /\ Digits(p[2]) /\ (Head(p[2]) = "0" => Len(p[2]) = 1)
        /\ p[3] = <<>> \/ (Head(p[3]) = "." /\ Digits(Tail(p[3])))
        /\ \/ p[4] = <<>>
           \/ /\ Head(p[4]) = "e"
              /\ \E n \in 1..2 : SubSeq(p[4], 2, n) \in {<<>>, <<"+">>, <<"-">>}
                               /\ Digits(SubSeq(p[4], n + 1, Len(p[4])))
RECURSIVE Numbers(_)
Numbers(v) == IF v.type = "number" THEN {v.chars}
              ELSE UNION {Numbers(v.items[i].value) : i \in DOMAIN v.items}

\* Without flags two things are accepted that are not json: a minus sign that ends
\* the text, though "a leading '-' must be immediately followed by any digit!"
\* (json.h:1196), and control characters in strings, where only \0 and \t are refused
\* (json.h:702).  All other numbers are json's; and what was read, written back
\* minified, is the text without its white space (escapes of \u are decoded), so
\* that nothing stands where the grammar has no place for it.
AcceptsOnlyJson ==
    pass = "returned" /\ flags = {} =>
        /\ \A cs \in Numbers(result) : IsNumber(cs) \/ (cs = <<"-">> /\ Last(text) = "-")
        /\ (\A i \in DOMAIN text : text[i] \notin Unicode)
             => Minified(result) = SelectSeq(text, LAMBDA c : c \notin Space)

\* What the writers wrote is accepted and read back as it was.
ReadsAsWritten ==
    written # NoValue =>
        pass # "failed" /\ (pass = "returned" => result = written)

\* The room the writers and the extraction compute is what they then fill: no
\* writer checks it (json_write_pretty, json_write_minified, json_extract_value_ex).
RoomIsExact ==
    pass = "returned" =>
        /\ MinifiedRoom(result) = Len(Minified(result))
        /\ PrettyRoom(result, 0) = Len(Pretty(result, 0))
        /\ "location" \notin flags => ExtractRoom(result).dom = used.dom
        /\ ExtractRoom(result).data <= used.data

\* Whatever the text, both passes end.
Ends == <>(pass \in {"returned", "failed"})
=============================================================================
