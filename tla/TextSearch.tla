------------------------------ MODULE TextSearch ------------------------------
(***************************************************************************)
(* The functions of strings.h and strings.cpp that look for one text in    *)
(* another, measure how far two texts are apart, split a text and replace  *)
(* parts of it.  Each is translated from its loop, with offsets that start *)
(* at 0 and -1 for nullptr; the properties say what they are to return.    *)
(* A text stands for the characters before a null terminator.              *)
(***************************************************************************)
EXTENDS Integers, SequencesExt

CONSTANTS
  TextArgs,   \* what is searched, split and measured
  FindArgs,   \* what is searched for
  Separator,  \* a character
  Lower(_)    \* tolower

VARIABLES
  text, find, \* the arguments
  len,        \* the length that is passed along, that of the text
  answer      \* what each function returned

vars == <<text, find, len, answer>>

nullptr == -1
At(s, i) == s[i + 1]
From(s, i) == SubSeq(s, i + 1, Len(s))

\* strncmp( s + i, f, strlen( f ) ) == 0
Matches(s, i, f) == i + Len(f) <= Len(s) /\ SubSeq(s, i + 1, i + Len(f)) = f

\* memchr and strstr, from an offset on
memchr(s, i, c) == SelectInSubSeq(s, i + 1, Len(s), LAMBDA x: x = c) - 1
strstr(s, i, f) ==
  LET at == {j \in i..Len(s): Matches(s, j, f)}
  IN IF at = {} THEN nullptr ELSE Min(at)

\* Mutated: an early stop one character too soon.
TooLateByOne(p, s, f) == p >= Len(s) - Len(f)

\* The scan for the first character stops when what is left is too short.
TooLate(p, s, f) == p > Len(s) - Len(f)
StringFind(s, f) ==
  LET scan[i \in 0..Len(s)] ==
        LET p == memchr(s, i, f[1])
        IN IF p < 0 \/ TooLate(p, s, f) THEN nullptr
           ELSE IF Matches(s, p, f) THEN p ELSE scan[p + 1]
  IN IF f = <<>> THEN 0 ELSE IF Len(s) < Len(f) THEN nullptr ELSE scan[0]

StringFindIgnoreCase(s, f) ==
  LET same[i \in 0..Len(s), j \in 0..Len(f)] ==
        IF j = Len(f) THEN TRUE
        ELSE i < Len(s) /\ Lower(At(s, i)) = Lower(At(f, j)) /\ same[i + 1, j + 1]
      scan[i \in 0..Len(s)] ==
        IF i = Len(s) THEN nullptr ELSE IF same[i, 0] THEN i ELSE scan[i + 1]
  IN IF f = <<>> THEN 0 ELSE scan[0]

\* The last of the hits of a forward search that resumes after each hit.
NextStart(p) == p + 1
StringFindLast(s, f) ==
  LET last[i \in 0..Len(s) + 1] ==
        LET p == IF i > Len(s) THEN nullptr ELSE strstr(s, i, f)
        IN IF p = nullptr THEN nullptr
           ELSE LET q == last[NextStart(p)] IN IF q = nullptr THEN p ELSE q
  IN IF f = <<>> THEN Len(s) ELSE last[0]

StringFindLastOfAny(s, f) ==
  LET last[i \in 0..Len(s)] ==
        IF i = 0 THEN nullptr ELSE IF At(s, i - 1) \in Range(f) THEN i - 1 ELSE last[i - 1]
  IN IF f = <<>> THEN Len(s) ELSE last[Len(s)]

StringFindSuffix(s, f) ==
  IF Len(f) <= Len(s) /\ From(s, Len(s) - Len(f)) = f THEN Len(s) - Len(f) ELSE nullptr

\* The Levenshtein distance, a row for every character of b.
Cost(a, b, i, j) == IF a[i] = b[j] THEN 0 ELSE 1
StringDistance(a, b) ==
  LET d[i \in 0..Len(a), j \in 0..Len(b)] ==
        IF j = 0 THEN i ELSE IF i = 0 THEN j
        ELSE Min({d[i, j - 1] + 1, d[i - 1, j] + 1, d[i - 1, j - 1] + Cost(a, b, i, j)})
  IN IF a = <<>> \/ b = <<>> THEN -1 ELSE d[Len(a), Len(b)]

\* StringBuilder::Append: no length, or a length of zero, is that of the text.
Appended(builder, s, n) == builder \o (IF n = 0 THEN s ELSE SubSeq(s, 1, n))

\* String::CloneReplace
CloneReplace(s, match, subst) ==
  LET replaced[i \in 0..Len(s)] ==
        LET m == strstr(s, i, match)
        IN IF m = nullptr THEN IF i < Len(s) THEN Appended(<<>>, From(s, i), Len(s) - i) ELSE <<>>
           ELSE Appended(Appended(<<>>, From(s, i), m - i), subst, 0)
                  \o replaced[m + Len(match)]
  IN replaced[0]

\* String::Split: the next piece starts after a separator that ended one.
Split(s, separator) ==
  LET pieces[i \in 0..Len(s), start \in 0..Len(s), n \in 0..Len(s)] ==
        LET piece == IF n = 0 THEN <<>> ELSE <<SubSeq(s, start + 1, start + n)>>
        IN IF i = Len(s) THEN piece
           ELSE IF At(s, i) # separator THEN pieces[i + 1, start, n + 1]
           ELSE piece \o pieces[i + 1, IF n = 0 THEN start ELSE i + 1, 0]
  IN pieces[0, 0, 0]

----------------------------------------------------------------------------
Init ==
  /\ text \in TextArgs /\ find \in FindArgs
  /\ len = Len(text)
  /\ answer = <<>>

Search ==
  /\ answer = <<>>
  /\ answer' = [find |-> StringFind(text, find), ignoring |-> StringFindIgnoreCase(text, find),
                last |-> StringFindLast(text, find), any |-> StringFindLastOfAny(text, find),
                suffix |-> StringFindSuffix(text, find)]
  /\ UNCHANGED <<text, find, len>>

Measure ==
  /\ answer = <<>>
  /\ answer' = [distance |-> StringDistance(text, find)]
  /\ UNCHANGED <<text, find, len>>

Rewrite ==
  /\ answer = <<>> /\ find # <<>>
  /\ answer' = [replaced |-> CloneReplace(text, find, <<Separator>>)]
  /\ UNCHANGED <<text, find, len>>

Cut ==
  /\ answer = <<>>
  /\ answer' = [pieces |-> Split(text, Separator)]
  /\ UNCHANGED <<text, find, len>>

Next == Search \/ Measure
Spec == Init /\ [][Next]_vars
RewriteSpec == Init /\ [][Rewrite]_vars
CutSpec == Init /\ [][Cut]_vars

----------------------------------------------------------------------------
TypeOK == text \in TextArgs /\ find \in FindArgs /\ len = Len(text)

Extreme(S, Best(_)) == IF S = {} THEN nullptr ELSE Best(S)
Occurrences == {i \in 0..Len(text): Matches(text, i, find)}
Lowered(s) == [i \in DOMAIN s |-> Lower(s[i])]

\* Every search finds an occurrence if there is one, the first or the last as
\* its name says, also where occurrences overlap or the text is shorter.
FindsWhatIsThere ==
  "find" \in DOMAIN answer =>
    /\ answer.find = Extreme(Occurrences, Min)
    /\ answer.ignoring = Extreme({i \in 0..Len(text): Matches(Lowered(text), i, Lowered(find))}, Min)
    /\ answer.last = Extreme(Occurrences, Max)
    /\ find # <<>> => answer.any = Extreme({i \in 0..len - 1: At(text, i) \in Range(find)}, Max)
    /\ answer.suffix = Extreme(Occurrences \cap {len - Len(find)}, Max)

\* Pairs of positions that can be lined up: each text is read left to right.
Alignments ==
  {A \in SUBSET ((DOMAIN text) \X (DOMAIN find)):
     \A p, q \in A: p # q => (p[1] < q[1] <=> p[2] < q[2]) /\ p[1] # q[1] /\ p[2] # q[2]}

\* The distance of two texts is the least number of insertions, deletions and
\* substitutions that turn one into the other.
DistanceIsLeast ==
  "distance" \in DOMAIN answer /\ text # <<>> /\ find # <<>> =>
    answer.distance =
      Min({Len(text) + Len(find) - 2 * Cardinality(A)
             + Cardinality({p \in A: text[p[1]] # find[p[2]]}): A \in Alignments})

\* "Clone src string, while replacing all instances of match with subst"
ReplacesEveryInstance ==
  LET rest[i \in 0..Len(text)] ==
        IF i = Len(text) THEN <<>>
        ELSE IF Matches(text, i, find) THEN <<Separator>> \o rest[i + Len(find)]
        ELSE <<At(text, i)>> \o rest[i + 1]
  IN "replaced" \in DOMAIN answer => answer.replaced = rest[0]

\* "Find all locations of the given separator in this String and create a
\* bunch of Ref Strings pointing to the substrings"
SplitsAtSeparators ==
  "pieces" \in DOMAIN answer =>
    \A i \in DOMAIN answer.pieces: Separator \notin Range(answer.pieces[i])

=============================================================================
