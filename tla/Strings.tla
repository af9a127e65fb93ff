------------------------------- MODULE Strings -------------------------------
(***************************************************************************)
(* Who owns the characters of a String (strings.h, strings.cpp).  A String *)
(* is a reference to characters somewhere else, or it owns a block of the  *)
(* allocator or of the temporary allocator of its context; which of them   *)
(* it will be freed with is a flag of the String and not of the block.     *)
(*                                                                         *)
(* An address is a block or a literal, and a literal is its text.          *)
(***************************************************************************)
EXTENDS Integers, FiniteSets

CONSTANTS
  Names,      \* the String variables
  Blocks,     \* what the allocators can hand out
  Texts,      \* the literals
  Empty,      \* the empty one of them
  Null        \* nullptr

\* Literals are no blocks, the empty one is one of them, and nullptr is neither.
StringsAssumption ==
  Empty \in Texts /\ Null \notin Texts \cup Blocks /\ Texts \cap Blocks = {}

VARIABLES
  strings,    \* name -> [data, owned, temporary]
  mem,        \* blocks allocated -> [text, pool]
  misfreed,   \* what a FREE got that was not a block of that allocator
  io          \* name -> text, for the strings that were given one

vars == <<strings, mem, misfreed, io>>

Pool(s) == IF s.temporary THEN "tmpAllocator" ELSE "allocator"
TextAt(address) == IF address = Null THEN Empty
                   ELSE IF address \in Texts THEN address
                   ELSE IF address \in DOMAIN mem THEN mem[address].text ELSE Null

Init ==
  /\ strings = [n \in Names |-> [data |-> Empty, owned |-> FALSE, temporary |-> FALSE]]
  /\ mem = <<>>
  /\ misfreed = {}
  /\ io = [n \in Names |-> Empty]

Put(f, x, y) == [z \in DOMAIN f \cup {x} |-> IF z = x THEN y ELSE f[z]]
Without(f, x) == [z \in DOMAIN f \ {x} |-> f[z]]

----------------------------------------------------------------------------
(* A step is a chain of the functions below: each takes and gives          *)
(* [s, mem, bad], a String with the memory it works on.                    *)

\* String::Clear: the Temporary flag stays.
Clear(c) ==
  [s |-> [data |-> Null, owned |-> FALSE, temporary |-> c.s.temporary],
   mem |-> IF c.s.owned /\ c.s.data \in DOMAIN c.mem THEN Without(c.mem, c.s.data) ELSE c.mem,
   bad |-> IF /\ c.s.owned /\ c.s.data # Null
              /\ ~(c.s.data \in DOMAIN c.mem /\ c.mem[c.s.data].pool = Pool(c.s))
           THEN c.bad \cup {c.s.data} ELSE c.bad]

WithFlags(c, owned, temporary) ==
  [s |-> [data |-> c.s.data, owned |-> owned, temporary |-> temporary],
   mem |-> c.mem, bad |-> c.bad]
WithData(c, data) ==
  [s |-> [data |-> data, owned |-> c.s.owned, temporary |-> c.s.temporary],
   mem |-> c.mem, bad |-> c.bad]

NextBlock(m) == CHOOSE b \in Blocks \ DOMAIN m: TRUE

\* ALLOC_ARRAY and the copy, in the pool the flags ask for.
Allocated(c, text) ==
  LET b == NextBlock(c.mem)
  IN [s |-> [data |-> b, owned |-> TRUE, temporary |-> c.s.temporary],
      mem |-> Put(c.mem, b, [text |-> text, pool |-> Pool(c.s)]), bad |-> c.bad]

\* String::InternalClone: an empty string is not allocated but is the literal, and
\* what the Owned flag was stays.
InternalClone(c, text) ==
  IF text = Empty THEN WithData(c, Empty) ELSE Allocated(c, text)

On(n) == [s |-> strings[n], mem |-> mem, bad |-> misfreed]

Becomes(n, c) ==
  /\ strings' = [strings EXCEPT ![n] = c.s]
  /\ mem' = c.mem
  /\ misfreed' = c.bad

Room == Blocks \ DOMAIN mem # {}

----------------------------------------------------------------------------
\* ~String() of what the variable held, and String( cString, flags ).
Construct(n, text, temporary) ==
  /\ Room
  /\ Becomes(n, InternalClone(WithFlags(Clear(On(n)), TRUE, temporary), text))
  /\ io' = [io EXCEPT ![n] = text]

\* operator =( char const* )
AssignLiteral(n, text) ==
  /\ Room
  /\ Becomes(n, InternalClone(Clear(On(n)), text))
  /\ io' = [io EXCEPT ![n] = text]

\* String::Ref of a literal (StaticString), assigned over the variable.
Refer(n, text) ==
  /\ Becomes(n, WithData(WithFlags(Clear(On(n)), FALSE, FALSE), text))
  /\ io' = [io EXCEPT ![n] = text]

\* operator =( String const& ): a reference is copied as one.
Copied(c, other) ==
  LET d == WithFlags(Clear(c), other.owned, other.temporary)
  IN IF other.owned THEN InternalClone(d, TextAt(other.data))
                    ELSE WithData(d, other.data)

CopyAssign(n, m) ==
  /\ n # m /\ Room
  /\ Becomes(n, Copied(On(n), strings[m]))
  /\ io' = [io EXCEPT ![n] = io[m]]

\* Either assignment of a String to itself clears it first, and so nothing is left to
\* take over.
AssignItself(n) ==
  /\ Becomes(n, Copied(On(n), Clear(On(n)).s))
  /\ io' = [io EXCEPT ![n] = Empty]

\* operator =( String&& ): the flags compared are those the two had.
ForcesCopy(s, other) == other.owned /\ s.temporary # other.temporary

\* Mutated: the source of a move still owns what it had.
StillOwned(other, force) == other

\* If no copy was forced, the source must not free what it had.
Disowned(other, force) == [other EXCEPT !.owned = other.owned /\ force]

MoveAssign(n, m) ==
  /\ n # m /\ Room
  /\ LET s == strings[n]
         other == strings[m]
         d == WithFlags(Clear(On(n)), other.owned, other.temporary)
         force == ForcesCopy(s, other)
         taken == IF force THEN InternalClone(d, TextAt(other.data))
                           ELSE WithData(d, other.data)
         left == Clear([taken EXCEPT !.s = Disowned(other, force)])
     IN /\ strings' = [strings EXCEPT ![n] = taken.s, ![m] = left.s]
        /\ mem' = left.mem
        /\ misfreed' = left.bad
  /\ io' = [io EXCEPT ![n] = io[m], ![m] = Empty]

MakeOwned(n) ==
  /\ ~strings[n].owned /\ strings[n].data # Null /\ Room
  /\ Becomes(n, InternalClone(On(n), TextAt(strings[n].data)))
  /\ UNCHANGED io

\* Reset( len, flags ), and the caller writes the characters.
Reset(n, text, temporary) ==
  /\ Room
  /\ Becomes(n, Allocated(WithFlags(Clear(On(n)), TRUE, temporary), text))
  /\ io' = [io EXCEPT ![n] = text]

\* FromFormatTmp: the private constructor has its own flags, which nothing has
\* initialized, looked at by Clear and handed to Reset.  (Null is the address that
\* Clear finds there.)
Format(n, text) ==
  /\ Room
  /\ \E owned, temporary \in BOOLEAN:
       LET fresh == Clear([Clear(On(n)) EXCEPT !.s = [data |-> Null, owned |-> owned,
                                                     temporary |-> temporary]])
       IN Becomes(n, [Allocated(WithFlags(fresh, TRUE, temporary), text)
                        EXCEPT !.bad = @ \cup (IF owned THEN {Null} ELSE {})])
  /\ io' = [io EXCEPT ![n] = text]

ClearString(n) ==
  /\ Becomes(n, Clear(On(n)))
  /\ io' = [io EXCEPT ![n] = Empty]

----------------------------------------------------------------------------
\* FromFormat runs on flags nobody has set: the properties below are about programs
\* that do not format.
Next ==
  \E n \in Names:
    \/ \E t \in Texts, tmp \in BOOLEAN: Construct(n, t, tmp) \/ Reset(n, t, tmp)
    \/ \E t \in Texts: AssignLiteral(n, t) \/ Refer(n, t)
    \/ \E m \in Names: CopyAssign(n, m) \/ MoveAssign(n, m)
    \/ AssignItself(n)
    \/ MakeOwned(n)
    \/ ClearString(n)

NextFormatting == Next \/ \E n \in Names: \E t \in Texts \ {Empty}: Format(n, t)

Spec == Init /\ [][Next]_vars
FormattingSpec == Init /\ [][NextFormatting]_vars

----------------------------------------------------------------------------
TypeOK ==
  /\ strings \in [Names -> [data: Blocks \cup Texts \cup {Null}, owned: BOOLEAN, temporary: BOOLEAN]]
  /\ DOMAIN mem \subseteq Blocks
  /\ io \in [Names -> Texts]

Owners(b) == {n \in Names: strings[n].owned /\ strings[n].data = b}

\* No block is freed twice or by the wrong allocator, and none is lost: each
\* has exactly one owner, and the owner's flags name the allocator it is from.  What
\* is freed without being a block is never anything but the empty literal, which a
\* String that was constructed from an empty text says it owns.
BlocksHaveOwners ==
  /\ misfreed \subseteq {Empty}
  /\ \A b \in DOMAIN mem:
       /\ Cardinality(Owners(b)) = 1
       /\ \A n \in Owners(b): mem[b].pool = Pool(strings[n])

\* Refuted: only blocks are freed.  Clear of String( "" ) frees the literal.
FreesOnlyBlocks == misfreed = {}

\* A String reads as what was last put in it, whoever owned the characters
\* since; and as empty if it was moved from, or assigned to itself.
ReadsAsAssigned == \A n \in Names: TextAt(strings[n].data) = io[n]

=============================================================================
