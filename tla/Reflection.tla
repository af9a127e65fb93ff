----------------------------- MODULE Reflection -----------------------------
(***************************************************************************)
(* The calls a Reflect() function makes (serialization.h).  The same       *)
(* function writes and reads a type, so a version of a type is the tree of *)
(* calls its function makes: a raw value, a type (a sequence of fields), a *)
(* fixed array T[N] or an Array<T>.  A reflector keeps the calls still to  *)
(* make as a sequence; a call that contains others is replaced by them and *)
(* by what its scope does when it ends.                                    *)
(***************************************************************************)
EXTENDS Integers, SequencesExt

RawOf(kind) == [op |-> "raw", kind |-> kind]
Raw == RawOf("number")
Type(fields) == [op |-> "type", fields |-> fields]
Field(id, body) == [op |-> "field", id |-> id, body |-> body]
Fixed(n, body) == [op |-> "fixed", n |-> n, body |-> body]
List(n, body) == [op |-> "list", n |-> n, body |-> body]

EndType == [op |-> "endtype"]
EndField(offset) == [op |-> "endfield", offset |-> offset]
EndElement == [op |-> "endelement"]

\* for( i = 0; i < count; ++i ) Reflect( r, d[i] )
Elements(n, body) ==
  [i \in 1..2 * n |-> IF i % 2 = 1 THEN [op |-> "element", n |-> i \div 2, body |-> body]
                                  ELSE EndElement]

\* The value a member holds in the program that writes: any injective coding
\* of its path.  Counts and ids are smaller.
ValueOf(path) == 100 + FoldLeftDomain(LAMBDA sum, i: sum + path[i] * 10^(i - 1), 0, path)

\* The call reached by following a path of ids and indices, if there is one.
Child(node, step) ==
  IF node.op = "type"
  THEN LET fields == SelectSeq(node.fields, LAMBDA f: f.id = step)
       IN IF fields = <<>> THEN EndType ELSE fields[1].body
  ELSE IF node.op = "list" \/ (node.op = "fixed" /\ step < node.n) THEN node.body ELSE EndType

MemberOf(version, path) == FoldLeft(Child, version, path)
HasMember(version, path) == MemberOf(version, path).op = "raw"
=============================================================================
