---------------------------- MODULE JsonReflector ----------------------------
(***************************************************************************)
(* The JSON serialization of serialize_json.h.  The writer builds a tree   *)
(* of json values, which json.h turns into text and back (JsonText.tla);   *)
(* the reader looks members up in it by name.  `stack` holds the value of  *)
(* every scope being reflected, innermost last, and what the writer linked *)
(* last in it.  A value starts as EmptyVal, an object without members that *)
(* all of them share, and is given its own object with its first field.    *)
(***************************************************************************)
EXTENDS Reflection

CONSTANTS
  Versions,   \* pairs <<writer, reader>>: the calls of the two programs
  NoString    \* the empty string

VARIABLES
  mode,       \* "write", "read" or "done"
  versions,   \* the pair being run
  calls,      \* the calls still to be made, the next one first
  stack,      \* JsonReflector::stack: [value, lastChild]
  place,      \* path of field ids and array indices of the current member
  tree,       \* the json values allocated: [type, children, payload]
  error,      \* Reflector::error
  wrote, read \* member -> value

vars == <<mode, versions, calls, stack, place, tree, error, wrote, read>>

\* EmptyVal, and the object that replaces it.
EmptyVal == [type |-> "empty", children |-> <<>>, payload |-> 0]
Object == [type |-> "object", children |-> <<>>, payload |-> 0]
JsonArray == [type |-> "array", children |-> <<>>, payload |-> 0]
Leaf(kind, value) == [type |-> kind, children |-> <<>>, payload |-> value]

call == Head(calls)
Rest == Tail(calls)
head == Last(stack)
value == tree[head.value]
Entry(v) == [value |-> v, lastChild |-> 0]
Calling(m, op) == mode = m /\ calls # <<>> /\ call.op = op /\ error = "Ok"

\* The constructors: a root object is on the stack.
Init ==
  /\ \E v \in Versions: calls = <<v[1]>> /\ versions = v
  /\ mode = "write"
  /\ tree = <<Object>>
  /\ stack = <<Entry(1)>> /\ place = <<>>
  /\ error = "Ok"
  /\ wrote = <<>> /\ read = <<>>

\* A type has no scope of its own: its fields are members of the value.
ReflectType ==
  /\ Calling(mode, "type")
  /\ calls' = call.fields \o Rest
  /\ UNCHANGED <<mode, versions, stack, place, tree, error, wrote, read>>

----------------------------------------------------------------------------
(* Writing.                                                                *)

\* What linking a child after the last one leaves of an object's members.
Linked(children, lastChild, child) == Append(SubSeq(children, 1, lastChild), child)

\* ReflectFieldStart: a member without type or contents yet.
WriteFieldStart ==
  /\ Calling("write", "field")
  /\ LET last == IF value.type = "empty" THEN 0 ELSE head.lastChild
         new == Len(tree) + 1
     IN /\ tree' = Append([tree EXCEPT ![head.value] =
                            [Object EXCEPT !.children =
                               Linked(value.children, last, [name |-> call.id, value |-> new])]],
                          EmptyVal)
        /\ stack' = Append([stack EXCEPT ![Len(stack)].lastChild = last + 1], Entry(new))
  /\ calls' = <<call.body, EndField(0)>> \o Rest
  /\ place' = Append(place, call.id)
  /\ UNCHANGED <<mode, versions, error, wrote, read>>

WriteRaw ==
  /\ Calling("write", "raw")
  /\ tree' = [tree EXCEPT ![head.value] = Leaf(call.kind, ValueOf(place))]
  /\ wrote' = (place :> ValueOf(place)) @@ wrote
  /\ calls' = Rest
  /\ UNCHANGED <<mode, versions, stack, place, error, read>>

WriteArray ==
  /\ Calling("write", "list")
  /\ tree' = [tree EXCEPT ![head.value] = JsonArray]
  /\ calls' = Elements(call.n, call.body) \o Rest
  /\ UNCHANGED <<mode, versions, stack, place, error, wrote, read>>

WriteElement ==
  /\ Calling("write", "element")
  /\ tree' = Append(tree, EmptyVal)
  /\ stack' = Append(stack, Entry(Len(tree) + 1))
  /\ place' = Append(place, call.n)
  /\ calls' = <<call.body>> \o Rest
  /\ UNCHANGED <<mode, versions, error, wrote, read>>

\* The element is linked in the array once it is complete.
WriteElementEnd ==
  /\ Calling("write", "endelement")
  /\ LET array == stack[Len(stack) - 1].value
     IN tree' = [tree EXCEPT ![array].children =
                   Append(@, [name |-> Last(place), value |-> head.value])]
  /\ stack' = Front(stack)
  /\ place' = Front(place)
  /\ calls' = Rest
  /\ UNCHANGED <<mode, versions, error, wrote, read>>

\* JsonWriteString, and json_parse in the program that reads: the values the
\* text gives are those of the tree (JsonText), the members' order included.
StartReading ==
  /\ mode = "write" /\ calls = <<>>
  /\ mode' = "read"
  /\ calls' = <<versions[2]>>
  /\ stack' = <<Entry(1)>>
  /\ UNCHANGED <<versions, place, tree, error, wrote, read>>

----------------------------------------------------------------------------
(* Reading.                                                                *)

\* FindChild: the first member of that name.
FindChild(name) == SelectInSeq(value.children, LAMBDA c: c.name = name)

ReadFieldStart ==
  /\ Calling("read", "field")
  /\ FindChild(call.id) # 0
  /\ stack' = Append(stack, Entry(value.children[FindChild(call.id)].value))
  /\ calls' = <<call.body, EndField(0)>> \o Rest
  /\ place' = Append(place, call.id)
  /\ UNCHANGED <<mode, versions, tree, error, wrote, read>>

\* A member the writer did not have is not an error.
ReadFieldMissing ==
  /\ Calling("read", "field")
  /\ FindChild(call.id) = 0
  /\ calls' = Rest
  /\ UNCHANGED <<mode, versions, stack, place, tree, error, wrote, read>>

\* A number has to be one; a String takes anything else for the empty string.
ReadRaw ==
  /\ Calling("read", "raw")
  /\ IF value.type = call.kind
     THEN read' = (place :> value.payload) @@ read /\ UNCHANGED error
     ELSE IF call.kind = "string"
     THEN read' = (place :> NoString) @@ read /\ UNCHANGED error
     ELSE error' = "BadData" /\ UNCHANGED read
  /\ calls' = Rest
  /\ UNCHANGED <<mode, versions, stack, place, tree, wrote>>

ReadArray ==
  /\ Calling("read", "list")
  /\ IF value.type = "array"
     THEN calls' = Elements(Len(value.children), call.body) \o Rest /\ UNCHANGED error
     ELSE calls' = Rest /\ error' = "BadData"
  /\ UNCHANGED <<mode, versions, stack, place, tree, wrote, read>>

ReadElement ==
  /\ Calling("read", "element")
  /\ stack' = Append(stack, Entry(value.children[call.n + 1].value))
  /\ place' = Append(place, call.n)
  /\ calls' = <<call.body>> \o Rest
  /\ UNCHANGED <<mode, versions, tree, error, wrote, read>>

ReadElementEnd ==
  /\ Calling("read", "endelement")
  /\ stack' = Front(stack)
  /\ place' = Front(place)
  /\ calls' = Rest
  /\ UNCHANGED <<mode, versions, tree, error, wrote, read>>

\* ReflectFieldEnd pops the member, also after an error in it.
FieldEnd ==
  /\ calls # <<>> /\ call.op = "endfield"
  /\ stack' = Front(stack)
  /\ place' = Front(place)
  /\ calls' = Rest
  /\ UNCHANGED <<mode, versions, tree, error, wrote, read>>

\* The result of a Reflect() is returned up to the field that contains it; an
\* array returns it without the Pop of its element.
AfterError == call.op # "endfield"

ReturnError ==
  /\ error # "Ok" /\ calls # <<>>
  /\ AfterError
  /\ place' = IF call = EndElement THEN Front(place) ELSE place
  /\ calls' = Rest
  /\ UNCHANGED <<mode, versions, stack, tree, error, wrote, read>>

Finish ==
  /\ mode = "read" /\ calls = <<>>
  /\ mode' = "done"
  /\ UNCHANGED <<versions, calls, stack, place, tree, error, wrote, read>>

Next ==
  \/ ReflectType \/ FieldEnd \/ ReturnError \/ StartReading \/ Finish
  \/ WriteFieldStart \/ WriteRaw \/ WriteArray \/ WriteElement \/ WriteElementEnd
  \/ ReadFieldStart \/ ReadFieldMissing \/ ReadRaw \/ ReadArray \/ ReadElement
  \/ ReadElementEnd

Spec == Init /\ [][Next]_vars

----------------------------------------------------------------------------
TypeOK ==
  /\ mode \in {"write", "read", "done"}
  /\ error \in {"Ok", "BadData"}
  /\ \A i \in 1..Len(stack): stack[i].value \in 1..Len(tree)

\* What the two programs make of a member.
Written(path) == MemberOf(versions[1], path)
Wanted(path) == MemberOf(versions[2], path)
SameKind(path) == Wanted(path) = Written(path)

\* What has to be refused: a member written as another kind of value.
Refused(path) ==
  \/ Wanted(path).op = "raw" /\ Wanted(path).kind # "string" /\ ~SameKind(path)
  \/ Wanted(path).op = "list" /\ Written(path).op # "list"

WrittenPaths == UNION {{SubSeq(p, 1, n): n \in 1..Len(p)}: p \in DOMAIN wrote}

Expected ==
  [p \in {p \in WrittenPaths: Wanted(p).op = "raw" /\ ~Refused(p)} |->
     IF SameKind(p) THEN wrote[p] ELSE NoString]

\* The reader gets the value of every member both versions have, found by its
\* name at any depth and in any order, and no other; it reports bad data
\* exactly when a member it wants was written as another kind of value, and
\* what it got before is right even then.
RoundTrip ==
  mode = "done" =>
    /\ error = "BadData" <=> \E p \in WrittenPaths: Refused(p)
    /\ error = "Ok" => read = Expected
    /\ \A p \in DOMAIN read: p \in DOMAIN Expected /\ read[p] = Expected[p]

=============================================================================
