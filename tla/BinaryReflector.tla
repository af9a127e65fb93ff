--------------------------- MODULE BinaryReflector ---------------------------
(***************************************************************************)
(* The binary serialization of serialization.h and serialize_binary.h.     *)
(* The same Reflect() code writes and reads a type: FIELD(id, member) is   *)
(* ReflectFieldBody, the braces of Reflect() are the lifetime of a         *)
(* ReflectedTypeInfo.  A type starts with a header (total size, number of  *)
(* fields), each field with its size and its id, and both sizes are        *)
(* written back when the type or the field ends.                           *)
(*                                                                         *)
(* One version of a type (Reflection.tla) writes the buffer and another    *)
(* reads it: fields may be added, removed and reordered between the two.   *)
(* `infos` are the ReflectedTypeInfo objects alive, innermost first, and   *)
(* `place` says which member is being reflected.  A header, which the code *)
(* packs in five bytes, takes two units here: a size, and a count or id.   *)
(***************************************************************************)
EXTENDS Reflection

CONSTANTS
  Versions    \* pairs <<writer, reader>>: the calls of the two programs

VARIABLES
  mode,       \* "write", "read" or "done"
  reading,    \* the version that will read
  calls,      \* the calls still to be made, the next one first
  infos,      \* the types being reflected: [start, size, count, fieldSize]
  place,      \* path of field ids and array indices of the current member
  buffer,     \* the units written
  bufferHead, \* the reader's position
  error,      \* Reflector::error
  wrote, read \* member -> value

vars == <<mode, reading, calls, infos, place, buffer, bufferHead, error, wrote, read>>

HeaderSize == 2
BinaryFieldSize == 2

Put(units, at, new) ==
  [i \in 1..Len(units) |-> IF i > at /\ i <= at + Len(new) THEN new[i - at] ELSE units[i]]

\* A unit of the buffer; past its end, where no sound reader looks, none.
UnitAt(i) == IF i \in 1..Len(buffer) THEN buffer[i] ELSE 0

call == Head(calls)
info == Head(infos)
Rest == Tail(calls)
HasError == error # "Ok"
Size == Len(buffer)
Calling(m, op) == mode = m /\ calls # <<>> /\ call.op = op /\ ~HasError

Init ==
  /\ \E v \in Versions: calls = <<v[1]>> /\ reading = v[2]
  /\ mode = "write"
  /\ infos = <<>> /\ place = <<>> /\ buffer = <<>> /\ bufferHead = 0
  /\ error = "Ok"
  /\ wrote = <<>> /\ read = <<>>

----------------------------------------------------------------------------
(* Writing.                                                                *)

\* ReflectedTypeInfo(): room for the header, which is written at the end.
WriteType ==
  /\ Calling("write", "type")
  /\ infos' = <<[start |-> Size, size |-> 0, count |-> 0, fieldSize |-> 0]>> \o infos
  /\ buffer' = buffer \o <<0, 0>>
  /\ calls' = call.fields \o <<EndType>> \o Rest
  /\ UNCHANGED <<mode, reading, place, bufferHead, error, wrote, read>>

\* ReflectFieldStartWrite
WriteFieldStart ==
  /\ Calling("write", "field")
  /\ infos' = <<[info EXCEPT !.count = @ + 1]>> \o Tail(infos)
  /\ buffer' = buffer \o <<0, call.id>>
  /\ calls' = <<call.body, EndField(Size)>> \o Rest
  /\ place' = Append(place, call.id)
  /\ UNCHANGED <<mode, reading, bufferHead, error, wrote, read>>

\* ReflectTypeRaw
WriteRaw ==
  /\ Calling("write", "raw")
  /\ buffer' = Append(buffer, ValueOf(place))
  /\ wrote' = (place :> ValueOf(place)) @@ wrote
  /\ calls' = Rest
  /\ UNCHANGED <<mode, reading, infos, place, bufferHead, error, read>>

\* An array: the count, then the elements.
WriteArray ==
  /\ Calling("write", "fixed") \/ Calling("write", "list")
  /\ buffer' = Append(buffer, call.n)
  /\ calls' = Elements(call.n, call.body) \o Rest
  /\ UNCHANGED <<mode, reading, infos, place, bufferHead, error, wrote, read>>

\* ReflectFieldEnd: the final size includes the field's own metadata.
WriteFieldEnd ==
  /\ Calling("write", "endfield")
  /\ buffer' = Put(buffer, call.offset, <<Size - call.offset, Last(place)>>)
  /\ place' = Front(place)
  /\ calls' = Rest
  /\ UNCHANGED <<mode, reading, infos, bufferHead, error, wrote, read>>

\* ~ReflectedTypeInfo()
WriteTypeEnd ==
  /\ Calling("write", "endtype")
  /\ buffer' = Put(buffer, info.start, <<Size - info.start, info.count>>)
  /\ infos' = Tail(infos)
  /\ calls' = Rest
  /\ UNCHANGED <<mode, reading, place, bufferHead, error, wrote, read>>

\* The buffer is handed to the program that reads.
StartReading ==
  /\ mode = "write" /\ calls = <<>>
  /\ mode' = "read"
  /\ calls' = <<reading>>
  /\ UNCHANGED <<reading, infos, place, buffer, bufferHead, error, wrote, read>>

----------------------------------------------------------------------------
(* Reading.                                                                *)

\* ReflectedTypeInfo(): decodes the header and checks it against the buffer.
ReadType ==
  /\ Calling("read", "type")
  /\ LET size == UnitAt(bufferHead + 1) IN
     /\ infos' = <<[start |-> bufferHead, size |-> size, count |-> UnitAt(bufferHead + 2),
                    fieldSize |-> 0]>> \o infos
     /\ error' = IF bufferHead + size > Size \/ size < HeaderSize THEN "BadData" ELSE error
  /\ bufferHead' = bufferHead + HeaderSize
  /\ calls' = call.fields \o <<EndType>> \o Rest
  /\ UNCHANGED <<mode, reading, place, buffer, wrote, read>>

EndOffset == info.start + info.size
FirstField == info.start + HeaderSize
FieldSizeAt(offset) == UnitAt(offset + 1)
FieldIdAt(offset) == UnitAt(offset + 2)

\* Mutated: the search does not start over at the end of the type.
NotWrapped(offset) == offset

\* At the end of the type the search starts over from its first field.
Wrapped(offset) == IF offset = EndOffset THEN FirstField ELSE offset

\* Where the search for a field that is not next starts: an id smaller than
\* the wanted one was removed, a bigger one has been reordered.
SearchStart(id) ==
  IF FieldIdAt(bufferHead) < id THEN bufferHead + FieldSizeAt(bufferHead) ELSE FirstField

\* The fields the search visits, one for every field of the type.
Searched(id) ==
  LET visit[i \in 1..info.count] ==
        Wrapped(IF i = 1 THEN SearchStart(id)
                         ELSE visit[i - 1] + FieldSizeAt(visit[i - 1]))
  IN visit

\* ReflectFieldStartRead: where the field is, none if the type has no more
\* fields or every one was looked at.
FieldFound(id) ==
  IF bufferHead >= EndOffset THEN {}
  ELSE IF FieldIdAt(bufferHead) = id THEN {bufferHead}
  ELSE {o \in Range(Searched(id)): FieldIdAt(o) = id}

\* The size that is kept is that of the field at the reader's position.
FieldSizeKept(offset) == FieldSizeAt(bufferHead)

\* The bounds of the field at the reader's position are kept: the reader
\* resumes after it, wherever the wanted field was found.
ReadFieldStart ==
  /\ Calling("read", "field")
  /\ \E o \in FieldFound(call.id):
       IF o + FieldSizeAt(o) > EndOffset \/ FieldSizeAt(o) < BinaryFieldSize
       THEN /\ error' = "BadData"
            /\ calls' = Rest
            /\ UNCHANGED <<infos, bufferHead, place>>
       ELSE /\ infos' = <<[info EXCEPT !.fieldSize = FieldSizeKept(o)]>> \o Tail(infos)
            /\ bufferHead' = o + BinaryFieldSize
            /\ calls' = <<call.body, EndField(bufferHead)>> \o Rest
            /\ place' = Append(place, call.id)
            /\ UNCHANGED error
  /\ UNCHANGED <<mode, reading, buffer, wrote, read>>

\* A field the writer did not have is not an error.
ReadFieldMissing ==
  /\ Calling("read", "field")
  /\ FieldFound(call.id) = {}
  /\ calls' = Rest
  /\ UNCHANGED <<mode, reading, infos, place, buffer, bufferHead, error, wrote, read>>

\* ReflectTypeRaw
ReadRaw ==
  /\ Calling("read", "raw")
  /\ IF bufferHead + 1 > Size
     THEN error' = "BufferOverflow" /\ UNCHANGED <<bufferHead, read>>
     ELSE /\ read' = (place :> UnitAt(bufferHead + 1)) @@ read
          /\ bufferHead' = bufferHead + 1
          /\ UNCHANGED error
  /\ calls' = Rest
  /\ UNCHANGED <<mode, reading, infos, place, buffer, wrote>>

\* An array's count; what reading it returns is not looked at, so at the end
\* of the buffer the array keeps its own.
CountRead == IF bufferHead + 1 > Size THEN call.n ELSE UnitAt(bufferHead + 1)

\* T[N]: of a longer array only the first N elements are read.
FixedCount == IF CountRead < call.n THEN CountRead ELSE call.n

\* Array<T> takes the size that was written.
ReadArray ==
  /\ Calling("read", "fixed") \/ Calling("read", "list")
  /\ bufferHead' = IF bufferHead + 1 > Size THEN bufferHead ELSE bufferHead + 1
  /\ calls' = Elements(IF call.op = "fixed" THEN FixedCount ELSE CountRead, call.body) \o Rest
  /\ UNCHANGED <<mode, reading, infos, place, buffer, error, wrote, read>>

\* Reflect( r, d[i] ), and the next element
Element ==
  /\ Calling(mode, "element")
  /\ place' = Append(place, call.n)
  /\ calls' = <<call.body>> \o Rest
  /\ UNCHANGED <<mode, reading, infos, buffer, bufferHead, error, wrote, read>>

ElementEnd ==
  /\ calls # <<>> /\ call = EndElement
  /\ place' = Front(place)
  /\ calls' = Rest
  /\ UNCHANGED <<mode, reading, infos, buffer, bufferHead, error, wrote, read>>

\* ReflectFieldEnd also runs after an error in the field.
HeadAfterField == call.offset + info.fieldSize

ReadFieldEnd ==
  /\ mode = "read" /\ calls # <<>> /\ call.op = "endfield"
  /\ bufferHead' = HeadAfterField
  /\ place' = Front(place)
  /\ calls' = Rest
  /\ UNCHANGED <<mode, reading, infos, buffer, error, wrote, read>>

\* ~ReflectedTypeInfo(): fields the reader does not know are left behind.
HeadAfterType == IF info.size # 0 THEN EndOffset ELSE bufferHead

ReadTypeEnd ==
  /\ mode = "read" /\ calls # <<>> /\ call.op = "endtype"
  /\ bufferHead' = HeadAfterType
  /\ infos' = Tail(infos)
  /\ calls' = Rest
  /\ UNCHANGED <<mode, reading, place, buffer, error, wrote, read>>

\* With an error set, everything up to the end of the field returns.
ReturnError ==
  /\ HasError /\ calls # <<>>
  /\ call.op \notin {"endfield", "endtype", "endelement"}
  /\ calls' = Rest
  /\ UNCHANGED <<mode, reading, infos, place, buffer, bufferHead, error, wrote, read>>

Finish ==
  /\ mode = "read" /\ calls = <<>>
  /\ mode' = "done"
  /\ UNCHANGED <<reading, calls, infos, place, buffer, bufferHead, error, wrote, read>>

Next ==
  \/ WriteType \/ WriteFieldStart \/ WriteRaw \/ WriteArray \/ WriteFieldEnd \/ WriteTypeEnd
  \/ StartReading \/ Element \/ ElementEnd
  \/ ReadType \/ ReadFieldStart \/ ReadFieldMissing \/ ReadRaw \/ ReadArray
  \/ ReadFieldEnd \/ ReadTypeEnd \/ ReturnError \/ Finish

Spec == Init /\ [][Next]_vars

----------------------------------------------------------------------------
TypeOK ==
  /\ mode \in {"write", "read", "done"}
  /\ bufferHead \in 0..Size
  /\ error \in {"Ok", "BadData", "BufferOverflow"}
  /\ \A i \in 1..Len(infos): infos[i].start \in 0..Size

\* The reader gets the value of every member both versions have, wherever the
\* writer put it, and of no other; a version that adds, removes or reorders
\* fields, at any depth, is never taken for bad data.
RoundTrip ==
  mode = "done" =>
    /\ error = "Ok"
    /\ read = [p \in {p \in DOMAIN wrote: HasMember(reading, p)} |-> wrote[p]]

\* While a type is read the reader stays within the bounds its header gives,
\* and the type within those of the type around it.
HeadWithinTypes ==
  mode = "read" =>
    \A i \in 1..Len(infos):
      /\ bufferHead >= infos[i].start + HeaderSize
      /\ bufferHead <= infos[i].start + infos[i].size
      /\ i > 1 => infos[i - 1].start + infos[i - 1].size <= infos[i].start + infos[i].size

=============================================================================
