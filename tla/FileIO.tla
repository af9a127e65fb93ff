------------------------------- MODULE FileIO -------------------------------
(***************************************************************************)
(* ReadEntireFile and WriteFileChunks of the Win32 layer, on one file.     *)
(* Each is one call made of several calls of the system: other threads     *)
(* and processes open the same file in between, the disk may fail, and a   *)
(* process may be killed between two chunks.  The system refuses an open   *)
(* that conflicts with the sharing mode of a handle that is open: none     *)
(* for a writer, reading for a reader.                                     *)
(***************************************************************************)
EXTENDS Integers, Sequences, SequencesExt, FiniteSets

CONSTANTS Callers,
          Bytes,
          ChunkLists,    \* the chunks a call writes: sequences of contents
          NoFile, Null

FileAssumption == ChunkLists \subseteq Seq(Seq(Bytes))

VARIABLES file,          \* the content, or NoFile
          pc,            \* where in its call each caller is
          chunks, i,     \* WriteFileChunks: its argument, and its loop's counter
          error,
          size, data,    \* ReadEntireFile: the size it asked for, and what it read
          begun          \* history: the chunks of the write that has opened the file last

vars == <<file, pc, chunks, i, error, size, data, begun>>

Init ==
    /\ file = NoFile /\ begun = <<>>
    /\ pc = [c \in Callers |-> "idle"]
    /\ chunks = [c \in Callers |-> <<>>] /\ i = [c \in Callers |-> 0]
    /\ error = [c \in Callers |-> FALSE]
    /\ size = [c \in Callers |-> 0] /\ data = [c \in Callers |-> Null]

Writing == {c \in Callers : pc[c] \in {"writing", "written"}}
Reading == {c \in Callers : pc[c] \in {"sizing", "reading", "closing"}}

MayRead == file # NoFile /\ Writing = {}
MayCreate == Writing = {} /\ Reading = {}

Goto(c, at, to) == pc[c] = at /\ pc' = [pc EXCEPT ![c] = to]

(***************************************************************************)
(* WriteFileChunks.                                                        *)
(***************************************************************************)
OpenToWrite(c, list, overwrite) ==
    /\ MayCreate /\ (overwrite \/ file = NoFile)
    /\ Goto(c, "idle", "writing")
    /\ file' = <<>> /\ begun' = list
    /\ chunks' = [chunks EXCEPT ![c] = list] /\ i' = [i EXCEPT ![c] = 0]
    /\ error' = [error EXCEPT ![c] = FALSE]
    /\ UNCHANGED <<size, data>>

WriteChunk(c) ==        \* at the end of the file
    /\ pc[c] = "writing" /\ i[c] < Len(chunks[c])
    /\ file' = file \o chunks[c][i[c] + 1]
    /\ i' = [i EXCEPT ![c] = @ + 1]
    /\ UNCHANGED <<pc, chunks, error, size, data, begun>>

\* Mutated: the failure of a chunk is not kept.
WriteFailsSilently(c) ==
    /\ i[c] < Len(chunks[c]) /\ Goto(c, "writing", "written")
    /\ UNCHANGED <<file, chunks, i, error, size, data, begun>>

WriteFails(c) ==
    /\ i[c] < Len(chunks[c]) /\ Goto(c, "writing", "written")
    /\ error' = [error EXCEPT ![c] = TRUE]
    /\ UNCHANGED <<file, chunks, i, size, data, begun>>

AllWritten(c) ==
    /\ i[c] = Len(chunks[c]) /\ Goto(c, "writing", "written")
    /\ UNCHANGED <<file, chunks, i, error, size, data, begun>>

CloseWritten(c) ==      \* the call returns !error
    /\ Goto(c, "written", "idle")
    /\ chunks' = [chunks EXCEPT ![c] = <<>>] /\ i' = [i EXCEPT ![c] = 0]
    /\ UNCHANGED <<file, error, size, data, begun>>

(***************************************************************************)
(* ReadEntireFile.                                                         *)
(***************************************************************************)
OpenToRead(c) ==
    /\ MayRead /\ Goto(c, "idle", "sizing")
    /\ data' = [data EXCEPT ![c] = Null]
    /\ UNCHANGED <<file, chunks, i, error, size, begun>>

GetSize(c) ==           \* and allocate
    /\ Goto(c, "sizing", "reading")
    /\ size' = [size EXCEPT ![c] = Len(file)]
    /\ UNCHANGED <<file, chunks, i, error, data, begun>>

ReadAll(c) ==           \* kept only when it is as long as the size was
    /\ Goto(c, "reading", "closing")
    /\ LET bytesRead == SubSeq(file, 1, size[c]) IN
       data' = [data EXCEPT ![c] = IF Len(bytesRead) = size[c] THEN bytesRead ELSE Null]
    /\ UNCHANGED <<file, chunks, i, error, size, begun>>

ReadFails(c) ==         \* in the query of the size, the allocation or the read
    /\ pc[c] \in {"sizing", "reading"} /\ Goto(c, pc[c], "closing")
    /\ UNCHANGED <<file, chunks, i, error, size, data, begun>>

CloseRead(c) ==
    /\ Goto(c, "closing", "idle")
    /\ size' = [size EXCEPT ![c] = 0]
    /\ UNCHANGED <<file, chunks, i, error, data, begun>>

Killed(c) ==            \* the system closes the handles
    /\ pc[c] # "idle" /\ Goto(c, pc[c], "idle")
    /\ chunks' = [chunks EXCEPT ![c] = <<>>] /\ i' = [i EXCEPT ![c] = 0]
    /\ size' = [size EXCEPT ![c] = 0]
    /\ error' = [error EXCEPT ![c] = TRUE] /\ data' = [data EXCEPT ![c] = Null]
    /\ UNCHANGED <<file, begun>>

Step(c) == \/ WriteChunk(c) \/ WriteFails(c) \/ AllWritten(c) \/ CloseWritten(c)
           \/ GetSize(c) \/ ReadAll(c) \/ ReadFails(c) \/ CloseRead(c)

Next == \E c \in Callers :
            \/ \E list \in ChunkLists, overwrite \in BOOLEAN : OpenToWrite(c, list, overwrite)
            \/ OpenToRead(c) \/ Step(c) \/ Killed(c)

Spec == Init /\ [][Next]_vars
Fairness == \A c \in Callers : WF_vars(Step(c))
FairSpec == Spec /\ Fairness

---------------------------------------------------------------------------
Contents == UNION {{FlattenSeq(SubSeq(list, 1, n)) : n \in 0..Len(list)} : list \in ChunkLists}

\* The types of the variables.
TypeOK ==
    /\ file \in Contents \cup {NoFile} /\ begun \in ChunkLists \cup {<<>>}
    /\ pc \in [Callers -> {"idle", "writing", "written", "sizing", "reading", "closing"}]
    /\ \A c \in Callers : /\ chunks[c] \in ChunkLists \cup {<<>>}
                          /\ i[c] \in 0..Len(chunks[c]) /\ size[c] \in Nat
    /\ error \in [Callers -> BOOLEAN] /\ data \in [Callers -> Contents \cup {Null}]

\* A file is never made of chunks of two calls, and its chunks are in order and
\* without a gap, even after a failed or killed write (WriteFileChunks).
OneWritesChunks ==
    file # NoFile => \E n \in 0..Len(begun) : file = FlattenSeq(SubSeq(begun, 1, n))

\* A call that returns true has left all its chunks in the file.
SuccessIsWhole ==
    [][\A c \in Callers : CloseWritten(c) /\ ~error[c] => file = FlattenSeq(chunks[c])]_vars

\* What ReadEntireFile has read stays the content of the file until it closes it,
\* and it is never cut short by a write.
ReadIsCurrent ==
    \A c \in Reading : pc[c] = "closing" /\ data[c] # Null => data[c] = file

\* A call without an end would keep its handle, and the file, closed to others.
HandlesAreClosed == \A c \in Callers : (c \in Writing \cup Reading) ~> pc[c] = "idle"
=============================================================================
