-------------------------------- MODULE Array --------------------------------
(***************************************************************************)
(* Array of datatypes.h: a view of a block of memory that holds the items, *)
(* with a count and a capacity.  The block belongs to the array if it has  *)
(* an allocator; otherwise it is a buffer of the caller.  Calls respect    *)
(* the assertions of the code.                                             *)
(***************************************************************************)
EXTENDS Integers, Sequences, FiniteSetsExt

CONSTANTS
  Names,         (* the arrays of the program                               *)
  Items, Zero,   (* what is stored; the value-initialised item              *)
  Junk,          (* what memory holds that nobody has stored to             *)
  Capacities,    (* those asked for                                         *)
  Blocks,        (* BOUND: blocks the allocator can give out                *)
  Buffer,        (* the caller's block, with BufferLen items in it          *)
  BufferLen,
  NoBlock,
  Freed          (* the contents of a block that is not allocated           *)

Stored == Items \cup {Zero, Junk}

ArrayAssumption ==
  /\ Capacities \subseteq Nat /\ BufferLen \in Nat
  /\ Buffer \notin Blocks /\ NoBlock \notin Blocks \cup {Buffer}
  /\ \A c \in Capacities \cup {BufferLen} : \A k \in 0..c : Freed \notin [1..k -> Stored]

VARIABLES
  arrays,
  mem,           (* the contents of every block                             *)
  io             (* the items the last operation was given, or gave back    *)

vars == <<arrays, mem, io>>

Unset == [data |-> NoBlock, count |-> 0, capacity |-> 0, allocator |-> FALSE]

Init ==
  /\ arrays = [n \in Names |-> Unset]
  /\ mem = [b \in Blocks \cup {Buffer} |-> IF b = Buffer THEN [i \in 1..BufferLen |-> Zero] ELSE Freed]
  /\ io = <<>>

Smaller(m, n) == IF m < n THEN m ELSE n

CanAlloc == \E b \in Blocks : mem[b] = Freed
NewBlock == CHOOSE b \in Blocks : mem[b] = Freed

(* Copying k items of the block `from` to the beginning of c fresh ones. *)
Copied(from, k, c) == [i \in 1..c |-> IF i <= k THEN mem[from][i] ELSE Junk]

(* The array's block, if it has an allocator to give it back to. *)
Released(n, m) == IF arrays[n].allocator THEN [m EXCEPT ![arrays[n].data] = Freed] ELSE m

Count(n)     == arrays[n].count
SetCount(n, c) == arrays' = [arrays EXCEPT ![n].count = c]
Store(n, f)  == mem' = [mem EXCEPT ![arrays[n].data] = f]

---------------------------------------------------------------------------
(* Constructors, for a name that has no array yet.                         *)

Make(n, c) ==
  /\ arrays[n].data = NoBlock /\ CanAlloc
  /\ arrays' = [arrays EXCEPT ![n] = [data |-> NewBlock, count |-> 0, capacity |-> c, allocator |-> TRUE]]
  /\ mem' = [mem EXCEPT ![NewBlock] = [i \in 1..c |-> Junk]]
  /\ io' = <<>>

View(n, c) ==
  /\ arrays[n].data = NoBlock /\ \A m \in Names : arrays[m].data # Buffer
  /\ arrays' = [arrays EXCEPT ![n] =
                  [data |-> Buffer, count |-> c, capacity |-> BufferLen, allocator |-> FALSE]]
  /\ UNCHANGED mem /\ io' = <<>>

(* Clone keeps the count of the other array as its capacity, and the       *)
(* static Clone its capacity.                                              *)
Clone(n, m, c) ==
  /\ arrays[n].data = NoBlock /\ CanAlloc
  /\ arrays[m].data # NoBlock /\ c \in {Count(m), arrays[m].capacity}
  /\ arrays' = [arrays EXCEPT ![n] = [data |-> NewBlock, count |-> Count(m), capacity |-> c, allocator |-> TRUE]]
  /\ mem' = [mem EXCEPT ![NewBlock] = Copied(arrays[m].data, Count(m), c)]
  /\ io' = <<>>

---------------------------------------------------------------------------
(* Reset moves what fits to a new block, and then forgets it if asked to.  *)
Reset(n, c, clear) ==
  /\ CanAlloc
  /\ mem' = Released(n, [mem EXCEPT ![NewBlock] = Copied(arrays[n].data, Smaller(Count(n), c), c)])
  /\ arrays' = [arrays EXCEPT ![n] = [data |-> NewBlock, capacity |-> c, allocator |-> TRUE,
                  count |-> IF clear THEN 0 ELSE Smaller(Count(n), c)]]
  /\ io' = <<>>

Destroy(n) ==
  /\ mem' = Released(n, mem)
  /\ arrays' = [arrays EXCEPT ![n] = Unset]
  /\ io' = <<>>

(* operator=(Array&&) does not give back the block the target had, nor the *)
(* own one of an array that is moved to itself.                            *)
Move(n, m) ==
  /\ arrays' = [arrays EXCEPT ![n] = arrays[m], ![m] = Unset]
  /\ UNCHANGED mem /\ io' = <<>>

---------------------------------------------------------------------------
(* Push of one item, and PushEmpty, which clears the slot it gives out. *)
Push(n, x) ==
  /\ Count(n) < arrays[n].capacity
  /\ Store(n, [mem[arrays[n].data] EXCEPT ![Count(n) + 1] = x])
  /\ SetCount(n, Count(n) + 1)
  /\ io' = <<x>>

(* Push of a buffer, and Append of another array. *)
PushBuffer(n, s) ==
  /\ Count(n) + Len(s) <= arrays[n].capacity
  /\ arrays[n].data # NoBlock
  /\ Store(n, [i \in DOMAIN mem[arrays[n].data] |->
                 IF i \in Count(n)+1..Count(n)+Len(s) THEN s[i - Count(n)] ELSE mem[arrays[n].data][i]])
  /\ SetCount(n, Count(n) + Len(s))
  /\ io' = s

(* Clear, Resize and ResizeToCapacity; PushEmpty( false ). *)
Resize(n, c) ==
  /\ c <= arrays[n].capacity
  /\ SetCount(n, c)
  /\ UNCHANGED mem /\ io' = <<>>

(* The last item moves to the place of the one removed. *)
Remove(n, i) ==
  /\ i <= Count(n)
  /\ Store(n, [mem[arrays[n].data] EXCEPT ![i] = mem[arrays[n].data][Count(n)]])
  /\ SetCount(n, Count(n) - 1)
  /\ io' = <<mem[arrays[n].data][i]>>

Pop(n) ==
  /\ Count(n) > 0
  /\ io' = <<mem[arrays[n].data][Count(n)]>>
  /\ SetCount(n, Count(n) - 1)
  /\ UNCHANGED mem

(* The first of the items in use that is equal, if there is one. *)
Find(n, x) ==
  /\ LET found == {i \in 1..Count(n) : mem[arrays[n].data][i] = x}
     IN  io' = IF found = {} THEN <<x>> ELSE <<x, Min(found)>>
  /\ UNCHANGED <<arrays, mem>>

CopyFrom(n, s, offset) ==
  /\ offset <= Count(n)
  /\ LET k == Smaller(Len(s), Count(n) - offset) IN
     /\ k > 0
     /\ Store(n, [i \in DOMAIN mem[arrays[n].data] |->
                    IF i \in offset+1..offset+k THEN s[i - offset] ELSE mem[arrays[n].data][i]])
     /\ io' = SubSeq(s, 1, k)
  /\ UNCHANGED arrays

CopyTo(n, m) ==
  /\ n # m /\ arrays[n].data # NoBlock /\ arrays[m].data # NoBlock
  /\ arrays[n].capacity >= Count(m)
  /\ Store(n, [i \in DOMAIN mem[arrays[n].data] |->
                 IF i <= Count(m) THEN mem[arrays[m].data][i] ELSE mem[arrays[n].data][i]])
  /\ SetCount(n, Count(m))
  /\ io' = <<>>

Buffers == {<<Zero, x>> : x \in Items}

Next ==
  \E n \in Names :
    \/ \E c \in Capacities : Make(n, c) \/ (\E clear \in BOOLEAN : Reset(n, c, clear))
    \/ \E c \in 0..BufferLen : View(n, c)
    \/ \E m \in Names :
         (\E c \in {Count(m), arrays[m].capacity} : Clone(n, m, c)) \/ Move(n, m) \/ CopyTo(n, m)
    \/ Destroy(n)
    \/ \E s \in Buffers : PushBuffer(n, s) \/ (\E offset \in 0..Count(n) : CopyFrom(n, s, offset))
    \/ \E c \in 0..arrays[n].capacity : Resize(n, c)
    \/ \E i \in 1..Count(n) : Remove(n, i)
    \/ Pop(n)
    \/ \E x \in Items \cup {Zero} : Push(n, x)
    \/ \E x \in Items : Find(n, x)

Spec == Init /\ [][Next]_vars

---------------------------------------------------------------------------
(* Types, and the block of every array is allocated and as large as its    *)
(* capacity says.                                                          *)
TypeOK ==
  /\ arrays \in [Names -> [data : Blocks \cup {Buffer, NoBlock}, count : Nat, capacity : Nat, allocator : BOOLEAN]]
  /\ \A n \in Names :
       /\ arrays[n].count <= arrays[n].capacity
       /\ arrays[n].data # NoBlock => /\ mem[arrays[n].data] # Freed
                                      /\ DOMAIN mem[arrays[n].data] = 1..arrays[n].capacity

(* No two arrays are left with one block, whatever is moved, cloned or     *)
(* destroyed, so none frees what another one uses; and a buffer of the     *)
(* caller is never freed.                                                  *)
BlocksNotShared ==
  /\ mem[Buffer] # Freed
  /\ \A n, m \in Names : n # m /\ arrays[n].data # NoBlock => arrays[n].data # arrays[m].data

Items_(n) ==
  IF arrays[n].data = NoBlock \/ mem[arrays[n].data] = Freed THEN <<>>
  ELSE SubSeq(mem[arrays[n].data], 1, arrays[n].count)

Sequences_ == INSTANCE ItemSequences
                WITH seqs <- [n \in Names |-> Items_(n)]

(* The arrays are sequences of items: what is pushed, removed, copied or   *)
(* moved is in the right place of the right array afterwards.              *)
ImplementsSequences == Sequences_!Spec

=============================================================================
