----------------------------- MODULE BucketArray -----------------------------
(***************************************************************************)
(* BucketArray of datatypes.h: items in buckets of one size, so that they  *)
(* never move.  The list of buckets grows by doubling; a bucket that is    *)
(* emptied goes to a free list, from which only Destroy takes it.  Calls   *)
(* respect the assertions of the code.  What follows an access outside the *)
(* items of a bucket is not modelled.                                      *)
(***************************************************************************)
EXTENDS Intrinsics, SequencesExt

CONSTANTS
  Names,         (* the arrays of the program                               *)
  Items,
  Junk,          (* what a slot beyond its bucket's items holds             *)
  BucketSizes,   (* those asked for                                         *)
  ReserveSizes,
  Chunks,        (* sequences that are pushed or stored at once             *)
  MinBuffer,     (* the least room for buckets, 4 in the code               *)
  Blocks         (* BOUND: blocks the allocator can give out                *)

BucketAssumption ==
  /\ MaxBits \in Nat /\ MinBuffer \in Nat \ {0} /\ ReserveSizes \subseteq Nat
  /\ IsFiniteSet(Blocks)
  /\ \A size \in BucketSizes : size \in Nat /\ \E p \in PowersOf2 : size <= p
  /\ \A chunk \in Chunks : chunk \in Seq(Items)

VARIABLES
  arrays,
  mem,           (* the blocks that are allocated                           *)
  roomy,         (* History: arrays given buckets with nothing to put there *)
  outside,       (* History: the array whose items were missed, if any were *)
  io             (* the items the last operation was given, or gave back    *)

vars == <<arrays, mem, roomy, outside, io>>

(* What ZERO leaves: no allocator either. *)
Unset == [buckets |-> <<>>, bufferCapacity |-> 0, count |-> 0, free |-> <<>>,
          bucketCapacity |-> 0, allocator |-> FALSE]

New(size) == [Unset EXCEPT !.bucketCapacity = NextPowerOf2(size), !.allocator = TRUE]

Init ==
  /\ \E size \in BucketSizes : arrays = [n \in Names |-> New(size)]
  /\ mem = {} /\ roomy = {} /\ outside = {}
  /\ io = <<>>

(* The helpers work on an array a together with the memory m.              *)

Capacity(a) == Len(a.buckets) * a.bucketCapacity
Room(k)     == Cardinality(Blocks \ mem) >= k

(* Where the item with index i is, counting from 0. *)
FindBucket(a, i) ==
  LET shift == Log2(a.bucketCapacity)
  IN  [bucket |-> (i \div PowerOf2[shift]) + 1, slot |-> (i % a.bucketCapacity) + 1]

At(a, i) ==
  LET items == a.buckets[FindBucket(a, i).bucket].items
      slot  == FindBucket(a, i).slot
  IN  IF slot \in DOMAIN items THEN items[slot] ELSE Junk

GrowBucketBuffer(a, newCount) ==
  LET asked == IF newCount = 0 THEN 2 * a.bufferCapacity ELSE newCount
  IN  [a EXCEPT !.bufferCapacity = IF asked < MinBuffer THEN MinBuffer ELSE asked]

AllocBucket(s) ==
  LET a   == IF Len(s.a.buckets) = s.a.bufferCapacity THEN GrowBucketBuffer(s.a, 0) ELSE s.a
      new == CHOOSE b \in Blocks : b \notin s.m
  IN  [a |-> [a EXCEPT !.buckets = Append(@, [data |-> new, items |-> <<>>])], m |-> s.m \cup {new}]

(* One after another. *)
Allocated(s, k) ==
  LET more[i \in 0..k] == IF i = 0 THEN s ELSE AllocBucket(more[i - 1]) IN more[k]

LastIsFull(a) == a.buckets = <<>> \/ Len(Last(a.buckets).items) = a.bucketCapacity

WithRoom(s) == IF LastIsFull(s.a) THEN AllocBucket(s) ELSE s

PushInternal(s, x) ==
  LET r == WithRoom(s)
  IN  [a |-> [r.a EXCEPT !.buckets[Len(r.a.buckets)].items = Append(@, x), !.count = @ + 1], m |-> r.m]

(* The items of a chunk are pushed one after another. *)
AllPushed(s, chunk) ==
  LET more[i \in 0..Len(chunk)] == IF i = 0 THEN s ELSE PushInternal(more[i - 1], chunk[i])
  IN  more[Len(chunk)]

(* A chunk is stored over items that are there already, by their indices. *)
Overwritten(a, chunk, offset) ==
  LET Stored(b, slot) == {i \in DOMAIN chunk : FindBucket(a, offset + i - 1) = [bucket |-> b, slot |-> slot]}
      Items_(b) == [slot \in DOMAIN a.buckets[b].items |->
                      IF Stored(b, slot) = {} THEN a.buckets[b].items[slot]
                      ELSE chunk[CHOOSE i \in Stored(b, slot) : TRUE]]
  IN  [a EXCEPT !.buckets = [b \in DOMAIN a.buckets |-> [data |-> a.buckets[b].data, items |-> Items_(b)]]]

(* Mutated: the buckets are not put into the free list. *)
RetireLosing(a, k) == [a EXCEPT !.buckets = SubSeq(@, 1, k)]

(* RetireBucket of those after the first k, the last one first. *)
RetireBuckets(a, k) ==
  [a EXCEPT !.buckets = SubSeq(@, 1, k),
            !.free = [i \in 1..Len(a.buckets) - k |-> a.buckets[k + i].data] \o @]

(* The memory an array has, in use or retired. *)
Held(a) == [i \in DOMAIN a.buckets |-> a.buckets[i].data] \o a.free
Data(a) == ToSet(Held(a))

Update(n, s) == arrays' = [arrays EXCEPT ![n] = s.a] /\ mem' = s.m

Usable(n) == arrays[n].bucketCapacity > 0

---------------------------------------------------------------------------
Reset(n, size) ==
  /\ Update(n, [a |-> New(size), m |-> mem \ Data(arrays[n])])
  /\ roomy' = roomy \ {n} /\ UNCHANGED outside
  /\ io' = <<>>

Destroy(n) ==
  /\ Update(n, [a |-> [Unset EXCEPT !.allocator = arrays[n].allocator], m |-> mem \ Data(arrays[n])])
  /\ roomy' = roomy \ {n} /\ UNCHANGED outside
  /\ io' = <<>>

(* operator=(BucketArray&&), between arrays with the same allocator; one   *)
(* that is moved to itself is destroyed.                                   *)
Move(n, m) ==
  /\ arrays[n].allocator = arrays[m].allocator
  /\ mem' = mem \ Data(arrays[n])
  /\ arrays' = [arrays EXCEPT ![n] = arrays[m], ![m] = Unset]
  /\ roomy' = (roomy \ {n, m}) \cup (IF m \in roomy THEN {n} \ {m} ELSE {})
  /\ UNCHANGED outside
  /\ io' = <<>>

Reserve(n, c) ==
  LET a     == arrays[n]
      wanted == (c + a.bucketCapacity - 1) \div a.bucketCapacity
  IN
  /\ Usable(n) /\ Room(wanted)
  /\ IF c <= Capacity(a) THEN UNCHANGED <<arrays, mem>>
     ELSE Update(n, Allocated([a |-> GrowBucketBuffer(a, wanted), m |-> mem], wanted - Len(a.buckets)))
  /\ roomy' = IF c <= Capacity(a) THEN roomy ELSE roomy \cup {n}
  /\ UNCHANGED outside
  /\ io' = <<>>

(* Push of one item or of a buffer, and PushEmpty: the buckets are filled  *)
(* one after the other; there is one with room even if nothing is pushed.  *)
Push(n, chunk) ==
  LET s == [a |-> arrays[n], m |-> mem] IN
  /\ Usable(n) /\ Room(IF chunk = <<>> THEN 1 ELSE Len(chunk))
  /\ Update(n, IF chunk = <<>> THEN WithRoom(s) ELSE AllPushed(s, chunk))
  /\ roomy' = IF chunk = <<>> /\ LastIsFull(arrays[n]) THEN roomy \cup {n} ELSE roomy
  /\ UNCHANGED outside
  /\ io' = chunk

(* The last bucket is asserted to exist, not to have an item: of one that  *)
(* has none the item before the first is read.                             *)
Pop(n) ==
  LET a == arrays[n]
      l == Len(a.buckets)
      items  == a.buckets[l].items
      popped == [a EXCEPT !.buckets[l].items = Front(@), !.count = @ - 1]
  IN
  /\ a.buckets # <<>>
  /\ \/ /\ items # <<>>
        (* The first bucket always stays. *)
        /\ arrays' = [arrays EXCEPT ![n] = IF Len(items) = 1 /\ l > 1 THEN RetireBuckets(popped, l - 1) ELSE popped]
        /\ io' = <<Last(items)>>
        /\ UNCHANGED outside
     \/ /\ items = <<>>
        /\ arrays' = [arrays EXCEPT ![n].count = @ - 1]
        /\ io' = <<Junk>>
        /\ outside' = {n}
  /\ UNCHANGED <<mem, roomy>>

Clear(n) ==
  LET a       == arrays[n]
      retired == [RetireBuckets(a, 1) EXCEPT !.buckets[1].items = <<>>]
  IN
  /\ arrays' = [arrays EXCEPT ![n] = [(IF a.buckets = <<>> THEN a ELSE retired) EXCEPT !.count = 0]]
  /\ roomy' = roomy \ {n}
  /\ UNCHANGED <<mem, outside>> /\ io' = <<>>

CopyFrom(n, chunk, offset) ==
  /\ chunk # <<>> /\ offset + Len(chunk) <= arrays[n].count
  /\ arrays' = [arrays EXCEPT ![n] = Overwritten(arrays[n], chunk, offset)]
  /\ io' = chunk
  /\ UNCHANGED <<mem, roomy, outside>>

(* CopyTo, of a buffer, an array or another one; CopyToArray and MoveTo    *)
(* call it.  It finds the first item by its index, and goes on from bucket *)
(* to bucket by their counts.                                              *)
CopyTo(n, k, offset) ==
  LET a     == arrays[n]
      first == FindBucket(a, offset)
      items == FlattenSeq([b \in 1..Len(a.buckets) - first.bucket + 1 |->
                            a.buckets[first.bucket + b - 1].items])
  IN
  /\ offset + k <= a.count
  /\ IF first.slot <= Len(a.buckets[first.bucket].items) + 1
     THEN io' = SubSeq(items, first.slot, first.slot + k - 1) /\ UNCHANGED outside
     ELSE io' = <<Junk>> /\ outside' = {n}
  /\ UNCHANGED <<arrays, mem, roomy>>

Next ==
  /\ outside = {}
  /\ \E n \in Names :
       \/ \E size \in BucketSizes : Reset(n, size)
       \/ Destroy(n)
       \/ \E m \in Names : Move(n, m)
       \/ \E c \in ReserveSizes : Reserve(n, c)
       \/ \E chunk \in Chunks : Push(n, chunk) \/ (\E offset \in 0..arrays[n].count : CopyFrom(n, chunk, offset))
       \/ Pop(n) \/ Clear(n)
       \/ \E k \in 1..arrays[n].count : CopyTo(n, k, arrays[n].count - k)

Spec == Init /\ [][Next]_vars

---------------------------------------------------------------------------
(* Types; no bucket holds more than its size, and the list of buckets has  *)
(* room for them.                                                          *)
TypeOK ==
  /\ mem \subseteq Blocks /\ roomy \subseteq Names /\ outside \subseteq Names
  /\ \A n \in Names : LET a == arrays[n] IN
       /\ IsPowerOf2(a.bucketCapacity) \/ a.bucketCapacity = 0
       /\ Len(a.buckets) <= a.bufferCapacity
       /\ \A i \in DOMAIN a.buckets : Len(a.buckets[i].items) <= a.bucketCapacity

(* Every block is allocated exactly while it is a bucket or on the free    *)
(* list of one array: buckets that are retired, moved or reset are neither *)
(* lost nor freed twice.                                                   *)
BlocksAccountedFor ==
  /\ mem = UNION {Data(arrays[n]) : n \in Names}
  /\ \A n, m \in Names : n # m => Data(arrays[n]) \cap Data(arrays[m]) = {}
  /\ \A n \in Names : IsInjective(Held(arrays[n]))

(* "Same as an Array, we don't allow gaps in between elements, so the      *)
(* given index acts as a mask of the bucket index + index in the bucket"   *)
(* (datatypes.h:550): below the count, an index leads to an item.  It is   *)
(* refuted when Reserve makes two buckets and Push fills the second.       *)
NoGaps ==
  \A n \in Names : \A i \in 1..arrays[n].count : At(arrays[n], i - 1) # Junk

(* Refuted: Pop finds an item in an array that has one.  It does not if    *)
(* Reserve, or Push of nothing, has added a bucket after the items.        *)
PopFindsItems == \A n \in outside : arrays[n].count < 0

(* What an index needs: items in all slots of every bucket but the last.   *)
Packed(a) == \A b \in 1..Len(a.buckets) - 1 : Len(a.buckets[b].items) = a.bucketCapacity

(* Those two are all that leaves gaps or an empty bucket behind: retiring, *)
(* clearing, moving and pushing do not, and so nothing outside the items   *)
(* is read but by Pop of an array that is empty.                           *)
OnlyRoomHasGaps ==
  /\ \A n \in Names \ roomy :
       /\ Packed(arrays[n])
       /\ \A b \in 2..Len(arrays[n].buckets) : arrays[n].buckets[b].items # <<>>
  /\ \A n \in outside \ roomy : arrays[n].count < 0

Seqs == [n \in Names |-> [i \in 1..arrays[n].count |-> At(arrays[n], i - 1)]]

Sequences_ == INSTANCE ItemSequences WITH seqs <- Seqs

(* Read by index, the arrays are sequences of items as long as all of them *)
(* are packed: what is pushed, popped, stored, copied out or moved is at   *)
(* the right index.  (Nothing is claimed of an access outside the items.)  *)
ImplementsSequences ==
  /\ Sequences_!Init
  /\ [][(\A n \in Names : Packed(arrays[n])) /\ outside' = {} => Sequences_!Next]_<<Seqs, io>>

=============================================================================
