-------------------------- MODULE ContainersProofs --------------------------
(***************************************************************************)
(* Proofs about the allocators of memory.h, the arrays and the Hashtable   *)
(* of datatypes.h and the String of strings.h.                             *)
(*                                                                         *)
(* GenericHeap, for a chunk, a header and sizes of any number of bytes:    *)
(* its blocks tile the chunk, free neighbours are merged, and what callers *)
(* have stays theirs.  The invariant adds that the links stay in the list  *)
(* and that a block ends before every later one begins: a block that is    *)
(* cut off then cannot meet one that is there already.                     *)
(*                                                                         *)
(* MemoryArena: what a scope has stays its own.                            *)
(*                                                                         *)
(* Hashtable, for any keys, values and hashes: every search ends, and the  *)
(* table is a map.  The invariant is that each entry is where the search   *)
(* for its key ends, and that no more than half of the slots are in use.   *)
(*                                                                         *)
(* String, for any names, texts and blocks: every block has one owner, and *)
(* a String reads as what was last put in it.                              *)
(*                                                                         *)
(* Array and BucketArray, for any names, items, sizes and blocks: every    *)
(* block that is allocated has one array.                                  *)
(*                                                                         *)
(* RingBuffer, for any size and items: it is a queue of the newest items,  *)
(* and its iterators go over them, but not back over a full one.           *)
(***************************************************************************)
EXTENDS MCContainers, ThreadCounts, SequenceTheorems

RealOf(bs) == DOMAIN bs \ {Heap!Sentinel}
EndOf(bs, b) == b + HeapHeader + bs[b].size

Linked(bs) ==
  /\ Heap!Sentinel \in DOMAIN bs /\ 0 \in DOMAIN bs
  /\ RealOf(bs) \subseteq Heap!Addresses
  /\ bs \in [DOMAIN bs -> [prev : DOMAIN bs, next : DOMAIN bs, size : Nat, used : BOOLEAN]]
  /\ \A b \in DOMAIN bs : bs[bs[b].next].prev = b /\ bs[bs[b].prev].next = b

SentinelKept(bs) ==
  bs[Heap!Sentinel].next = 0 /\ bs[Heap!Sentinel].size = 0 /\ ~ bs[Heap!Sentinel].used

Tiled(bs) ==
  \A b \in RealOf(bs) :
    /\ EndOf(bs, b) <= HeapSize
    /\ bs[b].next = IF EndOf(bs, b) = HeapSize THEN Heap!Sentinel ELSE EndOf(bs, b)

InOrder(bs) == \A b, c \in RealOf(bs) : b < c => EndOf(bs, b) <= c

Shape(bs) == Linked(bs) /\ SentinelKept(bs) /\ Tiled(bs) /\ InOrder(bs)

FreePair(bs, b) ==
  bs[b].next # Heap!Sentinel /\ ~ bs[b].used /\ ~ bs[bs[b].next].used

HeapInv ==
  /\ Shape(gBlocks)
  /\ \A b \in RealOf(gBlocks) : ~ FreePair(gBlocks, b)
  /\ Heap!GrantsKept
  /\ gLastAllocated \in DOMAIN gGranted \cup {Heap!Sentinel}
  /\ \A b \in DOMAIN gGranted : gGranted[b] \in Nat
  /\ gAllocatedBlocks = Cardinality({b \in RealOf(gBlocks) : gBlocks[b].used})

LEMMA HeapNumbers ==
  ASSUME ContainersAssumptions
  PROVE  /\ HeapHeader \in Nat /\ HeapHeader > 0 /\ HeapSize \in Nat /\ HeapSize > HeapHeader
         /\ MinSplit \in Nat /\ HeapSizes \subseteq Nat \ {0}
         /\ Heap!Sentinel = -1 /\ Heap!Addresses = 0..HeapSize-1
BY DEF ContainersAssumptions, Heap!HeapAssumption, Heap!Sentinel, Heap!Addresses

\* A block, its neighbours, and where it ends.
LEMMA BlockFacts ==
  ASSUME ContainersAssumptions, NEW bs, Shape(bs), NEW b \in RealOf(bs)
  PROVE  /\ b \in Nat /\ b < HeapSize /\ b # Heap!Sentinel /\ b \in DOMAIN bs
         /\ bs[b].size \in Nat /\ bs[b].used \in BOOLEAN
         /\ bs[b].next \in DOMAIN bs /\ bs[b].prev \in DOMAIN bs
         /\ EndOf(bs, b) = b + HeapHeader + bs[b].size
         /\ EndOf(bs, b) \in Nat /\ EndOf(bs, b) <= HeapSize /\ b < EndOf(bs, b)
         /\ bs[b].next # Heap!Sentinel =>
              bs[b].next \in RealOf(bs) /\ bs[b].next = EndOf(bs, b) /\ b < bs[b].next
         /\ bs[b].next = Heap!Sentinel => EndOf(bs, b) = HeapSize
         /\ bs[b].next # b /\ bs[b].prev # b
<1>1. b \in DOMAIN bs /\ b \in 0..HeapSize-1 /\ b # Heap!Sentinel
  BY HeapNumbers DEF Shape, Linked, RealOf
<1>2. bs[b] \in [prev : DOMAIN bs, next : DOMAIN bs, size : Nat, used : BOOLEAN]
  BY <1>1 DEF Shape, Linked
<1>3. /\ EndOf(bs, b) <= HeapSize
      /\ bs[b].next = IF EndOf(bs, b) = HeapSize THEN Heap!Sentinel ELSE EndOf(bs, b)
  BY DEF Shape, Tiled
<1>4. EndOf(bs, b) = b + HeapHeader + bs[b].size
  BY DEF EndOf
<1>5. EndOf(bs, b) \in Nat /\ b < EndOf(bs, b)
  BY <1>1, <1>2, <1>4, HeapNumbers
<1>6. bs[b].next # b
  BY <1>1, <1>3, <1>5
<1>7. bs[b].prev # b
  <2>1. bs[bs[b].prev].next = b
    BY <1>1 DEF Shape, Linked
  <2>. QED
    BY <1>6, <2>1
<1>8. bs[b].next # Heap!Sentinel => bs[b].next \in RealOf(bs)
  BY <1>2 DEF RealOf
<1>. QED
  BY <1>1, <1>2, <1>3, <1>4, <1>5, <1>6, <1>7, <1>8, HeapNumbers

\* The sentinel and its neighbours, and what the links say of any block.
LEMMA LinkFacts ==
  ASSUME ContainersAssumptions, NEW bs, Shape(bs)
  PROVE  /\ Heap!Sentinel \in DOMAIN bs /\ bs[Heap!Sentinel].next = 0 /\ 0 \in RealOf(bs)
         /\ bs[Heap!Sentinel].size = 0 /\ ~ bs[Heap!Sentinel].used
         /\ \A b \in DOMAIN bs :
              /\ bs[b] \in [prev : DOMAIN bs, next : DOMAIN bs, size : Nat, used : BOOLEAN]
              /\ bs[bs[b].next].prev = b /\ bs[bs[b].prev].next = b
BY HeapNumbers DEF Shape, Linked, SentinelKept, RealOf

\* Two neighbours that are free, and the block behind; and what a merge makes of
\* them.
Merging(bs, f, s, t, m) ==
  /\ f \in RealOf(bs) /\ s = bs[f].next /\ s # Heap!Sentinel /\ t = bs[s].next
  /\ ~ bs[f].used /\ ~ bs[s].used
  /\ m = Heap!MergeIfPossible(bs, f, s)

Merged(bs, f, s, t, m) ==
  /\ s \in RealOf(bs) /\ t \in DOMAIN bs /\ t # f /\ t # s /\ f < s
  /\ s = EndOf(bs, f) /\ EndOf(bs, s) \in Nat
  /\ DOMAIN m = DOMAIN bs \ {s} /\ m = [c \in DOMAIN m |-> m[c]]
  /\ m[f] = [prev |-> bs[f].prev, next |-> t, size |-> EndOf(bs, s) - f - HeapHeader, used |-> FALSE]
  /\ m[t] = [prev |-> f, next |-> bs[t].next, size |-> bs[t].size, used |-> bs[t].used]
  /\ \A c \in DOMAIN m \ {f, t} : m[c] = bs[c]

LEMMA MergedBlocks ==
  ASSUME ContainersAssumptions, NEW bs, Shape(bs), NEW f, NEW s, NEW t, NEW m,
         Merging(bs, f, s, t, m)
  PROVE  Merged(bs, f, s, t, m)
<1>. USE DEF Merging
<1>1. /\ s \in RealOf(bs) /\ s = EndOf(bs, f) /\ f < s
      /\ f \in DOMAIN bs /\ f \in Nat /\ f # Heap!Sentinel
      /\ bs[f].size \in Nat /\ EndOf(bs, f) = f + HeapHeader + bs[f].size
  BY BlockFacts
<1>2. /\ t \in DOMAIN bs /\ t # s /\ s \in DOMAIN bs /\ s \in Nat /\ bs[s].size \in Nat
      /\ EndOf(bs, s) = s + HeapHeader + bs[s].size /\ EndOf(bs, s) \in Nat
      /\ t # Heap!Sentinel => s < t
  BY <1>1, BlockFacts
<1>3. t # f
  BY <1>1, <1>2, HeapNumbers
<1>. DEFINE merged == [bs EXCEPT ![t].prev = f, ![f].next = t, ![f].size = @ + HeapHeader + bs[s].size]
<1>4. m = [c \in DOMAIN bs \ {s} |-> merged[c]]
  BY <1>1 DEF Heap!MergeIfPossible, Heap!Mergeable
<1>5. /\ bs[f] \in [prev : DOMAIN bs, next : DOMAIN bs, size : Nat, used : BOOLEAN]
      /\ bs[t] \in [prev : DOMAIN bs, next : DOMAIN bs, size : Nat, used : BOOLEAN]
  BY <1>1, <1>2, LinkFacts
<1>6. /\ merged[f] = [prev |-> bs[f].prev, next |-> t, size |-> bs[f].size + HeapHeader + bs[s].size, used |-> FALSE]
      /\ merged[t] = [prev |-> f, next |-> bs[t].next, size |-> bs[t].size, used |-> bs[t].used]
      /\ \A c \in DOMAIN bs \ {f, t} : merged[c] = bs[c]
  BY <1>1, <1>2, <1>3, <1>5
<1>7. bs[f].size + HeapHeader + bs[s].size = EndOf(bs, s) - f - HeapHeader
  <2>1. HeapHeader \in Nat /\ s = f + HeapHeader + bs[f].size
    BY <1>1, HeapNumbers
  <2>2. ASSUME NEW x1 \in Nat, NEW x2 \in Nat, NEW h \in Nat, s = f + h + x1
        PROVE  x1 + h + x2 = (s + h + x2) - f - h
    BY <1>1, <1>2, <2>2
  <2>. QED
    BY <1>1, <1>2, <2>1, <2>2
<1>8. m = [c \in DOMAIN m |-> m[c]]
  BY <1>4
<1>. HIDE DEF merged
<1>. QED
  BY <1>1, <1>2, <1>3, <1>4, <1>6, <1>7, <1>8 DEF Merged

\* A merge keeps the shape of the list, whether it can be done or not.
LEMMA MergeKeepsShape ==
  ASSUME ContainersAssumptions, NEW bs, Shape(bs), NEW f, NEW s, NEW t, NEW m,
         Merging(bs, f, s, t, m)
  PROVE  Shape(m)
<1>0. Merged(bs, f, s, t, m)
  BY MergedBlocks
<1>. USE DEF Merging
<1>1. /\ s \in RealOf(bs) /\ t \in DOMAIN bs /\ t # f /\ t # s /\ f < s
      /\ s = EndOf(bs, f) /\ EndOf(bs, s) \in Nat
      /\ DOMAIN m = DOMAIN bs \ {s}
      /\ m[f] = [prev |-> bs[f].prev, next |-> t, size |-> EndOf(bs, s) - f - HeapHeader, used |-> FALSE]
      /\ m[t] = [prev |-> f, next |-> bs[t].next, size |-> bs[t].size, used |-> bs[t].used]
      /\ \A c \in DOMAIN m \ {f, t} : m[c] = bs[c]
  BY <1>0 DEF Merged
<1>2. /\ f \in DOMAIN bs /\ f \in Nat /\ f # Heap!Sentinel /\ f < HeapSize
      /\ s \in DOMAIN bs /\ s \in Nat /\ s # Heap!Sentinel /\ bs[s].prev = f
      /\ f \in DOMAIN m /\ t \in DOMAIN m /\ s < EndOf(bs, s) /\ EndOf(bs, s) <= HeapSize
      /\ f + HeapHeader <= s /\ bs[f].prev # s
  <2>1. /\ f \in DOMAIN bs /\ f \in Nat /\ f # Heap!Sentinel /\ f < HeapSize
        /\ EndOf(bs, f) = f + HeapHeader + bs[f].size /\ bs[f].size \in Nat
    BY BlockFacts
  <2>2. /\ s \in DOMAIN bs /\ s \in Nat /\ s # Heap!Sentinel /\ s < EndOf(bs, s)
        /\ EndOf(bs, s) <= HeapSize
    BY <1>1, BlockFacts
  <2>3. bs[s].prev = f /\ (bs[f].prev = s => bs[s].next = f)
    BY <2>1, LinkFacts
  <2>. QED
    BY <1>1, <2>1, <2>2, <2>3, HeapNumbers
<1>3. \A b \in DOMAIN bs : /\ bs[b] \in [prev : DOMAIN bs, next : DOMAIN bs, size : Nat, used : BOOLEAN]
                          /\ bs[bs[b].next].prev = b /\ bs[bs[b].prev].next = b
  BY LinkFacts
<1>4. RealOf(m) = RealOf(bs) \ {s}
  BY <1>1 DEF RealOf
<1>5. EndOf(m, f) = EndOf(bs, s)
  BY <1>1, <1>2, HeapNumbers DEF EndOf
<1>6. \A c \in DOMAIN m : c # f => m[c].size = bs[c].size /\ m[c].next = bs[c].next
                                   /\ m[c].used = bs[c].used /\ EndOf(m, c) = EndOf(bs, c)
  <2>. SUFFICES ASSUME NEW c \in DOMAIN m, c # f
                PROVE  /\ m[c].size = bs[c].size /\ m[c].next = bs[c].next
                       /\ m[c].used = bs[c].used /\ EndOf(m, c) = EndOf(bs, c)
    OBVIOUS
  <2>1. m[c].size = bs[c].size /\ m[c].next = bs[c].next /\ m[c].used = bs[c].used
    <3>1. CASE c = t
      BY <1>1, <3>1
    <3>2. CASE c # t
      <4>1. m[c] = bs[c]
        BY <1>1, <3>2
      <4>. QED
        BY <4>1
    <3>. QED
      BY <3>1, <3>2
  <2>. QED
    BY <2>1 DEF EndOf
<1>7. \A c \in DOMAIN m : c # t => m[c].prev = bs[c].prev
  BY <1>1
<1>8. \A c \in DOMAIN m : bs[c].prev = s => c = t
  BY <1>1, <1>2, <1>3
<1>9. \A c \in DOMAIN m : bs[c].next = s => c = f
  BY <1>1, <1>2, <1>3
<1>10. Linked(m)
  <2>1. Heap!Sentinel \in DOMAIN m /\ 0 \in DOMAIN m /\ RealOf(m) \subseteq Heap!Addresses
    <3>1. s # 0 /\ s # Heap!Sentinel
      BY <1>1, <1>2
    <3>2. 0 \in DOMAIN bs /\ Heap!Sentinel \in DOMAIN bs /\ RealOf(bs) \subseteq Heap!Addresses
      BY DEF Shape, Linked
    <3>. QED
      BY <1>1, <1>4, <3>1, <3>2
  <2>2. ASSUME NEW c \in DOMAIN m
        PROVE  m[c] \in [prev : DOMAIN m, next : DOMAIN m, size : Nat, used : BOOLEAN]
    <3>1. CASE c = f
      <4>1. EndOf(bs, s) - f - HeapHeader \in Nat
        BY <1>1, <1>2, HeapNumbers
      <4>2. bs[f].prev \in DOMAIN m
        BY <1>1, <1>2, <1>3
      <4>3. ASSUME NEW n \in Nat, m[f] = [prev |-> bs[f].prev, next |-> t, size |-> n, used |-> FALSE]
            PROVE  m[f] \in [prev : DOMAIN m, next : DOMAIN m, size : Nat, used : BOOLEAN]
        BY <1>2, <4>2, <4>3
      <4>. QED
        BY <1>1, <3>1, <4>1, <4>3
    <3>2. CASE c = t
      BY <1>1, <1>2, <1>3, <1>9, <3>2
    <3>3. CASE c # f /\ c # t
      BY <1>1, <1>3, <1>8, <1>9, <3>3
    <3>. QED
      BY <3>1, <3>2, <3>3
  <2>3. m \in [DOMAIN m -> [prev : DOMAIN m, next : DOMAIN m, size : Nat, used : BOOLEAN]]
    <3>1. m = [c \in DOMAIN m |-> m[c]]
      BY <1>0 DEF Merged
    <3>. QED
      BY <2>2, <3>1
  <2>4. ASSUME NEW c \in DOMAIN m
        PROVE  m[m[c].next].prev = c /\ m[m[c].prev].next = c
    <3>1. m[m[c].next].prev = c
      <4>1. CASE c = f
        BY <1>1, <4>1
      <4>2. CASE c # f
        <5>1. m[c].next = bs[c].next /\ bs[bs[c].next].prev = c
          BY <1>1, <1>3, <1>6, <4>2
        <5>2. m[c].next # t
          <6>1. bs[t].prev = s
            BY <1>2, <1>3
          <6>. QED
            BY <1>1, <5>1, <6>1
        <5>. QED
          BY <1>7, <2>2, <5>1, <5>2
      <4>. QED
        BY <4>1, <4>2
    <3>2. m[m[c].prev].next = c
      <4>1. CASE c = t
        <5>1. m[t].prev = f /\ m[f].next = t
          BY <1>1
        <5>. QED
          BY <4>1, <5>1
      <4>2. CASE c # t
        <5>1. m[c].prev = bs[c].prev /\ bs[bs[c].prev].next = c
          BY <1>1, <1>3, <1>7, <4>2
        <5>2. m[c].prev # f
          <6>1. bs[f].next = s /\ s \notin DOMAIN m
            BY <1>1
          <6>2. m[c].prev = f => c = s
            BY <5>1, <6>1
          <6>. QED
            BY <6>1, <6>2
        <5>. QED
          BY <1>6, <2>2, <5>1, <5>2
      <4>. QED
        BY <4>1, <4>2
    <3>. QED
      BY <3>1, <3>2
  <2>. QED
    BY <2>1, <2>3, <2>4 DEF Linked
<1>11. SentinelKept(m)
  <2>1. Heap!Sentinel \in DOMAIN m
    BY <1>10 DEF Linked
  <2>. QED
    BY <1>2, <1>6, <2>1, LinkFacts DEF SentinelKept
<1>12. Tiled(m)
  <2>1. ASSUME NEW b \in RealOf(m)
        PROVE  /\ EndOf(m, b) <= HeapSize
               /\ m[b].next = IF EndOf(m, b) = HeapSize THEN Heap!Sentinel ELSE EndOf(m, b)
    <3>1. CASE b = f
      BY <1>1, <1>2, <1>5, <3>1 DEF Shape, Tiled
    <3>2. CASE b # f
      BY <1>4, <1>6, <3>2 DEF Shape, Tiled, RealOf
    <3>. QED
      BY <3>1, <3>2
  <2>. QED
    BY <2>1 DEF Tiled
<1>13. InOrder(m)
  <2>1. ASSUME NEW b \in RealOf(m), NEW c \in RealOf(m), b < c
        PROVE  EndOf(m, b) <= c
    <3>1. b \in RealOf(bs) /\ c \in RealOf(bs) /\ c # s
      BY <1>4
    <3>2. \A d, e \in RealOf(bs) : d < e => EndOf(bs, d) <= e
      BY DEF Shape, InOrder
    <3>3. CASE b = f
      <4>1. s <= c /\ c \in Nat
        <5>1. f \in RealOf(bs) /\ f < c /\ EndOf(bs, f) = s
          BY <1>1, <2>1, <3>3
        <5>2. s <= c
          BY <3>1, <3>2, <5>1
        <5>. QED
          BY <3>1, <5>2, BlockFacts
      <4>. QED
        BY <1>1, <1>2, <1>5, <3>1, <3>2, <3>3, <4>1
    <3>4. CASE b # f
      BY <1>6, <2>1, <3>1, <3>2, <3>4 DEF RealOf
    <3>. QED
      BY <3>3, <3>4
  <2>. QED
    BY <2>1 DEF InOrder
<1>. QED
  BY <1>10, <1>11, <1>12, <1>13 DEF Shape

\* A block is taken or given back as it is.
Marking(bs, b, u) == \E v \in BOOLEAN : u = [bs EXCEPT ![b].used = v]

LEMMA UsedKeepsShape ==
  ASSUME ContainersAssumptions, NEW bs, Shape(bs), NEW b \in RealOf(bs),
         NEW u, Marking(bs, b, u)
  PROVE  /\ Shape(u) /\ DOMAIN u = DOMAIN bs
         /\ u[b].size = bs[b].size /\ u[b].next = bs[b].next /\ u[b].prev = bs[b].prev
         /\ \A c \in DOMAIN bs \ {b} : u[c] = bs[c]
<1>0. PICK v \in BOOLEAN : u = [bs EXCEPT ![b].used = v]
  BY DEF Marking
<1>1. /\ b \in DOMAIN bs /\ b # Heap!Sentinel
      /\ bs[b] \in [prev : DOMAIN bs, next : DOMAIN bs, size : Nat, used : BOOLEAN]
  BY LinkFacts DEF RealOf
<1>2. /\ DOMAIN u = DOMAIN bs /\ RealOf(u) = RealOf(bs)
      /\ u[b] = [prev |-> bs[b].prev, next |-> bs[b].next, size |-> bs[b].size, used |-> v]
      /\ \A c \in DOMAIN bs \ {b} : u[c] = bs[c]
  BY <1>0, <1>1 DEF RealOf
<1>3. \A c \in DOMAIN bs : u[c].next = bs[c].next /\ u[c].prev = bs[c].prev /\ u[c].size = bs[c].size
  BY <1>2
<1>4. \A c \in DOMAIN bs : EndOf(u, c) = EndOf(bs, c)
  BY <1>3 DEF EndOf
<1>5. Linked(u)
  <2>1. Linked(bs)
    BY DEF Shape
  <2>2. u[b] \in [prev : DOMAIN bs, next : DOMAIN bs, size : Nat, used : BOOLEAN]
    BY <1>1, <1>2
  <2>3. u \in [DOMAIN u -> [prev : DOMAIN u, next : DOMAIN u, size : Nat, used : BOOLEAN]]
    BY <1>0, <1>2, <2>1, <2>2 DEF Linked
  <2>4. \A c \in DOMAIN u : u[u[c].next].prev = c /\ u[u[c].prev].next = c
    BY <1>2, <1>3, LinkFacts
  <2>. QED
    BY <1>2, <2>1, <2>3, <2>4 DEF Linked
<1>6. SentinelKept(u)
  BY <1>1, <1>2, LinkFacts DEF SentinelKept
<1>7. Tiled(u)
  <2>1. ASSUME NEW c \in RealOf(u)
        PROVE  /\ EndOf(u, c) <= HeapSize
               /\ u[c].next = IF EndOf(u, c) = HeapSize THEN Heap!Sentinel ELSE EndOf(u, c)
    <3>1. c \in RealOf(bs) /\ EndOf(u, c) = EndOf(bs, c) /\ u[c].next = bs[c].next
      BY <1>2, <1>3, <1>4 DEF RealOf
    <3>. QED
      BY <3>1 DEF Shape, Tiled
  <2>. QED
    BY <2>1 DEF Tiled
<1>8. InOrder(u)
  BY <1>2, <1>4 DEF Shape, InOrder, RealOf
<1>. QED
  BY <1>2, <1>5, <1>6, <1>7, <1>8 DEF Shape

\* A block that is cut in two, n behind it; and what becomes of them.
Splitting(bs, b, size, a, n, u) ==
  /\ b \in RealOf(bs) /\ size \in Nat /\ a = b + HeapHeader + size /\ n = bs[b].next
  /\ bs[b].size - size > HeapHeader + MinSplit
  /\ u = Heap!InsertBlock([[bs EXCEPT ![b].used = TRUE] EXCEPT ![b].size = size], b, a, bs[b].size - size)

Split(bs, b, size, a, n, u) ==
  /\ a \in Nat /\ a \notin DOMAIN bs /\ a # Heap!Sentinel /\ b < a /\ a + HeapHeader <= EndOf(bs, b)
  /\ n \in DOMAIN bs /\ n # b
  /\ DOMAIN u = DOMAIN bs \cup {a} /\ u = [c \in DOMAIN u |-> u[c]]
  /\ u[b] \in [prev : DOMAIN u, next : DOMAIN u, size : Nat, used : BOOLEAN]
  /\ u[b].prev = bs[b].prev /\ u[b].next = a /\ u[b].size = size /\ u[b].used
  /\ u[a] = [prev |-> b, next |-> n, size |-> EndOf(bs, b) - a - HeapHeader, used |-> FALSE]
  /\ u[n] = [prev |-> a, next |-> bs[n].next, size |-> bs[n].size, used |-> bs[n].used]
  /\ \A c \in DOMAIN bs \ {b, n} : u[c] = bs[c]

LEMMA SplitBlocks ==
  ASSUME ContainersAssumptions, NEW bs, Shape(bs), NEW b, NEW size, NEW a, NEW n, NEW u,
         Splitting(bs, b, size, a, n, u)
  PROVE  Split(bs, b, size, a, n, u)
<1>. USE DEF Splitting
<1>1. /\ b \in DOMAIN bs /\ b \in Nat /\ b # Heap!Sentinel /\ bs[b].size \in Nat
      /\ EndOf(bs, b) = b + HeapHeader + bs[b].size /\ EndOf(bs, b) \in Nat
      /\ n \in DOMAIN bs /\ n # b
  BY BlockFacts
<1>2. /\ a \in Nat /\ b < a /\ a # Heap!Sentinel /\ a + HeapHeader <= EndOf(bs, b) /\ a < EndOf(bs, b)
      /\ bs[b].size - size - HeapHeader = EndOf(bs, b) - a - HeapHeader
  <2>1. ASSUME NEW z \in Nat, NEW h \in Nat, NEW k \in Nat, h > 0, z - size > h + k
        PROVE  /\ b + h + size \in Nat /\ b < b + h + size /\ b + h + size # -1
               /\ b + h + size + h <= b + h + z /\ b + h + size < b + h + z
               /\ z - size - h = (b + h + z) - (b + h + size) - h
    BY <1>1, <2>1
  <2>. QED
    BY <1>1, <2>1, HeapNumbers
<1>3. a \notin DOMAIN bs
  <2>1. SUFFICES ASSUME a \in DOMAIN bs PROVE FALSE
    OBVIOUS
  <2>2. a \in RealOf(bs)
    BY <1>2, <2>1 DEF RealOf
  <2>3. EndOf(bs, b) <= a
    BY <1>2, <2>2 DEF Shape, InOrder
  <2>. QED
    BY <1>1, <1>2, <2>3
<1>. DEFINE cut == [[bs EXCEPT ![b].used = TRUE] EXCEPT ![b].size = size]
            linked == [cut EXCEPT ![b].next = a, ![cut[b].next].prev = a]
<1>4. /\ bs[b] \in [prev : DOMAIN bs, next : DOMAIN bs, size : Nat, used : BOOLEAN]
      /\ bs[n] \in [prev : DOMAIN bs, next : DOMAIN bs, size : Nat, used : BOOLEAN]
  BY <1>1, LinkFacts
<1>5. /\ DOMAIN cut = DOMAIN bs /\ cut[b].next = n
      /\ cut[b] = [prev |-> bs[b].prev, next |-> n, size |-> size, used |-> TRUE]
      /\ \A c \in DOMAIN bs \ {b} : cut[c] = bs[c]
  BY <1>1, <1>4
<1>. HIDE DEF cut
<1>6. /\ u = [c \in DOMAIN bs \cup {a} |->
                IF c = a THEN [prev |-> b, next |-> n, size |-> bs[b].size - size - HeapHeader, used |-> FALSE]
                ELSE linked[c]]
  <2>1. u = Heap!InsertBlock(cut, b, a, bs[b].size - size)
    BY DEF cut
  <2>2. u = [c \in DOMAIN cut \cup {a} |->
               IF c = a THEN Heap!Block(b, cut[b].next, bs[b].size - size - HeapHeader, FALSE)
               ELSE linked[c]]
    BY <2>1 DEF Heap!InsertBlock
  <2>. HIDE DEF linked
  <2>. QED
    BY <1>5, <2>2 DEF Heap!Block
<1>7. /\ linked[b] \in [prev : DOMAIN u, next : DOMAIN u, size : Nat, used : BOOLEAN]
      /\ linked[b].prev = bs[b].prev /\ linked[b].next = a /\ linked[b].size = size /\ linked[b].used
      /\ linked[n] = [prev |-> a, next |-> bs[n].next, size |-> bs[n].size, used |-> bs[n].used]
      /\ \A c \in DOMAIN bs \ {b, n} : linked[c] = bs[c]
  <2>1. linked = [cut EXCEPT ![b].next = a, ![n].prev = a]
    BY <1>5
  <2>2. linked[b] = [cut[b] EXCEPT !.next = a] /\ linked[n] = [cut[n] EXCEPT !.prev = a]
        /\ \A c \in DOMAIN bs \ {b, n} : linked[c] = cut[c]
    BY <1>1, <1>5, <2>1
  <2>. HIDE DEF linked
  <2>3. /\ linked[b] \in [prev : DOMAIN u, next : DOMAIN u, size : Nat, used : BOOLEAN]
        /\ linked[b].prev = bs[b].prev /\ linked[b].next = a /\ linked[b].size = size /\ linked[b].used
    <3>1. DOMAIN u = DOMAIN bs \cup {a}
      BY <1>6
    <3>2. /\ cut[b] \in [prev : DOMAIN u, next : DOMAIN u, size : Nat, used : BOOLEAN]
          /\ cut[b].prev = bs[b].prev /\ cut[b].size = size /\ cut[b].used
      BY <1>1, <1>4, <1>5, <3>1
    <3>. QED
      BY <2>2, <3>1, <3>2
  <2>4. linked[n] = [prev |-> a, next |-> bs[n].next, size |-> bs[n].size, used |-> bs[n].used]
    BY <1>1, <1>4, <1>5, <2>2
  <2>. QED
    BY <1>5, <2>2, <2>3, <2>4
<1>. HIDE DEF linked
<1>8. DOMAIN u = DOMAIN bs \cup {a} /\ u = [c \in DOMAIN u |-> u[c]]
      /\ u[a] = [prev |-> b, next |-> n, size |-> bs[b].size - size - HeapHeader, used |-> FALSE]
      /\ \A c \in DOMAIN bs : u[c] = linked[c]
  BY <1>3, <1>6
<1>9. u[b] = linked[b] /\ u[n] = linked[n] /\ \A c \in DOMAIN bs \ {b, n} : u[c] = linked[c]
  BY <1>1, <1>8
<1>10. u[a] = [prev |-> b, next |-> n, size |-> EndOf(bs, b) - a - HeapHeader, used |-> FALSE]
  BY <1>2, <1>8
<1>11. /\ u[b] \in [prev : DOMAIN u, next : DOMAIN u, size : Nat, used : BOOLEAN]
       /\ u[b].prev = bs[b].prev /\ u[b].next = a /\ u[b].size = size /\ u[b].used
  BY <1>7, <1>9
<1>12. /\ u[n] = [prev |-> a, next |-> bs[n].next, size |-> bs[n].size, used |-> bs[n].used]
       /\ \A c \in DOMAIN bs \ {b, n} : u[c] = bs[c]
  BY <1>7, <1>9
<1>. HIDE DEF Splitting
<1>. QED
  BY <1>1, <1>2, <1>3, <1>8, <1>10, <1>11, <1>12 DEF Split

LEMMA SplitKeepsShape ==
  ASSUME ContainersAssumptions, NEW bs, Shape(bs), NEW b, NEW size, NEW a, NEW n, NEW u,
         Splitting(bs, b, size, a, n, u)
  PROVE  Shape(u)
<1>1. Split(bs, b, size, a, n, u)
  BY SplitBlocks
<1>2. /\ b \in RealOf(bs) /\ size \in Nat /\ a = b + HeapHeader + size /\ n = bs[b].next
      /\ a \in Nat /\ a \notin DOMAIN bs /\ a # Heap!Sentinel /\ b < a /\ a + HeapHeader <= EndOf(bs, b)
      /\ n \in DOMAIN bs /\ n # b /\ DOMAIN u = DOMAIN bs \cup {a}
  BY <1>1 DEF Splitting, Split
<1>3. /\ u[b] \in [prev : DOMAIN u, next : DOMAIN u, size : Nat, used : BOOLEAN]
      /\ u[b].prev = bs[b].prev /\ u[b].next = a /\ u[b].size = size
      /\ u[a] = [prev |-> b, next |-> n, size |-> EndOf(bs, b) - a - HeapHeader, used |-> FALSE]
      /\ u[n] = [prev |-> a, next |-> bs[n].next, size |-> bs[n].size, used |-> bs[n].used]
      /\ \A c \in DOMAIN bs \ {b, n} : u[c] = bs[c]
  BY <1>1 DEF Split
<1>4. /\ b \in DOMAIN bs /\ b \in Nat /\ b # Heap!Sentinel
      /\ EndOf(bs, b) \in Nat /\ EndOf(bs, b) <= HeapSize /\ a < EndOf(bs, b) /\ a < HeapSize
      /\ n = IF EndOf(bs, b) = HeapSize THEN Heap!Sentinel ELSE EndOf(bs, b)
  <2>1. /\ b \in DOMAIN bs /\ b \in Nat /\ b # Heap!Sentinel
        /\ EndOf(bs, b) \in Nat /\ EndOf(bs, b) <= HeapSize
    BY <1>2, BlockFacts
  <2>2. n = IF EndOf(bs, b) = HeapSize THEN Heap!Sentinel ELSE EndOf(bs, b)
    BY <1>2 DEF Shape, Tiled
  <2>. QED
    BY <1>2, <2>1, <2>2, HeapNumbers
<1>5. \A c \in DOMAIN bs : /\ bs[c] \in [prev : DOMAIN bs, next : DOMAIN bs, size : Nat, used : BOOLEAN]
                          /\ bs[bs[c].next].prev = c /\ bs[bs[c].prev].next = c
  BY LinkFacts
<1>6. RealOf(u) = RealOf(bs) \cup {a}
  BY <1>2 DEF RealOf
<1>7. EndOf(u, b) = a /\ EndOf(u, a) = EndOf(bs, b)
  <2>1. EndOf(u, b) = a
    BY <1>2, <1>3 DEF EndOf
  <2>2. EndOf(u, a) = a + HeapHeader + (EndOf(bs, b) - a - HeapHeader)
    BY <1>3 DEF EndOf
  <2>. QED
    BY <1>2, <1>4, <2>1, <2>2, HeapNumbers
<1>8. \A c \in DOMAIN bs : c # b => u[c].size = bs[c].size /\ u[c].next = bs[c].next
                                    /\ EndOf(u, c) = EndOf(bs, c)
  BY <1>3 DEF EndOf
<1>9. \A c \in DOMAIN bs : c # n => u[c].prev = bs[c].prev
  BY <1>3
<1>10. Linked(u)
  <2>1. Heap!Sentinel \in DOMAIN u /\ 0 \in DOMAIN u /\ RealOf(u) \subseteq Heap!Addresses
    <3>1. Heap!Sentinel \in DOMAIN bs /\ 0 \in DOMAIN bs /\ RealOf(bs) \subseteq Heap!Addresses
      BY DEF Shape, Linked
    <3>2. a \in Heap!Addresses
      BY <1>2, <1>4, HeapNumbers
    <3>. QED
      BY <1>2, <1>6, <3>1, <3>2
  <2>2. ASSUME NEW c \in DOMAIN u
        PROVE  u[c] \in [prev : DOMAIN u, next : DOMAIN u, size : Nat, used : BOOLEAN]
    <3>1. CASE c = a
      <4>1. EndOf(bs, b) - a - HeapHeader \in Nat
        BY <1>2, <1>4, HeapNumbers
      <4>2. ASSUME NEW z \in Nat, u[a] = [prev |-> b, next |-> n, size |-> z, used |-> FALSE]
            PROVE  u[a] \in [prev : DOMAIN u, next : DOMAIN u, size : Nat, used : BOOLEAN]
        BY <1>2, <1>4, <4>2
      <4>. QED
        BY <1>3, <3>1, <4>1, <4>2
    <3>2. CASE c = n
      BY <1>2, <1>3, <1>5, <3>2
    <3>3. CASE c = b
      BY <1>3, <3>3
    <3>4. CASE c \notin {a, b, n}
      BY <1>2, <1>3, <1>5, <3>4
    <3>. QED
      BY <3>1, <3>2, <3>3, <3>4
  <2>3. u \in [DOMAIN u -> [prev : DOMAIN u, next : DOMAIN u, size : Nat, used : BOOLEAN]]
    <3>1. u = [c \in DOMAIN u |-> u[c]]
      BY <1>1 DEF Split
    <3>. QED
      BY <2>2, <3>1
  <2>4. ASSUME NEW c \in DOMAIN u
        PROVE  u[u[c].next].prev = c
    <3>1. CASE c \in {a, b}
      BY <1>3, <3>1
    <3>2. CASE c \notin {a, b}
      <4>1. c \in DOMAIN bs /\ u[c].next = bs[c].next /\ bs[bs[c].next].prev = c /\ bs[c].next \in DOMAIN bs
        BY <1>2, <1>5, <1>8, <3>2
      <4>2. bs[c].next # n
        <5>1. bs[n].prev = b
          BY <1>2, <1>4, <1>5
        <5>. QED
          BY <3>2, <4>1, <5>1
      <4>. QED
        BY <1>9, <4>1, <4>2
    <3>. QED
      BY <3>1, <3>2
  <2>5. ASSUME NEW c \in DOMAIN u
        PROVE  u[u[c].prev].next = c
    <3>1. CASE c = a
      BY <1>3, <3>1
    <3>2. CASE c = n
      BY <1>3, <3>2
    <3>3. CASE c \notin {a, n}
      <4>1. c \in DOMAIN bs /\ u[c].prev = bs[c].prev /\ bs[bs[c].prev].next = c /\ bs[c].prev \in DOMAIN bs
        BY <1>2, <1>5, <1>9, <3>3
      <4>2. bs[c].prev # b
        BY <1>2, <3>3, <4>1
      <4>. QED
        BY <1>8, <4>1, <4>2
    <3>. QED
      BY <3>1, <3>2, <3>3
  <2>. QED
    BY <2>1, <2>3, <2>4, <2>5 DEF Linked
<1>11. SentinelKept(u)
  <2>1. Heap!Sentinel \in DOMAIN bs /\ bs[Heap!Sentinel].next = 0 /\ bs[Heap!Sentinel].size = 0
        /\ ~ bs[Heap!Sentinel].used
    BY LinkFacts
  <2>2. u[Heap!Sentinel].used = bs[Heap!Sentinel].used
    BY <1>3, <1>4, <2>1
  <2>. QED
    BY <1>4, <1>8, <2>1, <2>2 DEF SentinelKept
<1>12. Tiled(u)
  <2>1. ASSUME NEW c \in RealOf(u)
        PROVE  /\ EndOf(u, c) <= HeapSize
               /\ u[c].next = IF EndOf(u, c) = HeapSize THEN Heap!Sentinel ELSE EndOf(u, c)
    <3>1. CASE c = a
      BY <1>3, <1>4, <1>7, <3>1
    <3>2. CASE c = b
      <4>1. a <= HeapSize /\ a # HeapSize
        BY <1>2, <1>4, HeapNumbers
      <4>2. EndOf(u, c) = a /\ u[c].next = a
        BY <1>3, <1>7, <3>2
      <4>. QED
        BY <4>1, <4>2
    <3>3. CASE c \notin {a, b}
      <4>1. c \in RealOf(bs) /\ EndOf(u, c) = EndOf(bs, c) /\ u[c].next = bs[c].next
        BY <1>6, <1>8, <3>3 DEF RealOf
      <4>. QED
        BY <4>1 DEF Shape, Tiled
    <3>. QED
      BY <3>1, <3>2, <3>3
  <2>. QED
    BY <2>1 DEF Tiled
<1>13. InOrder(u)
  <2>1. \A d, e \in RealOf(bs) : d < e => EndOf(bs, d) <= e
    BY DEF Shape, InOrder
  <2>2. \A c \in RealOf(bs) : c \in Nat /\ c \in DOMAIN bs /\ EndOf(bs, c) \in Nat /\ c < EndOf(bs, c)
    BY BlockFacts
  <2>3. ASSUME NEW d \in RealOf(u), NEW e \in RealOf(u), d < e
        PROVE  EndOf(u, d) <= e
    <3>1. CASE d = a
      <4>1. e \in RealOf(bs) /\ e \in Nat
        BY <1>2, <1>6, <2>2, <2>3, <3>1
      <4>2. b < e
        BY <1>2, <1>4, <2>3, <3>1, <4>1
      <4>. QED
        BY <1>2, <1>7, <2>1, <3>1, <4>1, <4>2
    <3>2. CASE e = a
      <4>1. d \in RealOf(bs) /\ d \in Nat
        <5>1. d # a
          BY <1>2, <2>3, <3>2
        <5>. QED
          BY <1>6, <2>2, <5>1
      <4>2. CASE d = b
        BY <1>2, <1>7, <3>2, <4>2
      <4>3. CASE d < b
        <5>1. EndOf(bs, d) <= b /\ EndOf(bs, d) \in Nat /\ EndOf(u, d) = EndOf(bs, d)
          BY <1>2, <1>4, <1>8, <2>1, <2>2, <4>1, <4>3
        <5>. QED
          BY <1>2, <1>4, <3>2, <5>1
      <4>4. CASE d > b
        <5>1. EndOf(bs, b) <= d
          BY <1>2, <2>1, <4>1, <4>4
        <5>. QED
          BY <1>2, <1>4, <2>3, <3>2, <4>1, <5>1
      <4>. QED
        BY <1>4, <4>1, <4>2, <4>3, <4>4
    <3>3. CASE d = b /\ e # a
      <4>1. e \in RealOf(bs) /\ e \in Nat
        BY <1>6, <2>2, <3>3
      <4>2. EndOf(bs, b) <= e
        BY <1>2, <2>1, <2>3, <3>3, <4>1
      <4>. QED
        BY <1>2, <1>4, <1>7, <3>3, <4>1, <4>2
    <3>4. CASE d \notin {a, b} /\ e # a
      BY <1>6, <1>8, <2>1, <2>2, <2>3, <3>4
    <3>. QED
      BY <3>1, <3>2, <3>3, <3>4
  <2>. QED
    BY <2>3 DEF InOrder
<1>. QED
  BY <1>10, <1>11, <1>12, <1>13 DEF Shape

\* The blocks in use.
UsedOf(bs) == {b \in RealOf(bs) : bs[b].used}

LEMMA UsedFinite ==
  ASSUME ContainersAssumptions, NEW bs, Shape(bs)
  PROVE  IsFiniteSet(UsedOf(bs))
<1>1. UsedOf(bs) \subseteq 0..HeapSize-1
  BY HeapNumbers DEF UsedOf, Shape, Linked
<1>2. IsFiniteSet(0..HeapSize-1)
  BY HeapNumbers, FS_Interval
<1>. QED
  BY <1>1, <1>2, FS_Subset

\* What an allocation makes of the list, cut or not: one more block in use, with
\* room for the size, and no free pair.
Taken(bs, b, size, u) ==
  /\ Shape(u) /\ UsedOf(u) = UsedOf(bs) \cup {b}
  /\ \A c \in UsedOf(bs) : u[c].size = bs[c].size
  /\ size <= u[b].size
  /\ \A c \in RealOf(u) : ~ FreePair(u, c)

LEMMA UseBlockTakes ==
  ASSUME ContainersAssumptions, HeapInv, NEW size \in HeapSizes, NEW b \in RealOf(gBlocks),
         ~ gBlocks[b].used, gBlocks[b].size >= size
  PROVE  Taken(gBlocks, b, size, Heap!UseBlock(b, size))
<1>. DEFINE bs == gBlocks
            u  == Heap!UseBlock(b, size)
            a  == b + HeapHeader + size
            n  == bs[b].next
<1>1. /\ Shape(bs) /\ \A c \in RealOf(bs) : ~ FreePair(bs, c)
      /\ b \in RealOf(bs) /\ b \in DOMAIN bs /\ bs[b].size \in Nat /\ size \in Nat /\ b # Heap!Sentinel
      /\ ~ bs[b].used /\ size <= bs[b].size
  <2>1. Shape(bs) /\ \A c \in RealOf(bs) : ~ FreePair(bs, c)
    BY DEF HeapInv
  <2>2. b \in DOMAIN bs /\ bs[b].size \in Nat /\ b # Heap!Sentinel
    BY <2>1, BlockFacts
  <2>3. size \in Nat
    BY HeapNumbers
  <2>. QED
    BY <2>1, <2>2, <2>3
<1>2. CASE ~ bs[b].size - size > HeapHeader + MinSplit
  <2>1. u = [bs EXCEPT ![b].used = TRUE]
    BY <1>2 DEF Heap!UseBlock
  <2>. HIDE DEF bs, u, a, n
  <2>2. /\ Shape(u) /\ DOMAIN u = DOMAIN bs /\ u[b].used
        /\ u[b].size = bs[b].size /\ u[b].next = bs[b].next
        /\ \A c \in DOMAIN bs \ {b} : u[c] = bs[c]
    <3>1. Marking(bs, b, u)
      BY <2>1 DEF Marking
    <3>2. /\ Shape(u) /\ DOMAIN u = DOMAIN bs /\ u[b].size = bs[b].size /\ u[b].next = bs[b].next
          /\ \A c \in DOMAIN bs \ {b} : u[c] = bs[c]
      BY <1>1, <3>1, UsedKeepsShape
    <3>3. bs[b] \in [prev : DOMAIN bs, next : DOMAIN bs, size : Nat, used : BOOLEAN]
      BY <1>1, LinkFacts
    <3>4. u[b].used
      BY <1>1, <2>1, <3>3
    <3>. QED
      BY <3>2, <3>4
  <2>3. UsedOf(u) = UsedOf(bs) \cup {b}
    BY <1>1, <2>2 DEF UsedOf, RealOf
  <2>4. \A c \in UsedOf(bs) : u[c].size = bs[c].size
    BY <2>2 DEF UsedOf, RealOf
  <2>5. ASSUME NEW c \in RealOf(u), FreePair(u, c)
        PROVE  FALSE
    <3>1. /\ c \in RealOf(bs) /\ c # b /\ u[c] = bs[c] /\ bs[c].next # b
      BY <2>2, <2>5 DEF FreePair, RealOf
    <3>2. bs[c].next \in DOMAIN bs
      BY <1>1, <3>1, BlockFacts
    <3>3. FreePair(bs, c)
      BY <2>2, <2>5, <3>1, <3>2 DEF FreePair
    <3>. QED
      BY <1>1, <3>1, <3>3
  <2>6. Taken(bs, b, size, u)
    BY <1>1, <2>2, <2>3, <2>4, <2>5 DEF Taken
  <2>. QED
    BY <2>6 DEF bs, u
<1>3. CASE bs[b].size - size > HeapHeader + MinSplit
  <2>1. Splitting(bs, b, size, a, n, u)
    <3>1. u = Heap!InsertBlock([[bs EXCEPT ![b].used = TRUE] EXCEPT ![b].size = size], b, a, bs[b].size - size)
      BY <1>3 DEF Heap!UseBlock
    <3>. HIDE DEF u
    <3>. QED
      BY <1>1, <1>3, <3>1 DEF Splitting
  <2>. HIDE DEF bs, u, a, n
  <2>2. Shape(u) /\ Split(bs, b, size, a, n, u)
    BY <1>1, <2>1, SplitBlocks, SplitKeepsShape
  <2>3. /\ a \notin DOMAIN bs /\ a # Heap!Sentinel /\ n \in DOMAIN bs /\ n # b
        /\ DOMAIN u = DOMAIN bs \cup {a} /\ RealOf(u) = RealOf(bs) \cup {a}
        /\ u[b].next = a /\ u[b].size = size /\ u[b].used
        /\ u[a].next = n /\ ~ u[a].used
        /\ \A c \in DOMAIN bs \ {b} : u[c].next = bs[c].next /\ u[c].size = bs[c].size
                                       /\ u[c].used = bs[c].used
    BY <2>2 DEF Split, RealOf
  <2>4. UsedOf(u) = UsedOf(bs) \cup {b}
    BY <1>1, <2>3 DEF UsedOf, RealOf
  <2>5. \A c \in UsedOf(bs) : u[c].size = bs[c].size
    BY <1>1, <2>3 DEF UsedOf, RealOf
  <2>6. ASSUME NEW c \in RealOf(u), FreePair(u, c)
        PROVE  FALSE
    <3>1. CASE c = a
      <4>1. n = bs[b].next
        BY <2>1 DEF Splitting
      <4>2. n # Heap!Sentinel /\ ~ u[n].used
        BY <2>3, <2>6, <3>1 DEF FreePair
      <4>3. FreePair(bs, b)
        BY <1>1, <2>3, <4>1, <4>2 DEF FreePair
      <4>. QED
        BY <1>1, <4>3
    <3>2. CASE c # a
      <4>1. c # b /\ c \in RealOf(bs) /\ c \in DOMAIN bs
        BY <2>3, <2>6, <3>2 DEF FreePair, RealOf
      <4>2. bs[c].next \in DOMAIN bs /\ bs[c].next # b
        BY <1>1, <2>3, <2>6, <4>1, BlockFacts DEF FreePair
      <4>3. FreePair(bs, c)
        BY <2>3, <2>6, <4>1, <4>2 DEF FreePair
      <4>. QED
        BY <1>1, <4>1, <4>3
    <3>. QED
      BY <3>1, <3>2
  <2>7. size <= u[b].size
    BY <1>1, <2>3
  <2>8. Taken(bs, b, size, u)
    BY <2>2, <2>4, <2>5, <2>6, <2>7 DEF Taken
  <2>. QED
    BY <2>8 DEF bs, u
<1>. QED
  BY <1>2, <1>3

LEMMA AllocStep ==
  ASSUME ContainersAssumptions, HeapInv, NEW size \in HeapSizes, Heap!Alloc(size)
  PROVE  HeapInv'
<1>1. PICK b \in DOMAIN gBlocks :
        /\ Heap!FindBlockForSize(size, b)
        /\ gBlocks' = Heap!UseBlock(b, size)
        /\ gLastAllocated' = b
        /\ gAllocatedBlocks' = gAllocatedBlocks + 1
        /\ gGranted' = [a \in DOMAIN gGranted \cup {b} |-> IF a = b THEN size ELSE gGranted[a]]
  BY DEF Heap!Alloc
<1>2. ~ gBlocks[b].used /\ gBlocks[b].size >= size
  BY <1>1 DEF Heap!FindBlockForSize, Heap!FirstOn
<1>3. size \in Nat /\ size > 0 /\ Shape(gBlocks)
  BY HeapNumbers DEF HeapInv
<1>4. b \in RealOf(gBlocks)
  <2>1. gBlocks[Heap!Sentinel].size = 0
    BY <1>3, LinkFacts
  <2>. QED
    BY <1>1, <1>2, <1>3, <2>1 DEF RealOf
<1>5. Taken(gBlocks, b, size, gBlocks')
  BY <1>1, <1>2, <1>4, UseBlockTakes
<1>6. DOMAIN gGranted = UsedOf(gBlocks) /\ b \notin UsedOf(gBlocks)
  BY <1>2 DEF HeapInv, Heap!GrantsKept, Heap!Real, UsedOf, RealOf
<1>7. DOMAIN gGranted' = UsedOf(gBlocks')
  BY <1>1, <1>5, <1>6 DEF Taken
<1>8. \A c \in DOMAIN gGranted' : gGranted'[c] \in Nat /\ gGranted'[c] <= gBlocks'[c].size
  <2>1. \A c \in DOMAIN gGranted : gGranted[c] \in Nat /\ gGranted[c] <= gBlocks[c].size
    BY DEF HeapInv, Heap!GrantsKept
  <2>. QED
    BY <1>1, <1>3, <1>5, <1>6, <2>1 DEF Taken
<1>9. gAllocatedBlocks' = Cardinality(UsedOf(gBlocks'))
  <2>1. IsFiniteSet(UsedOf(gBlocks)) /\ gAllocatedBlocks = Cardinality(UsedOf(gBlocks))
    BY <1>3, UsedFinite DEF HeapInv, UsedOf
  <2>2. UsedOf(gBlocks') = UsedOf(gBlocks) \cup {b}
    BY <1>5 DEF Taken
  <2>. QED
    BY <1>1, <1>6, <2>1, <2>2, FS_AddElement
<1>10. Heap!GrantsKept'
  BY <1>7, <1>8 DEF Heap!GrantsKept, Heap!Real, UsedOf, RealOf
<1>11. gLastAllocated' \in DOMAIN gGranted'
  BY <1>1
<1>. QED
  BY <1>5, <1>8, <1>9, <1>10, <1>11 DEF HeapInv, Taken, UsedOf

\* What a merge leaves as it was: the blocks in use, and all free pairs but the one
\* that it is about.
LEMMA MergeStep ==
  ASSUME ContainersAssumptions, NEW bs, Shape(bs), NEW f, NEW s, NEW t, NEW m,
         Merging(bs, f, s, t, m)
  PROVE  /\ Shape(m) /\ f \in RealOf(m) /\ s \in RealOf(bs) /\ RealOf(m) = RealOf(bs) \ {s}
         /\ UsedOf(m) = UsedOf(bs) /\ \A c \in UsedOf(bs) : m[c].size = bs[c].size
         /\ m[f].next = t /\ ~ m[f].used /\ m[f].prev = bs[f].prev
         /\ FreePair(m, f) => FreePair(bs, s)
         /\ \A c \in RealOf(m) : c # f => m[c].next = bs[c].next /\ (FreePair(m, c) => FreePair(bs, c))
<1>1. Shape(m) /\ Merged(bs, f, s, t, m)
  BY MergedBlocks, MergeKeepsShape
<1>2. /\ f \in RealOf(bs) /\ s = bs[f].next /\ s # Heap!Sentinel /\ t = bs[s].next
      /\ ~ bs[f].used /\ ~ bs[s].used /\ bs[f].used \in BOOLEAN
      /\ s \in RealOf(bs) /\ t \in DOMAIN bs /\ t # f /\ t # s /\ f # s
      /\ DOMAIN m = DOMAIN bs \ {s} /\ RealOf(m) = RealOf(bs) \ {s}
      /\ m[f].next = t /\ ~ m[f].used /\ m[f].prev = bs[f].prev
      /\ m[t].next = bs[t].next /\ m[t].size = bs[t].size /\ m[t].used = bs[t].used
      /\ \A c \in DOMAIN m \ {f, t} : m[c] = bs[c]
  <2>1. f \in RealOf(bs)
    BY DEF Merging
  <2>2. bs[f].used \in BOOLEAN /\ bs[f].next # f
    BY <2>1, BlockFacts
  <2>. QED
    BY <1>1, <2>1, <2>2 DEF Merging, Merged, RealOf
<1>3. \A c \in DOMAIN m : c # f => m[c].next = bs[c].next /\ m[c].size = bs[c].size /\ m[c].used = bs[c].used
  BY <1>2
<1>4. UsedOf(m) = UsedOf(bs)
  BY <1>2, <1>3 DEF UsedOf, RealOf
<1>5. \A c \in UsedOf(bs) : m[c].size = bs[c].size
  BY <1>2, <1>3 DEF UsedOf, RealOf
<1>6. FreePair(m, f) => FreePair(bs, s)
  BY <1>2 DEF FreePair
<1>7. ASSUME NEW c \in RealOf(m), c # f, FreePair(m, c)
      PROVE  FreePair(bs, c)
  <2>1. c \in DOMAIN m /\ m[c].next \in DOMAIN m
    BY <1>1, BlockFacts
  <2>2. m[c].next # f => m[m[c].next].used = bs[m[c].next].used
    BY <1>3, <2>1
  <2>. QED
    BY <1>2, <1>3, <1>7, <2>1, <2>2 DEF FreePair
<1>8. \A c \in RealOf(m) : c # f => m[c].next = bs[c].next
  BY <1>3 DEF RealOf
<1>. QED
  BY <1>1, <1>2, <1>4, <1>5, <1>6, <1>7, <1>8 DEF RealOf

\* The same for a block that may be the sentinel, mergeable or not.
Joined(bs, f, m) == f \in DOMAIN bs /\ m = Heap!MergeIfPossible(bs, f, bs[f].next)

LEMMA JoinStep ==
  ASSUME ContainersAssumptions, NEW bs, Shape(bs), NEW f, NEW m, Joined(bs, f, m)
  PROVE  /\ Shape(m) /\ f \in DOMAIN m /\ RealOf(m) \subseteq RealOf(bs)
         /\ UsedOf(m) = UsedOf(bs) /\ \A c \in UsedOf(bs) : m[c].size = bs[c].size
         /\ m[f].prev = bs[f].prev
         /\ \A c \in RealOf(m) : c # f /\ FreePair(m, c) => FreePair(bs, c) /\ m[c].next = bs[c].next
         /\ f # Heap!Sentinel /\ FreePair(m, f)
              => bs[f].next \in RealOf(bs) /\ FreePair(bs, bs[f].next)
<1>. DEFINE s == bs[f].next
            t == bs[s].next
<1>1. CASE Heap!Mergeable(bs, f, s)
  <2>1. Merging(bs, f, s, t, m)
    BY <1>1 DEF Joined, Merging, Heap!Mergeable, RealOf
  <2>. HIDE DEF s, t
  <2>2. /\ Shape(m) /\ f \in RealOf(m) /\ s \in RealOf(bs) /\ RealOf(m) = RealOf(bs) \ {s}
        /\ UsedOf(m) = UsedOf(bs) /\ \A c \in UsedOf(bs) : m[c].size = bs[c].size
        /\ m[f].prev = bs[f].prev
        /\ FreePair(m, f) => FreePair(bs, s)
        /\ \A c \in RealOf(m) : c # f => m[c].next = bs[c].next /\ (FreePair(m, c) => FreePair(bs, c))
    BY <2>1, MergeStep
  <2>. QED
    BY <2>2 DEF s, RealOf
<1>2. CASE ~ Heap!Mergeable(bs, f, s)
  <2>1. m = bs
    BY <1>2 DEF Joined, Heap!MergeIfPossible
  <2>2. f # Heap!Sentinel => ~ FreePair(bs, f)
    BY <1>2 DEF Heap!Mergeable, FreePair
  <2>. QED
    BY <2>1, <2>2 DEF Joined
<1>. QED
  BY <1>1, <1>2

\* The steps of freeing b: no longer in use, merged with the one behind, then with
\* the one in front; and what they make of the list: one block less in use, no free
\* pair.
Freeing(bs, b, u, v, f, w) ==
  u = [bs EXCEPT ![b].used = FALSE] /\ Joined(u, b, v) /\ f = v[b].prev /\ Joined(v, f, w)

Given(bs, b, w) ==
  /\ Shape(w) /\ UsedOf(w) = UsedOf(bs) \ {b}
  /\ \A c \in UsedOf(w) : w[c].size = bs[c].size
  /\ \A c \in RealOf(w) : ~ FreePair(w, c)

LEMMA FreeGives ==
  ASSUME ContainersAssumptions, HeapInv, NEW b \in UsedOf(gBlocks), NEW u, NEW v, NEW f, NEW w,
         Freeing(gBlocks, b, u, v, f, w)
  PROVE  Given(gBlocks, b, w)
<1>0. Joined(u, b, v) /\ f = v[b].prev /\ Joined(v, f, w)
  BY DEF Freeing
<1>1. Shape(gBlocks) /\ \A c \in RealOf(gBlocks) : ~ FreePair(gBlocks, c)
  BY DEF HeapInv
<1>2. b \in RealOf(gBlocks) /\ b \in DOMAIN gBlocks /\ gBlocks[b].used
  BY DEF UsedOf, RealOf
<1>3. /\ Shape(u) /\ DOMAIN u = DOMAIN gBlocks /\ ~ u[b].used
      /\ u[b].size = gBlocks[b].size /\ u[b].next = gBlocks[b].next
      /\ \A c \in DOMAIN gBlocks \ {b} : u[c] = gBlocks[c]
  <2>1. Marking(gBlocks, b, u)
    BY DEF Marking, Freeing
  <2>2. /\ Shape(u) /\ DOMAIN u = DOMAIN gBlocks /\ u[b].size = gBlocks[b].size
        /\ u[b].next = gBlocks[b].next /\ \A c \in DOMAIN gBlocks \ {b} : u[c] = gBlocks[c]
    BY <1>1, <1>2, <2>1, UsedKeepsShape
  <2>3. gBlocks[b] \in [prev : DOMAIN gBlocks, next : DOMAIN gBlocks, size : Nat, used : BOOLEAN]
    BY <1>1, <1>2, LinkFacts
  <2>4. ~ u[b].used
    BY <1>2, <2>3 DEF Freeing
  <2>. QED
    BY <2>2, <2>4
<1>4. UsedOf(u) = UsedOf(gBlocks) \ {b}
  BY <1>2, <1>3 DEF UsedOf, RealOf
<1>5. ASSUME NEW c \in RealOf(u), FreePair(u, c)
      PROVE  c = b \/ u[c].next = b
  <2>1. SUFFICES ASSUME c # b, u[c].next # b PROVE FALSE
    OBVIOUS
  <2>2. c \in RealOf(gBlocks) /\ u[c] = gBlocks[c] /\ gBlocks[c].next \in DOMAIN gBlocks
    BY <1>1, <1>3, <1>5, <2>1, BlockFacts DEF RealOf
  <2>3. FreePair(gBlocks, c)
    BY <1>3, <1>5, <2>1, <2>2 DEF FreePair
  <2>. QED
    BY <1>1, <2>2, <2>3
<1>6. /\ Shape(v) /\ b \in DOMAIN v /\ RealOf(v) \subseteq RealOf(u)
      /\ UsedOf(v) = UsedOf(u) /\ \A c \in UsedOf(u) : v[c].size = u[c].size
      /\ \A c \in RealOf(v) : c # b /\ FreePair(v, c) => FreePair(u, c) /\ v[c].next = u[c].next
      /\ b # Heap!Sentinel /\ FreePair(v, b)
           => u[b].next \in RealOf(u) /\ FreePair(u, u[b].next)
  BY <1>0, <1>3, JoinStep
<1>7. b \in RealOf(u) /\ b \in RealOf(v) /\ b # Heap!Sentinel
  BY <1>2, <1>3, <1>6 DEF RealOf
<1>8. ~ FreePair(v, b)
  <2>1. SUFFICES ASSUME FreePair(v, b) PROVE FALSE
    OBVIOUS
  <2>2. u[b].next \in RealOf(u) /\ FreePair(u, u[b].next)
    BY <1>6, <1>7, <2>1
  <2>3. u[b].next = b \/ u[u[b].next].next = b
    BY <1>5, <2>2
  <2>4. u[b].next # b /\ b < u[b].next /\ b \in Nat
    BY <1>3, <1>7, <2>2, BlockFacts DEF RealOf
  <2>5. u[u[b].next].next # Heap!Sentinel => u[b].next < u[u[b].next].next /\ u[b].next \in Nat
    BY <1>3, <2>2, BlockFacts
  <2>. QED
    BY <1>7, <2>3, <2>4, <2>5
<1>9. ASSUME NEW c \in RealOf(v), FreePair(v, c)
      PROVE  c = f
  <2>1. c # b /\ FreePair(u, c) /\ v[c].next = u[c].next /\ c \in RealOf(u)
    BY <1>6, <1>8, <1>9
  <2>2. v[c].next = b /\ c \in DOMAIN v
    BY <1>5, <1>9, <2>1 DEF RealOf
  <2>. QED
    BY <1>0, <1>6, <2>2, LinkFacts
<1>10. f \in DOMAIN v /\ v[f].next = b
  BY <1>0, <1>6, LinkFacts
<1>11. /\ Shape(w) /\ f \in DOMAIN w /\ RealOf(w) \subseteq RealOf(v)
       /\ UsedOf(w) = UsedOf(v) /\ \A c \in UsedOf(v) : w[c].size = v[c].size
       /\ \A c \in RealOf(w) : c # f /\ FreePair(w, c) => FreePair(v, c)
       /\ f # Heap!Sentinel /\ FreePair(w, f) => FreePair(v, v[f].next)
  BY <1>0, <1>6, JoinStep
<1>12. \A c \in RealOf(w) : ~ FreePair(w, c)
  BY <1>8, <1>9, <1>10, <1>11 DEF RealOf
<1>13. \A c \in UsedOf(w) : w[c].size = gBlocks[c].size
  BY <1>3, <1>4, <1>6, <1>11 DEF UsedOf, RealOf
<1>. QED
  BY <1>4, <1>6, <1>11, <1>12, <1>13 DEF Given

LEMMA FreeStep ==
  ASSUME ContainersAssumptions, HeapInv, NEW b, Heap!Free(b)
  PROVE  HeapInv'
<1>. DEFINE u == [gBlocks EXCEPT ![b].used = FALSE]
            v == Heap!MergeIfPossible(u, b, u[b].next)
<1>1. /\ b \in DOMAIN gGranted
      /\ gBlocks' = Heap!MergeIfPossible(v, v[b].prev, b)
      /\ gLastAllocated' \in {c \in DOMAIN gBlocks' : Heap!Reposition(gBlocks', gBlocks[b].prev, c)}
      /\ gAllocatedBlocks' = gAllocatedBlocks - 1
      /\ gGranted' = [a \in DOMAIN gGranted \ {b} |-> gGranted[a]]
  BY DEF Heap!Free
<1>2. /\ Shape(gBlocks) /\ DOMAIN gGranted = UsedOf(gBlocks) /\ b \in UsedOf(gBlocks)
      /\ \A c \in DOMAIN gGranted : gGranted[c] \in Nat /\ gGranted[c] <= gBlocks[c].size
      /\ gAllocatedBlocks = Cardinality(UsedOf(gBlocks))
  BY <1>1 DEF HeapInv, Heap!GrantsKept, Heap!Real, UsedOf, RealOf
<1>3. b \in RealOf(gBlocks) /\ b \in DOMAIN gBlocks
  BY <1>2 DEF UsedOf, RealOf
<1>4. Shape(u) /\ DOMAIN u = DOMAIN gBlocks
  <2>1. Marking(gBlocks, b, u)
    BY DEF Marking
  <2>. HIDE DEF u
  <2>. QED
    BY <1>2, <1>3, <2>1, UsedKeepsShape
<1>5. Joined(u, b, v)
  BY <1>3, <1>4 DEF Joined
<1>6. Joined(v, v[b].prev, gBlocks')
  <2>. HIDE DEF u, v
  <2>1. Shape(v) /\ b \in DOMAIN v
    BY <1>4, <1>5, JoinStep
  <2>2. v[b].prev \in DOMAIN v /\ v[v[b].prev].next = b
    BY <2>1, LinkFacts
  <2>. QED
    BY <1>1, <2>2 DEF Joined
<1>7. Given(gBlocks, b, gBlocks')
  <2>1. Freeing(gBlocks, b, u, v, v[b].prev, gBlocks')
    BY <1>5, <1>6 DEF Freeing
  <2>. HIDE DEF u, v
  <2>. QED
    BY <1>2, <2>1, FreeGives
<1>8. /\ Shape(gBlocks') /\ UsedOf(gBlocks') = UsedOf(gBlocks) \ {b}
      /\ \A c \in UsedOf(gBlocks') : gBlocks'[c].size = gBlocks[c].size
      /\ \A c \in RealOf(gBlocks') : ~ FreePair(gBlocks', c)
  BY <1>7 DEF Given
<1>9. DOMAIN gGranted' = UsedOf(gBlocks')
  BY <1>1, <1>2, <1>8
<1>10. \A c \in DOMAIN gGranted' : gGranted'[c] \in Nat /\ gGranted'[c] <= gBlocks'[c].size
  BY <1>1, <1>2, <1>8, <1>9
<1>11. gAllocatedBlocks' = Cardinality(UsedOf(gBlocks'))
  <2>1. IsFiniteSet(UsedOf(gBlocks))
    BY <1>2, UsedFinite
  <2>. QED
    BY <1>1, <1>2, <1>8, <2>1, FS_RemoveElement
<1>12. gLastAllocated' \in DOMAIN gGranted' \cup {Heap!Sentinel}
  <2>1. Heap!Reposition(gBlocks', gBlocks[b].prev, gLastAllocated') /\ gLastAllocated' \in DOMAIN gBlocks'
    BY <1>1
  <2>2. gLastAllocated' = Heap!Sentinel \/ gBlocks'[gLastAllocated'].used
    BY <2>1 DEF Heap!Reposition, Heap!FirstOn
  <2>. QED
    BY <1>9, <2>1, <2>2 DEF UsedOf, RealOf
<1>13. Heap!GrantsKept'
  BY <1>9, <1>10 DEF Heap!GrantsKept, Heap!Real, UsedOf, RealOf
<1>. QED
  BY <1>8, <1>10, <1>11, <1>12, <1>13 DEF HeapInv, UsedOf

LEMMA HeapInit ==
  ASSUME ContainersAssumptions, Heap!Init
  PROVE  HeapInv
<1>. DEFINE whole == [prev |-> Heap!Sentinel, next |-> Heap!Sentinel, size |-> HeapSize - HeapHeader, used |-> FALSE]
<1>1. /\ DOMAIN gBlocks = {Heap!Sentinel, 0} /\ 0 # Heap!Sentinel
      /\ gBlocks = [c \in DOMAIN gBlocks |-> gBlocks[c]]
      /\ gBlocks[Heap!Sentinel] = [prev |-> 0, next |-> 0, size |-> 0, used |-> FALSE]
      /\ gBlocks[0] = whole
      /\ gGranted = <<>> /\ gLastAllocated = Heap!Sentinel /\ gAllocatedBlocks = 0
  BY HeapNumbers DEF Heap!Init, Heap!Block
<1>2. RealOf(gBlocks) = {0}
  BY <1>1 DEF RealOf
<1>3. /\ HeapSize - HeapHeader \in Nat /\ 0 \in 0..HeapSize-1
      /\ 0 + HeapHeader + (HeapSize - HeapHeader) = HeapSize
  BY HeapNumbers
<1>4. EndOf(gBlocks, 0) = HeapSize
  BY <1>1, <1>3 DEF EndOf
<1>5. Linked(gBlocks)
  <2>1. ASSUME NEW c \in DOMAIN gBlocks
        PROVE  gBlocks[c] \in [prev : DOMAIN gBlocks, next : DOMAIN gBlocks, size : Nat, used : BOOLEAN]
    <3>1. CASE c = 0
      <4>1. whole \in [prev : DOMAIN gBlocks, next : DOMAIN gBlocks, size : Nat, used : BOOLEAN]
        <5>1. Heap!Sentinel \in DOMAIN gBlocks /\ HeapSize - HeapHeader \in Nat
          BY <1>1, <1>3
        <5>. QED
          BY <5>1
      <4>. QED
        BY <1>1, <3>1, <4>1
    <3>2. CASE c = Heap!Sentinel
      <4>1. 0 \in DOMAIN gBlocks
        BY <1>1
      <4>2. [prev |-> 0, next |-> 0, size |-> 0, used |-> FALSE]
              \in [prev : DOMAIN gBlocks, next : DOMAIN gBlocks, size : Nat, used : BOOLEAN]
        BY <4>1
      <4>. QED
        BY <1>1, <3>2, <4>2
    <3>. QED
      BY <1>1, <3>1, <3>2
  <2>2. gBlocks \in [DOMAIN gBlocks -> [prev : DOMAIN gBlocks, next : DOMAIN gBlocks, size : Nat, used : BOOLEAN]]
    BY <1>1, <2>1
  <2>3. \A c \in DOMAIN gBlocks : gBlocks[gBlocks[c].next].prev = c /\ gBlocks[gBlocks[c].prev].next = c
    BY <1>1
  <2>. QED
    BY <1>1, <1>2, <1>3, <2>2, <2>3, HeapNumbers DEF Linked
<1>6. SentinelKept(gBlocks) /\ Tiled(gBlocks) /\ InOrder(gBlocks)
  BY <1>1, <1>2, <1>4, HeapNumbers DEF SentinelKept, Tiled, InOrder
<1>7. \A b \in RealOf(gBlocks) : ~ FreePair(gBlocks, b)
  BY <1>1, <1>2 DEF FreePair
<1>8. DOMAIN gGranted = {}
  BY <1>1
<1>9. UsedOf(gBlocks) = {}
  BY <1>1, <1>2 DEF UsedOf
<1>10. Heap!GrantsKept
  BY <1>8, <1>9 DEF Heap!GrantsKept, Heap!Real, UsedOf, RealOf
<1>11. gAllocatedBlocks = Cardinality(UsedOf(gBlocks))
  BY <1>1, <1>9, FS_EmptySet
<1>. QED
  BY <1>1, <1>5, <1>6, <1>7, <1>8, <1>10, <1>11 DEF HeapInv, Shape, UsedOf

LEMMA HeapStep ==
  ASSUME ContainersAssumptions, HeapInv, [Heap!Next]_(Heap!vars)
  PROVE  HeapInv'
<1>1. CASE \E size \in HeapSizes : Heap!Alloc(size)
  BY <1>1, AllocStep
<1>2. CASE UNCHANGED Heap!vars
  BY <1>2 DEF Heap!vars, HeapInv, Heap!GrantsKept, Heap!Real
<1>3. CASE \E size \in HeapSizes : Heap!AllocFull(size)
  BY <1>2, <1>3 DEF Heap!AllocFull
<1>4. CASE \E b \in Heap!Addresses : Heap!Free(b)
  BY <1>4, FreeStep
<1>. QED
  BY <1>1, <1>2, <1>3, <1>4 DEF Heap!Next

\* Where no block meets another and none is lost, the run's property follows.
LEMMA HeapInvTiles ==
  ASSUME ContainersAssumptions, HeapInv
  PROVE  HeapBlocksTile
<1>1. Shape(gBlocks)
  BY DEF HeapInv
<1>2. Heap!Real = RealOf(gBlocks)
  BY DEF Heap!Real, RealOf
<1>3. Heap!TypeOK
  <2>1. Heap!Real \subseteq Heap!Addresses
    BY <1>1, <1>2 DEF Shape, Linked
  <2>2. \A b \in Heap!Real : gBlocks[b].size >= 0
    BY <1>1, <1>2, BlockFacts
  <2>3. \A S : Heap!Cardinality(S) = Cardinality(S)
    BY DEF Heap!Cardinality, Cardinality
  <2>. QED
    BY <1>2, <2>1, <2>2, <2>3 DEF Heap!TypeOK, HeapInv
<1>4. Heap!BlocksTile
  BY <1>1, <1>2 DEF Heap!BlocksTile, Shape, Linked, SentinelKept, Tiled, EndOf
<1>5. Heap!FreeBlocksMerged
  BY <1>2 DEF Heap!FreeBlocksMerged, HeapInv, FreePair
<1>. QED
  BY <1>3, <1>4, <1>5 DEF HeapBlocksTile, HeapInv

\* Blocks tile the heap (memory.h, GenericHeap): from end to end with none lost, free
\* neighbours merged, every caller's block in use and with room for what it asked for.
THEOREM HeapTiles == Heap!Spec => []HeapBlocksTile
<1>. USE ContainersAssumptions
<1>1. Heap!Init => HeapInv
  BY HeapInit
<1>2. HeapInv /\ [Heap!Next]_(Heap!vars) => HeapInv'
  BY HeapStep
<1>3. HeapInv => HeapBlocksTile
  BY HeapInvTiles
<1>. QED
  BY <1>1, <1>2, <1>3, PTL DEF Heap!Spec

---------------------------------------------------------------------------
(* MemoryArena, for pages, headers, sizes and alignments of any numbers of *)
(* bytes and any depth of temporary memory.  What a scope has lies below   *)
(* the mark of every scope within it: on a page before the mark's, or on   *)
(* its page and before its position.  The end of temporary memory, which   *)
(* cuts the pages off at the mark, then takes nothing of it.               *)
PageRecords == [base : PageBases, used : Nat, size : Nat]
MarkRecords == [base : PageBases \cup {NoBase}, used : Nat]
BlockRecords == [base : PageBases, from : Nat, size : Nat, align : Nat \ {0}]

\* The first `end` bytes of a page are in use, and lie before the mark r.
Within(ps, base, end) == \E i \in DOMAIN ps : ps[i].base = base /\ end <= ps[i].used

Before(ps, base, end, r) ==
  \E i, j \in DOMAIN ps :
    ps[i].base = base /\ ps[j].base = r.base /\ (i < j \/ (i = j /\ end <= r.used))

PagesRight(ps) ==
  /\ ps \in Seq(PageRecords)
  /\ \A i \in DOMAIN ps : ps[i].used <= ps[i].size
  /\ \A i, j \in DOMAIN ps : ps[i].base = ps[j].base => i = j

Typed ==
  /\ mTemps \in Seq(MarkRecords) /\ mTempCount = Len(mTemps)
  /\ mLive \in Seq(SUBSET BlockRecords) /\ Len(mLive) = Len(mTemps) + 1
  /\ mSub \in [base : PageBases \cup {NoBase}, from : Nat, size : Nat, used : Nat]
  /\ mSub # Arena!NoSub => mSub.base \in PageBases

\* The blocks of the scopes, and the sub-arena with what is used of it.
Owned(ls, b) == \E m \in DOMAIN ls : b \in ls[m]

BlocksRight ==
  /\ \A b : Owned(mLive, b) => Within(mPages, b.base, b.from + b.size) /\ b.from % b.align = 0
  /\ \A b, c : Owned(mLive, b) /\ Owned(mLive, c) => b = c \/ Arena!Apart(b, c)
  /\ \A m, n \in DOMAIN mLive : \A b : b \in mLive[m] /\ b \in mLive[n] => m = n \/ b.size = 0

SubRight ==
  mSub # Arena!NoSub =>
    /\ mSub.used <= mSub.size /\ Within(mPages, mSub.base, mSub.from + mSub.size)
    /\ \A b : Owned(mLive, b) =>
                \/ Arena!Apart(b, mSub)
                \/ /\ b.base = mSub.base /\ b.from >= mSub.from
                   /\ b.from + b.size <= mSub.from + mSub.used

MarksRight ==
  \A k \in DOMAIN mTemps :
    /\ mTemps[k].base # NoBase => Within(mPages, mTemps[k].base, mTemps[k].used)
    /\ \A l \in DOMAIN mTemps :
         k < l => mTemps[k].base = NoBase
                  \/ Before(mPages, mTemps[k].base, mTemps[k].used, mTemps[l])
    /\ \A m \in 1..k : \A b \in mLive[m] :
         Before(mPages, b.base, b.from + b.size, mTemps[k])
    /\ mSub # Arena!NoSub => Before(mPages, mSub.base, mSub.from + mSub.size, mTemps[k])

ArenaInv == PagesRight(mPages) /\ Typed /\ BlocksRight /\ SubRight /\ MarksRight

LEMMA ArenaNumbers ==
  ASSUME ContainersAssumptions
  PROVE  /\ PageSize \in Nat /\ PageHeader \in Nat /\ PageSize > PageHeader
         /\ ArenaSizes \subseteq Nat /\ Alignments \subseteq Nat \ {0}
         /\ PageBases \subseteq Nat /\ NoBase \notin PageBases /\ MaxScopes \in Nat
BY DEF ContainersAssumptions, Arena!ArenaAssumption

---------------------------------------------------------------------------
(* Aligning.                                                               *)
LEMMA Multiple ==
  ASSUME NEW k \in Nat \ {0}, NEW p \in Int
  PROVE  (k * p) % k = 0
<1>. DEFINE z == k * p
            q == z \div k
            r == z % k
            d == p - q
<1>1. z \in Int
  OBVIOUS
<1>. HIDE DEF z
<1>2. z = k * q + r /\ r \in 0..k-1 /\ q \in Int
  BY <1>1
<1>. HIDE DEF q, r
<1>3. d \in Int /\ k * d = r
  BY <1>2 DEF z
<1>. HIDE DEF d
<1>4. (d >= 1 => k * d >= k) /\ (d <= -1 => k * d <= -k) /\ (d = 0 => k * d = 0)
  BY <1>3
<1>5. r = 0
  BY <1>2, <1>3, <1>4
<1>. QED
  BY <1>5 DEF r, z

LEMMA AlignedUp ==
  ASSUME NEW n \in Nat, NEW k \in Nat \ {0}
  PROVE  /\ Arena!AlignUp(n, k) \in Nat /\ Arena!AlignUp(n, k) >= n
         /\ Arena!AlignUp(n, k) % k = 0
<1>. DEFINE z == n + k - 1
            q == z \div k
            r == z % k
<1>1. z \in Int
  OBVIOUS
<1>2. Arena!AlignUp(n, k) = q * k
  BY DEF Arena!AlignUp
<1>. HIDE DEF z
<1>3. z = k * q + r /\ r \in 0..k-1 /\ q \in Int
  BY <1>1
<1>. HIDE DEF q, r
<1>4. q * k = k * q /\ k * q \in Int
  BY <1>3
<1>5. k * q >= n
  BY <1>3, <1>4 DEF z
<1>6. (k * q) % k = 0
  BY <1>3, Multiple
<1>. QED
  BY <1>2, <1>4, <1>5, <1>6

---------------------------------------------------------------------------
(* Sequences: all but the last, another last, one more.                    *)
LEMMA FrontIs ==
  ASSUME NEW S, NEW s \in Seq(S), s # <<>>
  PROVE  /\ Arena!Front(s) \in Seq(S) /\ Len(Arena!Front(s)) = Len(s) - 1
         /\ \A i \in 1..Len(s)-1 : Arena!Front(s)[i] = s[i]
         /\ Len(s) \in Nat \ {0} /\ Arena!Last(s) = s[Len(s)] /\ Arena!Last(s) \in S
<1>1. Len(s) \in Nat \ {0}
  BY EmptySeq
<1>. DEFINE n == Len(s) - 1
            f == SubSeq(s, 1, n)
<1>2. Arena!Front(s) = f /\ Arena!Last(s) = s[Len(s)]
  BY DEF Arena!Front, Arena!Last
<1>3. \A i \in 1..Len(s) : s[i] \in S
  BY ElementOfSeq
<1>4. n \in Int /\ n >= 0 /\ \A i \in 1..n : i \in 1..Len(s) /\ s[i] \in S
  BY <1>1, <1>3
<1>5. Len(s) \in 1..Len(s)
  BY <1>1
<1>. HIDE DEF n
<1>6. /\ f \in Seq(S) /\ Len(f) = IF 1 <= n THEN n - 1 + 1 ELSE 0
      /\ \A i \in 1..n-1+1 : f[i] = s[1 + i - 1]
  BY <1>4, SubSeqProperties
<1>. HIDE DEF f
<1>7. Len(f) = n /\ \A i \in 1..n : i \in 1..n-1+1 /\ 1 + i - 1 = i
  BY <1>4, <1>6
<1>. QED
  BY <1>1, <1>2, <1>3, <1>5, <1>6, <1>7 DEF n

LEMMA AppendIs ==
  ASSUME NEW S, NEW s \in Seq(S), NEW v \in S
  PROVE  /\ Append(s, v) \in Seq(S) /\ Len(Append(s, v)) = Len(s) + 1 /\ Len(s) \in Nat
         /\ DOMAIN Append(s, v) = 1..Len(s)+1 /\ DOMAIN s = 1..Len(s)
         /\ \A i \in 1..Len(s) : Append(s, v)[i] = s[i]
         /\ Append(s, v)[Len(s) + 1] = v
<1>1. Len(s) \in Nat /\ DOMAIN s = 1..Len(s)
  BY LenProperties
<1>2. /\ Append(s, v) \in Seq(S) /\ Len(Append(s, v)) = Len(s) + 1
      /\ \A i \in 1..Len(s)+1 : Append(s, v)[i] = IF i <= Len(s) THEN s[i] ELSE v
  BY AppendProperties
<1>3. DOMAIN Append(s, v) = 1..Len(s)+1
  BY <1>2, LenProperties
<1>. QED
  BY <1>1, <1>2, <1>3

LEMMA LastReplaced ==
  ASSUME NEW S, NEW s \in Seq(S), s # <<>>, NEW v \in S
  PROVE  /\ Append(Arena!Front(s), v) \in Seq(S)
         /\ DOMAIN Append(Arena!Front(s), v) = 1..Len(s) /\ DOMAIN s = 1..Len(s)
         /\ Len(Append(Arena!Front(s), v)) = Len(s)
         /\ Len(s) \in Nat \ {0}
         /\ \A i \in 1..Len(s) :
              Append(Arena!Front(s), v)[i] = IF i = Len(s) THEN v ELSE s[i]
<1>. DEFINE f == Arena!Front(s)
            g == Append(f, v)
<1>1. /\ f \in Seq(S) /\ Len(f) = Len(s) - 1 /\ Len(s) \in Nat \ {0}
      /\ \A i \in 1..Len(s)-1 : f[i] = s[i]
  BY FrontIs
<1>2. DOMAIN s = 1..Len(s)
  BY LenProperties
<1>. HIDE DEF f
<1>3. /\ g \in Seq(S) /\ Len(g) = Len(f) + 1 /\ DOMAIN g = 1..Len(f)+1
      /\ \A i \in 1..Len(f) : g[i] = f[i]
      /\ g[Len(f) + 1] = v
  BY <1>1, AppendIs
<1>. HIDE DEF g
<1>4. Len(f) + 1 = Len(s)
  BY <1>1
<1>5. \A i \in 1..Len(s) : g[i] = IF i = Len(s) THEN v ELSE s[i]
  <2>. SUFFICES ASSUME NEW i \in 1..Len(s) PROVE g[i] = IF i = Len(s) THEN v ELSE s[i]
    OBVIOUS
  <2>1. CASE i = Len(s)
    BY <1>3, <1>4, <2>1
  <2>2. CASE i # Len(s)
    <3>1. i \in 1..Len(s)-1 /\ i \in 1..Len(f)
      BY <1>1, <2>2
    <3>. QED
      BY <1>1, <1>3, <2>2, <3>1
  <2>. QED
    BY <2>1, <2>2
<1>. QED
  BY <1>1, <1>2, <1>3, <1>4, <1>5 DEF f, g

---------------------------------------------------------------------------
(* Pages.  When they only grow, what is in use stays so, and below a mark. *)
Grown(ps, qs) ==
  /\ DOMAIN ps \subseteq DOMAIN qs
  /\ \A i \in DOMAIN ps : qs[i].base = ps[i].base /\ ps[i].used <= qs[i].used

LEMMA PageFacts ==
  ASSUME NEW ps, PagesRight(ps)
  PROVE  /\ Len(ps) \in Nat /\ DOMAIN ps = 1..Len(ps)
         /\ \A i \in 1..Len(ps) : /\ ps[i] \in PageRecords /\ ps[i].base \in PageBases
                                  /\ ps[i].used \in Nat /\ ps[i].size \in Nat
                                  /\ ps[i].used <= ps[i].size
<1>1. Len(ps) \in Nat /\ DOMAIN ps = 1..Len(ps)
  BY LenProperties DEF PagesRight
<1>2. \A i \in 1..Len(ps) : ps[i] \in PageRecords
  BY ElementOfSeq DEF PagesRight
<1>. QED
  BY <1>1, <1>2 DEF PagesRight, PageRecords

LEMMA GrowthKeeps ==
  ASSUME NEW ps, NEW qs, PagesRight(ps), PagesRight(qs), Grown(ps, qs),
         NEW base, NEW end \in Nat
  PROVE  /\ Within(ps, base, end) => Within(qs, base, end)
         /\ \A r : Before(ps, base, end, r) => Before(qs, base, end, r)
<1>1. Within(ps, base, end) => Within(qs, base, end)
  <2>. SUFFICES ASSUME NEW i \in DOMAIN ps, ps[i].base = base, end <= ps[i].used
                PROVE  Within(qs, base, end)
    BY DEF Within
  <2>1. i \in DOMAIN qs /\ qs[i].base = base /\ ps[i].used <= qs[i].used
    BY DEF Grown
  <2>2. ps[i].used \in Nat /\ qs[i].used \in Nat
    BY <2>1, PageFacts
  <2>3. end <= qs[i].used
    BY <2>1, <2>2
  <2>. QED
    BY <2>1, <2>3 DEF Within
<1>2. ASSUME NEW r, Before(ps, base, end, r)
      PROVE  Before(qs, base, end, r)
  BY <1>2 DEF Before, Grown
<1>. QED
  BY <1>1, <1>2

\* Nothing lies before a mark that was set before there were pages.
LEMMA BeforeIsMarked ==
  ASSUME NEW ps, PagesRight(ps), NEW base, NEW end, NEW r, Before(ps, base, end, r)
  PROVE  r.base # NoBase
BY PageFacts, ArenaNumbers, ContainersAssumptions DEF Before

\* A block of a given size is put behind all that is in use of its page.
LEMMA PushGrows ==
  ASSUME ContainersAssumptions, PagesRight(mPages), NEW size \in Nat,
         NEW align \in Nat \ {0}, NEW from, NEW base, Arena!PushSize(size, align, from, base)
  PROVE  /\ PagesRight(mPages') /\ Grown(mPages, mPages')
         /\ from \in Nat /\ base \in PageBases /\ from % align = 0
         /\ Within(mPages', base, from + size)
         /\ \A i \in DOMAIN mPages : mPages[i].base = base => mPages[i].used <= from
<1>. DEFINE n == Len(mPages)
<1>1. /\ n \in Nat /\ DOMAIN mPages = 1..n /\ mPages \in Seq(PageRecords)
      /\ \A i \in 1..n : /\ mPages[i] \in PageRecords /\ mPages[i].base \in PageBases
                         /\ mPages[i].used \in Nat /\ mPages[i].size \in Nat
                         /\ mPages[i].used <= mPages[i].size
  BY PageFacts DEF PagesRight
<1>2. CASE Arena!Fits(size, align)
  <2>1. mPages # <<>>
    BY <1>2 DEF Arena!PushSize
  <2>2. n \in 1..n /\ Arena!Current = mPages[n]
    <3>1. n \in Nat \ {0} /\ Arena!Last(mPages) = mPages[n]
      BY <1>1, <2>1, FrontIs
    <3>. QED
      BY <2>1, <3>1 DEF Arena!Current
  <2>. DEFINE cur == mPages[n]
              v == [cur EXCEPT !.used = from + size]
  <2>3. /\ from = Arena!AlignUp(cur.used, align) /\ base = cur.base
        /\ from + size <= cur.size
        /\ mPages' = Append(Arena!Front(mPages), v)
    BY <1>2, <2>2 DEF Arena!PushSize, Arena!Fits, Arena!Aligned
  <2>4. from \in Nat /\ from >= cur.used /\ from % align = 0
    BY <1>1, <2>2, <2>3, AlignedUp
  <2>5. v \in PageRecords /\ v.used = from + size /\ v.size = cur.size /\ v.base = base
    <3>1. cur \in PageRecords /\ from + size \in Nat
      BY <1>1, <2>2, <2>4
    <3>2. cur = [base |-> cur.base, used |-> cur.used, size |-> cur.size]
      BY <3>1 DEF PageRecords
    <3>3. v = [base |-> cur.base, used |-> from + size, size |-> cur.size]
      BY <3>2
    <3>4. cur.base \in PageBases /\ cur.size \in Nat
      BY <3>1 DEF PageRecords
    <3>. HIDE DEF v, cur
    <3>. QED
      BY <2>3, <3>1, <3>3, <3>4 DEF PageRecords
  <2>. HIDE DEF v, cur, n
  <2>6. /\ mPages' \in Seq(PageRecords) /\ DOMAIN mPages' = 1..n
        /\ \A i \in 1..n : mPages'[i] = IF i = n THEN v ELSE mPages[i]
    <3>. DEFINE qs == Append(Arena!Front(mPages), v)
    <3>1. /\ qs \in Seq(PageRecords) /\ DOMAIN qs = 1..Len(mPages)
          /\ \A i \in 1..Len(mPages) : qs[i] = IF i = Len(mPages) THEN v ELSE mPages[i]
      BY <1>1, <2>1, <2>5, LastReplaced
    <3>2. mPages' = qs
      BY <2>3
    <3>. HIDE DEF qs
    <3>. QED
      BY <3>1, <3>2 DEF n
  <2>7. \A i \in 1..n : mPages'[i].base = mPages[i].base
    BY <2>3, <2>5, <2>6 DEF cur
  <2>8. PagesRight(mPages')
    <3>1. \A i \in 1..n : mPages'[i].used <= mPages'[i].size
      BY <1>1, <2>3, <2>5, <2>6
    <3>2. \A i, j \in 1..n : mPages'[i].base = mPages'[j].base => i = j
      BY <1>1, <2>7 DEF PagesRight
    <3>. QED
      BY <2>6, <3>1, <3>2 DEF PagesRight
  <2>9. Grown(mPages, mPages')
    <3>1. \A i \in 1..n : mPages[i].used <= mPages'[i].used
      BY <1>1, <2>2, <2>4, <2>5, <2>6 DEF cur
    <3>. QED
      BY <1>1, <2>6, <2>7, <3>1 DEF Grown
  <2>10. Within(mPages', base, from + size)
    BY <2>2, <2>4, <2>5, <2>6 DEF Within
  <2>11. \A i \in DOMAIN mPages : mPages[i].base = base => mPages[i].used <= from
    BY <1>1, <2>2, <2>3, <2>4 DEF PagesRight, cur
  <2>. QED
    BY <1>1, <2>2, <2>3, <2>4, <2>8, <2>9, <2>10, <2>11 DEF cur
<1>3. CASE ~ Arena!Fits(size, align)
  <2>. DEFINE v == Arena!NewPage(base, size)
  <2>1. /\ from = 0 /\ Arena!FreeBases # {} /\ base = Arena!Min(Arena!FreeBases)
        /\ mPages' = Append(mPages, v)
    BY <1>3 DEF Arena!PushSize
  <2>2. base \in Arena!FreeBases
    <3>1. Arena!FreeBases \in SUBSET Nat
      BY ArenaNumbers DEF Arena!FreeBases
    <3>2. \E m \in Arena!FreeBases : \A k \in Arena!FreeBases : m <= k
      BY <2>1, <3>1, LeastNumber
    <3>. QED
      BY <2>1, <3>2 DEF Arena!Min
  <2>3. base \in PageBases /\ \A i \in 1..n : mPages[i].base # base
    BY <1>1, <2>2 DEF Arena!FreeBases
  <2>4. v \in PageRecords /\ v.used = size /\ v.used <= v.size /\ v.base = base
    BY <2>3, ArenaNumbers DEF Arena!NewPage, PageRecords
  <2>. HIDE DEF v, n
  <2>5. /\ mPages' \in Seq(PageRecords) /\ DOMAIN mPages' = 1..n+1
        /\ \A i \in 1..n : mPages'[i] = mPages[i]
        /\ mPages'[n + 1] = v
    BY <1>1, <2>1, <2>4, AppendIs DEF n
  <2>6. \A i \in 1..n+1 : i \in 1..n \/ i = n + 1
    BY <1>1
  <2>7. PagesRight(mPages')
    <3>1. \A i \in 1..n+1 : mPages'[i].used <= mPages'[i].size
      BY <1>1, <2>4, <2>5, <2>6
    <3>2. \A i, j \in 1..n+1 : mPages'[i].base = mPages'[j].base => i = j
      BY <1>1, <2>3, <2>4, <2>5, <2>6 DEF PagesRight
    <3>. QED
      BY <2>5, <3>1, <3>2 DEF PagesRight
  <2>8. Grown(mPages, mPages')
    BY <1>1, <2>5 DEF Grown
  <2>9. 0 % align = 0
    <3>1. align * 0 = 0 /\ (align * 0) % align = 0
      BY Multiple
    <3>. QED
      BY <3>1
  <2>10. Within(mPages', base, from + size)
    <3>1. n + 1 \in DOMAIN mPages' /\ from + size <= mPages'[n + 1].used
      BY <1>1, <2>1, <2>4, <2>5
    <3>. QED
      BY <2>4, <2>5, <3>1 DEF Within
  <2>. QED
    BY <1>1, <2>1, <2>3, <2>7, <2>8, <2>9, <2>10
<1>. QED
  BY <1>2, <1>3

---------------------------------------------------------------------------
(* Steps.                                                                  *)
LEMMA OwnedFacts ==
  ASSUME Typed, NEW b, Owned(mLive, b)
  PROVE  /\ b \in BlockRecords /\ b.base \in PageBases /\ b.from \in Nat /\ b.size \in Nat
         /\ b.align \in Nat \ {0} /\ b.from + b.size \in Nat
<1>1. PICK m \in DOMAIN mLive : b \in mLive[m]
  BY DEF Owned
<1>2. mLive[m] \in SUBSET BlockRecords
  BY <1>1, ElementOfSeq, LenProperties DEF Typed
<1>3. b \in BlockRecords
  BY <1>1, <1>2
<1>. QED
  BY <1>3 DEF BlockRecords

LEMMA TypedFacts ==
  ASSUME Typed
  PROVE  /\ Len(mTemps) \in Nat /\ DOMAIN mTemps = 1..Len(mTemps)
         /\ Len(mLive) \in Nat \ {0} /\ DOMAIN mLive = 1..Len(mLive)
         /\ Len(mLive) = Len(mTemps) + 1
         /\ \A k \in DOMAIN mTemps : mTemps[k] \in MarkRecords /\ mTemps[k].used \in Nat
         /\ mSub.from \in Nat /\ mSub.size \in Nat /\ mSub.used \in Nat
         /\ mSub.from + mSub.size \in Nat
<1>1. /\ Len(mTemps) \in Nat /\ DOMAIN mTemps = 1..Len(mTemps)
      /\ Len(mLive) \in Nat /\ DOMAIN mLive = 1..Len(mLive)
  BY LenProperties DEF Typed
<1>2. \A k \in DOMAIN mTemps : mTemps[k] \in MarkRecords
  BY <1>1, ElementOfSeq DEF Typed
<1>3. \A k \in DOMAIN mTemps : mTemps[k].used \in Nat
  BY <1>2 DEF MarkRecords
<1>4. Len(mLive) = Len(mTemps) + 1
  BY DEF Typed
<1>5. mSub.from \in Nat /\ mSub.size \in Nat /\ mSub.used \in Nat
  BY DEF Typed
<1>. QED
  BY <1>1, <1>2, <1>3, <1>4, <1>5

\* What is in use ends before what is behind all that is in use.
LEMMA Behind ==
  ASSUME NEW ps, PagesRight(ps), NEW base, NEW end \in Nat, NEW from \in Nat,
         \A i \in DOMAIN ps : ps[i].base = base => ps[i].used <= from,
         Within(ps, base, end)
  PROVE  end <= from
BY PageFacts DEF Within

\* A block joins the scope m, apart from all blocks there are.
LEMMA BlockAdded ==
  ASSUME PagesRight(mPages), Typed, BlocksRight, NEW m \in DOMAIN mLive,
         NEW blk \in BlockRecords, PagesRight(mPages'), Grown(mPages, mPages'),
         mLive' = [mLive EXCEPT ![m] = mLive[m] \cup {blk}],
         Within(mPages', blk.base, blk.from + blk.size), blk.from % blk.align = 0,
         \A b : Owned(mLive, b) => Arena!Apart(b, blk)
  PROVE  /\ mLive' \in Seq(SUBSET BlockRecords) /\ Len(mLive') = Len(mLive)
         /\ DOMAIN mLive' = DOMAIN mLive
         /\ BlocksRight'
         /\ \A b : Owned(mLive', b) <=> Owned(mLive, b) \/ b = blk
         /\ \A k \in DOMAIN mLive : k # m => mLive'[k] = mLive[k]
         /\ mLive'[m] = mLive[m] \cup {blk}
<1>1. DOMAIN mLive = 1..Len(mLive) /\ mLive \in Seq(SUBSET BlockRecords)
  BY TypedFacts DEF Typed
<1>2. mLive[m] \cup {blk} \in SUBSET BlockRecords
  <2>1. mLive[m] \in SUBSET BlockRecords
    BY <1>1, ElementOfSeq
  <2>. QED
    BY <2>1
<1>3. mLive' \in Seq(SUBSET BlockRecords) /\ Len(mLive') = Len(mLive)
  BY <1>1, <1>2, ExceptSeq
<1>4. /\ DOMAIN mLive' = DOMAIN mLive
      /\ \A k \in DOMAIN mLive : k # m => mLive'[k] = mLive[k]
      /\ mLive'[m] = mLive[m] \cup {blk}
  OBVIOUS
<1>5. \A b : Owned(mLive', b) <=> Owned(mLive, b) \/ b = blk
  BY <1>4 DEF Owned
<1>6. blk.from \in Nat /\ blk.size \in Nat
  BY DEF BlockRecords
<1>7. ASSUME NEW b, Owned(mLive', b)
      PROVE  Within(mPages', b.base, b.from + b.size) /\ b.from % b.align = 0
  <2>1. CASE b = blk
    BY <2>1
  <2>2. CASE Owned(mLive, b)
    <3>1. b.from + b.size \in Nat /\ Within(mPages, b.base, b.from + b.size) /\ b.from % b.align = 0
      BY <2>2, OwnedFacts DEF BlocksRight
    <3>. QED
      BY <3>1, GrowthKeeps
  <2>. QED
    BY <1>5, <1>7, <2>1, <2>2
<1>8. ASSUME NEW b, NEW c, Owned(mLive', b), Owned(mLive', c)
      PROVE  b = c \/ Arena!Apart(b, c)
  <2>1. \A d : Owned(mLive, d) => Arena!Apart(d, blk) /\ Arena!Apart(blk, d)
    BY DEF Arena!Apart
  <2>. QED
    BY <1>5, <1>8, <2>1 DEF BlocksRight
<1>9. ASSUME NEW k \in DOMAIN mLive, NEW l \in DOMAIN mLive, NEW b,
             b \in mLive'[k], b \in mLive'[l]
      PROVE  k = l \/ b.size = 0
  <2>1. CASE b = blk /\ Owned(mLive, b)
    <3>1. Arena!Apart(blk, blk)
      BY <2>1
    <3>. QED
      BY <1>6, <2>1, <3>1 DEF Arena!Apart
  <2>2. CASE b = blk /\ ~ Owned(mLive, b)
    BY <1>4, <1>9, <2>2 DEF Owned
  <2>3. CASE b # blk
    <3>1. b \in mLive[k] /\ b \in mLive[l]
      BY <1>4, <1>9, <2>3
    <3>. QED
      BY <3>1 DEF BlocksRight
  <2>. QED
    BY <2>1, <2>2, <2>3
<1>10. BlocksRight'
  <2>1. \A b : Owned(mLive', b) => Within(mPages', b.base, b.from + b.size) /\ b.from % b.align = 0
    BY <1>7
  <2>2. \A b, c : Owned(mLive', b) /\ Owned(mLive', c) => b = c \/ Arena!Apart(b, c)
    BY <1>8
  <2>3. \A k, l \in DOMAIN mLive' : \A b : b \in mLive'[k] /\ b \in mLive'[l] => k = l \/ b.size = 0
    BY <1>4, <1>9
  <2>. QED
    BY <2>1, <2>2, <2>3, Zenon DEF BlocksRight
<1>. QED
  BY <1>3, <1>4, <1>5, <1>10

\* While the marks stay and pages only grow, what was before a mark still is.
LEMMA MarksStay ==
  ASSUME ArenaInv, PagesRight(mPages'), Grown(mPages, mPages'), mTemps' = mTemps,
         \A k \in DOMAIN mTemps : \A m \in 1..k : \A b \in mLive'[m] :
           b \in mLive[m] \/ Before(mPages', b.base, b.from + b.size, mTemps[k]),
         mSub' # Arena!NoSub =>
           \/ DOMAIN mTemps = {}
           \/ /\ mSub # Arena!NoSub /\ mSub'.base = mSub.base
              /\ mSub'.from = mSub.from /\ mSub'.size = mSub.size
  PROVE  MarksRight'
<1>. SUFFICES ASSUME NEW k \in DOMAIN mTemps
     PROVE /\ mTemps[k].base # NoBase => Within(mPages', mTemps[k].base, mTemps[k].used)
           /\ \A l \in DOMAIN mTemps :
                k < l => mTemps[k].base = NoBase
                         \/ Before(mPages', mTemps[k].base, mTemps[k].used, mTemps[l])
           /\ \A m \in 1..k : \A b \in mLive'[m] :
                Before(mPages', b.base, b.from + b.size, mTemps[k])
           /\ mSub' # Arena!NoSub => Before(mPages', mSub'.base, mSub'.from + mSub'.size, mTemps[k])
  BY DEF MarksRight
<1>1. Typed /\ PagesRight(mPages) /\ MarksRight /\ mTemps[k].used \in Nat
  BY TypedFacts DEF ArenaInv
<1>2. mTemps[k].base # NoBase => Within(mPages', mTemps[k].base, mTemps[k].used)
  BY <1>1, GrowthKeeps DEF MarksRight
<1>3. \A l \in DOMAIN mTemps :
        k < l => mTemps[k].base = NoBase
                 \/ Before(mPages', mTemps[k].base, mTemps[k].used, mTemps[l])
  BY <1>1, GrowthKeeps DEF MarksRight
<1>4. ASSUME NEW m \in 1..k, NEW b \in mLive'[m]
      PROVE  Before(mPages', b.base, b.from + b.size, mTemps[k])
  <2>1. CASE b \in mLive[m]
    <3>1. m \in DOMAIN mLive
      BY <1>1, TypedFacts
    <3>2. b.from + b.size \in Nat
      BY <1>1, <2>1, <3>1, OwnedFacts DEF Owned
    <3>3. Before(mPages, b.base, b.from + b.size, mTemps[k])
      BY <1>1, <2>1 DEF MarksRight
    <3>. QED
      BY <1>1, <3>2, <3>3, GrowthKeeps
  <2>. QED
    BY <1>4, <2>1
<1>5. mSub' # Arena!NoSub => Before(mPages', mSub'.base, mSub'.from + mSub'.size, mTemps[k])
  <2>1. mSub.from + mSub.size \in Nat
    BY <1>1, TypedFacts
  <2>2. mSub # Arena!NoSub => Before(mPages', mSub.base, mSub.from + mSub.size, mTemps[k])
    BY <1>1, <2>1, GrowthKeeps DEF MarksRight
  <2>. QED
    BY <2>2
<1>. QED
  BY <1>2, <1>3, <1>4, <1>5

LEMMA AllocArena ==
  ASSUME ContainersAssumptions, ArenaInv, NEW size \in ArenaSizes, NEW align \in Alignments,
         Arena!Alloc(size, align)
  PROVE  ArenaInv'
<1>1. /\ PagesRight(mPages) /\ Typed /\ BlocksRight /\ SubRight
      /\ size \in Nat /\ align \in Nat \ {0}
  BY ArenaNumbers DEF ArenaInv
<1>2. PICK base, from :
        /\ Arena!PushSize(size, align, from, base)
        /\ mLive' = [mLive EXCEPT ![Len(mLive)] =
                       mLive[Len(mLive)] \cup {Arena!Block(base, from, size, align)}]
        /\ UNCHANGED <<mTempCount, mTemps, mSub>>
  BY DEF Arena!Alloc
<1>3. /\ PagesRight(mPages') /\ Grown(mPages, mPages')
      /\ from \in Nat /\ base \in PageBases /\ from % align = 0
      /\ Within(mPages', base, from + size)
      /\ \A i \in DOMAIN mPages : mPages[i].base = base => mPages[i].used <= from
  BY <1>1, <1>2, PushGrows
<1>. DEFINE blk == Arena!Block(base, from, size, align)
<1>4. /\ blk \in BlockRecords /\ blk.base = base /\ blk.from = from /\ blk.size = size
      /\ blk.align = align
  BY <1>1, <1>3 DEF Arena!Block, BlockRecords
<1>. HIDE DEF blk
<1>5. ASSUME NEW b, Owned(mLive, b)
      PROVE  Arena!Apart(b, blk)
  <2>1. b.from + b.size \in Nat /\ Within(mPages, b.base, b.from + b.size)
    BY <1>1, <1>5, OwnedFacts DEF BlocksRight
  <2>2. b.base = base => b.from + b.size <= from
    <3>1. PagesRight(mPages) /\ from \in Nat
      BY <1>1, <1>3
    <3>2. \A i \in DOMAIN mPages : mPages[i].base = base => mPages[i].used <= from
      BY <1>3
    <3>. QED
      BY <2>1, <3>1, <3>2, Behind
  <2>. QED
    BY <1>4, <2>2 DEF Arena!Apart
<1>6. Len(mLive) \in DOMAIN mLive
  BY <1>1, TypedFacts
<1>7. /\ mLive' \in Seq(SUBSET BlockRecords) /\ Len(mLive') = Len(mLive)
      /\ DOMAIN mLive' = DOMAIN mLive
      /\ BlocksRight'
      /\ \A b : Owned(mLive', b) <=> Owned(mLive, b) \/ b = blk
      /\ \A k \in DOMAIN mLive : k # Len(mLive) => mLive'[k] = mLive[k]
  <2>1. mLive' = [mLive EXCEPT ![Len(mLive)] = mLive[Len(mLive)] \cup {blk}]
    BY <1>2 DEF blk
  <2>2. Within(mPages', blk.base, blk.from + blk.size) /\ blk.from % blk.align = 0
    BY <1>3, <1>4
  <2>. QED
    BY <1>1, <1>3, <1>4, <1>5, <1>6, <2>1, <2>2, BlockAdded
<1>8. Typed'
  BY <1>1, <1>2, <1>7 DEF Typed, Arena!NoSub
<1>9. SubRight'
  <2>. SUFFICES ASSUME mSub # Arena!NoSub
       PROVE /\ mSub.used <= mSub.size /\ Within(mPages', mSub.base, mSub.from + mSub.size)
             /\ \A b : Owned(mLive', b) =>
                  \/ Arena!Apart(b, mSub)
                  \/ /\ b.base = mSub.base /\ b.from >= mSub.from
                     /\ b.from + b.size <= mSub.from + mSub.used
    BY <1>2 DEF SubRight, Arena!NoSub
  <2>1. mSub.from + mSub.size \in Nat /\ Within(mPages, mSub.base, mSub.from + mSub.size)
        /\ mSub.used <= mSub.size
    BY <1>1, TypedFacts DEF SubRight
  <2>2. Within(mPages', mSub.base, mSub.from + mSub.size)
    BY <1>1, <1>3, <2>1, GrowthKeeps
  <2>3. mSub.base = base => mSub.from + mSub.size <= from
    BY <1>1, <1>3, <2>1, Behind
  <2>4. Arena!Apart(blk, mSub)
    BY <1>4, <2>3 DEF Arena!Apart
  <2>. QED
    BY <1>1, <1>7, <2>1, <2>2, <2>4 DEF SubRight
<1>10. MarksRight'
  <2>1. \A k \in DOMAIN mTemps : \A m \in 1..k : m \in DOMAIN mLive /\ m # Len(mLive)
    <3>. DEFINE n == Len(mTemps)
    <3>1. n \in Nat /\ DOMAIN mTemps = 1..n /\ Len(mLive) = n + 1 /\ DOMAIN mLive = 1..Len(mLive)
      BY <1>1, TypedFacts
    <3>. HIDE DEF n
    <3>. QED
      BY <3>1
  <2>2. \A k \in DOMAIN mTemps : \A m \in 1..k : mLive'[m] = mLive[m]
    BY <1>7, <2>1
  <2>. QED
    BY <1>2, <1>3, <2>2, MarksStay
<1>. QED
  BY <1>3, <1>7, <1>8, <1>9, <1>10 DEF ArenaInv

LEMMA SubArenaMade ==
  ASSUME ContainersAssumptions, ArenaInv, NEW size \in ArenaSizes, Arena!MakeSubArena(size)
  PROVE  ArenaInv'
<1>1. /\ PagesRight(mPages) /\ Typed /\ BlocksRight /\ SubRight
      /\ size \in Nat /\ 2 \in Nat \ {0}
  BY ArenaNumbers DEF ArenaInv
<1>2. PICK base, from :
        /\ mTempCount = 0
        /\ Arena!PushSize(size, 2, from, base)
        /\ mSub' = [base |-> base, from |-> from, size |-> size, used |-> 0]
        /\ UNCHANGED <<mTempCount, mTemps, mLive>>
  BY DEF Arena!MakeSubArena
<1>3. /\ PagesRight(mPages') /\ Grown(mPages, mPages')
      /\ from \in Nat /\ base \in PageBases
      /\ Within(mPages', base, from + size)
      /\ \A i \in DOMAIN mPages : mPages[i].base = base => mPages[i].used <= from
  BY <1>1, <1>2, PushGrows
<1>4. Typed'
  BY <1>1, <1>2, <1>3 DEF Typed
<1>5. BlocksRight'
  <2>1. ASSUME NEW b, Owned(mLive, b)
        PROVE  Within(mPages', b.base, b.from + b.size)
    <3>1. b.from + b.size \in Nat /\ Within(mPages, b.base, b.from + b.size)
      BY <1>1, <2>1, OwnedFacts DEF BlocksRight
    <3>. QED
      BY <1>1, <1>3, <3>1, GrowthKeeps
  <2>. QED
    BY <1>1, <1>2, <2>1 DEF BlocksRight
<1>6. SubRight'
  <2>1. ASSUME NEW b, Owned(mLive, b)
        PROVE  Arena!Apart(b, mSub')
    <3>1. b.from + b.size \in Nat /\ Within(mPages, b.base, b.from + b.size)
      BY <1>1, <2>1, OwnedFacts DEF BlocksRight
    <3>2. b.base = base => b.from + b.size <= from
      BY <1>1, <1>3, <3>1, Behind
    <3>. QED
      BY <1>2, <3>2 DEF Arena!Apart
  <2>2. /\ mSub'.base = base /\ mSub'.from = from /\ mSub'.size = size /\ mSub'.used = 0
        /\ mLive' = mLive
    BY <1>2
  <2>3. mSub'.used <= mSub'.size /\ Within(mPages', mSub'.base, mSub'.from + mSub'.size)
    BY <1>1, <1>3, <2>2
  <2>. QED
    BY <2>1, <2>2, <2>3 DEF SubRight
<1>7. DOMAIN mTemps = {}
  BY <1>1, <1>2, TypedFacts DEF Typed
<1>8. MarksRight'
  BY <1>2, <1>7 DEF MarksRight
<1>. QED
  BY <1>3, <1>4, <1>5, <1>6, <1>8 DEF ArenaInv

\* A block of the sub-arena comes behind those it has, within it, and so below every
\* mark that the sub-arena is below.
LEMMA AllocInSubArena ==
  ASSUME ContainersAssumptions, ArenaInv, NEW size \in ArenaSizes, Arena!AllocInSub(size)
  PROVE  ArenaInv'
<1>1. /\ PagesRight(mPages) /\ Typed /\ BlocksRight /\ SubRight /\ MarksRight
      /\ size \in Nat /\ mSub # Arena!NoSub
  BY ArenaNumbers DEF ArenaInv, Arena!AllocInSub
<1>2. /\ mSub.base \in PageBases /\ mSub.from \in Nat /\ mSub.size \in Nat /\ mSub.used \in Nat
      /\ mSub.used + size <= mSub.size
      /\ Within(mPages, mSub.base, mSub.from + mSub.size)
      /\ \A b : Owned(mLive, b) =>
           \/ Arena!Apart(b, mSub)
           \/ /\ b.base = mSub.base /\ b.from >= mSub.from
              /\ b.from + b.size <= mSub.from + mSub.used
  BY <1>1, TypedFacts DEF Typed, SubRight, Arena!AllocInSub
<1>. DEFINE blk == Arena!Block(mSub.base, mSub.from + mSub.used, size, 1)
<1>3. /\ mSub' = [mSub EXCEPT !.used = mSub.used + size]
      /\ mLive' = [mLive EXCEPT ![1] = mLive[1] \cup {blk}]
      /\ UNCHANGED <<mPages, mTempCount, mTemps>>
  BY DEF Arena!AllocInSub
<1>4. /\ blk \in BlockRecords /\ blk.base = mSub.base /\ blk.from = mSub.from + mSub.used
      /\ blk.size = size /\ blk.align = 1
  BY <1>1, <1>2 DEF Arena!Block, BlockRecords
<1>. HIDE DEF blk
<1>5. ASSUME NEW b, Owned(mLive, b)
      PROVE  Arena!Apart(b, blk)
  <2>1. b.from \in Nat /\ b.size \in Nat
    BY <1>1, <1>5, OwnedFacts
  <2>2. CASE Arena!Apart(b, mSub)
    BY <1>1, <1>2, <1>4, <2>1, <2>2 DEF Arena!Apart
  <2>3. CASE b.from + b.size <= mSub.from + mSub.used
    BY <1>4, <2>3 DEF Arena!Apart
  <2>. QED
    BY <1>2, <1>5, <2>2, <2>3
<1>6. Within(mPages, blk.base, blk.from + blk.size)
  <2>1. PICK i \in DOMAIN mPages :
          mPages[i].base = mSub.base /\ mSub.from + mSub.size <= mPages[i].used
    BY <1>2 DEF Within
  <2>2. mPages[i].used \in Nat
    BY <1>1, <2>1, PageFacts
  <2>3. blk.from + blk.size <= mPages[i].used
    BY <1>1, <1>2, <1>4, <2>1, <2>2
  <2>. QED
    BY <1>4, <2>1, <2>3 DEF Within
<1>7. blk.from % blk.align = 0
  <2>1. blk.from \in Int /\ 1 \in Nat \ {0}
    BY <1>2, <1>4
  <2>2. (1 * blk.from) % 1 = 0
    BY <2>1, Multiple
  <2>3. 1 * blk.from = blk.from
    BY <2>1
  <2>. QED
    BY <1>4, <2>2, <2>3
<1>8. PagesRight(mPages') /\ Grown(mPages, mPages')
  <2>1. \A i \in DOMAIN mPages : mPages[i].used <= mPages[i].used
    BY <1>1, PageFacts
  <2>. QED
    BY <1>1, <1>3, <2>1 DEF Grown
<1>9. 1 \in DOMAIN mLive
  BY <1>1, TypedFacts
<1>10. /\ mLive' \in Seq(SUBSET BlockRecords) /\ Len(mLive') = Len(mLive)
       /\ BlocksRight'
       /\ \A b : Owned(mLive', b) <=> Owned(mLive, b) \/ b = blk
       /\ \A k \in DOMAIN mLive : k # 1 => mLive'[k] = mLive[k]
       /\ mLive'[1] = mLive[1] \cup {blk}
  <2>1. Within(mPages', blk.base, blk.from + blk.size)
    BY <1>3, <1>6
  <2>. QED
    BY <1>1, <1>3, <1>4, <1>5, <1>7, <1>8, <1>9, <2>1, BlockAdded
<1>11. /\ mSub'.base = mSub.base /\ mSub'.from = mSub.from /\ mSub'.size = mSub.size
       /\ mSub'.used = mSub.used + size
       /\ mSub' \in [base : PageBases \cup {NoBase}, from : Nat, size : Nat, used : Nat]
  <2>1. mSub = [base |-> mSub.base, from |-> mSub.from, size |-> mSub.size, used |-> mSub.used]
    BY <1>1 DEF Typed
  <2>. DEFINE z == [base |-> mSub.base, from |-> mSub.from, size |-> mSub.size,
                    used |-> mSub.used + size]
  <2>2. mSub' = z
    BY <1>3, <2>1
  <2>3. mSub.used + size \in Nat
    BY <1>1, <1>2
  <2>4. /\ z.base = mSub.base /\ z.from = mSub.from /\ z.size = mSub.size
        /\ z.used = mSub.used + size
        /\ z \in [base : PageBases \cup {NoBase}, from : Nat, size : Nat, used : Nat]
    BY <1>2, <2>3
  <2>. QED
    BY <2>2, <2>4
<1>12. Typed'
  BY <1>1, <1>2, <1>3, <1>10, <1>11 DEF Typed
<1>13. SubRight'
  <2>1. ASSUME NEW b, Owned(mLive', b)
        PROVE  \/ Arena!Apart(b, mSub')
               \/ /\ b.base = mSub'.base /\ b.from >= mSub'.from
                  /\ b.from + b.size <= mSub'.from + mSub'.used
    <3>1. CASE b = blk
      BY <1>1, <1>2, <1>4, <1>11, <3>1
    <3>2. CASE Owned(mLive, b) /\ Arena!Apart(b, mSub)
      BY <1>11, <3>2 DEF Arena!Apart
    <3>3. CASE Owned(mLive, b) /\ ~ Arena!Apart(b, mSub)
      <4>1. b.from \in Nat /\ b.size \in Nat
        BY <1>1, <3>3, OwnedFacts
      <4>. QED
        BY <1>1, <1>2, <1>11, <3>3, <4>1
    <3>. QED
      BY <1>10, <2>1, <3>1, <3>2, <3>3
  <2>2. mSub'.used <= mSub'.size /\ Within(mPages', mSub'.base, mSub'.from + mSub'.size)
    BY <1>2, <1>3, <1>11
  <2>. QED
    BY <2>1, <2>2 DEF SubRight
<1>14. MarksRight'
  <2>1. ASSUME NEW k \in DOMAIN mTemps, NEW m \in 1..k, NEW b \in mLive'[m]
        PROVE  b \in mLive[m] \/ Before(mPages', b.base, b.from + b.size, mTemps[k])
    <3>1. m \in DOMAIN mLive
      BY <1>1, TypedFacts
    <3>2. CASE b = blk
      <4>1. PICK i, j \in DOMAIN mPages :
              /\ mPages[i].base = mSub.base /\ mPages[j].base = mTemps[k].base
              /\ i < j \/ (i = j /\ mSub.from + mSub.size <= mTemps[k].used)
        BY <1>1 DEF MarksRight, Before
      <4>2. mTemps[k].used \in Nat
        BY <1>1, TypedFacts
      <4>3. i < j \/ (i = j /\ blk.from + blk.size <= mTemps[k].used)
        BY <1>1, <1>2, <1>4, <4>1, <4>2
      <4>. QED
        BY <1>3, <1>4, <3>2, <4>1, <4>3 DEF Before
    <3>3. CASE b # blk
      BY <1>10, <2>1, <3>1, <3>3
    <3>. QED
      BY <3>2, <3>3
  <2>. QED
    BY <1>1, <1>3, <1>8, <1>11, <2>1, MarksStay
<1>. QED
  BY <1>8, <1>10, <1>12, <1>13, <1>14 DEF ArenaInv

\* The mark of a new scope is at the end of what is in use.
LEMMA BeginScope ==
  ASSUME ContainersAssumptions, ArenaInv, Arena!BeginTemporaryMemory
  PROVE  ArenaInv'
<1>1. PagesRight(mPages) /\ Typed /\ BlocksRight /\ SubRight /\ MarksRight
  BY DEF ArenaInv
<1>. DEFINE r == [base |-> Arena!Current.base, used |-> Arena!Current.used]
            n == Len(mTemps)
<1>2. /\ mTemps' = Append(mTemps, r) /\ mTempCount' = mTempCount + 1
      /\ mLive' = Append(mLive, {})
      /\ UNCHANGED <<mPages, mSub>>
  BY DEF Arena!BeginTemporaryMemory
<1>3. /\ r \in MarkRecords
      /\ \A base \in PageBases : \A end \in Nat :
           Within(mPages, base, end) => Before(mPages, base, end, r)
      /\ r.base # NoBase => Within(mPages, r.base, r.used)
  <2>1. CASE mPages = <<>>
    <3>1. r.base = NoBase /\ r.used = 0
      BY <2>1 DEF Arena!Current
    <3>2. DOMAIN mPages = {}
      BY <2>1
    <3>. QED
      BY <3>1, <3>2 DEF MarkRecords, Within
  <2>2. CASE mPages # <<>>
    <3>. DEFINE p == Len(mPages)
    <3>1. p \in Nat \ {0} /\ Arena!Last(mPages) = mPages[p]
      BY <1>1, <2>2, FrontIs DEF PagesRight
    <3>2. r.base = mPages[p].base /\ r.used = mPages[p].used
      BY <2>2, <3>1 DEF Arena!Current
    <3>3. /\ DOMAIN mPages = 1..p
          /\ \A i \in 1..p : mPages[i].base \in PageBases /\ mPages[i].used \in Nat
      BY <1>1, PageFacts
    <3>. HIDE DEF p
    <3>4. r \in MarkRecords
      BY <3>1, <3>2, <3>3 DEF MarkRecords
    <3>5. ASSUME NEW base \in PageBases, NEW end \in Nat, Within(mPages, base, end)
          PROVE  Before(mPages, base, end, r)
      <4>1. PICK i \in 1..p : mPages[i].base = base /\ end <= mPages[i].used
        BY <3>3, <3>5 DEF Within
      <4>2. p \in 1..p /\ (i < p \/ (i = p /\ end <= r.used))
        BY <3>1, <3>2, <4>1
      <4>. QED
        BY <3>2, <3>3, <4>1, <4>2 DEF Before
    <3>6. Within(mPages, r.base, r.used)
      BY <3>1, <3>2, <3>3 DEF Within
    <3>. QED
      BY <3>4, <3>5, <3>6
  <2>. QED
    BY <2>1, <2>2
<1>. HIDE DEF r
<1>4. /\ mTemps' \in Seq(MarkRecords) /\ Len(mTemps') = n + 1 /\ n \in Nat
      /\ DOMAIN mTemps' = 1..n+1 /\ DOMAIN mTemps = 1..n
      /\ \A k \in 1..n : mTemps'[k] = mTemps[k]
      /\ mTemps'[n + 1] = r
  BY <1>1, <1>2, <1>3, AppendIs DEF Typed
<1>5. /\ mLive' \in Seq(SUBSET BlockRecords) /\ Len(mLive') = n + 1 + 1
      /\ DOMAIN mLive' = 1..n+2 /\ DOMAIN mLive = 1..n+1
      /\ \A k \in 1..n+1 : mLive'[k] = mLive[k]
      /\ mLive'[n + 2] = {}
  <2>1. mLive \in Seq(SUBSET BlockRecords) /\ {} \in SUBSET BlockRecords /\ Len(mLive) = n + 1
    BY <1>1 DEF Typed
  <2>2. /\ mLive' \in Seq(SUBSET BlockRecords) /\ Len(mLive') = Len(mLive) + 1
        /\ DOMAIN mLive' = 1..Len(mLive)+1 /\ DOMAIN mLive = 1..Len(mLive)
        /\ \A k \in 1..Len(mLive) : mLive'[k] = mLive[k]
        /\ mLive'[Len(mLive) + 1] = {}
    BY <1>2, <2>1, AppendIs
  <2>3. n + 1 + 1 = n + 2
    BY <1>4
  <2>. QED
    BY <2>1, <2>2, <2>3
<1>. HIDE DEF n
<1>6. \A b : Owned(mLive', b) <=> Owned(mLive, b)
  <2>1. \A k \in 1..n+2 : k \in 1..n+1 \/ k = n + 2
    BY <1>4
  <2>2. \A k \in 1..n+1 : k \in 1..n+2
    BY <1>4
  <2>. QED
    BY <1>5, <2>1, <2>2 DEF Owned
<1>7. Typed'
  <2>1. mTempCount' = n + 1
    BY <1>1, <1>2 DEF Typed, n
  <2>. QED
    BY <1>1, <1>2, <1>4, <1>5, <2>1 DEF Typed
<1>8. BlocksRight'
  <2>1. \A b : Owned(mLive', b) => Within(mPages', b.base, b.from + b.size) /\ b.from % b.align = 0
    BY <1>1, <1>2, <1>6 DEF BlocksRight
  <2>2. \A b, c : Owned(mLive', b) /\ Owned(mLive', c) => b = c \/ Arena!Apart(b, c)
    BY <1>1, <1>6 DEF BlocksRight
  <2>3. \A k, l \in DOMAIN mLive' : \A b : b \in mLive'[k] /\ b \in mLive'[l] => k = l \/ b.size = 0
    <3>1. \A k \in 1..n+2 : k \in 1..n+1 \/ k = n + 2
      BY <1>4
    <3>. QED
      BY <1>1, <1>5, <3>1 DEF BlocksRight
  <2>. QED
    BY <2>1, <2>2, <2>3, Zenon DEF BlocksRight
<1>9. SubRight'
  BY <1>1, <1>2, <1>6 DEF SubRight
<1>10. MarksRight'
  <2>1. ASSUME NEW k \in 1..n+1
        PROVE  /\ mTemps'[k].base # NoBase => Within(mPages, mTemps'[k].base, mTemps'[k].used)
               /\ \A m \in 1..k : \A b \in mLive'[m] :
                    Before(mPages, b.base, b.from + b.size, mTemps'[k])
               /\ mSub # Arena!NoSub => Before(mPages, mSub.base, mSub.from + mSub.size, mTemps'[k])
    <3>1. CASE k = n + 1
      <4>1. ASSUME NEW m \in 1..k, NEW b \in mLive'[m]
            PROVE  Before(mPages, b.base, b.from + b.size, r)
        <5>1. Owned(mLive, b)
          BY <1>5, <3>1, <4>1 DEF Owned
        <5>2. /\ b.base \in PageBases /\ b.from + b.size \in Nat
              /\ Within(mPages, b.base, b.from + b.size)
          BY <1>1, <5>1, OwnedFacts DEF BlocksRight
        <5>. QED
          BY <1>3, <5>2
      <4>2. mSub # Arena!NoSub => Before(mPages, mSub.base, mSub.from + mSub.size, r)
        <5>1. /\ mSub # Arena!NoSub => mSub.base \in PageBases
              /\ mSub # Arena!NoSub => Within(mPages, mSub.base, mSub.from + mSub.size)
              /\ mSub.from + mSub.size \in Nat
          BY <1>1, TypedFacts DEF Typed, SubRight
        <5>. QED
          BY <1>3, <5>1
      <4>. QED
        BY <1>3, <1>4, <3>1, <4>1, <4>2
    <3>2. CASE k \in 1..n
      <4>1. mTemps'[k] = mTemps[k] /\ \A m \in 1..k : mLive'[m] = mLive[m]
        <5>1. mTemps'[k] = mTemps[k]
          BY <1>4, <3>2
        <5>2. \A m \in 1..k : m \in 1..n+1
          BY <1>4, <3>2
        <5>. QED
          BY <1>5, <5>1, <5>2
      <4>2. k \in DOMAIN mTemps
        BY <1>4, <3>2
      <4>. QED
        BY <1>1, <4>1, <4>2 DEF MarksRight
    <3>. QED
      BY <1>4, <3>1, <3>2
  <2>2. ASSUME NEW k \in 1..n+1, NEW l \in 1..n+1, k < l
        PROVE  mTemps'[k].base = NoBase
               \/ Before(mPages, mTemps'[k].base, mTemps'[k].used, mTemps'[l])
    <3>1. k \in 1..n /\ mTemps'[k] = mTemps[k] /\ k \in DOMAIN mTemps
      BY <1>4, <2>2
    <3>2. CASE l = n + 1
      <4>1. mTemps[k].base # NoBase => Within(mPages, mTemps[k].base, mTemps[k].used)
        BY <1>1, <3>1 DEF MarksRight
      <4>2. mTemps[k] \in MarkRecords /\ mTemps[k].used \in Nat
        BY <1>1, <3>1, TypedFacts
      <4>3. mTemps[k].base # NoBase => mTemps[k].base \in PageBases
        BY <4>2 DEF MarkRecords
      <4>. QED
        BY <1>3, <1>4, <3>1, <3>2, <4>1, <4>2, <4>3
    <3>3. CASE l \in 1..n
      BY <1>1, <1>4, <2>2, <3>1, <3>3 DEF MarksRight
    <3>. QED
      BY <1>4, <3>2, <3>3
  <2>. QED
    BY <1>2, <1>4, <2>1, <2>2 DEF MarksRight
<1>. QED
  BY <1>1, <1>2, <1>7, <1>8, <1>9, <1>10 DEF ArenaInv

\* The pages up to the mark r, which none had when there were no pages.
CutAt(ps, qs, r) ==
  \/ r.base = NoBase /\ qs = <<>>
  \/ \E j \in DOMAIN ps :
       /\ ps[j].base = r.base /\ DOMAIN qs = 1..j
       /\ \A i \in 1..j : qs[i].base = ps[i].base /\ (i # j => qs[i].used = ps[i].used)
       /\ qs[j].used = r.used

LEMMA PagesCut ==
  ASSUME ContainersAssumptions, ArenaInv, Arena!EndTemporaryMemory,
         NEW r, r = mTemps[Len(mTemps)]
  PROVE  /\ CutAt(mPages, mPages', r) /\ PagesRight(mPages')
         /\ mPages' # <<>> => /\ Arena!Last(mPages').base = r.base
                              /\ Arena!Last(mPages').used = r.used
<1>1. PagesRight(mPages) /\ Typed /\ MarksRight /\ mTemps # <<>>
  BY DEF ArenaInv, Arena!EndTemporaryMemory
<1>2. Arena!Last(mTemps) = r /\ Len(mTemps) \in DOMAIN mTemps
  <2>1. Len(mTemps) \in Nat \ {0} /\ Arena!Last(mTemps) = mTemps[Len(mTemps)]
    BY <1>1, FrontIs DEF Typed
  <2>. QED
    BY <1>1, <2>1, TypedFacts
<1>. DEFINE left == Arena!FreePagesDownTo(r.base)
            v == [Arena!Last(left) EXCEPT !.used = r.used]
<1>3. mPages' = IF left = <<>> THEN left ELSE Append(Arena!Front(left), v)
  BY <1>2 DEF Arena!EndTemporaryMemory
<1>. DEFINE n == Len(mPages)
<1>4. /\ n \in Nat /\ DOMAIN mPages = 1..n /\ mPages \in Seq(PageRecords)
      /\ \A i \in 1..n : /\ mPages[i] \in PageRecords /\ mPages[i].base \in PageBases
                         /\ mPages[i].used \in Nat /\ mPages[i].size \in Nat
                         /\ mPages[i].used <= mPages[i].size
  BY <1>1, PageFacts DEF PagesRight
<1>5. CASE r.base = NoBase
  <2>1. left = SubSeq(mPages, 1, 0)
    BY <1>5 DEF Arena!FreePagesDownTo
  <2>. HIDE DEF left
  <2>2. left \in Seq(PageRecords) /\ Len(left) = 0
    BY <1>4, <2>1, SubSeqProperties
  <2>3. left = <<>>
    BY <2>2, EmptySeq
  <2>4. mPages' = <<>> /\ DOMAIN mPages' = {} /\ mPages' \in Seq(PageRecords)
    BY <1>3, <2>3, <2>2
  <2>5. PagesRight(mPages')
    BY <2>4 DEF PagesRight
  <2>. QED
    BY <1>5, <2>4, <2>5 DEF CutAt
<1>6. CASE r.base # NoBase
  <2>1. PICK j \in 1..n : mPages[j].base = r.base /\ r.used <= mPages[j].used
    BY <1>1, <1>2, <1>4, <1>6 DEF MarksRight, Within
  <2>2. \A i \in DOMAIN mPages : mPages[i].base = r.base <=> i = j
    BY <1>1, <1>4, <2>1 DEF PagesRight
  <2>3. (CHOOSE i \in DOMAIN mPages : mPages[i].base = r.base) = j
    BY <1>4, <2>1, <2>2
  <2>4. left = SubSeq(mPages, 1, j)
    BY <1>6, <2>3 DEF Arena!FreePagesDownTo
  <2>5. j \in Nat \ {0} /\ j <= n /\ j - 1 + 1 = j /\ r.used \in Nat
    <3>1. r.used \in Nat
      BY <1>1, <1>2, TypedFacts
    <3>. HIDE DEF n, left
    <3>. QED
      BY <1>4, <2>1, <3>1
  <2>. HIDE DEF left, n
  <2>6. left \in Seq(PageRecords) /\ Len(left) = j /\ \A i \in 1..j : left[i] = mPages[i]
    <3>. DEFINE f == SubSeq(mPages, 1, j)
    <3>1. \A i \in 1..j : mPages[i] \in PageRecords
      BY <1>4, <2>5
    <3>2. /\ f \in Seq(PageRecords) /\ Len(f) = IF 1 <= j THEN j - 1 + 1 ELSE 0
          /\ \A i \in 1..j-1+1 : f[i] = mPages[1 + i - 1]
      BY <1>4, <2>5, <3>1, SubSeqProperties
    <3>3. \A i \in 1..j : 1 + i - 1 = i
      BY <2>5
    <3>. HIDE DEF f
    <3>4. Len(f) = j /\ \A i \in 1..j : f[i] = mPages[i]
      BY <2>5, <3>2, <3>3
    <3>. QED
      BY <2>4, <3>2, <3>4 DEF f
  <2>7. left # <<>>
    BY <2>5, <2>6, EmptySeq
  <2>8. Arena!Last(left) = mPages[j]
    <3>1. Arena!Last(left) = left[Len(left)]
      BY <2>6, <2>7, FrontIs
    <3>2. j \in 1..j
      BY <2>5
    <3>. QED
      BY <2>6, <3>1, <3>2
  <2>9. /\ v \in PageRecords /\ v.base = r.base /\ v.used = r.used
        /\ v.used <= v.size
    <3>. DEFINE cur == mPages[j]
    <3>1. cur \in PageRecords /\ cur.base = r.base /\ r.used <= cur.size
      BY <1>4, <2>1, <2>5
    <3>2. cur = [base |-> cur.base, used |-> cur.used, size |-> cur.size]
      BY <3>1 DEF PageRecords
    <3>3. v = [base |-> cur.base, used |-> r.used, size |-> cur.size]
      BY <2>8, <3>2
    <3>4. cur.base \in PageBases /\ cur.size \in Nat
      BY <3>1 DEF PageRecords
    <3>. HIDE DEF v, cur
    <3>. QED
      BY <2>5, <3>1, <3>3, <3>4 DEF PageRecords
  <2>. HIDE DEF v
  <2>10. /\ mPages' \in Seq(PageRecords) /\ DOMAIN mPages' = 1..j /\ Len(mPages') = j
         /\ \A i \in 1..j : mPages'[i] = IF i = j THEN v ELSE mPages[i]
    <3>. DEFINE qs == Append(Arena!Front(left), v)
    <3>1. /\ qs \in Seq(PageRecords) /\ DOMAIN qs = 1..Len(left) /\ Len(qs) = Len(left)
          /\ \A i \in 1..Len(left) : qs[i] = IF i = Len(left) THEN v ELSE left[i]
      BY <2>6, <2>7, <2>9, LastReplaced
    <3>2. mPages' = qs
      BY <1>3, <2>7
    <3>. HIDE DEF qs
    <3>. QED
      BY <2>6, <3>1, <3>2
  <2>11. \A i \in 1..j : mPages'[i].base = mPages[i].base /\ (i # j => mPages'[i].used = mPages[i].used)
    BY <2>1, <2>9, <2>10
  <2>12. mPages'[j].used = r.used /\ mPages'[j].base = r.base
    BY <2>1, <2>5, <2>9, <2>10
  <2>13. CutAt(mPages, mPages', r)
    BY <1>4, <2>1, <2>10, <2>11, <2>12 DEF CutAt
  <2>14. PagesRight(mPages')
    <3>1. \A i \in 1..j : i \in 1..n
      BY <1>4, <2>5
    <3>2. \A i \in 1..j : mPages'[i].used <= mPages'[i].size
      BY <1>4, <2>9, <2>10, <3>1
    <3>3. \A i, k \in 1..j : mPages'[i].base = mPages'[k].base => i = k
      BY <1>1, <1>4, <2>11, <3>1 DEF PagesRight
    <3>. QED
      BY <2>10, <3>2, <3>3 DEF PagesRight
  <2>15. Arena!Last(mPages') = mPages'[j]
    BY <2>10 DEF Arena!Last
  <2>. QED
    BY <2>12, <2>13, <2>14, <2>15
<1>. QED
  BY <1>5, <1>6

\* What lies before the mark stays in use, and before every outer mark that it lay before.
LEMMA CutKeeps ==
  ASSUME ContainersAssumptions, NEW ps, NEW qs, NEW r, PagesRight(ps), CutAt(ps, qs, r),
         NEW base, NEW end, Within(ps, base, end), Before(ps, base, end, r)
  PROVE  Within(qs, base, end)
<1>1. r.base # NoBase
  BY BeforeIsMarked
<1>2. PICK j \in DOMAIN ps :
        /\ ps[j].base = r.base /\ DOMAIN qs = 1..j
        /\ \A i \in 1..j : qs[i].base = ps[i].base /\ (i # j => qs[i].used = ps[i].used)
        /\ qs[j].used = r.used
  BY <1>1 DEF CutAt
<1>3. PICK i, k \in DOMAIN ps :
        ps[i].base = base /\ ps[k].base = r.base /\ (i < k \/ (i = k /\ end <= r.used))
  BY DEF Before
<1>4. k = j
  BY <1>2, <1>3 DEF PagesRight
<1>5. DOMAIN ps = 1..Len(ps) /\ Len(ps) \in Nat
  BY PageFacts
<1>6. i \in 1..j /\ qs[i].base = base
  BY <1>2, <1>3, <1>4, <1>5
<1>7. end <= ps[i].used
  <2>1. PICK m \in DOMAIN ps : ps[m].base = base /\ end <= ps[m].used
    BY DEF Within
  <2>. QED
    BY <1>3, <2>1 DEF PagesRight
<1>8. end <= qs[i].used
  BY <1>2, <1>3, <1>4, <1>6, <1>7
<1>. QED
  BY <1>2, <1>6, <1>8 DEF Within

LEMMA CutKeepsMarks ==
  ASSUME NEW ps, NEW qs, NEW r, PagesRight(ps), CutAt(ps, qs, r), r.base # NoBase,
         NEW base, NEW end, NEW q, Before(ps, base, end, q), Before(ps, q.base, q.used, r)
  PROVE  Before(qs, base, end, q)
<1>1. PICK j \in DOMAIN ps :
        /\ ps[j].base = r.base /\ DOMAIN qs = 1..j
        /\ \A i \in 1..j : qs[i].base = ps[i].base
  BY DEF CutAt
<1>2. DOMAIN ps = 1..Len(ps) /\ Len(ps) \in Nat
  BY PageFacts
<1>3. \A k \in DOMAIN ps : ps[k].base = q.base => k \in 1..j
  <2>1. PICK i, l \in DOMAIN ps :
          ps[i].base = q.base /\ ps[l].base = r.base /\ (i < l \/ i = l)
    BY DEF Before
  <2>2. l = j /\ \A k \in DOMAIN ps : ps[k].base = q.base => k = i
    BY <1>1, <2>1 DEF PagesRight
  <2>. QED
    BY <1>2, <2>1, <2>2
<1>4. PICK i, k \in DOMAIN ps :
        ps[i].base = base /\ ps[k].base = q.base /\ (i < k \/ (i = k /\ end <= q.used))
  BY DEF Before
<1>5. k \in 1..j /\ i \in 1..j
  <2>1. k \in 1..j
    BY <1>3, <1>4
  <2>. QED
    BY <1>2, <1>4, <2>1
<1>6. qs[i].base = base /\ qs[k].base = q.base
  BY <1>1, <1>4, <1>5
<1>. QED
  BY <1>1, <1>4, <1>5, <1>6 DEF Before

\* The end of temporary memory: what the scopes around it have lies before its mark.
LEMMA EndScope ==
  ASSUME ContainersAssumptions, ArenaInv, Arena!EndTemporaryMemory
  PROVE  ArenaInv'
<1>. DEFINE n == Len(mTemps)
            r == mTemps[n]
<1>1. PagesRight(mPages) /\ Typed /\ BlocksRight /\ SubRight /\ MarksRight /\ mTemps # <<>>
  BY DEF ArenaInv, Arena!EndTemporaryMemory
<1>2. /\ mTemps' = Arena!Front(mTemps) /\ mTempCount' = mTempCount - 1
      /\ mLive' = Arena!Front(mLive) /\ mSub' = mSub
  BY DEF Arena!EndTemporaryMemory
<1>3. CutAt(mPages, mPages', r) /\ PagesRight(mPages')
  BY PagesCut
<1>4. /\ mTemps' \in Seq(MarkRecords) /\ Len(mTemps') = n - 1 /\ n \in Nat \ {0}
      /\ \A k \in 1..n-1 : mTemps'[k] = mTemps[k]
      /\ DOMAIN mTemps = 1..n
  BY <1>1, <1>2, FrontIs, TypedFacts DEF Typed
<1>5. DOMAIN mTemps' = 1..n-1 /\ \A k \in 1..n-1 : k \in DOMAIN mTemps
  BY <1>4, LenProperties
<1>6. mLive \in Seq(SUBSET BlockRecords) /\ Len(mLive) = n + 1 /\ DOMAIN mLive = 1..n+1
  BY <1>1, TypedFacts DEF Typed
<1>7. mLive # <<>>
  <2>1. Len(mLive) # 0
    BY <1>4, <1>6
  <2>. QED
    BY <1>6, <2>1, EmptySeq
<1>8. /\ mLive' \in Seq(SUBSET BlockRecords) /\ Len(mLive') = n /\ DOMAIN mLive' = 1..n
      /\ \A k \in 1..n : mLive'[k] = mLive[k] /\ k \in DOMAIN mLive
  <2>1. /\ mLive' \in Seq(SUBSET BlockRecords) /\ Len(mLive') = Len(mLive) - 1
        /\ \A k \in 1..Len(mLive)-1 : mLive'[k] = mLive[k]
    BY <1>2, <1>6, <1>7, FrontIs
  <2>2. Len(mLive) - 1 = n
    BY <1>4, <1>6
  <2>3. DOMAIN mLive' = 1..n
    BY <2>1, <2>2, LenProperties
  <2>. QED
    BY <1>4, <1>6, <2>1, <2>2, <2>3
<1>9. n \in DOMAIN mTemps
  BY <1>4
<1>. HIDE DEF n, r
<1>10. \A b : Owned(mLive', b) => Owned(mLive, b) /\ Before(mPages, b.base, b.from + b.size, r)
  <2>. SUFFICES ASSUME NEW b, NEW m \in 1..n, b \in mLive'[m]
       PROVE Owned(mLive, b) /\ Before(mPages, b.base, b.from + b.size, r)
    BY <1>8 DEF Owned
  <2>1. b \in mLive[m] /\ m \in DOMAIN mLive
    BY <1>8
  <2>. QED
    BY <1>1, <1>9, <2>1 DEF MarksRight, Owned, r
<1>11. Typed'
  <2>1. mTempCount' = n - 1
    BY <1>1, <1>2 DEF Typed, n
  <2>2. Len(mLive') = Len(mTemps') + 1
    BY <1>4, <1>8
  <2>. QED
    BY <1>1, <1>2, <1>4, <1>8, <2>1, <2>2 DEF Typed
<1>12. BlocksRight'
  <2>1. ASSUME NEW b, Owned(mLive', b)
        PROVE  Within(mPages', b.base, b.from + b.size) /\ b.from % b.align = 0
    <3>1. /\ Before(mPages, b.base, b.from + b.size, r)
          /\ Within(mPages, b.base, b.from + b.size) /\ b.from % b.align = 0
      BY <1>1, <1>10, <2>1 DEF BlocksRight
    <3>. QED
      BY <1>1, <1>3, <3>1, CutKeeps
  <2>2. \A b, c : Owned(mLive', b) /\ Owned(mLive', c) => b = c \/ Arena!Apart(b, c)
    BY <1>1, <1>10 DEF BlocksRight
  <2>3. \A k, l \in DOMAIN mLive' : \A b : b \in mLive'[k] /\ b \in mLive'[l] => k = l \/ b.size = 0
    BY <1>1, <1>8 DEF BlocksRight
  <2>. QED
    BY <2>1, <2>2, <2>3, Zenon DEF BlocksRight
<1>13. mSub # Arena!NoSub =>
         /\ Within(mPages, mSub.base, mSub.from + mSub.size)
         /\ \A k \in DOMAIN mTemps : Before(mPages, mSub.base, mSub.from + mSub.size, mTemps[k])
  BY <1>1 DEF SubRight, MarksRight
<1>14. mSub # Arena!NoSub => Within(mPages', mSub.base, mSub.from + mSub.size)
  BY <1>1, <1>3, <1>9, <1>13, CutKeeps DEF r
<1>15. SubRight'
  BY <1>1, <1>2, <1>10, <1>14 DEF SubRight
<1>16. ASSUME NEW k \in 1..n-1, NEW base, NEW end, Before(mPages, base, end, mTemps[k])
       PROVE  Before(mPages', base, end, mTemps[k])
  <2>1. mTemps[k].base # NoBase
    BY <1>1, <1>16, BeforeIsMarked
  <2>2. k \in DOMAIN mTemps /\ k < n
    BY <1>4, <1>5
  <2>3. Before(mPages, mTemps[k].base, mTemps[k].used, r)
    BY <1>1, <1>9, <2>1, <2>2 DEF MarksRight, r
  <2>4. r.base # NoBase
    BY <1>1, <2>3, BeforeIsMarked
  <2>. QED
    BY <1>1, <1>3, <1>16, <2>3, <2>4, CutKeepsMarks
<1>17. MarksRight'
  <2>. SUFFICES ASSUME NEW k \in 1..n-1
       PROVE /\ mTemps[k].base # NoBase => Within(mPages', mTemps[k].base, mTemps[k].used)
             /\ \A l \in 1..n-1 :
                  k < l => mTemps[k].base = NoBase
                           \/ Before(mPages', mTemps[k].base, mTemps[k].used, mTemps[l])
             /\ \A m \in 1..k : \A b \in mLive'[m] :
                  Before(mPages', b.base, b.from + b.size, mTemps[k])
             /\ mSub # Arena!NoSub => Before(mPages', mSub.base, mSub.from + mSub.size, mTemps[k])
    BY <1>2, <1>4, <1>5 DEF MarksRight
  <2>1. k \in DOMAIN mTemps /\ k < n
    BY <1>4, <1>5
  <2>2. mTemps[k].base # NoBase => Within(mPages', mTemps[k].base, mTemps[k].used)
    <3>1. mTemps[k].base # NoBase =>
            /\ Within(mPages, mTemps[k].base, mTemps[k].used)
            /\ Before(mPages, mTemps[k].base, mTemps[k].used, r)
      BY <1>1, <1>9, <2>1 DEF MarksRight, r
    <3>. QED
      BY <1>1, <1>3, <3>1, CutKeeps
  <2>3. ASSUME NEW l \in 1..n-1, k < l, mTemps[k].base # NoBase
        PROVE  Before(mPages', mTemps[k].base, mTemps[k].used, mTemps[l])
    <3>1. Before(mPages, mTemps[k].base, mTemps[k].used, mTemps[l])
      BY <1>1, <1>5, <2>1, <2>3 DEF MarksRight
    <3>. QED
      BY <1>16, <3>1
  <2>4. ASSUME NEW m \in 1..k, NEW b \in mLive'[m]
        PROVE  Before(mPages', b.base, b.from + b.size, mTemps[k])
    <3>1. b \in mLive[m]
      BY <1>4, <1>8
    <3>2. Before(mPages, b.base, b.from + b.size, mTemps[k])
      BY <1>1, <2>1, <3>1 DEF MarksRight
    <3>. QED
      BY <1>16, <3>2
  <2>5. mSub # Arena!NoSub => Before(mPages', mSub.base, mSub.from + mSub.size, mTemps[k])
    BY <1>13, <1>16, <2>1
  <2>. QED
    BY <2>2, <2>3, <2>4, <2>5
<1>. QED
  BY <1>3, <1>11, <1>12, <1>15, <1>17 DEF ArenaInv

LEMMA EmptyArena ==
  ASSUME mPages = <<>>, mTempCount = 0, mTemps = <<>>, mLive = <<{}>>, mSub = Arena!NoSub
  PROVE  ArenaInv
<1>1. PagesRight(mPages)
  BY DEF PagesRight
<1>2. Len(mLive) = 1 /\ DOMAIN mLive = {1} /\ mLive[1] = {} /\ mLive \in Seq(SUBSET BlockRecords)
  OBVIOUS
<1>3. Typed
  BY <1>2 DEF Typed, Arena!NoSub
<1>4. \A b : ~ Owned(mLive, b)
  BY <1>2 DEF Owned
<1>5. BlocksRight /\ SubRight /\ MarksRight
  BY <1>2, <1>4 DEF BlocksRight, SubRight, MarksRight
<1>. QED
  BY <1>1, <1>3, <1>5 DEF ArenaInv

LEMMA ArenaStep ==
  ASSUME ContainersAssumptions, ArenaInv, [Arena!Next]_(Arena!vars)
  PROVE  ArenaInv'
<1>1. CASE \E size \in ArenaSizes, align \in Alignments : Arena!Alloc(size, align)
  BY <1>1, AllocArena
<1>2. CASE \E size \in ArenaSizes : Arena!MakeSubArena(size)
  BY <1>2, SubArenaMade
<1>3. CASE \E size \in ArenaSizes : Arena!AllocInSub(size)
  BY <1>3, AllocInSubArena
<1>4. CASE Arena!BeginTemporaryMemory
  BY <1>4, BeginScope
<1>5. CASE Arena!EndTemporaryMemory
  BY <1>5, EndScope
<1>6. CASE Arena!ClearArena
  <2>1. /\ mPages' = <<>> /\ mTempCount' = 0 /\ mTemps' = <<>> /\ mLive' = <<{}>>
        /\ mSub' = Arena!NoSub
    BY <1>6 DEF Arena!ClearArena
  <2>2. (mPages = <<>> /\ mTempCount = 0 /\ mTemps = <<>> /\ mLive = <<{}>> /\ mSub = Arena!NoSub
         => ArenaInv)'
    BY EmptyArena, PTL
  <2>. QED
    BY <2>1, <2>2 DEF Arena!NoSub
<1>7. CASE UNCHANGED Arena!vars
  <2>1. UNCHANGED <<mPages, mTempCount, mTemps, mLive, mSub>>
    BY <1>7 DEF Arena!vars
  <2>2. Typed' /\ PagesRight(mPages')
    BY <2>1 DEF ArenaInv, Typed
  <2>3. BlocksRight' /\ SubRight' /\ MarksRight'
    BY <2>1 DEF ArenaInv, BlocksRight, SubRight, MarksRight
  <2>. QED
    BY <2>2, <2>3 DEF ArenaInv
<1>. QED
  BY <1>1, <1>2, <1>3, <1>4, <1>5, <1>6, <1>7 DEF Arena!Next

LEMMA ArenaInvIntact ==
  ASSUME ContainersAssumptions, ArenaInv
  PROVE  Arena!TypeOK /\ Arena!BlocksIntact /\ Arena!SubArenaKept
<1>1. PagesRight(mPages) /\ Typed /\ BlocksRight /\ SubRight
  BY DEF ArenaInv
<1>2. \A i \in DOMAIN mPages :
        /\ mPages[i].base \in PageBases /\ mPages[i].used <= mPages[i].size
        /\ mPages[i].used \in Nat /\ mPages[i].size \in Nat
  BY <1>1, PageFacts
<1>3. Arena!TypeOK
  BY <1>1, <1>2 DEF Arena!TypeOK, Typed
<1>4. \A b : b \in Arena!Blocks <=> Owned(mLive, b)
  BY DEF Arena!Blocks, Arena!ToSet, Owned
<1>5. \A b : Within(mPages, b.base, b.from + b.size) => Arena!InUse(b)
  BY <1>2 DEF Within, Arena!InUse
<1>6. Arena!BlocksIntact
  <2>1. \A i, j \in DOMAIN mLive : i = j \/ \A b \in mLive[i] \cap mLive[j] : b.size = 0
    BY <1>1 DEF BlocksRight
  <2>2. \A b \in Arena!Blocks : Arena!InUse(b) /\ b.from % b.align = 0
    BY <1>1, <1>4, <1>5 DEF BlocksRight
  <2>3. \A b, c \in Arena!Blocks : b = c \/ Arena!Apart(b, c)
    BY <1>1, <1>4 DEF BlocksRight
  <2>. QED
    BY <2>1, <2>2, <2>3 DEF Arena!BlocksIntact
<1>7. Arena!SubArenaKept
  <2>. SUFFICES ASSUME mSub # Arena!NoSub
       PROVE /\ mSub.used <= mSub.size /\ Arena!InUse(mSub)
             /\ \A b \in Arena!Blocks :
                  \/ Arena!Apart(b, mSub)
                  \/ (b.base = mSub.base /\ b.from >= mSub.from
                        /\ b.from + b.size <= mSub.from + mSub.used)
    BY DEF Arena!SubArenaKept
  <2>. QED
    BY <1>1, <1>4, <1>5 DEF SubRight
<1>. QED
  BY <1>3, <1>6, <1>7

LEMMA ArenaRestored ==
  ASSUME ContainersAssumptions, ArenaInv, [Arena!Next]_(Arena!vars),
         NEW n \in 1..MaxScopes, Len(mTemps) = n, Len(mTemps') = n - 1
  PROVE  /\ mPages' = <<>> <=> mTemps[n].base = NoBase
         /\ mPages' # <<>> => /\ Arena!Last(mPages').base = mTemps[n].base
                              /\ Arena!Last(mPages').used = mTemps[n].used
<1>1. n \in Int /\ n # n - 1 /\ n # 0
  BY ArenaNumbers
<1>2. Arena!EndTemporaryMemory
  <2>1. CASE UNCHANGED mTemps
    BY <1>1, <2>1
  <2>2. CASE Arena!BeginTemporaryMemory
    <3>1. mTemps \in Seq(MarkRecords)
      BY DEF ArenaInv, Typed
    <3>2. \A z : Len(Append(mTemps, z)) = Len(mTemps) + 1
      BY <3>1
    <3>3. Len(mTemps') = n + 1
      BY <2>2, <3>2 DEF Arena!BeginTemporaryMemory
    <3>. QED
      BY <1>1, <3>3
  <2>. QED
    BY <2>1, <2>2 DEF Arena!Next, Arena!vars, Arena!Alloc, Arena!MakeSubArena,
       Arena!AllocInSub, Arena!ClearArena
<1>3. /\ CutAt(mPages, mPages', mTemps[n])
      /\ mPages' # <<>> => /\ Arena!Last(mPages').base = mTemps[n].base
                           /\ Arena!Last(mPages').used = mTemps[n].used
  BY <1>2, PagesCut
<1>4. mPages' = <<>> => mTemps[n].base = NoBase
  <2>. SUFFICES ASSUME mPages' = <<>>, mTemps[n].base # NoBase PROVE FALSE
    OBVIOUS
  <2>1. PICK j \in DOMAIN mPages : DOMAIN mPages' = 1..j
    BY <1>3 DEF CutAt
  <2>2. j \in 1..j
    BY PageFacts, <2>1 DEF ArenaInv
  <2>. QED
    BY <2>1, <2>2
<1>5. mTemps[n].base = NoBase => mPages' = <<>>
  <2>1. \A j \in DOMAIN mPages : mPages[j].base # NoBase
    BY PageFacts, ArenaNumbers DEF ArenaInv
  <2>. QED
    BY <1>3, <2>1 DEF CutAt
<1>. QED
  BY <1>3, <1>4, <1>5

\* What a scope has from a MemoryArena stays its own (memory.h): it is in use, aligned and
\* apart from all else, through growth and the end of inner temporary memory, which takes
\* the arena back to where its beginning found it; a sub-arena's blocks stay within it.
THEOREM ArenaKeepsBlocks == Arena!Spec => ArenaBlocksIntact
<1>. USE ContainersAssumptions
<1>1. Arena!Init => ArenaInv
  BY EmptyArena DEF Arena!Init
<1>2. ArenaInv /\ [Arena!Next]_(Arena!vars) => ArenaInv'
  BY ArenaStep
<1>3. ArenaInv => Arena!TypeOK /\ Arena!BlocksIntact /\ Arena!SubArenaKept
  BY ArenaInvIntact
<1>4. ArenaInv /\ [Arena!Next]_(Arena!vars) =>
        [\A n \in 1..MaxScopes :
           Len(mTemps) = n /\ Len(mTemps') = n - 1 =>
             /\ mPages' = <<>> <=> mTemps[n].base = NoBase
             /\ mPages' # <<>> => Arena!Last(mPages').base = mTemps[n].base
                                  /\ Arena!Last(mPages').used = mTemps[n].used]_(Arena!vars)
  BY ArenaRestored
<1>. QED
  BY <1>1, <1>2, <1>3, <1>4, PTL DEF Arena!Spec, ArenaBlocksIntact, Arena!EndRestores

---------------------------------------------------------------------------
(* Hashtable, for any keys and values, any hash of them, and any number of *)
(* entries.  The invariant is that the search for the key of an entry ends *)
(* in that entry, and that the table is half full at most.                 *)

\* PowerOf2 is what its recursion says: the function with these values exists.
LEMMA PowersDouble ==
  ASSUME HashtableAssumption
  PROVE  /\ PowerOf2 \in [0..MaxBits+1 -> Int] /\ PowerOf2[0] = 1
         /\ \A i \in 0..MaxBits : PowerOf2[i+1] = 2 * PowerOf2[i]
<1>. DEFINE n == MaxBits+1
            F == [i \in 1..n |-> [p \in Int |-> 2 * p]]
<1>1. n \in Nat
  BY DEF HashtableAssumption
<1>2. F \in [1..n -> [Int -> Int]]
  OBVIOUS
<1>. HIDE DEF n
<1>3. PICK f \in [0..n -> Int] : f[0] = 1 /\ \A i \in 1..n : f[i] = F[i][f[i-1]]
  <2>. DEFINE Z == Int
              a == 1
  <2>1. a \in Z /\ F \in [1..n -> [Z -> Z]]
    BY <1>2
  <2>. HIDE DEF F, Z, a
  <2>2. PICK f \in [0..n -> Z] : f[0] = a /\ Upwards(f, F, n)
    BY <1>1, <2>1, RecursionUp
  <2>. QED
    BY <2>2 DEF Z, a, Upwards
<1>4. \A i \in 1..n : f[i-1] \in Int
  BY <1>1
<1>5. f = [i \in 0..n |-> IF i = 0 THEN 1 ELSE 2 * f[i-1]]
  <2>1. \A i \in 1..n : F[i][f[i-1]] = 2 * f[i-1]
    BY <1>4
  <2>. HIDE DEF F
  <2>2. \A i \in 0..n : f[i] = IF i = 0 THEN 1 ELSE 2 * f[i-1]
    BY <1>1, <1>3, <2>1
  <2>. QED
    BY <1>3, <2>2
<1>6. PowerOf2 = [i \in 0..n |-> IF i = 0 THEN 1 ELSE 2 * PowerOf2[i-1]]
  BY <1>5 DEF PowerOf2, n
<1>. DEFINE Q == {i \in 1..n : PowerOf2[i] \in Int /\ PowerOf2[i] = 2 * PowerOf2[i-1]}
<1>7. PowerOf2[0] = 1 /\ 0 \in 0..n
  BY <1>1, <1>6
<1>8. \A i \in 1..n : i \in Q
  <2>1. n > 0 => 1 \in Q
    BY <1>1, <1>6, <1>7
  <2>2. ASSUME NEW i \in 1..n, i < n, i \in Q PROVE i+1 \in Q
    <3>1. i+1 \in 1..n /\ (i+1)-1 = i /\ PowerOf2[i+1] = 2 * PowerOf2[i]
      BY <1>1, <1>6, <2>2
    <3>. QED
      BY <2>2, <3>1
  <2>. HIDE DEF Q
  <2>. QED
    BY <1>1, <2>1, <2>2, CountingUp
<1>. QED
  <2>1. \A i \in 0..n : PowerOf2[i] \in Int
    BY <1>7, <1>8
  <2>2. PowerOf2 \in [0..n -> Int]
    BY <1>6, <2>1
  <2>3. \A i \in 0..MaxBits : i+1 \in 1..n /\ (i+1)-1 = i
    BY <1>1 DEF n
  <2>. QED
    BY <1>7, <1>8, <2>2, <2>3 DEF n

LEMMA PowersGrow ==
  ASSUME HashtableAssumption, NEW i \in 0..MaxBits+1, NEW j \in 0..MaxBits+1, i <= j
  PROVE  PowerOf2[i] \in Nat \ {0} /\ PowerOf2[i] <= PowerOf2[j]
<1>1. \A k \in 0..MaxBits+1 : PowerOf2[k] \in Nat \ {0}
  <2>. DEFINE S == {k \in 0..MaxBits+1 : ~ PowerOf2[k] \in Nat \ {0}}
  <2>1. SUFFICES ASSUME S # {} PROVE FALSE
    OBVIOUS
  <2>2. PICK k \in S : \A m \in S : k <= m
    <3>1. S \in SUBSET Nat
      BY DEF HashtableAssumption
    <3>. HIDE DEF S
    <3>. QED
      BY <2>1, <3>1, LeastNumber
  <2>3. k # 0
    BY <2>2, PowersDouble
  <2>4. k-1 \in 0..MaxBits /\ k-1 \notin S /\ (k-1)+1 = k
    BY <2>2, <2>3 DEF HashtableAssumption
  <2>5. PowerOf2[k] = 2 * PowerOf2[k-1] /\ PowerOf2[k-1] \in Nat \ {0}
    BY <2>4, PowersDouble DEF HashtableAssumption
  <2>. QED
    BY <2>2, <2>5
<1>. DEFINE n == MaxBits+1-i
            Q == {d \in 1..n : PowerOf2[i] <= PowerOf2[i+d]}
<1>2. n \in Nat
  BY DEF HashtableAssumption
<1>3. \A d \in 0..n-1 : i+d \in 0..MaxBits /\ (i+d)+1 = i+(d+1) /\ i+(d+1) \in 0..MaxBits+1
                        /\ PowerOf2[i+(d+1)] = 2 * PowerOf2[i+d]
  <2>1. \A d \in 0..n-1 : i+d \in 0..MaxBits /\ (i+d)+1 = i+(d+1) /\ i+(d+1) \in 0..MaxBits+1
    BY DEF HashtableAssumption
  <2>. QED
    BY <2>1, PowersDouble
<1>4. \A d \in 1..n : d \in Q
  <2>1. n > 0 => 1 \in Q
    <3>1. n > 0 => 0 \in 0..n-1 /\ i+0 = i /\ 0+1 = 1 /\ 1 \in 1..n
      BY <1>2
    <3>2. n > 0 => PowerOf2[i+1] = 2 * PowerOf2[i]
      BY <1>3, <3>1
    <3>. QED
      BY <1>1, <3>1, <3>2
  <2>2. ASSUME NEW d \in 1..n, d < n, d \in Q PROVE d+1 \in Q
    <3>1. d \in 0..n-1 /\ d+1 \in 1..n
      BY <1>2, <2>2
    <3>. QED
      BY <1>1, <1>3, <2>2, <3>1
  <2>. HIDE DEF Q
  <2>. QED
    BY <1>2, <2>1, <2>2, CountingUp
<1>. QED
  <2>1. CASE i = j
    BY <1>1, <2>1
  <2>2. CASE i < j
    <3>1. j-i \in 1..n /\ i+(j-i) = j
      BY <2>2 DEF HashtableAssumption
    <3>. QED
      BY <1>1, <1>4, <3>1
  <2>. QED
    BY <2>1, <2>2

\* NextPowerOf2 is the least power of two that is not below n.
LEMMA NextPower ==
  ASSUME HashtableAssumption, NEW n \in Nat, NEW p \in PowersOf2, n <= p
  PROVE  /\ NextPowerOf2(n) \in Nat /\ n <= NextPowerOf2(n) /\ NextPowerOf2(n) <= p
         /\ n > 0 => NextPowerOf2(n) \in PowersOf2
<1>1. PICK m \in 0..MaxBits : p = PowerOf2[m]
  BY DEF PowersOf2
<1>2. /\ MaxBits \in Nat /\ \A i \in 0..MaxBits+1 : PowerOf2[i] \in Nat \ {0}
      /\ \A i, j \in 0..MaxBits+1 : i <= j => PowerOf2[i] <= PowerOf2[j]
  BY PowersGrow DEF HashtableAssumption
<1>3. \A q \in PowersOf2 : q \in Nat \ {0}
  BY <1>2 DEF PowersOf2
<1>4. CASE n \in PowersOf2
  BY <1>3, <1>4 DEF NextPowerOf2, IsPowerOf2
<1>5. CASE n = 0
  <2>1. ~ IsPowerOf2(0)
    BY <1>3 DEF IsPowerOf2
  <2>. QED
    BY <1>5, <2>1, <1>3 DEF NextPowerOf2
<1>6. CASE n \notin PowersOf2 /\ n # 0
  <2>. DEFINE S == {i \in 0..MaxBits : n < PowerOf2[i]}
  <2>1. PICK l \in S : \A i \in S : l <= i
    <3>1. S \in SUBSET Nat
      BY <1>2
    <3>2. m \in S
      BY <1>1, <1>3, <1>6
    <3>. HIDE DEF S
    <3>. QED
      BY <3>1, <3>2, LeastNumber
  <2>2. l # 0 /\ l-1 \in 0..MaxBits /\ (l-1)+1 = l /\ l-1 \notin S
    BY <1>2, <1>6, <2>1, PowersDouble
  <2>3. PowerOf2[l-1] <= n /\ n < PowerOf2[(l-1)+1]
    BY <1>2, <2>1, <2>2
  <2>. DEFINE i == Log2(n)
  <2>4. i \in 0..MaxBits /\ PowerOf2[i] <= n /\ n < PowerOf2[i+1]
    <3>1. \E k \in 0..MaxBits : PowerOf2[k] <= n /\ n < PowerOf2[k+1]
      BY <2>2, <2>3
    <3>. QED
      BY <1>6, <3>1 DEF Log2
  <2>5. NextPowerOf2(n) = PowerOf2[i+1]
    BY <1>6 DEF NextPowerOf2, IsPowerOf2
  <2>. HIDE DEF i
  <2>6. i < m
    <3>1. m <= i => PowerOf2[m] <= PowerOf2[i]
      BY <1>2, <2>4
    <3>2. PowerOf2[m] \in Nat /\ PowerOf2[i] \in Nat /\ n < PowerOf2[m]
      BY <1>1, <1>2, <1>3, <1>6, <2>4
    <3>. QED
      BY <2>4, <3>1, <3>2
  <2>7. i+1 \in 0..MaxBits /\ i+1 <= m
    BY <2>4, <2>6
  <2>. QED
    BY <1>1, <1>2, <2>4, <2>5, <2>7 DEF PowersOf2
<1>. QED
  BY <1>4, <1>5, <1>6

LEMMA CapacityFacts ==
  ASSUME HashtableAssumption, NEW e \in Nat, 2 * e <= 2 * MaxCapacity
  PROVE  /\ CapacityFor(e) \in PowersOf2 /\ CapacityFor(e) \in Nat
         /\ CapacityFor(e) >= 2 * e /\ CapacityFor(e) > 1
         /\ 2 * e <= MaxCapacity => CapacityFor(e) <= MaxCapacity
<1>1. \A p \in PowersOf2 : p \in Nat
  BY PowersGrow DEF PowersOf2, HashtableAssumption
<1>2. MinCapacity \in Nat /\ MaxCapacity \in Nat /\ 2 * e \in Nat
  BY <1>1 DEF HashtableAssumption
<1>3. /\ NextPowerOf2(2 * e) \in Nat /\ 2 * e <= NextPowerOf2(2 * e)
      /\ 2 * e > 0 => NextPowerOf2(2 * e) \in PowersOf2
  BY <1>2, NextPower DEF HashtableAssumption
<1>4. 2 * e <= MaxCapacity => NextPowerOf2(2 * e) <= MaxCapacity
  BY <1>2, NextPower DEF HashtableAssumption
<1>5. MinCapacity \in PowersOf2 /\ 1 < MinCapacity /\ MinCapacity <= MaxCapacity
  BY DEF HashtableAssumption
<1>. DEFINE c == NextPowerOf2(2 * e)
<1>6. CapacityFor(e) = IF c < MinCapacity THEN MinCapacity ELSE c
  BY DEF CapacityFor
<1>. HIDE DEF c
<1>7. /\ c \in Nat /\ 2 * e <= c /\ (2 * e > 0 => c \in PowersOf2)
      /\ 2 * e <= MaxCapacity => c <= MaxCapacity
  BY <1>3, <1>4 DEF c
<1>8. c < MinCapacity \/ c \in PowersOf2
  BY <1>2, <1>3, <1>5, <1>7 DEF c, NextPowerOf2
<1>. QED
  BY <1>2, <1>5, <1>6, <1>7, <1>8

---------------------------------------------------------------------------
(* Searching.                                                              *)
Tables(c, f) ==
  [keys : [0..c-1 -> Keys \cup {ZeroKey}], values : [0..c-1 -> Values],
   count : Nat, capacity : {c}, fixed : {f}]

\* From the hash of a key the probes come to every slot.
LEMMA ProbesReach ==
  ASSUME NEW c \in Nat \ {0}, NEW h \in Nat, NEW s \in 0..c-1
  PROVE  \E j \in 0..c-1 : (h + j) % c = s
<1>. DEFINE q == h \div c
            r == h % c
<1>1. q \in Int /\ r \in 0..c-1 /\ h = c * q + r
  OBVIOUS
<1>. HIDE DEF q, r
<1>2. ASSUME NEW j \in 0..c-1, NEW p \in Int, h + j = c * p + s PROVE (h + j) % c = s
  <2>. DEFINE u == (h + j) \div c
              v == (h + j) % c
              d == u - p
  <2>1. u \in Int /\ v \in 0..c-1 /\ h + j = c * u + v
    OBVIOUS
  <2>. HIDE DEF u, v
  <2>2. d \in Int /\ c * d = s - v
    BY <1>2, <2>1
  <2>. HIDE DEF d
  <2>3. (d >= 1 => c * d >= c) /\ (d <= -1 => c * d <= -c) /\ (d = 0 => c * d = 0)
    BY <2>2
  <2>4. d = 0
    BY <2>1, <2>2, <2>3
  <2>. QED
    BY <2>1, <2>2, <2>3, <2>4 DEF v
<1>3. CASE s >= r
  <2>1. s-r \in 0..c-1 /\ h + (s-r) = c * q + s
    BY <1>1, <1>3
  <2>. QED
    BY <1>1, <1>2, <2>1
<1>4. CASE s < r
  <2>1. s-r+c \in 0..c-1 /\ q+1 \in Int /\ c * (q+1) = c * q + c /\ h + (s-r+c) = c * (q+1) + s
    BY <1>1, <1>4
  <2>. QED
    BY <1>2, <2>1
<1>. QED
  BY <1>1, <1>3, <1>4

FirstStop(t, k, j) == Stops(t, k, j) /\ \A i \in 0..j-1 : ~Stops(t, k, i)

\* The search for a key ends in the slot that the first probe to stop looks at.
LEMMA SlotIs ==
  ASSUME NEW t, t.capacity \in Nat, NEW k, NEW j \in Slots(t), FirstStop(t, k, j)
  PROVE  SlotFor(t, k) = Probe(t, k, j)
<1>. DEFINE l == CHOOSE l \in Slots(t) : Stops(t, k, l) /\ \A i \in 0..l-1 : ~Stops(t, k, i)
<1>1. l \in Slots(t) /\ Stops(t, k, l) /\ \A i \in 0..l-1 : ~Stops(t, k, i)
  BY DEF FirstStop
<1>2. SlotFor(t, k) = Probe(t, k, l)
  BY DEF SlotFor
<1>. HIDE DEF l
<1>3. l = j
  <2>1. ~ (l < j)
    BY <1>1 DEF FirstStop, Slots
  <2>2. ~ (j < l)
    BY <1>1 DEF FirstStop, Slots
  <2>. QED
    BY <1>1, <2>1, <2>2 DEF Slots
<1>. QED
  BY <1>2, <1>3

\* A table with a free slot has a probe that stops first.
LEMMA SearchStops ==
  ASSUME HashtableAssumption, NEW c \in Nat \ {0}, NEW f, NEW t \in Tables(c, f), NEW k \in Keys,
         NEW s \in Slots(t), t.keys[s] = ZeroKey \/ t.keys[s] = k
  PROVE  \E j \in Slots(t) :
           /\ FirstStop(t, k, j) /\ SlotFor(t, k) = Probe(t, k, j)
           /\ SlotFor(t, k) \in Slots(t) /\ t.keys[SlotFor(t, k)] \in {k, ZeroKey}
<1>1. t.capacity = c /\ Slots(t) = 0..c-1 /\ Hash[k] \in Nat
  BY DEF Tables, Slots, HashtableAssumption
<1>2. PICK n \in 0..c-1 : (Hash[k] + n) % c = s
  <2>. DEFINE h == Hash[k]
  <2>1. h \in Nat /\ s \in 0..c-1
    BY <1>1
  <2>. HIDE DEF h
  <2>2. \E n \in 0..c-1 : (h + n) % c = s
    BY <2>1, ProbesReach
  <2>. QED
    BY <2>2 DEF h
<1>. DEFINE S == {j \in 0..c-1 : Stops(t, k, j)}
<1>3. n \in S
  BY <1>1, <1>2 DEF Stops, Probe
<1>4. PICK j \in S : \A i \in S : j <= i
  <2>1. S \in SUBSET Nat
    OBVIOUS
  <2>. HIDE DEF S
  <2>. QED
    BY <1>3, <2>1, LeastNumber
<1>5. j \in Slots(t) /\ FirstStop(t, k, j)
  <2>1. \A i \in 0..j-1 : i \in 0..c-1 /\ ~ (j <= i)
    BY <1>4
  <2>2. \A i \in 0..j-1 : ~Stops(t, k, i)
    BY <1>4, <2>1
  <2>. QED
    BY <1>1, <1>4, <2>2 DEF FirstStop
<1>6. SlotFor(t, k) = Probe(t, k, j)
  BY <1>1, <1>5, SlotIs
<1>7. Probe(t, k, j) \in 0..c-1
  <2>1. Hash[k] + j \in Int
    BY <1>1, <1>4
  <2>2. (Hash[k] + j) % c \in 0..c-1
    BY <2>1, GoesRound
  <2>. QED
    BY <1>1, <2>2 DEF Probe
<1>. QED
  BY <1>1, <1>5, <1>6, <1>7 DEF FirstStop, Stops

---------------------------------------------------------------------------
(* What is put into a table.                                               *)

\* The count is that of the entries, each of which is where the search for its key ends.
Sound(t) ==
  /\ t.count = Cardinality(Entries(t))
  /\ \A i \in Entries(t) : SlotFor(t, t.keys[i]) = i

KeysOf(t) == {t.keys[i] : i \in Entries(t)}

LEMMA EntriesFacts ==
  ASSUME NEW c \in Nat, NEW f, NEW t \in Tables(c, f)
  PROVE  /\ t.capacity = c /\ t.fixed = f /\ t.count \in Nat /\ Slots(t) = 0..c-1
         /\ Entries(t) \subseteq 0..c-1 /\ IsFiniteSet(Entries(t))
         /\ \A i \in 0..c-1 : t.keys[i] \in Keys \cup {ZeroKey} /\ t.values[i] \in Values
<1>1. /\ t.capacity = c /\ t.fixed = f /\ t.count \in Nat /\ Slots(t) = 0..c-1
      /\ \A i \in 0..c-1 : t.keys[i] \in Keys \cup {ZeroKey} /\ t.values[i] \in Values
  BY DEF Tables, Slots
<1>2. Entries(t) \subseteq 0..c-1
  BY <1>1 DEF Entries
<1>3. IsFiniteSet(0..c-1)
  BY FS_Interval
<1>. QED
  BY <1>1, <1>2, <1>3, FS_Subset

\* The keys of a sound table, and the values they have.
LEMMA ContentIs ==
  ASSUME NEW t, Sound(t)
  PROVE  /\ DOMAIN Content(t) = KeysOf(t)
         /\ \A i \in Entries(t) : Content(t)[t.keys[i]] = t.values[i]
         /\ \A i, j \in Entries(t) : t.keys[i] = t.keys[j] => i = j
<1>1. \A i, j \in Entries(t) : t.keys[i] = t.keys[j] => i = j
  BY DEF Sound
<1>2. DOMAIN Content(t) = KeysOf(t)
  BY DEF Content, KeysOf
<1>3. ASSUME NEW i \in Entries(t) PROVE Content(t)[t.keys[i]] = t.values[i]
  <2>. DEFINE j == CHOOSE j \in Entries(t) : t.keys[j] = t.keys[i]
  <2>1. j \in Entries(t) /\ t.keys[j] = t.keys[i]
    OBVIOUS
  <2>2. j = i
    BY <1>1, <2>1
  <2>3. t.keys[i] \in KeysOf(t)
    BY DEF KeysOf
  <2>4. Content(t)[t.keys[i]] = t.values[j]
    BY <2>3 DEF Content, KeysOf
  <2>. QED
    BY <2>2, <2>4
<1>. QED
  BY <1>1, <1>2, <1>3

\* A table with fewer entries than slots has a free slot.
LEMMA FreeSlot ==
  ASSUME NEW c \in Nat, NEW f, NEW t \in Tables(c, f), Sound(t), t.count < c
  PROVE  \E s \in Slots(t) : t.keys[s] = ZeroKey
<1>1. SUFFICES ASSUME \A s \in Slots(t) : t.keys[s] # ZeroKey PROVE FALSE
  OBVIOUS
<1>2. Entries(t) = 0..c-1
  <2>1. Slots(t) = 0..c-1
    BY EntriesFacts
  <2>2. \A i : i \in Entries(t) <=> i \in 0..c-1
    BY <1>1, <2>1 DEF Entries
  <2>. QED
    BY <2>2
<1>3. Cardinality(0..c-1) = c
  <2>1. Cardinality(0..c-1) = IF 0 > c-1 THEN 0 ELSE (c-1) - 0 + 1
    BY FS_Interval
  <2>. QED
    BY <2>1
<1>. QED
  BY <1>2, <1>3 DEF Sound

\* In a sound table with a free slot every search ends: in the key's slot when the key
\* has one, and else in a free slot.
LEMMA SearchFinds ==
  ASSUME HashtableAssumption, NEW c \in Nat, NEW f, NEW t \in Tables(c, f), Sound(t), t.count < c,
         NEW k \in Keys
  PROVE  /\ \E j \in Slots(t) : FirstStop(t, k, j) /\ SlotFor(t, k) = Probe(t, k, j)
         /\ SlotFor(t, k) \in Slots(t)
         /\ k \in KeysOf(t) => SlotFor(t, k) \in Entries(t) /\ t.keys[SlotFor(t, k)] = k
         /\ k \notin KeysOf(t) => t.keys[SlotFor(t, k)] = ZeroKey
<1>1. c \in Nat \ {0}
  <2>1. t.count \in Nat
    BY EntriesFacts
  <2>. QED
    BY <2>1
<1>2. PICK s \in Slots(t) : t.keys[s] = ZeroKey
  BY FreeSlot
<1>3. /\ \E j \in Slots(t) : FirstStop(t, k, j) /\ SlotFor(t, k) = Probe(t, k, j)
      /\ SlotFor(t, k) \in Slots(t) /\ t.keys[SlotFor(t, k)] \in {k, ZeroKey}
  BY <1>1, <1>2, SearchStops
<1>4. k # ZeroKey
  BY DEF HashtableAssumption
<1>5. k \in KeysOf(t) => SlotFor(t, k) \in Entries(t) /\ t.keys[SlotFor(t, k)] = k
  BY DEF KeysOf, Sound
<1>6. k \notin KeysOf(t) => t.keys[SlotFor(t, k)] = ZeroKey
  BY <1>3, <1>4 DEF KeysOf, Entries
<1>. QED
  BY <1>3, <1>5, <1>6

\* Tables, field by field.
LEMMA TableFields ==
  ASSUME NEW c \in Nat, NEW f, NEW ks \in [0..c-1 -> Keys \cup {ZeroKey}],
         NEW vs \in [0..c-1 -> Values], NEW n \in Nat, NEW t,
         t = [keys |-> ks, values |-> vs, count |-> n, capacity |-> c, fixed |-> f]
  PROVE  /\ t \in Tables(c, f) /\ t.keys = ks /\ t.values = vs /\ t.count = n
         /\ t.capacity = c /\ t.fixed = f
BY DEF Tables

LEMMA FieldsOfTable ==
  ASSUME NEW c \in Nat, NEW f, NEW t \in Tables(c, f)
  PROVE  /\ t.keys \in [0..c-1 -> Keys \cup {ZeroKey}] /\ t.values \in [0..c-1 -> Values]
         /\ t.count \in Nat /\ t.capacity = c /\ t.fixed = f
         /\ t = [keys |-> t.keys, values |-> t.values, count |-> t.count, capacity |-> c, fixed |-> f]
BY DEF Tables

WithValue(t, s, v) == [t EXCEPT !.values[s] = v]
WithKey(t, s, k)   == [t EXCEPT !.keys[s] = k, !.count = @ + 1]

LEMMA ValueChanged ==
  ASSUME NEW c \in Nat, NEW f, NEW t \in Tables(c, f), NEW s \in 0..c-1, NEW v \in Values, NEW u,
         u = WithValue(t, s, v)
  PROVE  /\ u \in Tables(c, f) /\ u.keys = t.keys /\ u.count = t.count
         /\ u.values = [t.values EXCEPT ![s] = v]
<1>1. /\ u.keys = t.keys /\ u.values = [t.values EXCEPT ![s] = v] /\ u.count = t.count
      /\ u.capacity = t.capacity /\ u.fixed = t.fixed
  BY DEF Tables, WithValue
<1>2. u = [keys |-> u.keys, values |-> u.values, count |-> u.count, capacity |-> u.capacity,
           fixed |-> u.fixed]
  BY DEF Tables, WithValue
<1>3. /\ t.keys \in [0..c-1 -> Keys \cup {ZeroKey}] /\ t.values \in [0..c-1 -> Values]
      /\ t.count \in Nat /\ t.capacity = c /\ t.fixed = f
  BY FieldsOfTable
<1>4. u.values \in [0..c-1 -> Values]
  BY <1>1, <1>3
<1>5. u \in Tables(c, f)
  BY <1>1, <1>2, <1>3, <1>4 DEF Tables
<1>. QED
  BY <1>1, <1>5

LEMMA KeyChanged ==
  ASSUME NEW c \in Nat, NEW f, NEW t \in Tables(c, f), NEW s \in 0..c-1, NEW k \in Keys, NEW u,
         u = WithKey(t, s, k)
  PROVE  /\ u \in Tables(c, f) /\ u.keys = [t.keys EXCEPT ![s] = k] /\ u.count = t.count + 1
         /\ u.values = t.values
<1>1. /\ u.keys = [t.keys EXCEPT ![s] = k] /\ u.values = t.values /\ u.count = t.count + 1
      /\ u.capacity = t.capacity /\ u.fixed = t.fixed
  BY DEF Tables, WithKey
<1>2. u = [keys |-> u.keys, values |-> u.values, count |-> u.count, capacity |-> u.capacity,
           fixed |-> u.fixed]
  BY DEF Tables, WithKey
<1>3. /\ t.keys \in [0..c-1 -> Keys \cup {ZeroKey}] /\ t.values \in [0..c-1 -> Values]
      /\ t.count \in Nat /\ t.capacity = c /\ t.fixed = f
  BY FieldsOfTable
<1>4. u.keys \in [0..c-1 -> Keys \cup {ZeroKey}] /\ u.count \in Nat
  BY <1>1, <1>3
<1>5. u \in Tables(c, f)
  BY <1>1, <1>2, <1>3, <1>4 DEF Tables
<1>. QED
  BY <1>1, <1>5

\* What Stored leaves in each field.
LEMMA StoredFields ==
  ASSUME HashtableAssumption, NEW c \in Nat, NEW f, NEW t \in Tables(c, f), Sound(t), t.count < c,
         NEW k \in Keys, NEW v \in Values, NEW u, u = Stored(t, k, v), NEW s, s = SlotFor(t, k)
  PROVE  /\ u \in Tables(c, f) /\ s \in 0..c-1
         /\ u.keys[s] = k /\ u.values[s] = v
         /\ \A i \in 0..c-1 : i # s => u.keys[i] = t.keys[i] /\ u.values[i] = t.values[i]
         /\ k \in KeysOf(t) => u.count = t.count /\ t.keys[s] = k
         /\ k \notin KeysOf(t) => u.count = t.count + 1 /\ t.keys[s] = ZeroKey
<1>. DEFINE a == Claimed(t, k)
<1>1. /\ s \in 0..c-1 /\ k # ZeroKey
      /\ k \in KeysOf(t) => t.keys[s] = k
      /\ k \notin KeysOf(t) => t.keys[s] = ZeroKey
  BY SearchFinds, EntriesFacts DEF HashtableAssumption
<1>2. u = WithValue(a, s, v)
  BY DEF Stored, WithValue
<1>3. \A r \in Tables(c, f) : r.keys \in [0..c-1 -> Keys \cup {ZeroKey}] /\ r.values \in [0..c-1 -> Values]
  BY FieldsOfTable
<1>4. CASE k \in KeysOf(t)
  <2>1. a = t
    BY <1>1, <1>4 DEF Claimed
  <2>2. /\ u \in Tables(c, f) /\ u.keys = t.keys /\ u.count = t.count
        /\ u.values = [t.values EXCEPT ![s] = v]
    BY <1>2, <2>1, <1>1, ValueChanged
  <2>. QED
    BY <1>1, <1>3, <1>4, <2>2
<1>5. CASE k \notin KeysOf(t)
  <2>1. a = WithKey(t, s, k)
    BY <1>1, <1>5 DEF Claimed, WithKey
  <2>2. /\ a \in Tables(c, f) /\ a.keys = [t.keys EXCEPT ![s] = k] /\ a.count = t.count + 1
        /\ a.values = t.values
    BY <2>1, <1>1, KeyChanged
  <2>3. /\ u \in Tables(c, f) /\ u.keys = a.keys /\ u.count = a.count
        /\ u.values = [a.values EXCEPT ![s] = v]
    BY <1>2, <2>2, <1>1, ValueChanged
  <2>. HIDE DEF a
  <2>. QED
    BY <1>1, <1>3, <1>5, <2>2, <2>3
<1>. QED
  BY <1>4, <1>5

\* A key that is put into a free slot is in no one's way: searches end where they did.
LEMMA SearchKept ==
  ASSUME NEW t, NEW u, u.capacity = t.capacity, t.capacity \in Nat \ {0},
         NEW k \in Keys, Hash[k] \in Nat, NEW j \in Slots(t), FirstStop(t, k, j), NEW s,
         \A i \in Slots(t) : i # s => u.keys[i] = t.keys[i],
         t.keys[s] = ZeroKey \/ u.keys[s] = t.keys[s],
         Probe(t, k, j) = s => u.keys[s] \in {k, ZeroKey}
  PROVE  j \in Slots(u) /\ FirstStop(u, k, j) /\ Probe(u, k, j) = Probe(t, k, j)
<1>1. \A i \in Slots(t) : Probe(u, k, i) = Probe(t, k, i) /\ Probe(t, k, i) \in Slots(t)
  <2>. DEFINE h == Hash[k]
              c == t.capacity
  <2>1. \A i \in 0..c-1 : h + i \in Int
    OBVIOUS
  <2>2. \A i \in 0..c-1 : (h + i) % c \in 0..c-1
    <3>. HIDE DEF h, c
    <3>1. c \in Nat \ {0}
      BY DEF c
    <3>. QED
      BY <2>1, <3>1, GoesRound
  <2>. QED
    BY <2>2 DEF Probe, Slots
<1>2. Stops(u, k, j)
  BY <1>1 DEF Stops, FirstStop
<1>3. ASSUME NEW i \in 0..j-1 PROVE ~Stops(u, k, i)
  <2>1. i \in Slots(t)
    BY DEF Slots
  <2>2. t.keys[Probe(t, k, i)] \notin {k, ZeroKey}
    BY DEF FirstStop, Stops
  <2>. QED
    BY <1>1, <2>1, <2>2 DEF Stops
<1>. QED
  BY <1>1, <1>2, <1>3 DEF FirstStop, Slots

\* Put gives the key its value and leaves every other key the one it has.
With(m, k, v) == [x \in DOMAIN m \cup {k} |-> IF x = k THEN v ELSE m[x]]

LEMMA StoredPuts ==
  ASSUME HashtableAssumption, NEW c \in Nat, NEW f, NEW t \in Tables(c, f), Sound(t), t.count < c,
         NEW k \in Keys, NEW v \in Values, NEW u, u = Stored(t, k, v)
  PROVE  /\ u \in Tables(c, f) /\ Sound(u)
         /\ u.count = IF k \in KeysOf(t) THEN t.count ELSE t.count + 1
         /\ Content(u) = With(Content(t), k, v)
         /\ SlotFor(u, k) = SlotFor(t, k) /\ u.values[SlotFor(t, k)] = v
<1>. DEFINE s == SlotFor(t, k)
<1>1. /\ u \in Tables(c, f) /\ s \in 0..c-1
      /\ u.keys[s] = k /\ u.values[s] = v
      /\ \A i \in 0..c-1 : i # s => u.keys[i] = t.keys[i] /\ u.values[i] = t.values[i]
      /\ k \in KeysOf(t) => u.count = t.count /\ t.keys[s] = k
      /\ k \notin KeysOf(t) => u.count = t.count + 1 /\ t.keys[s] = ZeroKey
  BY StoredFields
<1>2. /\ Slots(t) = 0..c-1 /\ Slots(u) = 0..c-1 /\ t.capacity = c /\ u.capacity = c /\ t.count \in Nat
      /\ IsFiniteSet(Entries(t)) /\ IsFiniteSet(Entries(u))
      /\ \A i \in 0..c-1 : t.keys[i] \in Keys \cup {ZeroKey}
  BY <1>1, EntriesFacts
<1>3. k # ZeroKey /\ c \in Nat \ {0} /\ \A x \in Keys : Hash[x] \in Nat
  BY <1>2 DEF HashtableAssumption
<1>4. PICK j \in Slots(t) : FirstStop(t, k, j) /\ s = Probe(t, k, j)
  BY SearchFinds
<1>5. k \in KeysOf(t) <=> s \in Entries(t)
  <2>1. k \in KeysOf(t) => s \in Entries(t)
    BY SearchFinds
  <2>2. k \notin KeysOf(t) => s \notin Entries(t)
    BY <1>1 DEF Entries
  <2>. QED
    BY <2>1, <2>2
<1>. HIDE DEF s
<1>6. Entries(u) = Entries(t) \cup {s}
  <2>1. \A i : i \in Entries(u) <=> i \in Entries(t) \cup {s}
    BY <1>1, <1>2, <1>3 DEF Entries
  <2>. QED
    BY <2>1
<1>7. \A i \in Entries(t) : i # s => t.keys[i] # k
  BY <1>5 DEF Sound, s
<1>8. u.count = Cardinality(Entries(u))
  <2>1. CASE k \in KeysOf(t)
    <3>1. Entries(u) = Entries(t)
      BY <1>5, <1>6, <2>1
    <3>. QED
      BY <1>1, <2>1, <3>1 DEF Sound
  <2>2. CASE k \notin KeysOf(t)
    <3>1. Cardinality(Entries(t) \cup {s}) = Cardinality(Entries(t)) + 1
      BY <1>2, <1>5, <2>2, FS_AddElement
    <3>. QED
      BY <1>1, <1>6, <2>2, <3>1 DEF Sound
  <2>. QED
    BY <2>1, <2>2
<1>9. \A x \in Keys : \A n \in Slots(t) :
        FirstStop(t, x, n) /\ (Probe(t, x, n) = s => x = k) => SlotFor(u, x) = Probe(t, x, n)
  <2>1. SUFFICES ASSUME NEW x \in Keys, NEW n \in Slots(t), FirstStop(t, x, n),
                        Probe(t, x, n) = s => x = k
                 PROVE  SlotFor(u, x) = Probe(t, x, n)
    OBVIOUS
  <2>2. t.keys[s] = ZeroKey \/ u.keys[s] = t.keys[s]
    BY <1>1
  <2>3. Probe(t, x, n) = s => u.keys[s] \in {x, ZeroKey}
    BY <1>1, <2>1
  <2>4. n \in Slots(u) /\ FirstStop(u, x, n) /\ Probe(u, x, n) = Probe(t, x, n)
    <3>1. u.capacity = t.capacity /\ t.capacity \in Nat \ {0} /\ Hash[x] \in Nat
      BY <1>2, <1>3
    <3>2. \A i \in Slots(t) : i # s => u.keys[i] = t.keys[i]
      BY <1>1, <1>2
    <3>. QED
      BY <2>1, <2>2, <2>3, <3>1, <3>2, SearchKept
  <2>. QED
    BY <1>2, <2>4, SlotIs
<1>10. SlotFor(u, k) = s
  BY <1>4, <1>9
<1>11. \A i \in Entries(u) : SlotFor(u, u.keys[i]) = i
  <2>1. SUFFICES ASSUME NEW i \in Entries(t), i # s PROVE SlotFor(u, u.keys[i]) = i
    BY <1>1, <1>6, <1>10
  <2>. DEFINE x == t.keys[i]
  <2>2. i \in 0..c-1 /\ u.keys[i] = x /\ x \in Keys /\ x # k /\ x \in KeysOf(t)
    BY <1>1, <1>2, <1>7, <2>1 DEF Entries, KeysOf
  <2>3. SlotFor(t, x) = i
    BY DEF Sound
  <2>4. PICK n \in Slots(t) : FirstStop(t, x, n) /\ SlotFor(t, x) = Probe(t, x, n)
    BY <2>2, SearchFinds
  <2>. HIDE DEF x
  <2>5. SlotFor(u, x) = i
    BY <1>9, <2>1, <2>2, <2>3, <2>4
  <2>. QED
    BY <2>2, <2>5
<1>12. Sound(u)
  BY <1>8, <1>11 DEF Sound
<1>13. Content(u) = With(Content(t), k, v)
  <2>1. /\ DOMAIN Content(t) = KeysOf(t) /\ DOMAIN Content(u) = KeysOf(u)
        /\ \A i \in Entries(t) : Content(t)[t.keys[i]] = t.values[i]
        /\ \A i \in Entries(u) : Content(u)[u.keys[i]] = u.values[i]
    BY <1>12, ContentIs
  <2>2. KeysOf(u) = KeysOf(t) \cup {k}
    <3>1. \A x \in KeysOf(u) : x \in KeysOf(t) \cup {k}
      BY <1>1, <1>2, <1>6 DEF KeysOf, Entries
    <3>2. k \in KeysOf(u)
      BY <1>1, <1>6 DEF KeysOf
    <3>3. ASSUME NEW x \in KeysOf(t) PROVE x \in KeysOf(u)
      <4>1. PICK i \in Entries(t) : t.keys[i] = x
        BY DEF KeysOf
      <4>2. u.keys[i] = x
        <5>1. CASE i = s
          BY <1>1, <1>5, <4>1, <5>1
        <5>2. CASE i # s
          BY <1>1, <1>2, <4>1, <5>2 DEF Entries
        <5>. QED
          BY <5>1, <5>2
      <4>. QED
        BY <1>6, <4>1, <4>2 DEF KeysOf
    <3>. QED
      BY <3>1, <3>2, <3>3
  <2>3. ASSUME NEW x \in KeysOf(u)
        PROVE  Content(u)[x] = IF x = k THEN v ELSE Content(t)[x]
    <3>1. PICK i \in Entries(u) : u.keys[i] = x
      BY DEF KeysOf
    <3>2. CASE x = k
      <4>1. s \in Entries(u) /\ u.keys[s] = x
        BY <1>1, <1>6, <3>2
      <4>. QED
        BY <1>1, <2>1, <3>2, <4>1
    <3>3. CASE x # k
      <4>1. i # s /\ i \in Entries(t) /\ t.keys[i] = x /\ u.values[i] = t.values[i]
        BY <1>1, <1>2, <1>6, <3>1, <3>3 DEF Entries
      <4>. QED
        BY <2>1, <3>1, <3>3, <4>1
    <3>. QED
      BY <3>2, <3>3
  <2>4. Content(u) = [x \in KeysOf(u) |-> Content(u)[x]]
    BY <2>1 DEF Content, KeysOf
  <2>. QED
    BY <2>1, <2>2, <2>3, <2>4 DEF With
<1>. QED
  BY <1>1, <1>10, <1>12, <1>13 DEF s

---------------------------------------------------------------------------
(* Growing.                                                                *)
LEMMA ClearedIs ==
  ASSUME HashtableAssumption, NEW c \in Nat, NEW f
  PROVE  /\ Cleared(c, f) \in Tables(c, f) /\ Sound(Cleared(c, f)) /\ Cleared(c, f).count = 0
         /\ KeysOf(Cleared(c, f)) = {}
<1>. DEFINE t == Cleared(c, f)
<1>1. t \in Tables(c, f)
  BY DEF Cleared, Tables, HashtableAssumption
<1>2. t.count = 0 /\ Entries(t) = {}
  BY DEF Cleared, Entries, Slots
<1>3. Cardinality(Entries(t)) = 0
  BY <1>2, FS_EmptySet
<1>. HIDE DEF t
<1>4. Sound(t) /\ KeysOf(t) = {}
  BY <1>2, <1>3 DEF Sound, KeysOf
<1>. QED
  BY <1>1, <1>2, <1>4 DEF t

\* The slots of a table below the n-th that are in use.
Below(t, n) == {i \in Entries(t) : i < n}

\* r has the entries of t in its first n slots and no other.
Carries(r, t, n) ==
  /\ Sound(r) /\ r.count <= Cardinality(Below(t, n))
  /\ KeysOf(r) = {t.keys[i] : i \in Below(t, n)}
  /\ \A i \in Below(t, n) : Content(r)[t.keys[i]] = t.values[i]

LEMMA BelowFacts ==
  ASSUME NEW c \in Nat, NEW f, NEW t \in Tables(c, f), Sound(t), NEW n \in 0..c-1
  PROVE  /\ n \notin Entries(t) => Below(t, n+1) = Below(t, n)
         /\ n \in Entries(t) => /\ Below(t, n+1) = Below(t, n) \cup {n}
                               /\ Cardinality(Below(t, n+1)) = Cardinality(Below(t, n)) + 1
         /\ Cardinality(Below(t, n)) \in Nat /\ Cardinality(Below(t, n+1)) <= t.count
<1>1. Entries(t) \subseteq 0..c-1 /\ IsFiniteSet(Entries(t))
  BY EntriesFacts
<1>2. n \notin Entries(t) => Below(t, n+1) = Below(t, n)
  BY <1>1 DEF Below
<1>3. n \in Entries(t) => Below(t, n+1) = Below(t, n) \cup {n}
  BY <1>1 DEF Below
<1>4. n \notin Below(t, n) /\ Below(t, n) \subseteq Entries(t) /\ Below(t, n+1) \subseteq Entries(t)
  BY DEF Below
<1>5. IsFiniteSet(Below(t, n)) /\ Cardinality(Below(t, n+1)) <= Cardinality(Entries(t))
  BY <1>1, <1>4, FS_Subset
<1>6. Cardinality(Below(t, n) \cup {n}) = Cardinality(Below(t, n)) + 1 /\ Cardinality(Below(t, n)) \in Nat
  BY <1>4, <1>5, FS_AddElement, FS_CardinalityType
<1>. QED
  BY <1>2, <1>3, <1>5, <1>6 DEF Sound

\* One slot more.
LEMMA CarriesMore ==
  ASSUME HashtableAssumption, NEW c \in Nat, NEW f, NEW t \in Tables(c, f), Sound(t),
         NEW n \in 0..c-1, NEW d \in Nat, t.count < d,
         NEW r \in Tables(d, f), Carries(r, t, n)
  PROVE  /\ t.keys[n] = ZeroKey => Carries(r, t, n+1)
         /\ t.keys[n] # ZeroKey =>
              /\ Stored(r, t.keys[n], t.values[n]) \in Tables(d, f)
              /\ Carries(Stored(r, t.keys[n], t.values[n]), t, n+1)
<1>1. /\ Slots(t) = 0..c-1 /\ t.keys[n] \in Keys \cup {ZeroKey} /\ t.values[n] \in Values
      /\ t.count \in Nat /\ r.count \in Nat
  BY EntriesFacts
<1>2. CASE t.keys[n] = ZeroKey
  <2>1. n \notin Entries(t)
    BY <1>2 DEF Entries
  <2>2. Below(t, n+1) = Below(t, n)
    BY <2>1, BelowFacts
  <2>. QED
    BY <1>2, <2>2 DEF Carries
<1>3. CASE t.keys[n] # ZeroKey
  <2>. DEFINE k == t.keys[n]
              v == t.values[n]
              u == Stored(r, k, v)
  <2>1. n \in Entries(t) /\ k \in Keys /\ v \in Values
    BY <1>1, <1>3 DEF Entries
  <2>2. /\ Below(t, n+1) = Below(t, n) \cup {n}
        /\ Cardinality(Below(t, n+1)) = Cardinality(Below(t, n)) + 1
        /\ Cardinality(Below(t, n)) \in Nat /\ Cardinality(Below(t, n+1)) <= t.count
    <3>1. n \in Entries(t)
      BY <2>1
    <3>. QED
      BY <3>1, BelowFacts
  <2>3. Sound(r) /\ r.count <= Cardinality(Below(t, n)) /\ r.count < d
    BY <1>1, <2>2 DEF Carries
  <2>. HIDE DEF k, v, u
  <2>4. /\ u \in Tables(d, f) /\ Sound(u)
        /\ u.count = IF k \in KeysOf(r) THEN r.count ELSE r.count + 1
        /\ Content(u) = With(Content(r), k, v)
    BY <2>1, <2>3, StoredPuts DEF u
  <2>5. u.count <= Cardinality(Below(t, n+1))
    BY <1>1, <2>2, <2>3, <2>4
  <2>6. DOMAIN Content(r) = KeysOf(r) /\ DOMAIN Content(u) = KeysOf(u)
    BY <2>3, <2>4, ContentIs
  <2>7. DOMAIN With(Content(r), k, v) = KeysOf(r) \cup {k}
    BY <2>6 DEF With
  <2>8. KeysOf(u) = {t.keys[i] : i \in Below(t, n+1)}
    <3>1. KeysOf(u) = KeysOf(r) \cup {t.keys[n]}
      BY <2>4, <2>6, <2>7 DEF k
    <3>2. KeysOf(r) = {t.keys[i] : i \in Below(t, n)}
      BY DEF Carries
    <3>. QED
      BY <2>2, <3>1, <3>2
  <2>9. ASSUME NEW i \in Below(t, n+1) PROVE Content(u)[t.keys[i]] = t.values[i]
    <3>1. t.keys[i] \in KeysOf(r) \cup {k}
      BY <2>4, <2>6, <2>7, <2>8
    <3>2. Content(u)[t.keys[i]] = IF t.keys[i] = k THEN v ELSE Content(r)[t.keys[i]]
      BY <2>4, <2>6, <3>1 DEF With
    <3>3. i = n \/ i \in Below(t, n)
      BY <2>2
    <3>4. CASE t.keys[i] = k
      <4>1. i \in Entries(t)
        BY DEF Below
      <4>2. i = n
        BY <2>1, <3>4, <4>1, ContentIs DEF k
      <4>. QED
        BY <3>2, <3>4, <4>2 DEF v
    <3>5. CASE t.keys[i] # k
      <4>1. i \in Below(t, n)
        BY <3>3, <3>5 DEF k
      <4>. QED
        BY <3>2, <3>5, <4>1 DEF Carries
    <3>. QED
      BY <3>4, <3>5
  <2>10. Carries(u, t, n+1)
    BY <2>4, <2>5, <2>8, <2>9 DEF Carries
  <2>. QED
    BY <1>3, <2>4, <2>10 DEF u, k, v
<1>. QED
  BY <1>2, <1>3

\* The entry of the n-th slot, if there is one, put into r.
PutFrom(t, n, r) == IF t.keys[n] = ZeroKey THEN r ELSE Stored(r, t.keys[n], t.values[n])

\* Putting the entries in the order of their slots carries them all over.
LEMMA CarriesAll ==
  ASSUME HashtableAssumption, NEW c \in Nat, NEW f, NEW t \in Tables(c, f), Sound(t),
         NEW d \in Nat, t.count < d, NEW G, G[0] = Cleared(d, f),
         \A n \in 0..c-1 : G[n] \in Tables(d, f) /\ Carries(G[n], t, n) => G[n+1] = PutFrom(t, n, G[n])
  PROVE  \A n \in 0..c : G[n] \in Tables(d, f) /\ Carries(G[n], t, n)
<1>. DEFINE Q == {n \in 0..c : G[n] \in Tables(d, f) /\ Carries(G[n], t, n)}
<1>1. 0 \in Q
  <2>1. Below(t, 0) = {}
    BY EntriesFacts DEF Below
  <2>2. Cardinality(Below(t, 0)) = 0
    BY <2>1, FS_EmptySet
  <2>3. Carries(G[0], t, 0)
    BY <2>1, <2>2, ClearedIs DEF Carries
  <2>. QED
    BY <2>3, ClearedIs
<1>2. ASSUME NEW n \in 0..c-1, n \in Q PROVE n+1 \in Q
  <2>1. G[n] \in Tables(d, f) /\ Carries(G[n], t, n) /\ n+1 \in 0..c
    BY <1>2
  <2>2. G[n+1] = PutFrom(t, n, G[n])
    BY <2>1
  <2>3. CASE t.keys[n] = ZeroKey
    <3>1. Carries(G[n], t, n+1)
      BY <2>1, <2>3, CarriesMore
    <3>. QED
      BY <2>1, <2>2, <2>3, <3>1 DEF PutFrom
  <2>4. CASE t.keys[n] # ZeroKey
    <3>. DEFINE u == Stored(G[n], t.keys[n], t.values[n])
    <3>1. u \in Tables(d, f) /\ Carries(u, t, n+1)
      BY <2>1, <2>4, CarriesMore
    <3>2. G[n+1] = u
      BY <2>2, <2>4 DEF PutFrom
    <3>. HIDE DEF u
    <3>. QED
      BY <2>1, <3>1, <3>2
  <2>. QED
    BY <2>3, <2>4
<1>3. \A n \in 0..c : n \in Q
  <2>. HIDE DEF Q
  <2>. QED
    BY <1>1, <1>2, CountingFromZero
<1>. QED
  BY <1>3

Reinserts(G, t, e) ==
  G = [n \in 0..t.capacity |->
         IF n = 0 THEN Cleared(CapacityFor(e), t.fixed)
         ELSE IF t.keys[n - 1] = ZeroKey THEN G[n - 1]
         ELSE Stored(G[n - 1], t.keys[n - 1], t.values[n - 1])]

LEMMA ReinsertsExists ==
  ASSUME HashtableAssumption, NEW c \in Nat, NEW f, NEW t \in Tables(c, f), Sound(t),
         NEW e, CapacityFor(e) \in Nat, t.count < CapacityFor(e)
  PROVE  \E G : Reinserts(G, t, e)
<1>. DEFINE d == CapacityFor(e)
            S == Tables(d, f)
            Step(i, r) == PutFrom(t, i - 1, r)
            F == [i \in 1..c |-> [r \in S |-> IF Step(i, r) \in S THEN Step(i, r) ELSE r]]
            a == Cleared(d, f)
<1>1. t.capacity = c /\ t.fixed = f
  BY EntriesFacts
<1>2. a \in S
  BY ClearedIs
<1>3. F \in [1..c -> [S -> S]]
  <2>. HIDE DEF S, Step
  <2>. QED
    OBVIOUS
<1>. HIDE DEF d
<1>4. PICK G \in [0..c -> S] : G[0] = a /\ Upwards(G, F, c)
  <2>. HIDE DEF S, F, a
  <2>. QED
    BY <1>2, <1>3, RecursionUp
<1>5. \A i \in 1..c : G[i] = IF Step(i, G[i-1]) \in S THEN Step(i, G[i-1]) ELSE G[i-1]
  <2>1. ASSUME NEW i \in 1..c PROVE G[i] = IF Step(i, G[i-1]) \in S THEN Step(i, G[i-1]) ELSE G[i-1]
    <3>1. G[i] = F[i][G[i-1]] /\ G[i-1] \in S
      BY <1>4 DEF Upwards
    <3>. HIDE DEF S, Step
    <3>. QED
      BY <3>1
  <2>. QED
    BY <2>1
<1>6. ASSUME NEW n \in 0..c-1, G[n] \in S, Carries(G[n], t, n) PROVE PutFrom(t, n, G[n]) \in S
  BY <1>6, CarriesMore DEF PutFrom, d
<1>7. ASSUME NEW n \in 0..c-1, G[n] \in S, Carries(G[n], t, n) PROVE G[n+1] = PutFrom(t, n, G[n])
  <2>1. n+1 \in 1..c /\ (n+1)-1 = n
    OBVIOUS
  <2>. HIDE DEF S
  <2>. QED
    BY <1>5, <1>6, <1>7, <2>1
<1>8. \A n \in 0..c : G[n] \in S /\ Carries(G[n], t, n)
  BY <1>4, <1>7, CarriesAll DEF d
<1>9. \A i \in 0..c : G[i] = IF i = 0 THEN Cleared(d, f)
                            ELSE IF t.keys[i - 1] = ZeroKey THEN G[i - 1]
                            ELSE Stored(G[i - 1], t.keys[i - 1], t.values[i - 1])
  <2>1. ASSUME NEW i \in 1..c
        PROVE  G[i] = IF t.keys[i - 1] = ZeroKey THEN G[i - 1]
                      ELSE Stored(G[i - 1], t.keys[i - 1], t.values[i - 1])
    <3>1. i-1 \in 0..c-1 /\ i-1 \in 0..c /\ (i-1)+1 = i
      OBVIOUS
    <3>2. G[i] = PutFrom(t, i-1, G[i-1])
      BY <1>7, <1>8, <3>1
    <3>. QED
      BY <3>2 DEF PutFrom
  <2>. QED
    BY <1>4, <2>1
<1>. QED
  <2>1. G = [i \in 0..c |-> G[i]]
    BY <1>4
  <2>. QED
    BY <1>1, <1>9, <2>1 DEF Reinserts, d

\* Resize keeps every entry.
LEMMA ResizedCarries ==
  ASSUME HashtableAssumption, NEW c \in Nat, NEW f, NEW t \in Tables(c, f), Sound(t),
         NEW e \in Nat, t.count <= e, 2 * e <= 2 * MaxCapacity
  PROVE  /\ Resized(t, e) \in Tables(CapacityFor(e), f) /\ Sound(Resized(t, e))
         /\ Resized(t, e).count <= t.count /\ Content(Resized(t, e)) = Content(t)
<1>. DEFINE d == CapacityFor(e)
            G == CHOOSE G : G = [n \in 0..t.capacity |->
                                   IF n = 0 THEN Cleared(d, t.fixed)
                                   ELSE IF t.keys[n - 1] = ZeroKey THEN G[n - 1]
                                   ELSE Stored(G[n - 1], t.keys[n - 1], t.values[n - 1])]
            u == Resized(t, e)
<1>1. t.capacity = c /\ t.fixed = f /\ t.count \in Nat /\ Entries(t) \subseteq 0..c-1
  BY EntriesFacts
<1>2. d \in Nat /\ t.count < d
  BY <1>1, CapacityFacts
<1>3. Reinserts(G, t, e)
  <2>1. \E H : Reinserts(H, t, e)
    <3>. HIDE DEF G
    <3>. QED
      BY <1>2, ReinsertsExists
  <2>2. Reinserts(CHOOSE H : Reinserts(H, t, e), t, e)
    BY <2>1
  <2>. QED
    BY <2>2 DEF Reinserts
<1>4. u = G[c]
  BY <1>1 DEF Resized
<1>. HIDE DEF G, d, u
<1>5. G[0] = Cleared(d, f)
  BY <1>1, <1>3 DEF Reinserts, d
<1>6. ASSUME NEW n \in 0..c-1 PROVE G[n+1] = PutFrom(t, n, G[n])
  <2>1. n+1 \in 0..c /\ n+1 # 0 /\ (n+1)-1 = n
    OBVIOUS
  <2>. QED
    BY <1>1, <1>3, <2>1 DEF Reinserts, PutFrom
<1>7. u \in Tables(d, f) /\ Carries(u, t, c)
  <2>1. c \in 0..c
    OBVIOUS
  <2>. QED
    BY <1>2, <1>4, <1>5, <1>6, <2>1, CarriesAll
<1>8. Below(t, c) = Entries(t)
  BY <1>1 DEF Below
<1>9. u.count <= t.count /\ KeysOf(u) = KeysOf(t) /\ Sound(u)
  BY <1>7, <1>8 DEF Carries, KeysOf, Sound
<1>10. Content(u) = Content(t)
  <2>1. /\ DOMAIN Content(u) = KeysOf(u) /\ DOMAIN Content(t) = KeysOf(t)
        /\ \A i \in Entries(t) : Content(t)[t.keys[i]] = t.values[i]
    BY <1>9, ContentIs
  <2>2. \A i \in Entries(t) : Content(u)[t.keys[i]] = t.values[i]
    BY <1>7, <1>8 DEF Carries
  <2>3. \A x \in KeysOf(t) : Content(u)[x] = Content(t)[x]
    BY <2>1, <2>2 DEF KeysOf
  <2>4. Content(u) = [x \in KeysOf(u) |-> Content(u)[x]] /\ Content(t) = [x \in KeysOf(t) |-> Content(t)[x]]
    BY <2>1 DEF Content, KeysOf
  <2>. QED
    BY <1>9, <2>3, <2>4
<1>. QED
  BY <1>7, <1>9, <1>10 DEF d, u

---------------------------------------------------------------------------
(* The invariant.                                                          *)
Right(t) ==
  /\ t.capacity \in Nat /\ t \in Tables(t.capacity, t.fixed) /\ Sound(t)
  /\ 2 * t.count <= t.capacity /\ t.capacity <= MaxCapacity
  /\ t.capacity = 0 \/ (t.capacity \in PowersOf2 /\ t.capacity > 1)

LEMMA PowersEven ==
  ASSUME HashtableAssumption, NEW p \in PowersOf2
  PROVE  p \in Nat /\ (p > 1 => \E h \in Nat : p = 2 * h)
<1>1. PICK m \in 0..MaxBits : p = PowerOf2[m]
  BY DEF PowersOf2
<1>2. MaxBits \in Nat
  BY DEF HashtableAssumption
<1>3. p \in Nat
  BY <1>1, <1>2, PowersGrow
<1>4. CASE m = 0
  BY <1>1, <1>3, <1>4, PowersDouble
<1>5. CASE m # 0
  <2>1. m-1 \in 0..MaxBits /\ m-1 \in 0..MaxBits+1 /\ (m-1)+1 = m
    BY <1>2, <1>5
  <2>2. p = 2 * PowerOf2[m-1]
    BY <1>1, <2>1, PowersDouble
  <2>3. PowerOf2[m-1] \in Nat
    BY <2>1, PowersGrow
  <2>. QED
    BY <1>3, <2>2, <2>3
<1>. QED
  BY <1>4, <1>5

LEMMA ClearedRight ==
  ASSUME HashtableAssumption, NEW c \in Nat, NEW f, c <= MaxCapacity, c = 0 \/ (c \in PowersOf2 /\ c > 1)
  PROVE  Right(Cleared(c, f)) /\ KeysOf(Cleared(c, f)) = {}
<1>. DEFINE t == Cleared(c, f)
<1>1. t \in Tables(c, f) /\ Sound(t) /\ t.count = 0 /\ KeysOf(t) = {}
  BY ClearedIs
<1>. HIDE DEF t
<1>2. t.capacity = c /\ t.fixed = f
  BY <1>1, EntriesFacts
<1>. QED
  BY <1>1, <1>2 DEF Right, t

\* Resize, asked for no less than there is.
LEMMA ResizedRight ==
  ASSUME HashtableAssumption, NEW t, Right(t), NEW e \in Nat, t.count <= e, 2 * e <= 2 * MaxCapacity,
         CapacityFor(e) <= MaxCapacity
  PROVE  /\ Right(Resized(t, e)) /\ Content(Resized(t, e)) = Content(t)
         /\ Resized(t, e).count <= t.count /\ Resized(t, e).capacity = CapacityFor(e)
<1>. DEFINE u == Resized(t, e)
            d == CapacityFor(e)
            c == t.capacity
            f == t.fixed
<1>1. c \in Nat /\ t \in Tables(c, f) /\ Sound(t)
  BY DEF Right
<1>2. d \in PowersOf2 /\ d \in Nat /\ d >= 2 * e /\ d > 1
  BY CapacityFacts
<1>3. u \in Tables(d, f) /\ Sound(u) /\ u.count <= t.count /\ Content(u) = Content(t)
  <2>. HIDE DEF u, d, c, f
  <2>1. /\ Resized(t, e) \in Tables(CapacityFor(e), f) /\ Sound(Resized(t, e))
        /\ Resized(t, e).count <= t.count /\ Content(Resized(t, e)) = Content(t)
    BY <1>1, ResizedCarries
  <2>. QED
    BY <2>1 DEF u, d
<1>4. t.count \in Nat
  BY <1>1, EntriesFacts
<1>. HIDE DEF u, d, c, f
<1>5. u.capacity = d /\ u.fixed = f /\ u.count \in Nat
  BY <1>2, <1>3, EntriesFacts
<1>6. 2 * u.count <= d
  BY <1>2, <1>3, <1>4, <1>5
<1>7. d <= MaxCapacity
  BY DEF d
<1>8. Right(u)
  BY <1>2, <1>3, <1>5, <1>6, <1>7 DEF Right
<1>. QED
  BY <1>3, <1>5, <1>8 DEF u, d

\* Before a key is put the table has room for one more.
LEMMA ForPutRight ==
  ASSUME HashtableAssumption, NEW t, Right(t), CanPut(t)
  PROVE  /\ Right(ForPut(t)) /\ Content(ForPut(t)) = Content(t)
         /\ 2 * (ForPut(t).count + 1) <= ForPut(t).capacity
<1>1. /\ t.capacity \in Nat /\ t \in Tables(t.capacity, t.fixed) /\ Sound(t)
      /\ 2 * t.count <= t.capacity /\ t.capacity <= MaxCapacity
      /\ t.capacity = 0 \/ (t.capacity \in PowersOf2 /\ t.capacity > 1)
  BY DEF Right
<1>2. t.count \in Nat /\ MaxCapacity \in Nat
  BY <1>1, EntriesFacts, PowersEven DEF HashtableAssumption
<1>3. CASE ~ MustGrow(t)
  <2>1. ForPut(t) = t /\ 2 * t.count < t.capacity
    BY <1>1, <1>2, <1>3 DEF ForPut, MustGrow
  <2>2. PICK h \in Nat : t.capacity = 2 * h
    BY <1>1, <1>2, <2>1, PowersEven
  <2>. QED
    BY <1>1, <1>2, <2>1, <2>2
<1>4. CASE MustGrow(t)
  <2>. DEFINE e == 2 * t.count
              u == ForPut(t)
  <2>1. u = Resized(t, e) /\ u.capacity <= MaxCapacity
    BY <1>4 DEF ForPut, CanPut
  <2>2. e \in Nat /\ t.count <= e /\ 2 * e <= 2 * MaxCapacity
    BY <1>1, <1>2
  <2>3. Resized(t, e) \in Tables(CapacityFor(e), t.fixed)
    <3>. HIDE DEF e
    <3>. QED
      BY <1>1, <2>2, ResizedCarries
  <2>4. CapacityFor(e) \in Nat /\ CapacityFor(e) >= 2 * e /\ CapacityFor(e) > 1
    <3>. HIDE DEF e
    <3>. QED
      BY <2>2, CapacityFacts
  <2>. HIDE DEF e, u
  <2>5. u.capacity = CapacityFor(e) /\ u.count \in Nat
    BY <2>1, <2>3, <2>4, EntriesFacts
  <2>6. CapacityFor(e) <= MaxCapacity
    BY <2>1, <2>5
  <2>7. /\ Right(u) /\ Content(u) = Content(t) /\ u.count <= t.count
    BY <2>1, <2>2, <2>6, ResizedRight
  <2>8. 2 * (u.count + 1) <= u.capacity
    BY <1>2, <2>4, <2>5, <2>7 DEF e
  <2>. QED
    BY <2>7, <2>8 DEF u
<1>. QED
  BY <1>3, <1>4

LEMMA PutRight ==
  ASSUME HashtableAssumption, NEW t, Right(t), 2 * (t.count + 1) <= t.capacity,
         NEW k \in Keys, NEW v \in Values
  PROVE  /\ Right(Stored(t, k, v)) /\ Content(Stored(t, k, v)) = With(Content(t), k, v)
         /\ SlotFor(Stored(t, k, v), k) = SlotFor(t, k) /\ Stored(t, k, v).values[SlotFor(t, k)] = v
<1>. DEFINE u == Stored(t, k, v)
            c == t.capacity
            f == t.fixed
<1>1. /\ c \in Nat /\ t \in Tables(c, f) /\ Sound(t) /\ c <= MaxCapacity
      /\ c = 0 \/ (c \in PowersOf2 /\ c > 1)
  BY DEF Right
<1>2. t.count \in Nat /\ t.count < c
  BY <1>1, EntriesFacts
<1>0. u = Stored(t, k, v) /\ 2 * (t.count + 1) <= c
  OBVIOUS
<1>. HIDE DEF u, c, f
<1>3. /\ u \in Tables(c, f) /\ Sound(u)
      /\ u.count = IF k \in KeysOf(t) THEN t.count ELSE t.count + 1
      /\ Content(u) = With(Content(t), k, v)
      /\ SlotFor(u, k) = SlotFor(t, k) /\ u.values[SlotFor(t, k)] = v
  BY <1>0, <1>1, <1>2, StoredPuts
<1>4. u.capacity = c /\ u.fixed = f
  BY <1>1, <1>3, EntriesFacts
<1>5. 2 * u.count <= c
  <2>1. u.count = t.count \/ u.count = t.count + 1
    BY <1>3
  <2>. QED
    BY <1>0, <1>1, <1>2, <2>1
<1>6. Right(u)
  BY <1>1, <1>3, <1>4, <1>5 DEF Right
<1>. QED
  BY <1>3, <1>6 DEF u

\* What a search in a table of the program finds.
LEMMA RightFinds ==
  ASSUME HashtableAssumption, NEW t, Right(t), t.capacity # 0, NEW k \in Keys
  PROVE  /\ \E j \in Slots(t) : Stops(t, k, j)
         /\ k \in DOMAIN Content(t) => /\ t.keys[SlotFor(t, k)] = k
                                      /\ Content(t)[k] = t.values[SlotFor(t, k)]
         /\ k \notin DOMAIN Content(t) => t.keys[SlotFor(t, k)] # k
<1>. DEFINE c == t.capacity
            f == t.fixed
<1>1. c \in Nat /\ t \in Tables(c, f) /\ Sound(t) /\ 2 * t.count <= c /\ c # 0
  BY DEF Right
<1>2. t.count < c
  <2>1. t.count \in Nat
    BY <1>1, EntriesFacts
  <2>. QED
    BY <1>1, <2>1
<1>. HIDE DEF c, f
<1>3. /\ \E j \in Slots(t) : FirstStop(t, k, j) /\ SlotFor(t, k) = Probe(t, k, j)
      /\ k \in KeysOf(t) => SlotFor(t, k) \in Entries(t) /\ t.keys[SlotFor(t, k)] = k
      /\ k \notin KeysOf(t) => t.keys[SlotFor(t, k)] = ZeroKey
  BY <1>1, <1>2, SearchFinds
<1>4. k # ZeroKey
  BY DEF HashtableAssumption
<1>5. /\ DOMAIN Content(t) = KeysOf(t)
      /\ \A i \in Entries(t) : Content(t)[t.keys[i]] = t.values[i]
  BY <1>1, ContentIs
<1>6. k \in KeysOf(t) => Content(t)[k] = t.values[SlotFor(t, k)]
  BY <1>3, <1>5
<1>. QED
  BY <1>3, <1>4, <1>5, <1>6 DEF FirstStop

---------------------------------------------------------------------------
(* Iterating.                                                              *)
ItemOf(t, i) == <<t.keys[i], t.values[i]>>

\* s holds the items of the first n slots, each once.
Lists(s, t, n) ==
  /\ s \in Seq(Keys \X Values)
  /\ {s[i] : i \in DOMAIN s} = {ItemOf(t, i) : i \in Below(t, n)}
  /\ \A i, j \in DOMAIN s : s[i] = s[j] => i = j

GivenTo(t, i, s) == IF t.keys[i] = ZeroKey THEN s ELSE Append(s, <<t.keys[i], t.values[i]>>)

LEMMA ListsMore ==
  ASSUME NEW c \in Nat, NEW f, NEW t \in Tables(c, f), Sound(t),
         NEW n \in 0..c-1, NEW s, Lists(s, t, n)
  PROVE  Lists(GivenTo(t, n, s), t, n+1)
<1>1. /\ Slots(t) = 0..c-1 /\ t.keys[n] \in Keys \cup {ZeroKey} /\ t.values[n] \in Values
  BY EntriesFacts
<1>2. CASE t.keys[n] = ZeroKey
  <2>1. n \notin Entries(t)
    BY <1>2 DEF Entries
  <2>2. Below(t, n+1) = Below(t, n)
    BY <2>1, BelowFacts
  <2>. QED
    BY <1>2, <2>2 DEF Lists, GivenTo
<1>3. CASE t.keys[n] # ZeroKey
  <2>. DEFINE x == ItemOf(t, n)
              r == Append(s, x)
  <2>1. n \in Entries(t) /\ x \in Keys \X Values
    BY <1>1, <1>3 DEF Entries, ItemOf
  <2>2. Below(t, n+1) = Below(t, n) \cup {n}
    BY <2>1, BelowFacts
  <2>3. \A i \in Below(t, n) : ItemOf(t, i) # x
    <3>1. \A i \in Below(t, n) : i \in Entries(t) /\ i # n
      BY DEF Below
    <3>2. \A i \in Below(t, n) : t.keys[i] # t.keys[n]
      BY <2>1, <3>1, ContentIs
    <3>. QED
      BY <3>2 DEF ItemOf
  <2>4. /\ s \in Seq(Keys \X Values)
        /\ {s[i] : i \in DOMAIN s} = {ItemOf(t, i) : i \in Below(t, n)}
        /\ \A i, j \in DOMAIN s : s[i] = s[j] => i = j
    BY DEF Lists
  <2>5. GivenTo(t, n, s) = r
    BY <1>3 DEF GivenTo, ItemOf
  <2>. HIDE DEF x
  <2>6. /\ r \in Seq(Keys \X Values) /\ DOMAIN r = DOMAIN s \cup {Len(s)+1}
        /\ Len(s)+1 \notin DOMAIN s /\ r[Len(s)+1] = x
        /\ \A i \in DOMAIN s : r[i] = s[i]
    BY <2>1, <2>4
  <2>. HIDE DEF r
  <2>7. \A i \in DOMAIN s : s[i] # x
    BY <2>3, <2>4
  <2>8. {r[i] : i \in DOMAIN r} = {s[i] : i \in DOMAIN s} \cup {x}
    BY <2>6
  <2>9. {ItemOf(t, i) : i \in Below(t, n+1)} = {ItemOf(t, i) : i \in Below(t, n)} \cup {x}
    BY <2>2 DEF x
  <2>10. \A i, j \in DOMAIN r : r[i] = r[j] => i = j
    BY <2>4, <2>6, <2>7
  <2>11. {r[i] : i \in DOMAIN r} = {ItemOf(t, i) : i \in Below(t, n+1)}
    BY <2>4, <2>8, <2>9
  <2>12. Lists(r, t, n+1)
    BY <2>6, <2>10, <2>11 DEF Lists
  <2>. QED
    BY <2>5, <2>12
<1>. QED
  BY <1>2, <1>3

Gives(G, t) ==
  G = [n \in 0..t.capacity |->
         IF n = 0 THEN <<>>
         ELSE IF t.keys[n - 1] = ZeroKey THEN G[n - 1]
         ELSE Append(G[n - 1], <<t.keys[n - 1], t.values[n - 1]>>)]

LEMMA GivesExists ==
  ASSUME NEW c \in Nat, NEW f, NEW t \in Tables(c, f), Sound(t)
  PROVE  \E G : Gives(G, t)
<1>. DEFINE S == Seq(Keys \X Values)
            Step(i, s) == GivenTo(t, i - 1, s)
            F == [i \in 1..c |-> [s \in S |-> Step(i, s)]]
            a == <<>>
<1>1. a \in S /\ t.capacity = c
  BY EntriesFacts
<1>2. F \in [1..c -> [S -> S]]
  <2>1. ASSUME NEW i \in 1..c, NEW s \in S PROVE Step(i, s) \in S
    <3>1. i-1 \in 0..c-1
      OBVIOUS
    <3>2. t.keys[i-1] \in Keys \cup {ZeroKey} /\ t.values[i-1] \in Values
      BY <3>1, EntriesFacts
    <3>. QED
      BY <3>2 DEF GivenTo
  <2>. HIDE DEF S, Step
  <2>. QED
    BY <2>1
<1>3. PICK G \in [0..c -> S] : G[0] = a /\ Upwards(G, F, c)
  <2>. HIDE DEF S, F, a
  <2>. QED
    BY <1>1, <1>2, RecursionUp
<1>4. ASSUME NEW i \in 1..c PROVE G[i] = Step(i, G[i-1])
  <2>1. G[i] = F[i][G[i-1]] /\ G[i-1] \in S
    <3>1. i-1 \in 0..c
      OBVIOUS
    <3>. HIDE DEF S, F
    <3>. QED
      BY <1>3, <3>1 DEF Upwards
  <2>. HIDE DEF S, Step
  <2>. QED
    BY <2>1
<1>5. \A i \in 0..c : G[i] = IF i = 0 THEN <<>>
                            ELSE IF t.keys[i - 1] = ZeroKey THEN G[i - 1]
                            ELSE Append(G[i - 1], <<t.keys[i - 1], t.values[i - 1]>>)
  <2>1. ASSUME NEW i \in 1..c
        PROVE  G[i] = IF t.keys[i - 1] = ZeroKey THEN G[i - 1]
                      ELSE Append(G[i - 1], <<t.keys[i - 1], t.values[i - 1]>>)
    BY <1>4 DEF GivenTo
  <2>2. G[0] = <<>>
    BY <1>3
  <2>3. ASSUME NEW i \in 0..c
        PROVE  G[i] = IF i = 0 THEN <<>>
                      ELSE IF t.keys[i - 1] = ZeroKey THEN G[i - 1]
                      ELSE Append(G[i - 1], <<t.keys[i - 1], t.values[i - 1]>>)
    <3>1. CASE i = 0
      BY <2>2, <3>1
    <3>2. CASE i \in 1..c
      <4>1. i # 0
        BY <3>2
      <4>. HIDE DEF S, F
      <4>. QED
        BY <2>1, <3>2, <4>1
    <3>. QED
      BY <3>1, <3>2
  <2>. QED
    BY <2>3
<1>. QED
  <2>. DEFINE A(i) == IF i = 0 THEN <<>>
                      ELSE IF t.keys[i - 1] = ZeroKey THEN G[i - 1]
                      ELSE Append(G[i - 1], <<t.keys[i - 1], t.values[i - 1]>>)
  <2>1. \A i \in 0..c : G[i] = A(i)
    BY <1>5
  <2>2. G = [i \in 0..c |-> A(i)]
    <3>1. G = [i \in 0..c |-> G[i]]
      BY <1>3
    <3>. HIDE DEF A
    <3>. QED
      BY <2>1, <3>1
  <2>3. G = [i \in 0..t.capacity |-> A(i)]
    <3>. HIDE DEF A
    <3>. QED
      BY <1>1, <2>2
  <2>4. Gives(G, t)
    BY ONLY <2>3 DEF Gives
  <2>. QED
    BY <2>4

\* The iterators give every item once.
LEMMA IterateGives ==
  ASSUME HashtableAssumption, Right(table), Iterate
  PROVE  /\ UNCHANGED table
         /\ {io'[i] : i \in DOMAIN io'} = {<<k, Content(table)[k]>> : k \in DOMAIN Content(table)}
         /\ \A i, j \in DOMAIN io' : io'[i] = io'[j] => i = j
<1>. DEFINE t == table
            c == t.capacity
            f == t.fixed
            G == CHOOSE G : G = [n \in 0..t.capacity |->
                                   IF n = 0 THEN <<>>
                                   ELSE IF t.keys[n - 1] = ZeroKey THEN G[n - 1]
                                   ELSE Append(G[n - 1], <<t.keys[n - 1], t.values[n - 1]>>)]
<1>1. c \in Nat /\ t \in Tables(c, f) /\ Sound(t)
  BY DEF Right
<1>2. io' = G[c] /\ UNCHANGED table
  BY DEF Iterate
<1>3. Gives(G, t)
  <2>1. \E H : Gives(H, t)
    <3>. HIDE DEF G, t, c, f
    <3>. QED
      BY <1>1, GivesExists
  <2>2. Gives(CHOOSE H : Gives(H, t), t)
    BY <2>1
  <2>. QED
    BY <2>2 DEF Gives
<1>4. t.capacity = c
  OBVIOUS
<1>. HIDE DEF G, t, c, f
<1>. DEFINE Q == {n \in 0..c : Lists(G[n], t, n)}
<1>5. 0 \in Q
  <2>1. Below(t, 0) = {}
    BY <1>1, EntriesFacts DEF Below
  <2>2. G[0] = <<>>
    BY <1>1, <1>3, <1>4 DEF Gives
  <2>3. DOMAIN G[0] = {} /\ G[0] \in Seq(Keys \X Values)
    BY <2>2
  <2>. QED
    BY <1>1, <2>1, <2>3 DEF Lists
<1>6. ASSUME NEW n \in 0..c-1, n \in Q PROVE n+1 \in Q
  <2>1. n+1 \in 0..c /\ n+1 # 0 /\ (n+1)-1 = n
    BY <1>1
  <2>2. G[n+1] = GivenTo(t, n, G[n])
    BY <1>3, <1>4, <2>1 DEF Gives, GivenTo
  <2>. QED
    BY <1>1, <1>6, <2>1, <2>2, ListsMore
<1>7. Lists(G[c], t, c)
  <2>1. \A n \in 0..c : n \in Q
    <3>. HIDE DEF Q
    <3>. QED
      BY <1>1, <1>5, <1>6, CountingFromZero
  <2>2. c \in 0..c
    BY <1>1
  <2>. QED
    BY <2>1, <2>2
<1>8. Below(t, c) = Entries(t)
  BY <1>1, EntriesFacts DEF Below
<1>9. {ItemOf(t, i) : i \in Entries(t)} = {<<k, Content(t)[k]>> : k \in DOMAIN Content(t)}
  <2>1. /\ DOMAIN Content(t) = KeysOf(t)
        /\ \A i \in Entries(t) : Content(t)[t.keys[i]] = t.values[i]
    BY <1>1, ContentIs
  <2>2. \A i \in Entries(t) : t.keys[i] \in KeysOf(t) /\ ItemOf(t, i) = <<t.keys[i], Content(t)[t.keys[i]]>>
    BY <2>1 DEF ItemOf, KeysOf
  <2>3. \A k \in KeysOf(t) : \E i \in Entries(t) : t.keys[i] = k
    BY DEF KeysOf
  <2>. QED
    BY <2>1, <2>2, <2>3
<1>. QED
  BY <1>2, <1>7, <1>8, <1>9 DEF Lists, t

---------------------------------------------------------------------------
(* The program.                                                            *)
LEMMA TableInit ==
  ASSUME HashtableAssumption, Init
  PROVE  Right(table) /\ Content(table) = <<>> /\ io = <<>>
<1>1. PICK e \in Expected, f \in BOOLEAN :
        table = Cleared(IF e = 0 THEN 0 ELSE CapacityFor(e), f)
  BY DEF Init
<1>. DEFINE c == IF e = 0 THEN 0 ELSE CapacityFor(e)
<1>2. MaxCapacity \in Nat /\ e \in Nat /\ 2 * e <= MaxCapacity /\ 2 * e <= 2 * MaxCapacity
  BY PowersEven DEF HashtableAssumption
<1>3. CapacityFor(e) \in PowersOf2 /\ CapacityFor(e) \in Nat /\ CapacityFor(e) > 1 /\ CapacityFor(e) <= MaxCapacity
  BY <1>2, CapacityFacts
<1>4. c \in Nat /\ c <= MaxCapacity /\ (c = 0 \/ (c \in PowersOf2 /\ c > 1))
  BY <1>2, <1>3
<1>. HIDE DEF c
<1>5. Right(Cleared(c, f)) /\ KeysOf(Cleared(c, f)) = {}
  BY <1>4, ClearedRight
<1>6. Right(table) /\ KeysOf(table) = {}
  BY <1>1, <1>5 DEF c
<1>7. DOMAIN Content(table) = {}
  BY <1>6, ContentIs DEF Right
<1>8. Content(table) = [x \in {} |-> x]
  BY <1>7 DEF Content
<1>. QED
  BY <1>6, <1>8 DEF Init

\* What each operation does to the table and to its content.
LEMMA ResizeStep ==
  ASSUME HashtableAssumption, Right(table), NEW e \in Expected, Resize(e)
  PROVE  Right(table') /\ Content(table') = Content(table) /\ io' = <<>>
<1>1. MaxCapacity \in Nat /\ e \in Nat /\ 2 * e <= MaxCapacity /\ 2 * e <= 2 * MaxCapacity
  BY PowersEven DEF HashtableAssumption
<1>2. CapacityFor(e) <= MaxCapacity
  BY <1>1, CapacityFacts
<1>3. table' = Resized(table, e) /\ io' = <<>> /\ table.count <= e
  <2>1. table.count \in Nat
    BY EntriesFacts DEF Right
  <2>. QED
    BY <1>1, <2>1 DEF Resize
<1>4. Right(Resized(table, e)) /\ Content(Resized(table, e)) = Content(table)
  BY <1>1, <1>2, <1>3, ResizedRight
<1>. QED
  BY <1>3, <1>4

LEMMA GetStep ==
  ASSUME HashtableAssumption, Right(table), NEW k \in Keys, Get(k)
  PROVE  /\ UNCHANGED table
         /\ io' = IF k \in DOMAIN Content(table) THEN <<k, Content(table)[k]>> ELSE <<k>>
<1>1. Sound(table) /\ table.count \in Nat /\ 2 * table.count <= table.capacity /\ table.capacity \in Nat
      /\ IsFiniteSet(Entries(table))
  BY EntriesFacts DEF Right
<1>2. CASE table.count = 0
  <2>1. Entries(table) = {}
    BY <1>1, <1>2, CountMembers DEF Sound
  <2>2. DOMAIN Content(table) = {}
    <3>1. KeysOf(table) = {}
      BY <2>1 DEF KeysOf
    <3>. QED
      BY <1>1, <3>1, ContentIs
  <2>. QED
    BY <1>2, <2>2 DEF Get
<1>3. CASE table.count # 0
  <2>1. table.capacity # 0
    BY <1>1, <1>3
  <2>. QED
    BY <1>3, <2>1, RightFinds DEF Get
<1>. QED
  BY <1>2, <1>3

LEMMA PutStep ==
  ASSUME HashtableAssumption, Right(table), NEW k \in Keys, NEW v \in Values, Put(k, v)
  PROVE  Right(table') /\ Content(table') = With(Content(table), k, v) /\ io' = <<k, v>>
<1>. DEFINE t == ForPut(table)
<1>1. Right(t) /\ Content(t) = Content(table) /\ 2 * (t.count + 1) <= t.capacity
  BY ForPutRight DEF Put
<1>2. table' = Stored(t, k, v) /\ io' = <<k, v>>
  BY DEF Put
<1>. HIDE DEF t
<1>3. Right(Stored(t, k, v)) /\ Content(Stored(t, k, v)) = With(Content(t), k, v)
  BY <1>1, PutRight
<1>. QED
  BY <1>1, <1>2, <1>3

LEMMA GetOrPutStep ==
  ASSUME HashtableAssumption, Right(table), NEW k \in Keys, NEW v \in Values, GetOrPut(k, v)
  PROVE  /\ Right(table')
         /\ k \in DOMAIN Content(table) =>
              Content(table') = Content(table) /\ io' = <<k, Content(table)[k], TRUE>>
         /\ k \notin DOMAIN Content(table) =>
              Content(table') = With(Content(table), k, v) /\ io' = <<k, v, FALSE>>
<1>. DEFINE t == ForPut(table)
            occupied == t.keys[SlotFor(t, k)] = k
<1>1. Right(t) /\ Content(t) = Content(table) /\ 2 * (t.count + 1) <= t.capacity
  BY ForPutRight DEF GetOrPut
<1>2. /\ table' = IF occupied THEN t ELSE Stored(t, k, v)
      /\ io' = <<k, table'.values[SlotFor(table', k)], occupied>>
  BY DEF GetOrPut
<1>3. occupied \in BOOLEAN
  OBVIOUS
<1>. HIDE DEF t
<1>4. t.capacity # 0
  <2>1. t.count \in Nat
    BY <1>1, EntriesFacts DEF Right
  <2>. QED
    BY <1>1, <2>1
<1>5. /\ k \in DOMAIN Content(t) => occupied /\ Content(t)[k] = t.values[SlotFor(t, k)]
      /\ k \notin DOMAIN Content(t) => ~ occupied
  BY <1>1, <1>4, RightFinds
<1>6. /\ Right(Stored(t, k, v)) /\ Content(Stored(t, k, v)) = With(Content(t), k, v)
      /\ SlotFor(Stored(t, k, v), k) = SlotFor(t, k) /\ Stored(t, k, v).values[SlotFor(t, k)] = v
  BY <1>1, PutRight
<1>. HIDE DEF occupied
<1>7. CASE k \in DOMAIN Content(table)
  <2>1. occupied = TRUE /\ table' = t
    BY <1>1, <1>2, <1>3, <1>5, <1>7
  <2>. QED
    BY <1>1, <1>2, <1>5, <1>7, <2>1
<1>8. CASE k \notin DOMAIN Content(table)
  <2>1. occupied = FALSE /\ table' = Stored(t, k, v)
    BY <1>1, <1>2, <1>3, <1>5, <1>8
  <2>. QED
    BY <1>1, <1>2, <1>6, <1>8, <2>1
<1>. QED
  BY <1>7, <1>8

LEMMA TableStep ==
  ASSUME HashtableAssumption, Right(table), [Next]_vars
  PROVE  Right(table')
<1>1. ASSUME NEW e \in Expected, Resize(e) PROVE Right(table')
  BY <1>1, ResizeStep
<1>2. ASSUME NEW k \in Keys, Get(k) PROVE Right(table')
  BY <1>2, GetStep
<1>3. ASSUME NEW k \in Keys, NEW v \in Values, Put(k, v) PROVE Right(table')
  BY <1>3, PutStep
<1>4. ASSUME NEW k \in Keys, NEW v \in Values, GetOrPut(k, v) PROVE Right(table')
  BY <1>4, GetOrPutStep
<1>5. CASE Iterate
  BY <1>5, IterateGives
<1>6. CASE UNCHANGED vars
  BY <1>6 DEF vars
<1>. QED
  BY <1>1, <1>2, <1>3, <1>4, <1>5, <1>6 DEF Next

LEMMA RightSearches ==
  ASSUME HashtableAssumption, Right(table)
  PROVE  HashtableSearchEnds
<1>1. /\ table.capacity \in Nat /\ table \in Tables(table.capacity, table.fixed) /\ Sound(table)
      /\ table.capacity = 0 \/ table.capacity \in PowersOf2
  BY DEF Right
<1>2. /\ table.keys \in [Slots(table) -> Keys \cup {ZeroKey}]
      /\ table.values \in [Slots(table) -> Values]
  BY <1>1, FieldsOfTable DEF Slots
<1>3. table.count = Cardinality({i \in Slots(table) : table.keys[i] # ZeroKey})
  BY <1>1 DEF Sound, Entries
<1>4. TypeOK
  BY <1>1, <1>2, <1>3 DEF TypeOK, IsPowerOf2
<1>5. SearchEnds
  BY <1>1, RightFinds DEF SearchEnds
<1>. QED
  BY <1>4, <1>5 DEF HashtableSearchEnds

\* A search always comes to an end (FindSlot, datatypes.h:1768): after every operation a
\* table that has slots has one that is free, the count is that of the entries, and the
\* probes for any key meet the key or a free slot; through growth, and at a fixed size.
THEOREM HashtableSearches == Spec => []HashtableSearchEnds
<1>. USE HashtableAssumption
<1>1. Init => Right(table)
  BY TableInit
<1>2. Right(table) /\ [Next]_vars => Right(table)'
  BY TableStep
<1>3. Right(table) => HashtableSearchEnds
  BY RightSearches
<1>. QED
  BY <1>1, <1>2, <1>3, PTL DEF Spec

\* A Hashtable is a map (datatypes.h:1604-1870): Get, Put, GetOrPut and the iterators answer
\* as ItemMap does from what was put and nothing else, whatever keys collide, and Resize
\* leaves it the map it was.
THEOREM HashtableIsMap == Spec => ImplementsMap
<1>. USE HashtableAssumption
<1>1. Init => Right(table) /\ Map!Init
  BY TableInit DEF Map!Init
<1>2. Right(table) /\ [Next]_vars => Right(table)'
  BY TableStep
<1>3. Right(table) /\ [Next]_vars => [Map!Next]_(Map!vars)
  <2>1. ASSUME Right(table), NEW e \in Expected, Resize(e) PROVE Map!Reorganise
    BY <2>1, ResizeStep DEF Map!Reorganise
  <2>2. ASSUME Right(table), NEW k \in Keys, Get(k) PROVE Map!Get(k)
    BY <2>2, GetStep DEF Map!Get, Map!Answer
  <2>3. ASSUME Right(table), NEW k \in Keys, NEW v \in Values, Put(k, v) PROVE Map!Put(k, v)
    BY <2>3, PutStep DEF Map!Put, Map!With, With
  <2>4. ASSUME Right(table), NEW k \in Keys, NEW v \in Values, GetOrPut(k, v) PROVE Map!GetOrPut(k, v)
    BY <2>4, GetOrPutStep DEF Map!GetOrPut, Map!With, With
  <2>5. ASSUME Right(table), Iterate PROVE Map!Iterate
    BY <2>5, IterateGives DEF Map!Iterate
  <2>6. UNCHANGED vars => UNCHANGED Map!vars
    BY DEF vars, Map!vars
  <2>. QED
    BY <2>1, <2>2, <2>3, <2>4, <2>5, <2>6 DEF Next, Map!Next
<1>. QED
  BY <1>1, <1>2, <1>3, PTL DEF Spec, ImplementsMap, Map!Spec

-----------------------------------------------------------------------------
(* Strings: the invariant is that each one that owns its characters has a    *)
(* block of its own, from its allocator and with its text in it, or says     *)
(* that it owns the empty literal, and that there are no other blocks.       *)

HasBlock(s) == s.owned /\ s.data # NoText

\* A String that owns its characters has a block of its allocator with its text in
\* it; one that does not, or that was constructed empty, refers to a literal.
Belongs(s, m, text) ==
  IF HasBlock(s)
  THEN /\ s.data \in DOMAIN m
       /\ m[s.data] = [text |-> text, pool |-> Str!Pool(s)]
  ELSE s.data \in Literals \cup {Null} /\ text = IF s.data = Null THEN NoText ELSE s.data

\* The strings, the memory, and what was last put in each string.
StringsRight(ss, m, texts) ==
  /\ ss \in [Names -> [data : StringBlocks \cup Literals \cup {Null}, owned : BOOLEAN, temporary : BOOLEAN]]
  /\ DOMAIN m \subseteq StringBlocks /\ texts \in [Names -> Literals]
  /\ \A n \in Names : Belongs(ss[n], m, texts[n])
  /\ \A n, k \in Names : n # k /\ HasBlock(ss[n]) /\ HasBlock(ss[k]) => ss[n].data # ss[k].data
  /\ \A b \in DOMAIN m : \E n \in Names : HasBlock(ss[n]) /\ ss[n].data = b

StringsInv == StringsRight(sStrings, sMem, sIo) /\ sMisfreed \subseteq {NoText}

\* A string that has no block is given a literal or nullptr.
LEMMA PutLiteral ==
  ASSUME NEW ss, NEW m, NEW texts, StringsRight(ss, m, texts), NEW n \in Names, ~ HasBlock(ss[n]),
         NEW s \in [data : Literals \cup {Null}, owned : BOOLEAN, temporary : BOOLEAN], ~ HasBlock(s),
         NEW text \in Literals, text = IF s.data = Null THEN NoText ELSE s.data
  PROVE  StringsRight([ss EXCEPT ![n] = s], m, [texts EXCEPT ![n] = text])
<1>. DEFINE now == [ss EXCEPT ![n] = s]
            texts2 == [texts EXCEPT ![n] = text]
<1>1. /\ now \in [Names -> [data : StringBlocks \cup Literals \cup {Null}, owned : BOOLEAN, temporary : BOOLEAN]]
      /\ texts2 \in [Names -> Literals] /\ DOMAIN m \subseteq StringBlocks
  BY DEF StringsRight
<1>2. now[n] = s /\ texts2[n] = text
      /\ \A k \in Names \ {n} : now[k] = ss[k] /\ texts2[k] = texts[k]
  BY DEF StringsRight
<1>. HIDE DEF now, texts2
<1>3. Belongs(now[n], m, texts2[n]) /\ ~ HasBlock(now[n])
  BY <1>2 DEF Belongs
<1>4. \A k \in Names : Belongs(now[k], m, texts2[k])
  BY <1>2, <1>3 DEF StringsRight
<1>5. \A b \in DOMAIN m : \E k \in Names : HasBlock(now[k]) /\ now[k].data = b
  BY <1>2 DEF StringsRight
<1>6. \A k, l \in Names : k # l /\ HasBlock(now[k]) /\ HasBlock(now[l]) => now[k].data # now[l].data
  BY <1>2, <1>3 DEF StringsRight
<1>7. StringsRight(now, m, texts2)
  BY <1>1, <1>4, <1>5, <1>6 DEF StringsRight
<1>. QED
  BY <1>7 DEF now, texts2

\* A string that has no block is given a new one.
LEMMA PutBlock ==
  ASSUME NoText \notin StringBlocks,
         NEW ss, NEW m, NEW texts, StringsRight(ss, m, texts), NEW n \in Names, ~ HasBlock(ss[n]),
         NEW s \in [data : StringBlocks \ DOMAIN m, owned : {TRUE}, temporary : BOOLEAN],
         NEW text \in Literals
  PROVE  StringsRight([ss EXCEPT ![n] = s],
                      Str!Put(m, s.data, [text |-> text, pool |-> Str!Pool(s)]),
                      [texts EXCEPT ![n] = text])
<1>. DEFINE now == [ss EXCEPT ![n] = s]
            texts2 == [texts EXCEPT ![n] = text]
            new == [text |-> text, pool |-> Str!Pool(s)]
            m2 == Str!Put(m, s.data, new)
<1>1. /\ now \in [Names -> [data : StringBlocks \cup Literals \cup {Null}, owned : BOOLEAN, temporary : BOOLEAN]]
      /\ texts2 \in [Names -> Literals] /\ DOMAIN m \subseteq StringBlocks
  BY DEF StringsRight
<1>2. now[n] = s /\ texts2[n] = text
      /\ \A k \in Names \ {n} : now[k] = ss[k] /\ texts2[k] = texts[k]
  BY DEF StringsRight
<1>. HIDE DEF new
<1>3. /\ DOMAIN m2 = DOMAIN m \cup {s.data} /\ s.data \notin DOMAIN m /\ s.data \in StringBlocks
      /\ m2[s.data] = new /\ \A b \in DOMAIN m : m2[b] = m[b]
  BY DEF Str!Put
<1>. HIDE DEF now, texts2, m2
<1>4. Belongs(now[n], m2, texts2[n]) /\ HasBlock(now[n])
  BY <1>2, <1>3 DEF Belongs, HasBlock, new
<1>5. ASSUME NEW k \in Names \ {n}
      PROVE  Belongs(now[k], m2, texts2[k]) /\ (HasBlock(now[k]) => now[k].data \in DOMAIN m)
  <2>1. Belongs(ss[k], m, texts[k])
    BY DEF StringsRight
  <2>. QED
    BY <1>2, <1>3, <2>1 DEF Belongs
<1>6. ASSUME NEW b \in DOMAIN m2 PROVE \E k \in Names : HasBlock(now[k]) /\ now[k].data = b
  <2>1. CASE b = s.data
    BY <1>2, <1>4, <2>1
  <2>2. CASE b \in DOMAIN m
    <3>1. PICK k \in Names : HasBlock(ss[k]) /\ ss[k].data = b
      BY <2>2 DEF StringsRight
    <3>. QED
      BY <1>2, <3>1
  <2>. QED
    BY <1>3, <2>1, <2>2
<1>7. \A k, l \in Names : k # l /\ HasBlock(now[k]) /\ HasBlock(now[l]) => now[k].data # now[l].data
  <2>1. \A k, l \in Names \ {n} : k # l /\ HasBlock(now[k]) /\ HasBlock(now[l]) => now[k].data # now[l].data
    BY <1>2 DEF StringsRight
  <2>2. \A k \in Names \ {n} : HasBlock(now[k]) => now[k].data # now[n].data
    BY <1>2, <1>3, <1>5
  <2>. QED
    BY <2>1, <2>2
<1>8. StringsRight(now, m2, texts2)
  <2>1. \A k \in Names : Belongs(now[k], m2, texts2[k])
    BY <1>4, <1>5
  <2>. QED
    BY <1>1, <1>3, <1>6, <1>7, <2>1 DEF StringsRight
<1>. QED
  BY <1>8 DEF now, texts2, m2, new

\* c is what Clear makes of a string s, with the memory m.
Freed(c, s, m) == \E bad \in SUBSET {NoText} : c = Str!Clear([s |-> s, mem |-> m, bad |-> bad])

\* A block goes back to the allocator it is from, and the others keep theirs.
LEMMA ClearRight ==
  ASSUME NoText \in Literals, Null \notin Literals \cup StringBlocks, Literals \cap StringBlocks = {},
         NEW ss, NEW m, NEW texts, StringsRight(ss, m, texts), NEW n \in Names,
         NEW c, Freed(c, ss[n], m)
  PROVE  /\ c.s = [data |-> Null, owned |-> FALSE, temporary |-> ss[n].temporary]
         /\ c = [s |-> c.s, mem |-> c.mem, bad |-> c.bad] /\ c.bad \subseteq {NoText}
         /\ DOMAIN c.mem \subseteq DOMAIN m
         /\ StringsRight([ss EXCEPT ![n] = c.s], c.mem, [texts EXCEPT ![n] = NoText])
<1>. DEFINE now == [ss EXCEPT ![n] = c.s]
            texts2 == [texts EXCEPT ![n] = NoText]
<1>1. /\ Belongs(ss[n], m, texts[n]) /\ DOMAIN m \subseteq StringBlocks
      /\ ss[n] \in [data : StringBlocks \cup Literals \cup {Null}, owned : BOOLEAN, temporary : BOOLEAN]
  BY DEF StringsRight
<1>2. PICK bad \in SUBSET {NoText} : c = Str!Clear([s |-> ss[n], mem |-> m, bad |-> bad])
  BY DEF Freed
<1>3. /\ c.s = [data |-> Null, owned |-> FALSE, temporary |-> ss[n].temporary]
      /\ c.mem = IF HasBlock(ss[n]) THEN Str!Without(m, ss[n].data) ELSE m
      /\ c = [s |-> c.s, mem |-> c.mem, bad |-> c.bad] /\ c.bad \subseteq {NoText}
  <2>1. CASE HasBlock(ss[n])
    <3>1. /\ ss[n].owned /\ ss[n].data \in DOMAIN m
          /\ m[ss[n].data].pool = Str!Pool(ss[n])
      BY <1>1, <2>1 DEF Belongs, HasBlock
    <3>. QED
      BY <1>2, <2>1, <3>1 DEF Str!Clear
  <2>2. CASE ~ HasBlock(ss[n])
    <3>1. /\ ss[n].data \in Literals \cup {Null} /\ ss[n].data \notin DOMAIN m
          /\ ss[n].owned => ss[n].data = NoText
      BY <1>1, <2>2 DEF Belongs, HasBlock
    <3>. QED
      BY <1>2, <2>2, <3>1 DEF Str!Clear
  <2>. QED
    BY <2>1, <2>2
<1>4. /\ now \in [Names -> [data : StringBlocks \cup Literals \cup {Null}, owned : BOOLEAN, temporary : BOOLEAN]]
      /\ texts2 \in [Names -> Literals]
  <2>1. ss[n].temporary \in BOOLEAN
    BY <1>1
  <2>2. c.s \in [data : StringBlocks \cup Literals \cup {Null}, owned : BOOLEAN, temporary : BOOLEAN]
    BY <1>3, <2>1
  <2>. QED
    BY <2>2 DEF StringsRight, now, texts2
<1>5. now[n] = c.s /\ texts2[n] = NoText
      /\ \A k \in Names \ {n} : now[k] = ss[k] /\ texts2[k] = texts[k]
  BY DEF StringsRight
<1>6. /\ DOMAIN c.mem = IF HasBlock(ss[n]) THEN DOMAIN m \ {ss[n].data} ELSE DOMAIN m
      /\ \A b \in DOMAIN c.mem : c.mem[b] = m[b]
  BY <1>3 DEF Str!Without
<1>. HIDE DEF now, texts2
<1>7. Belongs(now[n], c.mem, texts2[n]) /\ ~ HasBlock(now[n])
  BY <1>3, <1>5 DEF Belongs, HasBlock
<1>8. ASSUME NEW k \in Names \ {n} PROVE Belongs(now[k], c.mem, texts2[k])
  <2>1. Belongs(ss[k], m, texts[k])
    BY DEF StringsRight
  <2>2. HasBlock(ss[k]) => ss[k].data \in DOMAIN m /\ (HasBlock(ss[n]) => ss[k].data # ss[n].data)
    BY <2>1 DEF Belongs, StringsRight
  <2>. QED
    BY <1>5, <1>6, <2>1, <2>2 DEF Belongs
<1>9. ASSUME NEW b \in DOMAIN c.mem PROVE \E k \in Names : HasBlock(now[k]) /\ now[k].data = b
  <2>1. b \in DOMAIN m /\ (HasBlock(ss[n]) => b # ss[n].data)
    BY <1>6
  <2>2. PICK k \in Names : HasBlock(ss[k]) /\ ss[k].data = b
    BY <2>1 DEF StringsRight
  <2>3. k # n
    BY <2>1, <2>2
  <2>. QED
    BY <1>5, <2>2, <2>3
<1>10. \A k, l \in Names : k # l /\ HasBlock(now[k]) /\ HasBlock(now[l]) => now[k].data # now[l].data
  <2>1. \A k, l \in Names \ {n} : k # l /\ HasBlock(now[k]) /\ HasBlock(now[l]) => now[k].data # now[l].data
    BY <1>5 DEF StringsRight
  <2>. QED
    BY <1>7, <2>1
<1>11. StringsRight(now, c.mem, texts2)
  <2>1. \A k \in Names : Belongs(now[k], c.mem, texts2[k])
    BY <1>7, <1>8
  <2>2. DOMAIN c.mem \subseteq StringBlocks
    BY <1>1, <1>6
  <2>. QED
    BY <1>4, <1>9, <1>10, <2>1, <2>2 DEF StringsRight
<1>12. DOMAIN c.mem \subseteq DOMAIN m
  BY <1>6
<1>. QED
  BY <1>3, <1>11, <1>12 DEF now, texts2

\* A string hands over what it has to one that has no block.
LEMMA HandOverRight ==
  ASSUME NoText \in Literals,
         NEW ss, NEW m, NEW texts, StringsRight(ss, m, texts), NEW n \in Names, ~ HasBlock(ss[n]),
         NEW k \in Names \ {n}, NEW left,
         left = [data |-> Null, owned |-> FALSE, temporary |-> ss[k].temporary]
  PROVE  StringsRight([ss EXCEPT ![n] = ss[k], ![k] = left], m,
                      [texts EXCEPT ![n] = texts[k], ![k] = NoText])
<1>. DEFINE now == [ss EXCEPT ![n] = ss[k], ![k] = left]
            texts2 == [texts EXCEPT ![n] = texts[k], ![k] = NoText]
<1>1. /\ now \in [Names -> [data : StringBlocks \cup Literals \cup {Null}, owned : BOOLEAN, temporary : BOOLEAN]]
      /\ texts2 \in [Names -> Literals] /\ DOMAIN m \subseteq StringBlocks
  <2>1. ss[k] \in [data : StringBlocks \cup Literals \cup {Null}, owned : BOOLEAN, temporary : BOOLEAN]
    BY DEF StringsRight
  <2>2. left \in [data : StringBlocks \cup Literals \cup {Null}, owned : BOOLEAN, temporary : BOOLEAN]
    BY <2>1
  <2>. QED
    BY <2>1, <2>2 DEF StringsRight
<1>2. /\ now[n] = ss[k] /\ texts2[n] = texts[k] /\ now[k] = left /\ texts2[k] = NoText
      /\ \A l \in Names \ {n, k} : now[l] = ss[l] /\ texts2[l] = texts[l]
  BY DEF StringsRight
<1>. HIDE DEF now, texts2
<1>3. ~ HasBlock(now[k]) /\ Belongs(now[k], m, texts2[k])
  BY <1>2 DEF Belongs, HasBlock
<1>4. \A l \in Names : Belongs(now[l], m, texts2[l])
  BY <1>2, <1>3 DEF StringsRight
<1>5. ASSUME NEW b \in DOMAIN m PROVE \E l \in Names : HasBlock(now[l]) /\ now[l].data = b
  <2>1. PICK l \in Names : HasBlock(ss[l]) /\ ss[l].data = b
    BY DEF StringsRight
  <2>2. CASE l = k
    BY <1>2, <2>1, <2>2
  <2>3. CASE l # k
    BY <1>2, <2>1, <2>3
  <2>. QED
    BY <2>2, <2>3
<1>6. ASSUME NEW i \in Names, NEW j \in Names, i # j, HasBlock(now[i]), HasBlock(now[j])
      PROVE  now[i].data # now[j].data
  <2>1. i # k /\ j # k
    BY <1>3, <1>6
  <2>2. \A l \in Names \ {n, k} : HasBlock(ss[l]) /\ HasBlock(ss[k]) => ss[l].data # ss[k].data
    BY DEF StringsRight
  <2>3. CASE i = n
    BY <1>2, <1>6, <2>1, <2>2, <2>3
  <2>4. CASE j = n
    BY <1>2, <1>6, <2>1, <2>2, <2>4
  <2>5. CASE i # n /\ j # n
    BY <1>2, <1>6, <2>1, <2>5 DEF StringsRight
  <2>. QED
    BY <2>3, <2>4, <2>5
<1>7. StringsRight(now, m, texts2)
  BY <1>1, <1>4, <1>5, <1>6 DEF StringsRight
<1>. QED
  BY <1>7 DEF now, texts2

\* What the assumption says of the literals, and of the text at an address.
LEMMA TextOf ==
  ASSUME Str!StringsAssumption, StringsInv, NEW n \in Names
  PROVE  /\ Str!TextAt(sStrings[n].data) = sIo[n] /\ sIo[n] \in Literals
         /\ sStrings[n].owned \in BOOLEAN /\ sStrings[n].temporary \in BOOLEAN
         /\ ~ sStrings[n].owned => sStrings[n].data \in Literals \cup {Null}
<1>1. /\ Belongs(sStrings[n], sMem, sIo[n]) /\ sIo[n] \in Literals /\ DOMAIN sMem \subseteq StringBlocks
      /\ sStrings[n] \in [data : StringBlocks \cup Literals \cup {Null}, owned : BOOLEAN, temporary : BOOLEAN]
  BY DEF StringsInv, StringsRight
<1>2. CASE HasBlock(sStrings[n])
  <2>1. sStrings[n].data \in DOMAIN sMem /\ sMem[sStrings[n].data].text = sIo[n] /\ sStrings[n].owned
    BY <1>1, <1>2 DEF Belongs, HasBlock
  <2>2. sStrings[n].data \notin Literals /\ sStrings[n].data # Null
    BY <1>1, <2>1 DEF Str!StringsAssumption
  <2>. QED
    BY <1>1, <2>1, <2>2 DEF Str!TextAt
<1>3. CASE ~ HasBlock(sStrings[n])
  BY <1>1, <1>3 DEF Belongs, Str!TextAt
<1>. QED
  BY <1>2, <1>3

\* What every assignment begins with.
LEMMA ClearedString ==
  ASSUME Str!StringsAssumption, StringsInv, NEW n \in Names, NEW c, Freed(c, sStrings[n], sMem)
  PROVE  /\ c.s = [data |-> Null, owned |-> FALSE, temporary |-> sStrings[n].temporary]
         /\ c = [s |-> c.s, mem |-> c.mem, bad |-> c.bad] /\ sStrings[n].temporary \in BOOLEAN
         /\ c.bad \subseteq {NoText}
         /\ Str!Room => StringBlocks \ DOMAIN c.mem # {}
         /\ StringsRight([sStrings EXCEPT ![n] = c.s], c.mem, [sIo EXCEPT ![n] = NoText])
<1>1. NoText \in Literals /\ Null \notin Literals \cup StringBlocks /\ Literals \cap StringBlocks = {}
  BY DEF Str!StringsAssumption
<1>2. StringsRight(sStrings, sMem, sIo)
  BY DEF StringsInv
<1>3. /\ c.s = [data |-> Null, owned |-> FALSE, temporary |-> sStrings[n].temporary]
      /\ c = [s |-> c.s, mem |-> c.mem, bad |-> c.bad] /\ sStrings[n].temporary \in BOOLEAN
      /\ c.bad \subseteq {NoText}
      /\ DOMAIN c.mem \subseteq DOMAIN sMem
      /\ StringsRight([sStrings EXCEPT ![n] = c.s], c.mem, [sIo EXCEPT ![n] = NoText])
  BY <1>1, <1>2, ClearRight, TextOf
<1>4. Str!Room => StringBlocks \ DOMAIN c.mem # {}
  BY <1>3 DEF Str!Room
<1>. QED
  BY <1>3, <1>4

\* A string that has no block is allocated one, with the flags it has been given.
LEMMA AllocatedRight ==
  ASSUME NoText \notin StringBlocks,
         NEW ss, NEW texts, NEW d, StringsRight(ss, d.mem, texts), NEW n \in Names, ~ HasBlock(ss[n]),
         StringBlocks \ DOMAIN d.mem # {}, d.s.temporary \in BOOLEAN,
         NEW text \in Literals
  PROVE  StringsRight([ss EXCEPT ![n] = Str!Allocated(d, text).s], Str!Allocated(d, text).mem,
                      [texts EXCEPT ![n] = text])
<1>. DEFINE b == Str!NextBlock(d.mem)
            t == [data |-> b, owned |-> TRUE, temporary |-> d.s.temporary]
            m2 == Str!Put(d.mem, b, [text |-> text, pool |-> Str!Pool(t)])
            a == Str!Allocated(d, text)
<1>1. b \in StringBlocks \ DOMAIN d.mem
  BY DEF Str!NextBlock
<1>2. a.s = t /\ a.mem = m2
  <2>1. Str!Pool(d.s) = Str!Pool(t)
    BY DEF Str!Pool
  <2>. HIDE DEF b
  <2>. QED
    BY <2>1 DEF Str!Allocated, b
<1>. HIDE DEF b
<1>3. t \in [data : StringBlocks \ DOMAIN d.mem, owned : {TRUE}, temporary : BOOLEAN] /\ t.data = b
  BY <1>1
<1>. HIDE DEF a, t
<1>4. StringsRight([ss EXCEPT ![n] = t], m2, [texts EXCEPT ![n] = text])
  BY <1>3, PutBlock
<1>. HIDE DEF m2
<1>5. StringsRight([ss EXCEPT ![n] = a.s], a.mem, [texts EXCEPT ![n] = text])
  BY <1>2, <1>4
<1>. QED
  BY <1>5 DEF a

LEMMA ClearedOn ==
  ASSUME StringsInv, NEW n \in Names PROVE Freed(Str!Clear(Str!On(n)), sStrings[n], sMem)
BY DEF StringsInv, Freed, Str!On

LEMMA ExceptAgain ==
  ASSUME NEW f, NEW n, NEW v, NEW w PROVE [[f EXCEPT ![n] = v] EXCEPT ![n] = w] = [f EXCEPT ![n] = w]
OBVIOUS

\* A string that has been cleared is given a block,
LEMMA ThenBlock ==
  ASSUME Str!StringsAssumption, StringsInv, NEW n \in Names, NEW c, Freed(c, sStrings[n], sMem),
         Str!Room, NEW d, d.mem = c.mem, d.s.temporary \in BOOLEAN,
         NEW text \in Literals
  PROVE  StringsRight([sStrings EXCEPT ![n] = Str!Allocated(d, text).s], Str!Allocated(d, text).mem,
                      [sIo EXCEPT ![n] = text])
<1>. DEFINE ss == [sStrings EXCEPT ![n] = c.s]
            texts == [sIo EXCEPT ![n] = NoText]
            a == Str!Allocated(d, text)
<1>1. /\ StringsRight(ss, c.mem, texts) /\ StringBlocks \ DOMAIN c.mem # {}
      /\ c.s = [data |-> Null, owned |-> FALSE, temporary |-> sStrings[n].temporary]
  BY ClearedString
<1>2. ss[n] = c.s
  BY DEF StringsInv, StringsRight
<1>3. ~ HasBlock(ss[n]) /\ NoText \notin StringBlocks
  BY <1>1, <1>2 DEF HasBlock, Str!StringsAssumption
<1>. HIDE DEF ss, texts
<1>4. StringsRight([ss EXCEPT ![n] = a.s], a.mem, [texts EXCEPT ![n] = text])
  BY <1>1, <1>3, AllocatedRight
<1>. HIDE DEF a
<1>5. /\ [ss EXCEPT ![n] = a.s] = [sStrings EXCEPT ![n] = a.s]
      /\ [texts EXCEPT ![n] = text] = [sIo EXCEPT ![n] = text]
  BY ExceptAgain DEF ss, texts
<1>6. StringsRight([sStrings EXCEPT ![n] = a.s], a.mem, [sIo EXCEPT ![n] = text])
  BY <1>4, <1>5
<1>. QED
  BY <1>6 DEF a

\* or a literal.
LEMMA ThenLiteral ==
  ASSUME Str!StringsAssumption, StringsInv, NEW n \in Names, NEW c, Freed(c, sStrings[n], sMem),
         NEW s \in [data : Literals \cup {Null}, owned : BOOLEAN, temporary : BOOLEAN], ~ HasBlock(s),
         NEW text \in Literals, text = IF s.data = Null THEN NoText ELSE s.data
  PROVE  StringsRight([sStrings EXCEPT ![n] = s], c.mem, [sIo EXCEPT ![n] = text])
<1>. DEFINE ss == [sStrings EXCEPT ![n] = c.s]
            texts == [sIo EXCEPT ![n] = NoText]
<1>1. /\ StringsRight(ss, c.mem, texts)
      /\ c.s = [data |-> Null, owned |-> FALSE, temporary |-> sStrings[n].temporary]
  BY ClearedString
<1>2. ss[n] = c.s
  BY DEF StringsInv, StringsRight
<1>3. ~ HasBlock(ss[n])
  BY <1>1, <1>2 DEF HasBlock
<1>. HIDE DEF ss, texts
<1>4. StringsRight([ss EXCEPT ![n] = s], c.mem, [texts EXCEPT ![n] = text])
  BY <1>1, <1>3, PutLiteral
<1>5. /\ [ss EXCEPT ![n] = s] = [sStrings EXCEPT ![n] = s]
      /\ [texts EXCEPT ![n] = text] = [sIo EXCEPT ![n] = text]
  BY ExceptAgain DEF ss, texts
<1>. QED
  BY <1>4, <1>5

LEMMA CloneFields ==
  ASSUME NEW d, NEW text, NEW a, a \in {Str!InternalClone(d, text), Str!Allocated(d, text)}
  PROVE  a = [s |-> a.s, mem |-> a.mem, bad |-> a.bad] /\ a.bad = d.bad
BY DEF Str!InternalClone, Str!Allocated, Str!WithData

\* InternalClone gives it a block, or the empty literal with the flags it has; Reset
\* always gives it a block.
LEMMA ThenClone ==
  ASSUME Str!StringsAssumption, StringsInv, Str!Room, NEW n \in Names, NEW c, Freed(c, sStrings[n], sMem),
         NEW d, d.mem = c.mem, d.s.temporary \in BOOLEAN, d.s.owned \in BOOLEAN,
         NEW text \in Literals, NEW a, a \in {Str!InternalClone(d, text), Str!Allocated(d, text)}
  PROVE  StringsRight([sStrings EXCEPT ![n] = a.s], a.mem, [sIo EXCEPT ![n] = text])
<1>1. CASE a = Str!Allocated(d, text)
  <2>1. StringsRight([sStrings EXCEPT ![n] = Str!Allocated(d, text).s], Str!Allocated(d, text).mem,
                     [sIo EXCEPT ![n] = text])
    BY ThenBlock
  <2>. QED
    BY <1>1, <2>1
<1>2. CASE text = NoText /\ a = Str!WithData(d, NoText)
  <2>1. /\ a.s = [data |-> NoText, owned |-> d.s.owned, temporary |-> d.s.temporary]
        /\ a.mem = c.mem
    BY <1>2 DEF Str!WithData
  <2>2. a.s \in [data : Literals \cup {Null}, owned : BOOLEAN, temporary : BOOLEAN] /\ ~ HasBlock(a.s)
    BY <1>2, <2>1 DEF HasBlock
  <2>3. text = IF a.s.data = Null THEN NoText ELSE a.s.data
    BY <1>2, <2>1
  <2>4. StringsRight([sStrings EXCEPT ![n] = a.s], c.mem, [sIo EXCEPT ![n] = text])
    BY <2>2, <2>3, ThenLiteral
  <2>. QED
    BY <2>1, <2>4
<1>. QED
  BY <1>1, <1>2 DEF Str!InternalClone

\* The steps that put a text in one string.
LEMMA CloneStep ==
  ASSUME Str!StringsAssumption, StringsInv, Str!Room, NEW n \in Names, NEW c, Freed(c, sStrings[n], sMem),
         NEW d, d.mem = c.mem, d.bad = c.bad, d.s.temporary \in BOOLEAN, d.s.owned \in BOOLEAN,
         NEW text \in Literals, NEW a, a \in {Str!InternalClone(d, text), Str!Allocated(d, text)},
         Str!Becomes(n, a), sIo' = [sIo EXCEPT ![n] = text]
  PROVE  StringsInv'
<1>0. a.bad = d.bad
  BY CloneFields
<1>1. StringsRight([sStrings EXCEPT ![n] = a.s], a.mem, [sIo EXCEPT ![n] = text])
  BY ThenClone
<1>2. sStrings' = [sStrings EXCEPT ![n] = a.s] /\ sMem' = a.mem /\ sMisfreed' = a.bad
  BY DEF Str!Becomes
<1>3. c.bad \subseteq {NoText}
  BY ClearedString
<1>4. sMisfreed' \subseteq {NoText}
  BY <1>0, <1>2, <1>3
<1>. QED
  BY <1>1, <1>2, <1>4 DEF StringsInv

LEMMA LiteralStep ==
  ASSUME Str!StringsAssumption, StringsInv, NEW n \in Names, NEW c, Freed(c, sStrings[n], sMem),
         NEW d, d.mem = c.mem, d.bad = c.bad,
         d.s \in [data : Literals \cup {Null}, owned : {FALSE}, temporary : BOOLEAN],
         NEW text \in Literals, text = IF d.s.data = Null THEN NoText ELSE d.s.data,
         Str!Becomes(n, d), sIo' = [sIo EXCEPT ![n] = text]
  PROVE  StringsInv'
<1>1. d.s \in [data : Literals \cup {Null}, owned : BOOLEAN, temporary : BOOLEAN] /\ ~ HasBlock(d.s)
  BY DEF HasBlock
<1>2. StringsRight([sStrings EXCEPT ![n] = d.s], c.mem, [sIo EXCEPT ![n] = text])
  BY <1>1, ThenLiteral
<1>3. sStrings' = [sStrings EXCEPT ![n] = d.s] /\ sMem' = c.mem /\ sMisfreed' = d.bad
  BY DEF Str!Becomes
<1>4. c.bad \subseteq {NoText}
  BY ClearedString
<1>5. sMisfreed' \subseteq {NoText}
  BY <1>3, <1>4
<1>. QED
  BY <1>2, <1>3, <1>5 DEF StringsInv

LEMMA AssignStep ==
  ASSUME Str!StringsAssumption, StringsInv, NEW n \in Names,
         \/ \E t \in Literals, tmp \in BOOLEAN : Str!Construct(n, t, tmp) \/ Str!Reset(n, t, tmp)
         \/ \E t \in Literals : Str!AssignLiteral(n, t) \/ Str!Refer(n, t)
         \/ Str!AssignItself(n) \/ Str!ClearString(n)
  PROVE  StringsInv'
<1>. DEFINE c == Str!Clear(Str!On(n))
<1>1. Freed(c, sStrings[n], sMem)
  BY ClearedOn
<1>2. /\ c.s = [data |-> Null, owned |-> FALSE, temporary |-> sStrings[n].temporary]
      /\ sStrings[n].temporary \in BOOLEAN /\ NoText \in Literals /\ Null \notin Literals
  BY <1>1, ClearedString DEF Str!StringsAssumption
<1>3. ASSUME NEW t \in Literals, NEW tmp \in BOOLEAN, Str!Construct(n, t, tmp) \/ Str!Reset(n, t, tmp)
      PROVE  StringsInv'
  <2>. DEFINE d == Str!WithFlags(c, TRUE, tmp)
  <2>1. d.mem = c.mem /\ d.bad = c.bad /\ d.s.temporary = tmp /\ d.s.owned = TRUE
    BY DEF Str!WithFlags
  <2>2. /\ Str!Room /\ sIo' = [sIo EXCEPT ![n] = t]
        /\ Str!Becomes(n, Str!InternalClone(d, t)) \/ Str!Becomes(n, Str!Allocated(d, t))
    BY <1>3 DEF Str!Construct, Str!Reset
  <2>3. d.s.temporary \in BOOLEAN /\ d.s.owned \in BOOLEAN
    BY <2>1
  <2>. HIDE DEF c, d
  <2>4. PICK a \in {Str!InternalClone(d, t), Str!Allocated(d, t)} : Str!Becomes(n, a)
    BY <2>2
  <2>. QED
    BY <1>1, <2>1, <2>2, <2>3, <2>4, CloneStep
<1>4. ASSUME NEW t \in Literals, Str!AssignLiteral(n, t)
      PROVE  StringsInv'
  <2>1. Str!Room /\ Str!Becomes(n, Str!InternalClone(c, t)) /\ sIo' = [sIo EXCEPT ![n] = t]
    BY <1>4 DEF Str!AssignLiteral
  <2>. HIDE DEF c
  <2>2. c.s.temporary \in BOOLEAN /\ c.s.owned \in BOOLEAN
    BY <1>2
  <2>3. PICK a \in {Str!InternalClone(c, t), Str!Allocated(c, t)} : Str!Becomes(n, a)
    BY <2>1
  <2>. QED
    BY <1>1, <2>1, <2>2, <2>3, CloneStep
<1>5. ASSUME NEW t \in Literals, Str!Refer(n, t)
      PROVE  StringsInv'
  <2>. DEFINE d == Str!WithData(Str!WithFlags(c, FALSE, FALSE), t)
  <2>1. d.mem = c.mem /\ d.bad = c.bad /\ d.s = [data |-> t, owned |-> FALSE, temporary |-> FALSE]
    BY DEF Str!WithFlags, Str!WithData
  <2>2. Str!Becomes(n, d) /\ sIo' = [sIo EXCEPT ![n] = t]
    BY <1>5 DEF Str!Refer
  <2>. HIDE DEF c, d
  <2>3. /\ d.s \in [data : Literals \cup {Null}, owned : {FALSE}, temporary : BOOLEAN]
        /\ t = IF d.s.data = Null THEN NoText ELSE d.s.data
    BY <1>2, <2>1
  <2>. QED
    BY <1>1, <2>1, <2>2, <2>3, LiteralStep
<1>6. CASE Str!ClearString(n)
  <2>1. Str!Becomes(n, c) /\ sIo' = [sIo EXCEPT ![n] = NoText]
    BY <1>6 DEF Str!ClearString
  <2>. HIDE DEF c
  <2>2. /\ c.s \in [data : Literals \cup {Null}, owned : {FALSE}, temporary : BOOLEAN]
        /\ NoText = IF c.s.data = Null THEN NoText ELSE c.s.data
    BY <1>2
  <2>. QED
    BY <1>1, <1>2, <2>1, <2>2, LiteralStep
<1>7. CASE Str!AssignItself(n)
  <2>. DEFINE d == Str!WithData(Str!WithFlags(c, FALSE, sStrings[n].temporary), Null)
  <2>1. /\ d.mem = c.mem /\ d.bad = c.bad
        /\ d.s = [data |-> Null, owned |-> FALSE, temporary |-> sStrings[n].temporary]
    BY DEF Str!WithFlags, Str!WithData
  <2>2. Str!Becomes(n, Str!Copied(Str!On(n), c.s)) /\ sIo' = [sIo EXCEPT ![n] = NoText]
    BY <1>7 DEF Str!AssignItself
  <2>3. Str!Copied(Str!On(n), c.s) = d
    BY <1>2 DEF Str!Copied
  <2>. HIDE DEF c, d
  <2>4. /\ d.s \in [data : Literals \cup {Null}, owned : {FALSE}, temporary : BOOLEAN]
        /\ NoText = IF d.s.data = Null THEN NoText ELSE d.s.data
    BY <1>2, <2>1
  <2>5. Str!Becomes(n, d)
    BY <2>2, <2>3
  <2>. QED
    BY <1>1, <1>2, <2>1, <2>2, <2>4, <2>5, LiteralStep
<1>. QED
  BY <1>3, <1>4, <1>5, <1>6, <1>7

LEMMA MakeOwnedStep ==
  ASSUME Str!StringsAssumption, StringsInv, NEW n \in Names, Str!MakeOwned(n)
  PROVE  StringsInv'
<1>. DEFINE c == Str!Clear(Str!On(n))
            d == Str!On(n)
            a == Str!InternalClone(d, sIo[n])
<1>1. /\ ~ sStrings[n].owned /\ Str!Room /\ sIo' = sIo
      /\ Str!Becomes(n, Str!InternalClone(d, Str!TextAt(sStrings[n].data)))
  BY DEF Str!MakeOwned
<1>2. /\ Str!TextAt(sStrings[n].data) = sIo[n] /\ sIo[n] \in Literals
      /\ sStrings[n].owned \in BOOLEAN /\ sStrings[n].temporary \in BOOLEAN
  BY TextOf
<1>3. Freed(c, sStrings[n], sMem)
  BY ClearedOn
<1>4. d.s = sStrings[n] /\ d.mem = c.mem /\ d.bad = c.bad
  BY <1>1 DEF Str!On, Str!Clear
<1>5. sIo' = [sIo EXCEPT ![n] = sIo[n]]
  BY <1>1 DEF StringsInv, StringsRight
<1>. HIDE DEF c, d
<1>6. Str!Becomes(n, a) /\ a \in {Str!InternalClone(d, sIo[n]), Str!Allocated(d, sIo[n])}
  BY <1>1, <1>2
<1>7. d.s.temporary \in BOOLEAN /\ d.s.owned \in BOOLEAN
  BY <1>2, <1>4
<1>. HIDE DEF a
<1>. QED
  BY <1>1, <1>2, <1>3, <1>4, <1>5, <1>6, <1>7, CloneStep

LEMMA CopyStep ==
  ASSUME Str!StringsAssumption, StringsInv, NEW n \in Names, NEW m \in Names, Str!CopyAssign(n, m)
  PROVE  StringsInv'
<1>. DEFINE c == Str!Clear(Str!On(n))
            d == Str!WithFlags(c, sStrings[m].owned, sStrings[m].temporary)
<1>1. Freed(c, sStrings[n], sMem) /\ NoText \in Literals /\ Null \notin Literals
  BY ClearedOn DEF Str!StringsAssumption
<1>2. /\ Str!TextAt(sStrings[m].data) = sIo[m] /\ sIo[m] \in Literals
      /\ sStrings[m].owned \in BOOLEAN /\ sStrings[m].temporary \in BOOLEAN
      /\ ~ sStrings[m].owned => sStrings[m].data \in Literals \cup {Null}
  BY TextOf
<1>3. Str!Room /\ Str!Becomes(n, Str!Copied(Str!On(n), sStrings[m])) /\ sIo' = [sIo EXCEPT ![n] = sIo[m]]
  BY DEF Str!CopyAssign
<1>4. d.mem = c.mem /\ d.bad = c.bad
      /\ d.s = [data |-> c.s.data, owned |-> sStrings[m].owned, temporary |-> sStrings[m].temporary]
  BY DEF Str!WithFlags
<1>5. CASE sStrings[m].owned
  <2>. DEFINE a == Str!InternalClone(d, sIo[m])
  <2>1. Str!Becomes(n, a)
    BY <1>2, <1>3, <1>5 DEF Str!Copied
  <2>. HIDE DEF c, d
  <2>2. d.s.temporary \in BOOLEAN /\ d.s.owned \in BOOLEAN
    BY <1>2, <1>4
  <2>3. a \in {Str!InternalClone(d, sIo[m]), Str!Allocated(d, sIo[m])}
    OBVIOUS
  <2>. HIDE DEF a
  <2>. QED
    BY <1>1, <1>2, <1>3, <1>4, <2>1, <2>2, <2>3, CloneStep
<1>6. CASE ~ sStrings[m].owned
  <2>. DEFINE e == Str!WithData(d, sStrings[m].data)
  <2>1. Str!Becomes(n, e)
    BY <1>3, <1>6 DEF Str!Copied
  <2>. HIDE DEF c, d
  <2>2. /\ e.mem = c.mem /\ e.bad = c.bad
        /\ e.s = [data |-> sStrings[m].data, owned |-> sStrings[m].owned, temporary |-> sStrings[m].temporary]
    BY <1>4 DEF Str!WithData
  <2>. HIDE DEF e
  <2>3. sStrings[m].owned = FALSE
    BY <1>2, <1>6
  <2>4. sIo[m] = IF sStrings[m].data = Null THEN NoText ELSE sStrings[m].data
    BY <1>6 DEF StringsInv, StringsRight, Belongs, HasBlock
  <2>5. /\ e.s \in [data : Literals \cup {Null}, owned : {FALSE}, temporary : BOOLEAN]
        /\ sIo[m] = IF e.s.data = Null THEN NoText ELSE e.s.data
    <3>1. e.s = [data |-> sStrings[m].data, owned |-> FALSE, temporary |-> sStrings[m].temporary]
      BY <2>2, <2>3
    <3>. QED
      BY <1>2, <1>6, <2>4, <3>1
  <2>. QED
    BY <1>1, <1>2, <1>3, <2>1, <2>2, <2>5, LiteralStep
<1>. QED
  BY <1>5, <1>6

LEMMA CountOf ==
  ASSUME NEW S PROVE Str!Cardinality(S) = Cardinality(S)
BY DEF Str!Cardinality, Cardinality

LEMMA MoveStep ==
  ASSUME Str!StringsAssumption, StringsInv, NEW n \in Names, NEW m \in Names, Str!MoveAssign(n, m)
  PROVE  StringsInv'
<1>. DEFINE other == sStrings[m]
            c == Str!Clear(Str!On(n))
            d == Str!WithFlags(c, other.owned, other.temporary)
            force == Str!ForcesCopy(sStrings[n], other)
            taken == IF force THEN Str!InternalClone(d, Str!TextAt(other.data))
                              ELSE Str!WithData(d, other.data)
            gone == Str!Disowned(other, force)
            left == Str!Clear([taken EXCEPT !.s = gone])
<1>1. /\ Freed(c, sStrings[n], sMem) /\ NoText \in Literals /\ Null \notin Literals \cup StringBlocks
      /\ Literals \cap StringBlocks = {}
  BY ClearedOn DEF Str!StringsAssumption
<1>2. /\ Str!TextAt(other.data) = sIo[m] /\ sIo[m] \in Literals
      /\ other.owned \in BOOLEAN /\ other.temporary \in BOOLEAN
  BY TextOf
<1>3. /\ n # m /\ Str!Room /\ sIo' = [sIo EXCEPT ![n] = sIo[m], ![m] = NoText]
      /\ sStrings' = [sStrings EXCEPT ![n] = taken.s, ![m] = left.s]
      /\ sMem' = left.mem /\ sMisfreed' = left.bad
  BY DEF Str!MoveAssign
<1>4. d.mem = c.mem /\ d.bad = c.bad
      /\ d.s = [data |-> c.s.data, owned |-> other.owned, temporary |-> other.temporary]
  BY DEF Str!WithFlags
<1>5. /\ c.s = [data |-> Null, owned |-> FALSE, temporary |-> sStrings[n].temporary]
      /\ c.bad \subseteq {NoText}
      /\ StringsRight([sStrings EXCEPT ![n] = c.s], c.mem, [sIo EXCEPT ![n] = NoText])
  BY <1>1, ClearedString
<1>6. other = [data |-> other.data, owned |-> other.owned, temporary |-> other.temporary]
      /\ DOMAIN sStrings = Names /\ DOMAIN sIo = Names
  BY DEF StringsInv, StringsRight
<1>. HIDE DEF c, d, force
<1>8. CASE force
  <2>. DEFINE a == Str!InternalClone(d, sIo[m])
              ss == [sStrings EXCEPT ![n] = a.s]
              texts == [sIo EXCEPT ![n] = sIo[m]]
  <2>1. other.owned
    BY <1>8 DEF force, Str!ForcesCopy
  <2>2. taken = a
    <3>1. taken = Str!InternalClone(d, Str!TextAt(other.data))
      BY <1>8
    <3>2. Str!TextAt(other.data) = sIo[m]
      BY <1>2
    <3>. HIDE DEF taken, other
    <3>. QED
      BY <3>1, <3>2
  <2>3. d.s.temporary \in BOOLEAN /\ d.s.owned \in BOOLEAN
    BY <1>2, <1>4
  <2>4. a \in {Str!InternalClone(d, sIo[m]), Str!Allocated(d, sIo[m])}
    OBVIOUS
  <2>. HIDE DEF a
  <2>5. /\ a = [s |-> a.s, mem |-> a.mem, bad |-> a.bad] /\ a.bad = d.bad
        /\ StringsRight(ss, a.mem, texts)
    <3>. HIDE DEF other
    <3>1. a = [s |-> a.s, mem |-> a.mem, bad |-> a.bad] /\ a.bad = d.bad
      BY <2>4, CloneFields
    <3>2. StringsRight(ss, a.mem, texts)
      BY <1>1, <1>2, <1>3, <1>4, <2>3, <2>4, ThenClone
    <3>. QED
      BY <3>1, <3>2
  <2>6. ss[m] = other /\ m \in Names
    BY <1>3, <1>6
  <2>7. Freed(left, ss[m], a.mem)
    <3>1. gone = other
      BY <1>2, <1>6, <1>8, <2>1 DEF Str!Disowned
    <3>2. a.bad \in SUBSET {NoText}
      BY <1>4, <1>5, <2>5
    <3>. HIDE DEF gone, other, taken, ss
    <3>3. [a EXCEPT !.s = gone] = [s |-> gone, mem |-> a.mem, bad |-> a.bad]
      BY <2>5
    <3>4. left = Str!Clear([s |-> other, mem |-> a.mem, bad |-> a.bad])
      BY <2>2, <3>1, <3>3
    <3>. HIDE DEF left
    <3>. QED
      BY <2>6, <3>2, <3>4 DEF Freed
  <2>. HIDE DEF ss, texts, left
  <2>8. /\ left.bad \subseteq {NoText}
        /\ StringsRight([ss EXCEPT ![m] = left.s], left.mem, [texts EXCEPT ![m] = NoText])
    <3>. HIDE DEF other, taken, gone
    <3>. QED
      BY <1>1, <2>5, <2>6, <2>7, ClearRight
  <2>9. sStrings' = [ss EXCEPT ![m] = left.s] /\ sIo' = [texts EXCEPT ![m] = NoText]
    BY <1>3, <2>2 DEF ss, texts
  <2>. QED
    BY <1>3, <2>8, <2>9 DEF StringsInv
<1>9. CASE ~ force
  <2>. DEFINE ss == [sStrings EXCEPT ![n] = c.s]
              texts == [sIo EXCEPT ![n] = NoText]
  <2>1. gone.owned = FALSE /\ gone.temporary = other.temporary
    BY <1>2, <1>6, <1>9 DEF Str!Disowned
  <2>2. taken.s = other /\ taken = [s |-> taken.s, mem |-> c.mem, bad |-> c.bad]
    BY <1>4, <1>6, <1>9 DEF Str!WithData
  <2>3. /\ left.s = [data |-> Null, owned |-> FALSE, temporary |-> other.temporary]
        /\ left.mem = c.mem /\ left.bad = c.bad
    <3>. HIDE DEF gone, taken, other
    <3>1. left = Str!Clear([s |-> gone, mem |-> c.mem, bad |-> c.bad])
      BY <2>2
    <3>. HIDE DEF left
    <3>. QED
      BY <2>1, <3>1 DEF Str!Clear
  <2>4. ss[n] = c.s /\ ss[m] = other /\ texts[m] = sIo[m]
    BY <1>3, <1>6
  <2>5. ~ HasBlock(ss[n]) /\ m \in Names \ {n}
    BY <1>3, <1>5, <2>4 DEF HasBlock
  <2>. HIDE DEF left, taken
  <2>6. StringsRight([ss EXCEPT ![n] = other, ![m] = left.s], c.mem, [texts EXCEPT ![n] = sIo[m], ![m] = NoText])
    <3>1. StringsRight(ss, c.mem, texts)
      BY <1>5
    <3>. HIDE DEF ss, texts, other
    <3>2. left.s = [data |-> Null, owned |-> FALSE, temporary |-> ss[m].temporary]
      BY <2>3, <2>4
    <3>3. StringsRight([ss EXCEPT ![n] = ss[m], ![m] = left.s], c.mem,
                       [texts EXCEPT ![n] = texts[m], ![m] = NoText])
      BY <1>1, <2>5, <3>1, <3>2, HandOverRight
    <3>. QED
      BY <2>4, <3>3
  <2>7. /\ sStrings' = [ss EXCEPT ![n] = other, ![m] = left.s]
        /\ sIo' = [texts EXCEPT ![n] = sIo[m], ![m] = NoText]
    BY <1>3, <2>2
  <2>. QED
    BY <1>3, <1>5, <2>3, <2>6, <2>7 DEF StringsInv
<1>. QED
  BY <1>8, <1>9

\* What the invariant says of blocks and of what is read.
LEMMA StringsInvSays ==
  ASSUME Str!StringsAssumption, StringsInv
  PROVE  StringBlocksHaveOwners
<1>1. Str!TypeOK
  BY DEF StringsInv, StringsRight, Str!TypeOK
<1>2. ASSUME NEW b \in DOMAIN sMem
      PROVE  /\ Cardinality(Str!Owners(b)) = 1
             /\ \A n \in Str!Owners(b) : sMem[b].pool = Str!Pool(sStrings[n])
  <2>1. PICK n \in Names : HasBlock(sStrings[n]) /\ sStrings[n].data = b
    BY DEF StringsInv, StringsRight
  <2>2. Str!Owners(b) = {n}
    <3>1. b # NoText /\ sStrings[n].owned
      BY <2>1 DEF HasBlock
    <3>2. \A k \in Names \ {n} : ~ (sStrings[k].owned /\ sStrings[k].data = b)
      BY <2>1, <3>1 DEF StringsInv, StringsRight, HasBlock
    <3>. QED
      BY <2>1, <3>1, <3>2 DEF Str!Owners
  <2>3. sMem[b].pool = Str!Pool(sStrings[n])
    <3>1. sMem[b] = [text |-> sIo[n], pool |-> Str!Pool(sStrings[n])]
      BY <2>1 DEF StringsInv, StringsRight, Belongs
    <3>. QED
      BY <3>1
  <2>. QED
    BY <2>2, <2>3, FS_Singleton
<1>3. Str!ReadsAsAssigned
  BY TextOf DEF Str!ReadsAsAssigned
<1>4. sMisfreed \subseteq {NoText}
  BY DEF StringsInv
<1>5. Str!BlocksHaveOwners
  <2>1. \A b \in DOMAIN sMem : /\ Str!Cardinality(Str!Owners(b)) = 1
                             /\ \A n \in Str!Owners(b) : sMem[b].pool = Str!Pool(sStrings[n])
    BY <1>2, CountOf
  <2>. QED
    BY <1>4, <2>1 DEF Str!BlocksHaveOwners
<1>. QED
  BY <1>1, <1>3, <1>5 DEF StringBlocksHaveOwners

\* Whatever is assigned, copied, moved and cleared, every block has one String that owns
\* it and frees it with the allocator it is from, nothing else is ever freed but the empty
\* literal of a String that was constructed empty, and a String reads as what was last put
\* in it (strings.h, strings.cpp).
THEOREM StringsOwnBlocks == Str!Spec => []StringBlocksHaveOwners
<1>. USE ContainersAssumptions DEF ContainersAssumptions
<1>1. Str!Init => StringsInv
  BY DEF Str!StringsAssumption, Str!Init, StringsInv, StringsRight, Belongs, HasBlock
<1>2. StringsInv /\ [Str!Next]_(Str!vars) => StringsInv'
  <2>1. CASE UNCHANGED Str!vars
    BY <2>1 DEF Str!vars, StringsInv
  <2>2. ASSUME StringsInv, Str!Next PROVE StringsInv'
    BY <2>2, AssignStep, MakeOwnedStep, CopyStep, MoveStep DEF Str!Next
  <2>. QED
    BY <2>1, <2>2
<1>. QED
  BY <1>1, <1>2, StringsInvSays, PTL DEF Str!Spec

---------------------------------------------------------------------------
(* Arrays: what makes one right with the memory m, and all of them.        *)
Capable(c) == c \in Nat /\ \E k \in Capacities \cup {BufferLen} : c <= k

ViewOf(a, m) ==
  /\ a \in [data : ArrayBlocks \cup {Buffer, NoBlock}, count : Nat, capacity : Nat, allocator : BOOLEAN]
  /\ a.count <= a.capacity
  /\ a.data = NoBlock => a.capacity = 0
  /\ a.data # NoBlock => Capable(a.capacity) /\ m[a.data] \in [1..a.capacity -> Arr!Stored]
  /\ a.allocator <=> a.data \in ArrayBlocks
  /\ a.data = Buffer => a.capacity = BufferLen

ArraysRight(as, m) ==
  /\ DOMAIN as = ArrayNames /\ DOMAIN m = ArrayBlocks \cup {Buffer}
  /\ as = [n \in ArrayNames |-> as[n]]
  /\ m[Buffer] \in [1..BufferLen -> Arr!Stored]
  /\ \A n \in ArrayNames : ViewOf(as[n], m)
  /\ \A n, k \in ArrayNames : n # k /\ as[n].data # NoBlock => as[n].data # as[k].data

\* What a block holds is not what a free one has.
LEMMA ContentsKept ==
  ASSUME ContainersAssumptions, NEW c, Capable(c), NEW f \in [1..c -> Arr!Stored]
  PROVE  f # NoContents
<1>1. PICK k \in Capacities \cup {BufferLen} : c \in 0..k
  BY DEF Capable, ContainersAssumptions, Arr!ArrayAssumption
<1>. QED
  BY <1>1 DEF ContainersAssumptions, Arr!ArrayAssumption

\* One array is changed, and no block but its own and a free one.
LEMMA ArrayChanged ==
  ASSUME ContainersAssumptions, NEW as, NEW m, ArraysRight(as, m), NEW n \in ArrayNames,
         NEW r, NEW m2, DOMAIN m2 = DOMAIN m, ViewOf(r, m2),
         m2[Buffer] \in [1..BufferLen -> Arr!Stored],
         \A b \in DOMAIN m : b # as[n].data /\ m[b] # NoContents => m2[b] = m[b],
         r.data # NoBlock => \A k \in ArrayNames : k # n => as[k].data # r.data
  PROVE  ArraysRight([as EXCEPT ![n] = r], m2)
<1>. DEFINE now == [as EXCEPT ![n] = r]
<1>1. /\ DOMAIN now = ArrayNames /\ now = [k \in ArrayNames |-> now[k]] /\ now[n] = r
      /\ \A k \in ArrayNames : k # n => now[k] = as[k]
  BY DEF ArraysRight
<1>. HIDE DEF now
<1>2. ASSUME NEW k \in ArrayNames, k # n PROVE ViewOf(now[k], m2)
  <2>1. now[k] = as[k] /\ ViewOf(as[k], m)
    BY <1>1, <1>2 DEF ArraysRight
  <2>2. CASE as[k].data = NoBlock
    BY <2>1, <2>2 DEF ViewOf
  <2>3. CASE as[k].data # NoBlock
    <3>1. as[k].data \in DOMAIN m /\ as[k].data # as[n].data
      BY <1>2, <2>1, <2>3 DEF ViewOf, ArraysRight
    <3>2. m[as[k].data] # NoContents
      BY <2>1, <2>3, ContentsKept DEF ViewOf
    <3>3. m2[as[k].data] = m[as[k].data]
      BY <3>1, <3>2
    <3>. QED
      BY <2>1, <2>3, <3>3 DEF ViewOf
  <2>. QED
    BY <2>2, <2>3
<1>3. ASSUME NEW k \in ArrayNames, NEW l \in ArrayNames, k # l, now[k].data # NoBlock
      PROVE  now[k].data # now[l].data
  <2>1. \A i, j \in ArrayNames : i # j /\ as[i].data # NoBlock => as[i].data # as[j].data
    BY DEF ArraysRight
  <2>2. CASE k = n
    BY <1>1, <1>3, <2>2
  <2>3. CASE l = n
    <3>1. now[k].data = as[k].data /\ now[l].data = r.data
      BY <1>1, <1>3, <2>3
    <3>. QED
      BY <1>3, <2>3, <3>1
  <2>4. CASE k # n /\ l # n
    <3>1. now[k].data = as[k].data /\ now[l].data = as[l].data
      BY <1>1, <2>4
    <3>. QED
      BY <1>3, <2>1, <3>1
  <2>. QED
    BY <2>2, <2>3, <2>4
<1>. QED
  BY <1>1, <1>2, <1>3 DEF ArraysRight, now

\* Two arrays change places: what is moved is left without a block.
LEMMA ArrayMoved ==
  ASSUME ContainersAssumptions, NEW as, NEW m, ArraysRight(as, m),
         NEW n \in ArrayNames, NEW k \in ArrayNames
  PROVE  ArraysRight([as EXCEPT ![n] = as[k], ![k] = Arr!Unset], m)
<1>. DEFINE now == [as EXCEPT ![n] = as[k], ![k] = Arr!Unset]
<1>1. /\ DOMAIN now = ArrayNames /\ now = [l \in ArrayNames |-> now[l]]
      /\ (n # k => now[n] = as[k]) /\ now[k] = Arr!Unset
      /\ \A l \in ArrayNames : l # n /\ l # k => now[l] = as[l]
  BY DEF ArraysRight
<1>. HIDE DEF now
<1>2. NoBlock \notin ArrayBlocks \cup {Buffer}
  BY DEF ContainersAssumptions, Arr!ArrayAssumption
<1>3. ViewOf(Arr!Unset, m)
  BY <1>2 DEF ViewOf, Arr!Unset
<1>4. Arr!Unset.data = NoBlock
  BY DEF Arr!Unset
<1>5. ASSUME NEW i \in ArrayNames, NEW j \in ArrayNames, i # j, now[i].data # NoBlock
      PROVE  now[i].data # now[j].data
  <2>1. \A h, l \in ArrayNames : h # l /\ as[h].data # NoBlock => as[h].data # as[l].data
    BY DEF ArraysRight
  <2>2. i # k
    BY <1>1, <1>4, <1>5
  <2>3. CASE j = k
    BY <1>1, <1>4, <1>5, <2>3
  <2>4. CASE i = n /\ j # k
    <3>1. now[i].data = as[k].data /\ now[j].data = as[j].data
      BY <1>1, <1>5, <2>2, <2>4
    <3>. QED
      BY <1>5, <2>1, <2>4, <3>1
  <2>5. CASE j = n /\ j # k
    <3>1. now[i].data = as[i].data /\ now[j].data = as[k].data
      BY <1>1, <1>5, <2>2, <2>5
    <3>. QED
      BY <1>5, <2>1, <2>2, <3>1
  <2>6. CASE i # n /\ j # n /\ j # k
    <3>1. now[i].data = as[i].data /\ now[j].data = as[j].data
      BY <1>1, <2>2, <2>6
    <3>. QED
      BY <1>5, <2>1, <3>1
  <2>. QED
    BY <2>3, <2>4, <2>5, <2>6
<1>6. \A l \in ArrayNames : ViewOf(now[l], m)
  BY <1>1, <1>3 DEF ArraysRight
<1>. QED
  BY <1>1, <1>5, <1>6 DEF ArraysRight, now

\* A free block is given to an array, which gives its own back.
LEMMA ArrayMade ==
  ASSUME ContainersAssumptions, ArraysRight(aArrays, aMem), Arr!CanAlloc,
         NEW n \in ArrayNames, NEW c, Capable(c), NEW k \in 0..c, NEW f \in [1..c -> Arr!Stored],
         NEW with, with = [aMem EXCEPT ![Arr!NewBlock] = f],
         NEW m, m = Arr!Released(n, with) \/ (aArrays[n].data = NoBlock /\ m = with)
  PROVE  ArraysRight([aArrays EXCEPT ![n] =
           [data |-> Arr!NewBlock, count |-> k, capacity |-> c, allocator |-> TRUE]], m)
<1>. DEFINE b == Arr!NewBlock
            r == [data |-> b, count |-> k, capacity |-> c, allocator |-> TRUE]
            old == aArrays[n].data
<1>1. b \in ArrayBlocks /\ aMem[b] = NoContents
  BY DEF Arr!CanAlloc, Arr!NewBlock
<1>. HIDE DEF b
<1>2. /\ DOMAIN aMem = ArrayBlocks \cup {Buffer} /\ ViewOf(aArrays[n], aMem)
      /\ aMem[Buffer] \in [1..BufferLen -> Arr!Stored]
  BY DEF ArraysRight
<1>3. /\ Buffer \notin ArrayBlocks /\ NoBlock \notin ArrayBlocks \cup {Buffer}
      /\ BufferLen \in Nat
  BY DEF ContainersAssumptions, Arr!ArrayAssumption
<1>4. \A l \in ArrayNames : aArrays[l].data # b
  <2>. SUFFICES ASSUME NEW l \in ArrayNames, aArrays[l].data = b PROVE FALSE
    OBVIOUS
  <2>1. ViewOf(aArrays[l], aMem)
    BY DEF ArraysRight
  <2>. QED
    BY <2>1, <1>1, <1>3, ContentsKept DEF ViewOf
<1>5. /\ DOMAIN with = DOMAIN aMem /\ with[b] = f
      /\ \A x \in DOMAIN aMem : x # b => with[x] = aMem[x]
  BY <1>1, <1>2 DEF b
<1>6. m = with \/ (old \in ArrayBlocks /\ m = [with EXCEPT ![old] = NoContents])
  BY <1>2 DEF Arr!Released, ViewOf, b
<1>7. /\ DOMAIN m = DOMAIN aMem /\ m[b] = f /\ m[Buffer] = aMem[Buffer]
      /\ \A x \in DOMAIN aMem : x # old /\ x # b => m[x] = aMem[x]
  BY <1>1, <1>2, <1>3, <1>4, <1>5, <1>6
<1>8. ViewOf(r, m)
  BY <1>1, <1>3, <1>7 DEF ViewOf, Capable
<1>9. \A x \in DOMAIN aMem : x # old /\ aMem[x] # NoContents => m[x] = aMem[x]
  BY <1>1, <1>7
<1>10. r.data # NoBlock => \A l \in ArrayNames : l # n => aArrays[l].data # r.data
  BY <1>4
<1>. HIDE DEF r
<1>11. ArraysRight([aArrays EXCEPT ![n] = r], m)
  BY <1>2, <1>7, <1>8, <1>9, <1>10, ArrayChanged
<1>. QED
  BY <1>11 DEF r, b

\* Items are stored in the block an array has.
LEMMA ArrayStored ==
  ASSUME ContainersAssumptions, ArraysRight(aArrays, aMem),
         NEW n \in ArrayNames, aArrays[n].data # NoBlock,
         NEW k \in 0..aArrays[n].capacity, NEW f \in [1..aArrays[n].capacity -> Arr!Stored]
  PROVE  ArraysRight([aArrays EXCEPT ![n].count = k], [aMem EXCEPT ![aArrays[n].data] = f])
<1>. DEFINE a == aArrays[n]
            r == [a EXCEPT !.count = k]
            m == [aMem EXCEPT ![a.data] = f]
<1>1. /\ DOMAIN aMem = ArrayBlocks \cup {Buffer} /\ ViewOf(a, aMem)
      /\ aMem[Buffer] \in [1..BufferLen -> Arr!Stored]
      /\ \A l \in ArrayNames : l # n => aArrays[l].data # a.data
  BY DEF ArraysRight
<1>2. a.data \in DOMAIN aMem
  BY <1>1 DEF ViewOf
<1>3. /\ DOMAIN m = DOMAIN aMem /\ m[a.data] = f
      /\ \A x \in DOMAIN aMem : x # a.data => m[x] = aMem[x]
  BY <1>1, <1>2
<1>4. m[Buffer] \in [1..BufferLen -> Arr!Stored]
  BY <1>1, <1>3 DEF ViewOf
<1>5. r.data = a.data
  BY <1>1 DEF ViewOf
<1>6. ViewOf(r, m)
  BY <1>1, <1>3 DEF ViewOf
<1>. HIDE DEF m
<1>7. ArraysRight([aArrays EXCEPT ![n] = r], m)
  <2>. HIDE DEF r
  <2>. QED
    BY <1>1, <1>3, <1>4, <1>5, <1>6, ArrayChanged
<1>8. [aArrays EXCEPT ![n] = r] = [aArrays EXCEPT ![n].count = k]
  OBVIOUS
<1>. QED
  BY <1>7, <1>8 DEF m

\* Only the count changes, within the capacity.
LEMMA ArrayCounted ==
  ASSUME ContainersAssumptions, ArraysRight(aArrays, aMem), NEW n \in ArrayNames,
         NEW k \in 0..aArrays[n].capacity
  PROVE  ArraysRight([aArrays EXCEPT ![n].count = k], aMem)
<1>. DEFINE r == [aArrays[n] EXCEPT !.count = k]
<1>1. /\ ViewOf(aArrays[n], aMem) /\ aMem[Buffer] \in [1..BufferLen -> Arr!Stored]
      /\ \A l \in ArrayNames : l # n /\ aArrays[n].data # NoBlock => aArrays[l].data # aArrays[n].data
  BY DEF ArraysRight
<1>2. ViewOf(r, aMem) /\ r.data = aArrays[n].data
  BY <1>1 DEF ViewOf
<1>3. ArraysRight([aArrays EXCEPT ![n] = r], aMem)
  <2>. HIDE DEF r
  <2>. QED
    BY <1>1, <1>2, ArrayChanged
<1>4. [aArrays EXCEPT ![n] = r] = [aArrays EXCEPT ![n].count = k]
  OBVIOUS
<1>. QED
  BY <1>3, <1>4

\* What is copied out of an array's own items.
LEMMA CopiedIs ==
  ASSUME ContainersAssumptions, ArraysRight(aArrays, aMem), NEW n \in ArrayNames,
         NEW k \in 0..aArrays[n].count, NEW c \in Nat
  PROVE  Arr!Copied(aArrays[n].data, k, c) \in [1..c -> Arr!Stored]
<1>1. ViewOf(aArrays[n], aMem)
  BY DEF ArraysRight
<1>2. ASSUME NEW i \in 1..c, i <= k PROVE aMem[aArrays[n].data][i] \in Arr!Stored
  <2>1. aArrays[n].data # NoBlock /\ i \in 1..aArrays[n].capacity
    BY <1>1, <1>2 DEF ViewOf
  <2>. QED
    BY <1>1, <2>1 DEF ViewOf
<1>. QED
  BY <1>2 DEF Arr!Copied, Arr!Stored

ArraysRightNow == ArraysRight(aArrays, aMem)

LEMMA ArrayNumbers ==
  ASSUME ContainersAssumptions, ArraysRightNow, NEW n \in ArrayNames
  PROVE  /\ aArrays[n].count \in Nat /\ aArrays[n].capacity \in Nat
         /\ aArrays[n].count <= aArrays[n].capacity
         /\ aArrays[n].data # NoBlock =>
              /\ Capable(aArrays[n].capacity) /\ Capable(aArrays[n].count)
              /\ aMem[aArrays[n].data] \in [1..aArrays[n].capacity -> Arr!Stored]
              /\ DOMAIN aMem[aArrays[n].data] = 1..aArrays[n].capacity
         /\ aArrays[n].capacity > 0 => aArrays[n].data # NoBlock
         /\ BufferLen \in Nat /\ Capable(BufferLen) /\ \A c \in Capacities : Capable(c)
<1>1. ViewOf(aArrays[n], aMem)
  BY DEF ArraysRightNow, ArraysRight
<1>2. BufferLen \in Nat /\ Capacities \subseteq Nat
  BY DEF ContainersAssumptions, Arr!ArrayAssumption
<1>3. \A c \in Capacities : c \in Nat /\ c <= c
  BY <1>2
<1>. QED
  BY <1>1, <1>2, <1>3 DEF ViewOf, Capable

\* The constructors, Clone and Reset.
LEMMA ArrayMakeSteps ==
  ASSUME ContainersAssumptions, ArraysRightNow, NEW n \in ArrayNames,
         \/ \E c \in Capacities : Arr!Make(n, c)
         \/ \E c \in Capacities, clear \in BOOLEAN : Arr!Reset(n, c, clear)
         \/ \E k \in ArrayNames : \E c \in {Arr!Count(k), aArrays[k].capacity} : Arr!Clone(n, k, c)
  PROVE  ArraysRightNow'
<1>1. CASE \E c \in Capacities : Arr!Make(n, c)
  <2>1. PICK c \in Capacities : Arr!Make(n, c)
    BY <1>1
  <2>2. c \in Nat /\ Capable(c) /\ 0 \in 0..c
    BY ArrayNumbers DEF Capable
  <2>. DEFINE f == [i \in 1..c |-> Junk]
  <2>3. f \in [1..c -> Arr!Stored]
    BY DEF Arr!Stored
  <2>4. /\ Arr!CanAlloc /\ aArrays[n].data = NoBlock /\ aMem' = [aMem EXCEPT ![Arr!NewBlock] = f]
        /\ aArrays' = [aArrays EXCEPT ![n] = [data |-> Arr!NewBlock, count |-> 0, capacity |-> c, allocator |-> TRUE]]
    BY <2>1 DEF Arr!Make
  <2>. HIDE DEF f
  <2>. QED
    BY <2>2, <2>3, <2>4, ArrayMade DEF ArraysRightNow
<1>2. CASE \E c \in Capacities, clear \in BOOLEAN : Arr!Reset(n, c, clear)
  <2>1. PICK c \in Capacities, clear \in BOOLEAN : Arr!Reset(n, c, clear)
    BY <1>2
  <2>. DEFINE s == Arr!Smaller(Arr!Count(n), c)
              k == IF clear THEN 0 ELSE s
              f == Arr!Copied(aArrays[n].data, s, c)
  <2>2. c \in Nat /\ Capable(c)
    BY ArrayNumbers DEF Capable
  <2>3. s \in 0..c /\ s \in 0..aArrays[n].count
    BY <2>2, ArrayNumbers DEF Arr!Smaller, Arr!Count
  <2>4. k \in 0..c
    BY <2>2, <2>3
  <2>5. /\ Arr!CanAlloc /\ aMem' = Arr!Released(n, [aMem EXCEPT ![Arr!NewBlock] = f])
        /\ aArrays' = [aArrays EXCEPT ![n] = [data |-> Arr!NewBlock, capacity |-> c, allocator |-> TRUE, count |-> k]]
    BY <2>1 DEF Arr!Reset
  <2>. HIDE DEF s, k
  <2>6. f \in [1..c -> Arr!Stored]
    BY <2>2, <2>3, CopiedIs DEF ArraysRightNow
  <2>. HIDE DEF f
  <2>7. aArrays' = [aArrays EXCEPT ![n] = [data |-> Arr!NewBlock, count |-> k, capacity |-> c, allocator |-> TRUE]]
    BY <2>5
  <2>. DEFINE with == [aMem EXCEPT ![Arr!NewBlock] = f]
  <2>8. with = [aMem EXCEPT ![Arr!NewBlock] = f] /\ aMem' = Arr!Released(n, with)
    BY <2>5
  <2>. HIDE DEF with
  <2>9. ArraysRight([aArrays EXCEPT ![n] =
          [data |-> Arr!NewBlock, count |-> k, capacity |-> c, allocator |-> TRUE]], aMem')
    BY <2>2, <2>4, <2>5, <2>6, <2>8, ArrayMade DEF ArraysRightNow
  <2>. QED
    BY <2>7, <2>9 DEF ArraysRightNow
<1>3. CASE \E k \in ArrayNames : \E c \in {Arr!Count(k), aArrays[k].capacity} : Arr!Clone(n, k, c)
  <2>1. PICK k \in ArrayNames : \E c \in {Arr!Count(k), aArrays[k].capacity} : Arr!Clone(n, k, c)
    BY <1>3
  <2>2. PICK c \in {Arr!Count(k), aArrays[k].capacity} : Arr!Clone(n, k, c)
    BY <2>1
  <2>. DEFINE s == Arr!Count(k)
              f == Arr!Copied(aArrays[k].data, s, c)
  <2>3. /\ Arr!CanAlloc /\ aArrays[n].data = NoBlock /\ aArrays[k].data # NoBlock
        /\ aMem' = [aMem EXCEPT ![Arr!NewBlock] = f]
        /\ aArrays' = [aArrays EXCEPT ![n] = [data |-> Arr!NewBlock, count |-> s, capacity |-> c, allocator |-> TRUE]]
    BY <2>2 DEF Arr!Clone
  <2>4. Capable(c) /\ c \in Nat /\ s \in 0..c /\ s \in 0..aArrays[k].count
    BY <2>3, ArrayNumbers DEF Arr!Count, Capable
  <2>. HIDE DEF s
  <2>5. f \in [1..c -> Arr!Stored]
    BY <2>4, CopiedIs DEF ArraysRightNow
  <2>. HIDE DEF f
  <2>. QED
    BY <2>3, <2>4, <2>5, ArrayMade DEF ArraysRightNow
<1>. QED
  BY <1>1, <1>2, <1>3

\* A view of the caller's buffer; giving the block back; moving it to another array.
LEMMA ArrayHandOverSteps ==
  ASSUME ContainersAssumptions, ArraysRightNow, NEW n \in ArrayNames,
         \/ \E c \in 0..BufferLen : Arr!View(n, c)
         \/ Arr!Destroy(n)
         \/ \E k \in ArrayNames : Arr!Move(n, k)
  PROVE  ArraysRightNow'
<1>0. /\ aMem[Buffer] \in [1..BufferLen -> Arr!Stored] /\ ViewOf(aArrays[n], aMem)
      /\ DOMAIN aMem = ArrayBlocks \cup {Buffer}
      /\ \A l \in ArrayNames : l # n /\ aArrays[n].data # NoBlock => aArrays[l].data # aArrays[n].data
      /\ Buffer \notin ArrayBlocks /\ NoBlock \notin ArrayBlocks \cup {Buffer}
  BY DEF ArraysRightNow, ArraysRight, ContainersAssumptions, Arr!ArrayAssumption
<1>1. CASE \E c \in 0..BufferLen : Arr!View(n, c)
  <2>1. PICK c \in 0..BufferLen : Arr!View(n, c)
    BY <1>1
  <2>. DEFINE r == [data |-> Buffer, count |-> c, capacity |-> BufferLen, allocator |-> FALSE]
  <2>2. /\ aMem' = aMem /\ aArrays' = [aArrays EXCEPT ![n] = r]
        /\ \A l \in ArrayNames : aArrays[l].data # Buffer
    BY <2>1 DEF Arr!View
  <2>3. ViewOf(r, aMem)
    BY <1>0, ArrayNumbers DEF ViewOf
  <2>4. r.data = Buffer
    OBVIOUS
  <2>. HIDE DEF r
  <2>. QED
    BY <1>0, <2>2, <2>3, <2>4, ArrayChanged DEF ArraysRightNow
<1>2. CASE Arr!Destroy(n)
  <2>1. aMem' = Arr!Released(n, aMem) /\ aArrays' = [aArrays EXCEPT ![n] = Arr!Unset]
    BY <1>2 DEF Arr!Destroy
  <2>2. ViewOf(Arr!Unset, aMem') /\ Arr!Unset.data = NoBlock
    BY <1>0 DEF ViewOf, Arr!Unset
  <2>3. /\ DOMAIN aMem' = DOMAIN aMem /\ aMem'[Buffer] = aMem[Buffer]
        /\ \A b \in DOMAIN aMem : b # aArrays[n].data => aMem'[b] = aMem[b]
    BY <1>0, <2>1 DEF Arr!Released, ViewOf
  <2>4. \A b \in DOMAIN aMem : b # aArrays[n].data /\ aMem[b] # NoContents => aMem'[b] = aMem[b]
    BY <2>3
  <2>. DEFINE r == Arr!Unset
  <2>. HIDE DEF r
  <2>5. ArraysRight([aArrays EXCEPT ![n] = r], aMem')
    BY <1>0, <2>2, <2>3, <2>4, ArrayChanged DEF ArraysRightNow, r
  <2>. QED
    BY <2>1, <2>5 DEF ArraysRightNow, r
<1>3. CASE \E k \in ArrayNames : Arr!Move(n, k)
  <2>1. PICK k \in ArrayNames : Arr!Move(n, k)
    BY <1>3
  <2>2. /\ aMem' = aMem
        /\ aArrays' = [aArrays EXCEPT ![n] = aArrays[k], ![k] = Arr!Unset]
    BY <2>1 DEF Arr!Move
  <2>3. ArraysRight([aArrays EXCEPT ![n] = aArrays[k], ![k] = Arr!Unset], aMem)
    BY <2>2, ArrayMoved DEF ArraysRightNow
  <2>. QED
    BY <2>2, <2>3 DEF ArraysRightNow
<1>. QED
  BY <1>1, <1>2, <1>3

\* What stores items or takes them out, in the block an array has.
LEMMA ArrayItemSteps ==
  ASSUME ContainersAssumptions, ArraysRightNow, NEW n \in ArrayNames,
         \/ \E s \in Arr!Buffers : Arr!PushBuffer(n, s) \/ \E offset \in 0..Arr!Count(n) : Arr!CopyFrom(n, s, offset)
         \/ \E i \in 1..Arr!Count(n) : Arr!Remove(n, i)
         \/ \E x \in ArrayItems \cup {Zero} : Arr!Push(n, x)
         \/ \E k \in ArrayNames : Arr!CopyTo(n, k)
  PROVE  ArraysRightNow'
<1>. DEFINE a == aArrays[n]
            c == a.capacity
            Stores(k, f) == /\ a.data # NoBlock /\ k \in 0..c /\ f \in [1..c -> Arr!Stored]
                            /\ aArrays' = [aArrays EXCEPT ![n].count = k]
                            /\ aMem' = [aMem EXCEPT ![a.data] = f]
<1>1. ASSUME NEW k, NEW f, Stores(k, f) PROVE ArraysRightNow'
  BY <1>1, ArrayStored DEF ArraysRightNow
<1>. HIDE DEF Stores
<1>2. /\ a.count \in Nat /\ c \in Nat /\ a.count <= c /\ (c > 0 => a.data # NoBlock)
      /\ a.data # NoBlock => aMem[a.data] \in [1..c -> Arr!Stored] /\ DOMAIN aMem[a.data] = 1..c
      /\ Arr!Count(n) = a.count
  BY ArrayNumbers DEF Arr!Count
<1>3. ASSUME NEW s \in Arr!Buffers PROVE s \in Seq(Arr!Stored) /\ Len(s) = 2
  <2>1. PICK x \in ArrayItems : s = <<Zero, x>>
    BY <1>3 DEF Arr!Buffers
  <2>. QED
    BY <2>1 DEF Arr!Stored
<1>4. CASE \E s \in Arr!Buffers : Arr!PushBuffer(n, s)
  <2>1. PICK s \in Arr!Buffers : Arr!PushBuffer(n, s)
    BY <1>4
  <2>. DEFINE f == [i \in DOMAIN aMem[a.data] |->
                 IF i \in a.count+1..a.count+Len(s) THEN s[i - a.count] ELSE aMem[a.data][i]]
  <2>2. /\ a.count + Len(s) <= c /\ a.data # NoBlock
        /\ aArrays' = [aArrays EXCEPT ![n].count = a.count + Len(s)]
        /\ aMem' = [aMem EXCEPT ![a.data] = f]
    BY <1>2, <2>1 DEF Arr!PushBuffer, Arr!Store, Arr!SetCount
  <2>3. f \in [1..c -> Arr!Stored]
    <3>1. s \in Seq(Arr!Stored) /\ Len(s) \in Nat
      BY <1>3
    <3>2. ASSUME NEW i \in 1..c, i \in a.count+1..a.count+Len(s) PROVE s[i - a.count] \in Arr!Stored
      BY <1>2, <3>1, <3>2
    <3>. QED
      BY <1>2, <2>2, <3>2
  <2>4. a.count + Len(s) \in 0..c
    BY <1>2, <1>3, <2>2
  <2>. HIDE DEF f
  <2>. QED
    BY <1>1, <2>2, <2>3, <2>4 DEF Stores
<1>5. CASE \E s \in Arr!Buffers : \E offset \in 0..Arr!Count(n) : Arr!CopyFrom(n, s, offset)
  <2>1. PICK s \in Arr!Buffers : \E offset \in 0..Arr!Count(n) : Arr!CopyFrom(n, s, offset)
    BY <1>5
  <2>2. PICK offset \in 0..Arr!Count(n) : Arr!CopyFrom(n, s, offset)
    BY <2>1
  <2>. DEFINE k == Arr!Smaller(Len(s), a.count - offset)
              f == [i \in DOMAIN aMem[a.data] |->
                    IF i \in offset+1..offset+k THEN s[i - offset] ELSE aMem[a.data][i]]
  <2>3. /\ k > 0 /\ aMem' = [aMem EXCEPT ![a.data] = f] /\ aArrays' = aArrays
    BY <1>2, <2>2 DEF Arr!CopyFrom, Arr!Store
  <2>4. offset \in Nat /\ k \in Nat /\ k <= Len(s) /\ k <= a.count - offset /\ s \in Seq(Arr!Stored) /\ Len(s) = 2
    BY <1>2, <1>3, <2>3 DEF Arr!Smaller
  <2>. HIDE DEF k
  <2>5. a.data # NoBlock /\ a.count \in 0..c
    BY <1>2, <2>3, <2>4
  <2>6. f \in [1..c -> Arr!Stored]
    <3>1. ASSUME NEW i \in 1..c, i \in offset+1..offset+k PROVE s[i - offset] \in Arr!Stored
      <4>1. i - offset \in 1..Len(s)
        BY <2>4, <3>1
      <4>2. s \in Seq(Arr!Stored)
        BY <2>4
      <4>. QED
        BY <4>1, <4>2
    <3>. QED
      BY <1>2, <2>5, <3>1
  <2>7. aArrays' = [aArrays EXCEPT ![n].count = a.count]
    <3>1. aArrays = [l \in ArrayNames |-> aArrays[l]] /\ ViewOf(a, aMem)
      BY DEF ArraysRightNow, ArraysRight
    <3>2. [a EXCEPT !.count = a.count] = a
      BY <3>1 DEF ViewOf
    <3>. QED
      BY <2>3, <3>1, <3>2
  <2>. HIDE DEF f
  <2>. QED
    BY <1>1, <2>3, <2>5, <2>6, <2>7 DEF Stores
<1>6. CASE \E i \in 1..Arr!Count(n) : Arr!Remove(n, i)
  <2>1. PICK i \in 1..a.count : Arr!Remove(n, i)
    BY <1>2, <1>6
  <2>. DEFINE f == [aMem[a.data] EXCEPT ![i] = aMem[a.data][a.count]]
  <2>2. /\ aMem' = [aMem EXCEPT ![a.data] = f] /\ aArrays' = [aArrays EXCEPT ![n].count = a.count - 1]
    BY <1>2, <2>1 DEF Arr!Remove, Arr!Store, Arr!SetCount
  <2>3. a.data # NoBlock /\ a.count \in 1..c /\ a.count - 1 \in 0..c
    BY <1>2
  <2>4. f \in [1..c -> Arr!Stored]
    BY <1>2, <2>3
  <2>. HIDE DEF f
  <2>. QED
    BY <1>1, <2>2, <2>3, <2>4 DEF Stores
<1>7. CASE \E x \in ArrayItems \cup {Zero} : Arr!Push(n, x)
  <2>1. PICK x \in ArrayItems \cup {Zero} : Arr!Push(n, x)
    BY <1>7
  <2>. DEFINE f == [aMem[a.data] EXCEPT ![a.count + 1] = x]
  <2>2. /\ a.count < c /\ aMem' = [aMem EXCEPT ![a.data] = f]
        /\ aArrays' = [aArrays EXCEPT ![n].count = a.count + 1]
    BY <1>2, <2>1 DEF Arr!Push, Arr!Store, Arr!SetCount
  <2>3. a.data # NoBlock /\ a.count + 1 \in 0..c /\ x \in Arr!Stored
    BY <1>2, <2>2 DEF Arr!Stored
  <2>4. f \in [1..c -> Arr!Stored]
    BY <1>2, <2>3
  <2>. HIDE DEF f
  <2>. QED
    BY <1>1, <2>2, <2>3, <2>4 DEF Stores
<1>8. CASE \E k \in ArrayNames : Arr!CopyTo(n, k)
  <2>1. PICK k \in ArrayNames : Arr!CopyTo(n, k)
    BY <1>8
  <2>. DEFINE e == aArrays[k].count
              f == [i \in DOMAIN aMem[a.data] |-> IF i <= e THEN aMem[aArrays[k].data][i] ELSE aMem[a.data][i]]
  <2>2. /\ a.data # NoBlock /\ aArrays[k].data # NoBlock /\ c >= e
        /\ aMem' = [aMem EXCEPT ![a.data] = f] /\ aArrays' = [aArrays EXCEPT ![n].count = e]
    BY <2>1 DEF Arr!CopyTo, Arr!Store, Arr!SetCount, Arr!Count
  <2>3. e \in Nat /\ e <= aArrays[k].capacity /\ aArrays[k].capacity \in Nat
        /\ aMem[aArrays[k].data] \in [1..aArrays[k].capacity -> Arr!Stored]
    BY <2>2, ArrayNumbers
  <2>4. f \in [1..c -> Arr!Stored]
    BY <1>2, <2>2, <2>3
  <2>5. e \in 0..c
    BY <1>2, <2>2, <2>3
  <2>. HIDE DEF f, e
  <2>. QED
    BY <1>1, <2>2, <2>4, <2>5 DEF Stores
<1>. QED
  BY <1>4, <1>5, <1>6, <1>7, <1>8

LEMMA ArrayStep ==
  ASSUME ContainersAssumptions, ArraysRightNow, Arr!Next
  PROVE  ArraysRightNow'
<1>1. PICK n \in ArrayNames :
    \/ \E c \in Capacities : Arr!Make(n, c) \/ (\E clear \in BOOLEAN : Arr!Reset(n, c, clear))
    \/ \E c \in 0..BufferLen : Arr!View(n, c)
    \/ \E m \in ArrayNames :
         (\E c \in {Arr!Count(m), aArrays[m].capacity} : Arr!Clone(n, m, c)) \/ Arr!Move(n, m) \/ Arr!CopyTo(n, m)
    \/ Arr!Destroy(n)
    \/ \E s \in Arr!Buffers : Arr!PushBuffer(n, s) \/ (\E offset \in 0..Arr!Count(n) : Arr!CopyFrom(n, s, offset))
    \/ \E c \in 0..aArrays[n].capacity : Arr!Resize(n, c)
    \/ \E i \in 1..Arr!Count(n) : Arr!Remove(n, i)
    \/ Arr!Pop(n)
    \/ \E x \in ArrayItems \cup {Zero} : Arr!Push(n, x)
    \/ \E x \in ArrayItems : Arr!Find(n, x)
  BY DEF Arr!Next
<1>2. CASE \/ \E c \in Capacities : Arr!Make(n, c) \/ (\E clear \in BOOLEAN : Arr!Reset(n, c, clear))
           \/ \E m \in ArrayNames : \E c \in {Arr!Count(m), aArrays[m].capacity} : Arr!Clone(n, m, c)
  BY <1>2, ArrayMakeSteps
<1>3. CASE \/ \E c \in 0..BufferLen : Arr!View(n, c)
           \/ Arr!Destroy(n) \/ \E m \in ArrayNames : Arr!Move(n, m)
  BY <1>3, ArrayHandOverSteps
<1>4. CASE \/ \E s \in Arr!Buffers : Arr!PushBuffer(n, s) \/ (\E offset \in 0..Arr!Count(n) : Arr!CopyFrom(n, s, offset))
           \/ \E i \in 1..Arr!Count(n) : Arr!Remove(n, i)
           \/ \E x \in ArrayItems \cup {Zero} : Arr!Push(n, x)
           \/ \E m \in ArrayNames : Arr!CopyTo(n, m)
  BY <1>4, ArrayItemSteps
<1>5. CASE (\E c \in 0..aArrays[n].capacity : Arr!Resize(n, c)) \/ Arr!Pop(n)
  <2>1. PICK k \in 0..aArrays[n].capacity :
          aArrays' = [aArrays EXCEPT ![n].count = k] /\ aMem' = aMem
    <3>1. CASE \E c \in 0..aArrays[n].capacity : Arr!Resize(n, c)
      BY <3>1 DEF Arr!Resize, Arr!SetCount
    <3>2. CASE Arr!Pop(n)
      <4>1. aArrays[n].count - 1 \in 0..aArrays[n].capacity
        BY <3>2, ArrayNumbers DEF Arr!Pop, Arr!Count
      <4>. QED
        BY <3>2, <4>1 DEF Arr!Pop, Arr!SetCount, Arr!Count
    <3>. QED
      BY <1>5, <3>1, <3>2
  <2>. QED
    BY <2>1, ArrayCounted DEF ArraysRightNow
<1>6. CASE \E x \in ArrayItems : Arr!Find(n, x)
  BY <1>6 DEF Arr!Find, ArraysRightNow
<1>. QED
  BY <1>1, <1>2, <1>3, <1>4, <1>5, <1>6

LEMMA ArrayInit ==
  ASSUME ContainersAssumptions, Arr!Init
  PROVE  ArraysRightNow
<1>1. /\ Buffer \notin ArrayBlocks /\ NoBlock \notin ArrayBlocks \cup {Buffer}
  BY DEF ContainersAssumptions, Arr!ArrayAssumption
<1>2. ViewOf(Arr!Unset, aMem) /\ Arr!Unset.data = NoBlock
  BY <1>1 DEF ViewOf, Arr!Unset
<1>3. DOMAIN aMem = ArrayBlocks \cup {Buffer} /\ aMem[Buffer] \in [1..BufferLen -> Arr!Stored]
  BY DEF Arr!Init, Arr!Stored
<1>. QED
  BY <1>2, <1>3 DEF Arr!Init, ArraysRightNow, ArraysRight

LEMMA ArraysAreRight ==
  ASSUME ContainersAssumptions, ArraysRightNow
  PROVE  Arr!TypeOK /\ Arr!BlocksNotShared
<1>1. aArrays \in [ArrayNames -> [data : ArrayBlocks \cup {Buffer, NoBlock}, count : Nat, capacity : Nat, allocator : BOOLEAN]]
  BY DEF ArraysRightNow, ArraysRight, ViewOf
<1>2. ASSUME NEW n \in ArrayNames
      PROVE  /\ aArrays[n].count <= aArrays[n].capacity
             /\ aArrays[n].data # NoBlock => /\ aMem[aArrays[n].data] # NoContents
                                             /\ DOMAIN aMem[aArrays[n].data] = 1..aArrays[n].capacity
  BY ArrayNumbers, ContentsKept
<1>3. aMem[Buffer] # NoContents
  <2>1. Capable(BufferLen)
    BY DEF Capable, ContainersAssumptions, Arr!ArrayAssumption
  <2>. QED
    BY <2>1, ContentsKept DEF ArraysRightNow, ArraysRight
<1>4. \A n, m \in ArrayNames : n # m /\ aArrays[n].data # NoBlock => aArrays[n].data # aArrays[m].data
  BY DEF ArraysRightNow, ArraysRight
<1>. QED
  BY <1>1, <1>2, <1>3, <1>4 DEF Arr!TypeOK, Arr!BlocksNotShared

---------------------------------------------------------------------------
(* BucketArrays: what makes one right, and the blocks it has.              *)
BucketRecords == [data : BucketBlocks, items : Seq(Items)]
BucketArrays  == [buckets : Seq(BucketRecords), bufferCapacity : Nat, count : Int,
                  free : Seq(BucketBlocks), bucketCapacity : Nat, allocator : BOOLEAN]

BlocksOf(a) == {a.buckets[i].data : i \in 1..Len(a.buckets)} \cup {a.free[i] : i \in 1..Len(a.free)}

BucketsRight(a) ==
  /\ a \in BucketArrays
  /\ a.bucketCapacity \in PowersOf2 \cup {0} /\ Len(a.buckets) <= a.bufferCapacity
  /\ \A i \in 1..Len(a.buckets) : Len(a.buckets[i].items) <= a.bucketCapacity
  /\ \A i, j \in 1..Len(a.buckets) : a.buckets[i].data = a.buckets[j].data => i = j
  /\ \A i, j \in 1..Len(a.free) : a.free[i] = a.free[j] => i = j
  /\ \A i \in 1..Len(a.buckets), j \in 1..Len(a.free) : a.buckets[i].data # a.free[j]

LEMMA BucketPowers ==
  /\ Bucket!PowersOf2 = PowersOf2
  /\ \A n : Bucket!NextPowerOf2(n) = NextPowerOf2(n)
<1>1. Bucket!PowerOf2 = PowerOf2
  BY DEF Bucket!PowerOf2, PowerOf2
<1>2. Bucket!PowersOf2 = PowersOf2
  BY <1>1 DEF Bucket!PowersOf2, PowersOf2
<1>3. \A n : Bucket!Log2(n) = Log2(n)
  BY <1>1 DEF Bucket!Log2, Log2
<1>. QED
  BY <1>1, <1>2, <1>3 DEF Bucket!NextPowerOf2, NextPowerOf2, Bucket!IsPowerOf2, IsPowerOf2

LEMMA RoomIs ==
  ASSUME NEW k, Bucket!Room(k)
  PROVE  Cardinality(BucketBlocks \ bMem) >= k
BY DEF Bucket!Room, Bucket!Cardinality, Cardinality

\* The parts of a BucketArray.
LEMMA BucketParts ==
  ASSUME NEW a, BucketsRight(a)
  PROVE  /\ Len(a.buckets) \in Nat /\ DOMAIN a.buckets = 1..Len(a.buckets)
         /\ Len(a.free) \in Nat /\ DOMAIN a.free = 1..Len(a.free)
         /\ a.bucketCapacity \in Nat /\ a.bufferCapacity \in Nat /\ a.count \in Int
         /\ a.buckets \in Seq(BucketRecords) /\ a.free \in Seq(BucketBlocks)
         /\ \A i \in 1..Len(a.buckets) :
              /\ a.buckets[i] \in BucketRecords /\ a.buckets[i].data \in BucketBlocks
              /\ a.buckets[i].items \in Seq(Items) /\ Len(a.buckets[i].items) \in Nat
              /\ DOMAIN a.buckets[i].items = 1..Len(a.buckets[i].items)
         /\ \A i \in 1..Len(a.free) : a.free[i] \in BucketBlocks
         /\ a.buckets # <<>> => Len(a.buckets) > 0
         /\ BlocksOf(a) \subseteq BucketBlocks
<1>1. a.buckets \in Seq(BucketRecords) /\ a.free \in Seq(BucketBlocks)
  BY DEF BucketsRight, BucketArrays
<1>2. /\ Len(a.buckets) \in Nat /\ DOMAIN a.buckets = 1..Len(a.buckets)
      /\ Len(a.free) \in Nat /\ DOMAIN a.free = 1..Len(a.free)
      /\ \A i \in 1..Len(a.buckets) : a.buckets[i] \in BucketRecords
      /\ \A i \in 1..Len(a.free) : a.free[i] \in BucketBlocks
  BY <1>1, LenProperties, ElementOfSeq
<1>3. \A i \in 1..Len(a.buckets) : a.buckets[i].data \in BucketBlocks /\ a.buckets[i].items \in Seq(Items)
  BY <1>2 DEF BucketRecords
<1>4. \A i \in 1..Len(a.buckets) :
        Len(a.buckets[i].items) \in Nat /\ DOMAIN a.buckets[i].items = 1..Len(a.buckets[i].items)
  BY <1>3, LenProperties
<1>5. a.buckets # <<>> => Len(a.buckets) > 0
  BY <1>1, <1>2, EmptySeq
<1>6. BlocksOf(a) \subseteq BucketBlocks
  BY <1>2, <1>3 DEF BlocksOf
<1>. QED
  BY <1>1, <1>2, <1>3, <1>4, <1>5, <1>6 DEF BucketsRight, BucketArrays

\* What an array holds is its blocks, each of them once.
LEMMA HeldIs ==
  ASSUME NEW a, BucketsRight(a)
  PROVE  Bucket!Data(a) = BlocksOf(a) /\ Bucket!IsInjective(Bucket!Held(a))
<1>. DEFINE n == Len(a.buckets)
            m == Len(a.free)
            used == [i \in DOMAIN a.buckets |-> a.buckets[i].data]
            h == used \o a.free
<1>1. /\ n \in Nat /\ m \in Nat /\ a.free \in Seq(BucketBlocks) /\ DOMAIN a.buckets = 1..n
      /\ \A i \in 1..n : a.buckets[i].data \in BucketBlocks
  BY BucketParts
<1>2. /\ used \in Seq(BucketBlocks) /\ Len(used) = n /\ \A i \in 1..n : used[i] = a.buckets[i].data
  <2>1. used \in [1..n -> BucketBlocks]
    BY <1>1
  <2>. HIDE DEF used, n
  <2>2. used \in Seq(BucketBlocks)
    BY <1>1, <2>1, SeqDef
  <2>3. Len(used) = n
    BY <1>1, <2>1, <2>2, LenProperties
  <2>. QED
    BY <1>1, <2>2, <2>3 DEF used
<1>. HIDE DEF used, n, m
<1>3. /\ h \in Seq(BucketBlocks) /\ Len(h) = n + m
      /\ \A i \in 1..n+m : h[i] = IF i <= n THEN used[i] ELSE a.free[i - n]
  BY <1>1, <1>2, ConcatProperties DEF m
<1>4. DOMAIN h = 1..n+m
  BY <1>3, LenProperties
<1>5. Bucket!Held(a) = h
  BY DEF Bucket!Held, used
<1>. HIDE DEF h
<1>6. Bucket!Data(a) = BlocksOf(a)
  <2>1. Bucket!Data(a) = {h[i] : i \in 1..n+m}
    BY <1>4, <1>5 DEF Bucket!Data, Bucket!ToSet
  <2>2. \A i \in 1..n : h[i] = a.buckets[i].data /\ i \in 1..n+m
    BY <1>1, <1>2, <1>3
  <2>3. \A i \in 1..m : h[n + i] = a.free[i] /\ n + i \in 1..n+m
    BY <1>1, <1>3
  <2>4. \A i \in 1..n+m : i \in 1..n \/ (i - n \in 1..m /\ i = n + (i - n))
    BY <1>1
  <2>5. {h[i] : i \in 1..n+m} = {a.buckets[i].data : i \in 1..n} \cup {a.free[i] : i \in 1..m}
    <3>1. ASSUME NEW i \in 1..n+m
          PROVE  h[i] \in {a.buckets[j].data : j \in 1..n} \cup {a.free[j] : j \in 1..m}
      <4>1. CASE i \in 1..n
        BY <2>2, <4>1
      <4>2. CASE i - n \in 1..m /\ i = n + (i - n)
        <5>1. h[i] = a.free[i - n]
          BY <2>3, <4>2
        <5>. QED
          BY <4>2, <5>1
      <4>. QED
        BY <2>4, <4>1, <4>2
    <3>. QED
      BY <2>2, <2>3, <3>1
  <2>. QED
    BY <2>1, <2>5 DEF BlocksOf, n, m
<1>7. \A i, j \in 1..n+m : h[i] = h[j] => i = j
  <2>. SUFFICES ASSUME NEW i \in 1..n+m, NEW j \in 1..n+m, i <= j, h[i] = h[j] PROVE i = j
    BY <1>1
  <2>1. CASE j <= n
    <3>1. i \in 1..n /\ j \in 1..n /\ a.buckets[i].data = a.buckets[j].data
      BY <1>1, <1>2, <1>3, <2>1
    <3>. QED
      BY <3>1 DEF BucketsRight, n
  <2>2. CASE i > n
    <3>1. i - n \in 1..m /\ j - n \in 1..m /\ a.free[i - n] = a.free[j - n]
      BY <1>1, <1>3, <2>2
    <3>. QED
      BY <1>1, <3>1 DEF BucketsRight, m
  <2>3. CASE i <= n /\ j > n
    <3>1. i \in 1..n /\ j - n \in 1..m /\ a.buckets[i].data = a.free[j - n]
      BY <1>1, <1>2, <1>3, <2>3
    <3>. QED
      BY <3>1 DEF BucketsRight, n, m
  <2>. QED
    BY <1>1, <2>1, <2>2, <2>3
<1>8. Bucket!IsInjective(Bucket!Held(a))
  BY <1>4, <1>5, <1>7 DEF Bucket!IsInjective
<1>. QED
  BY <1>6, <1>8

\* The items change, the blocks do not.
LEMMA ItemsChanged ==
  ASSUME NEW a, BucketsRight(a), NEW r \in BucketArrays,
         r.bucketCapacity = a.bucketCapacity, r.bufferCapacity = a.bufferCapacity, r.free = a.free,
         Len(r.buckets) = Len(a.buckets),
         \A i \in 1..Len(a.buckets) :
           r.buckets[i].data = a.buckets[i].data /\ Len(r.buckets[i].items) <= a.bucketCapacity
  PROVE  BucketsRight(r) /\ BlocksOf(r) = BlocksOf(a)
<1>1. BlocksOf(r) = BlocksOf(a)
  <2>1. {r.buckets[i].data : i \in 1..Len(r.buckets)} = {a.buckets[i].data : i \in 1..Len(a.buckets)}
    OBVIOUS
  <2>. QED
    BY <2>1 DEF BlocksOf
<1>2. \A i, j \in 1..Len(a.buckets) : r.buckets[i].data = r.buckets[j].data => i = j
  BY DEF BucketsRight
<1>. QED
  BY <1>1, <1>2 DEF BucketsRight

\* One bucket's items are replaced.
WithItems(a, l, s, c) == [a EXCEPT !.buckets[l].items = s, !.count = c]

LEMMA BucketSet ==
  ASSUME NEW a, BucketsRight(a), NEW l \in 1..Len(a.buckets), NEW s \in Seq(Items),
         Len(s) <= a.bucketCapacity, NEW c \in Int
  PROVE  LET r == WithItems(a, l, s, c)
         IN  /\ BucketsRight(r) /\ BlocksOf(r) = BlocksOf(a) /\ Len(r.buckets) = Len(a.buckets)
             /\ r.bucketCapacity = a.bucketCapacity
<1>. DEFINE b == [a.buckets[l] EXCEPT !.items = s]
            bs == [a.buckets EXCEPT ![l] = b]
            r == [a EXCEPT !.buckets = bs, !.count = c]
<1>1. b \in BucketRecords /\ b.data = a.buckets[l].data /\ b.items = s
  BY BucketParts DEF BucketRecords
<1>. HIDE DEF b
<1>2. /\ bs \in Seq(BucketRecords) /\ Len(bs) = Len(a.buckets)
      /\ \A i \in 1..Len(a.buckets) : bs[i] = IF i = l THEN b ELSE a.buckets[i]
  BY <1>1, BucketParts, ExceptSeq
<1>. HIDE DEF bs
<1>3. /\ r \in BucketArrays /\ r.buckets = bs /\ r.bucketCapacity = a.bucketCapacity
      /\ r.bufferCapacity = a.bufferCapacity /\ r.free = a.free
  BY <1>2 DEF BucketsRight, BucketArrays
<1>. HIDE DEF r
<1>4. \A i \in 1..Len(a.buckets) :
        r.buckets[i].data = a.buckets[i].data /\ Len(r.buckets[i].items) <= a.bucketCapacity
  BY <1>1, <1>2, <1>3 DEF BucketsRight
<1>5. BucketsRight(r) /\ BlocksOf(r) = BlocksOf(a)
  BY <1>2, <1>3, <1>4, ItemsChanged
<1>6. r = WithItems(a, l, s, c)
  BY DEF r, bs, b, WithItems
<1>. QED
  BY <1>2, <1>3, <1>5, <1>6
---------------------------------------------------------------------------
(* An array with the memory it works on: R is what the others have.        *)
States == [a : BucketArrays, m : SUBSET BucketBlocks]

Fits(s, R) ==
  /\ s \in States /\ BucketsRight(s.a)
  /\ s.m = R \cup BlocksOf(s.a) /\ R \cap BlocksOf(s.a) = {}

\* There is room for k more blocks.
Free(s, k) == Cardinality(BucketBlocks \ s.m) >= k

LEMMA BufferGrown ==
  ASSUME ContainersAssumptions, NEW a, BucketsRight(a), NEW c \in Nat, c = 0 \/ Len(a.buckets) <= c
  PROVE  LET r == Bucket!GrowBucketBuffer(a, c)
         IN  /\ BucketsRight(r) /\ BlocksOf(r) = BlocksOf(a)
             /\ r.buckets = a.buckets /\ r.free = a.free /\ r.bucketCapacity = a.bucketCapacity
             /\ c = 0 => Len(a.buckets) < r.bufferCapacity \/ Len(a.buckets) < a.bufferCapacity
<1>. DEFINE r == Bucket!GrowBucketBuffer(a, c)
            asked == IF c = 0 THEN 2 * a.bufferCapacity ELSE c
            b == IF asked < MinBuffer THEN MinBuffer ELSE asked
<1>1. /\ Len(a.buckets) \in Nat /\ a.bufferCapacity \in Nat /\ a \in BucketArrays
      /\ Len(a.buckets) <= a.bufferCapacity /\ MinBuffer \in Nat /\ MinBuffer > 0
  BY BucketParts DEF BucketsRight, ContainersAssumptions, Bucket!BucketAssumption
<1>2. r = [a EXCEPT !.bufferCapacity = b]
  BY DEF Bucket!GrowBucketBuffer
<1>3. b \in Nat /\ Len(a.buckets) <= b /\ (c = 0 => Len(a.buckets) < b)
  BY <1>1
<1>. HIDE DEF b, r
<1>4. /\ r \in BucketArrays /\ r.buckets = a.buckets /\ r.free = a.free
      /\ r.bucketCapacity = a.bucketCapacity /\ r.bufferCapacity = b
  BY <1>1, <1>2, <1>3 DEF BucketArrays
<1>5. BucketsRight(r) /\ BlocksOf(r) = BlocksOf(a)
  BY <1>3, <1>4 DEF BucketsRight, BlocksOf
<1>. QED
  BY <1>3, <1>4, <1>5 DEF r

\* A bucket is added at the end.
LEMMA BucketAdded ==
  ASSUME NEW a, BucketsRight(a), Len(a.buckets) < a.bufferCapacity,
         NEW new \in BucketBlocks \ BlocksOf(a)
  PROVE  LET r == [a EXCEPT !.buckets = Append(@, [data |-> new, items |-> <<>>])]
         IN  /\ BucketsRight(r) /\ BlocksOf(r) = BlocksOf(a) \cup {new}
             /\ r.bucketCapacity = a.bucketCapacity
             /\ Len(r.buckets) = Len(a.buckets) + 1 /\ Len(r.buckets[Len(r.buckets)].items) = 0
<1>. DEFINE b == [data |-> new, items |-> <<>>]
            bs == Append(a.buckets, b)
            r == [a EXCEPT !.buckets = bs]
            n == Len(a.buckets)
<1>1. b \in BucketRecords /\ b.data = new /\ Len(b.items) = 0
  BY EmptySeq DEF BucketRecords
<1>. HIDE DEF b
<1>2. n \in Nat /\ a.buckets \in Seq(BucketRecords) /\ a \in BucketArrays /\ a.bucketCapacity \in Nat
  BY BucketParts DEF BucketsRight
<1>3. /\ bs \in Seq(BucketRecords) /\ Len(bs) = n + 1 /\ bs[n + 1] = b
      /\ \A i \in 1..n : bs[i] = a.buckets[i]
  BY <1>1, <1>2, AppendIs
<1>. HIDE DEF bs
<1>4. /\ r \in BucketArrays /\ r.buckets = bs /\ r.bucketCapacity = a.bucketCapacity
      /\ r.bufferCapacity = a.bufferCapacity /\ r.free = a.free
  BY <1>2, <1>3 DEF BucketArrays
<1>. HIDE DEF r
<1>5. \A i \in 1..n+1 : i \in 1..n \/ i = n + 1
  BY <1>2
<1>6. BlocksOf(r) = BlocksOf(a) \cup {new}
  <2>1. {bs[i].data : i \in 1..n+1} = {a.buckets[i].data : i \in 1..n} \cup {new}
    <3>1. \A i \in 1..n : i \in 1..n+1
      BY <1>2
    <3>2. n + 1 \in 1..n+1
      BY <1>2
    <3>. HIDE DEF n
    <3>. QED
      BY <1>1, <1>3, <1>5, <3>1, <3>2
  <2>2. {r.buckets[i].data : i \in 1..Len(r.buckets)} = {bs[i].data : i \in 1..n+1}
    BY <1>3, <1>4
  <2>3. {r.free[i] : i \in 1..Len(r.free)} = {a.free[i] : i \in 1..Len(a.free)}
    BY <1>4
  <2>. QED
    BY <2>1, <2>2, <2>3, Zenon DEF BlocksOf
<1>7. BucketsRight(r)
  <2>1. \A i \in 1..n : a.buckets[i].data # new
    BY DEF BlocksOf
  <2>2. \A i \in 1..Len(a.free) : a.free[i] # new
    BY DEF BlocksOf
  <2>3. \A i \in 1..n+1 : Len(bs[i].items) <= a.bucketCapacity
    BY <1>1, <1>2, <1>3, <1>5 DEF BucketsRight
  <2>4. \A i, j \in 1..n+1 : bs[i].data = bs[j].data => i = j
    <3>. SUFFICES ASSUME NEW i \in 1..n+1, NEW j \in 1..n+1, bs[i].data = bs[j].data PROVE i = j
      OBVIOUS
    <3>1. CASE i \in 1..n /\ j \in 1..n
      BY <1>3, <3>1 DEF BucketsRight
    <3>2. CASE i = n + 1 \/ j = n + 1
      BY <1>1, <1>3, <1>5, <2>1, <3>2
    <3>. QED
      BY <1>5, <3>1, <3>2
  <2>5. \A i \in 1..n+1, j \in 1..Len(a.free) : bs[i].data # a.free[j]
    <3>. SUFFICES ASSUME NEW i \in 1..n+1, NEW j \in 1..Len(a.free) PROVE bs[i].data # a.free[j]
      OBVIOUS
    <3>1. CASE i \in 1..n
      BY <1>3, <3>1 DEF BucketsRight
    <3>2. CASE i = n + 1
      BY <1>1, <1>3, <2>2, <3>2
    <3>. QED
      BY <1>5, <3>1, <3>2
  <2>6. n + 1 <= a.bufferCapacity
    BY <1>2, BucketParts
  <2>7. /\ a.bucketCapacity \in PowersOf2 \cup {0}
        /\ \A i, j \in 1..Len(a.free) : a.free[i] = a.free[j] => i = j
    BY DEF BucketsRight
  <2>. HIDE DEF n
  <2>. QED
    BY <1>3, <1>4, <2>3, <2>4, <2>5, <2>6, <2>7 DEF BucketsRight
<1>8. Len(r.buckets[Len(r.buckets)].items) = 0
  BY <1>1, <1>3, <1>4
<1>. QED
  BY <1>3, <1>4, <1>6, <1>7, <1>8 DEF r, bs, b

LEMMA BucketAllocated ==
  ASSUME ContainersAssumptions, NEW R, NEW s, Fits(s, R), NEW k \in Nat, Free(s, k + 1)
  PROVE  LET t == Bucket!AllocBucket(s)
         IN  /\ Fits(t, R) /\ Free(t, k) /\ t.a.bucketCapacity = s.a.bucketCapacity
             /\ Len(t.a.buckets) > 0 /\ Len(t.a.buckets[Len(t.a.buckets)].items) = 0
<1>. DEFINE t == Bucket!AllocBucket(s)
            a == IF Len(s.a.buckets) = s.a.bufferCapacity THEN Bucket!GrowBucketBuffer(s.a, 0) ELSE s.a
            new == CHOOSE b \in BucketBlocks : b \notin s.m
            r == [a EXCEPT !.buckets = Append(@, [data |-> new, items |-> <<>>])]
<1>1. /\ BucketsRight(s.a) /\ s.m \subseteq BucketBlocks
      /\ s.m = R \cup BlocksOf(s.a) /\ R \cap BlocksOf(s.a) = {}
  BY DEF Fits, States
<1>2. /\ BucketsRight(a) /\ BlocksOf(a) = BlocksOf(s.a) /\ a.bucketCapacity = s.a.bucketCapacity
      /\ Len(a.buckets) < a.bufferCapacity
  <2>1. CASE Len(s.a.buckets) = s.a.bufferCapacity
    <3>1. Len(s.a.buckets) \in Nat
      BY <1>1, BucketParts
    <3>. QED
      BY <1>1, <2>1, <3>1, BufferGrown
  <2>2. CASE Len(s.a.buckets) # s.a.bufferCapacity
    <3>1. /\ Len(s.a.buckets) \in Nat /\ s.a.bufferCapacity \in Nat
          /\ Len(s.a.buckets) <= s.a.bufferCapacity
      BY <1>1, BucketParts DEF BucketsRight
    <3>. QED
      BY <1>1, <2>2, <3>1
  <2>. QED
    BY <2>1, <2>2
<1>. HIDE DEF a
<1>3. IsFiniteSet(BucketBlocks)
  BY DEF ContainersAssumptions, Bucket!BucketAssumption, Bucket!IsFiniteSet, IsFiniteSet
<1>4. IsFiniteSet(BucketBlocks \ s.m) /\ Cardinality(BucketBlocks \ s.m) \in Nat /\ BucketBlocks \ s.m # {}
  <2>1. IsFiniteSet(BucketBlocks \ s.m)
    BY <1>3, FS_Difference
  <2>2. Cardinality(BucketBlocks \ s.m) \in Nat
    BY <2>1, FS_CardinalityType
  <2>. QED
    BY <2>1, <2>2, FS_EmptySet DEF Free
<1>5. new \in BucketBlocks /\ new \notin s.m
  BY <1>4
<1>. HIDE DEF new
<1>6. /\ BucketsRight(r) /\ BlocksOf(r) = BlocksOf(a) \cup {new}
      /\ r.bucketCapacity = a.bucketCapacity
      /\ Len(r.buckets) = Len(a.buckets) + 1 /\ Len(r.buckets[Len(r.buckets)].items) = 0
  BY <1>1, <1>2, <1>5, BucketAdded
<1>7. Len(r.buckets) > 0
  BY <1>2, <1>6, BucketParts
<1>8. t = [a |-> r, m |-> s.m \cup {new}]
  BY DEF Bucket!AllocBucket, a, new
<1>. HIDE DEF r, t
<1>9. Fits(t, R)
  BY <1>1, <1>2, <1>5, <1>6, <1>8 DEF Fits, States, BucketsRight
<1>10. Free(t, k)
  <2>1. BucketBlocks \ t.m = (BucketBlocks \ s.m) \ {new} /\ new \in BucketBlocks \ s.m
    <3>1. t.m = s.m \cup {new}
      BY <1>8
    <3>2. \A x : x \in t.m <=> x \in s.m \/ x = new
      BY <3>1
    <3>3. BucketBlocks \ t.m = (BucketBlocks \ s.m) \ {new}
      BY <3>2, Zenon
    <3>. QED
      BY <1>5, <3>3
  <2>. DEFINE F == BucketBlocks \ s.m
              E == BucketBlocks \ t.m
  <2>2. IsFiniteSet(F) /\ new \in F /\ E = F \ {new}
    BY <1>4, <2>1
  <2>. HIDE DEF E, F
  <2>3. Cardinality(E) = Cardinality(F) - 1
    BY <2>2, FS_RemoveElement
  <2>. QED
    BY <1>4, <2>3 DEF Free, E, F
<1>. QED
  BY <1>2, <1>6, <1>7, <1>8, <1>9, <1>10 DEF t

\* One step after another: each leads from its good states to the next one's.
LEMMA StepsKeep ==
  ASSUME NEW c \in Nat, NEW f, NEW G, f[0] \in G[0],
         \A i \in 1..c : f[i - 1] \in G[i - 1] => f[i] \in G[i]
  PROVE  f[c] \in G[c]
<1>. DEFINE Q == {i \in 0..c : f[i] \in G[i]}
<1>1. 0 \in Q
  OBVIOUS
<1>2. \A i \in 0..c-1 : i \in Q => i+1 \in Q
  <2>. SUFFICES ASSUME NEW i \in 0..c-1, f[i] \in G[i] PROVE i+1 \in Q
    OBVIOUS
  <2>1. i+1 \in 1..c /\ i+1 \in 0..c /\ (i+1)-1 = i
    OBVIOUS
  <2>. QED
    BY <2>1
<1>3. \A i \in 0..c : i \in Q
  <2>. HIDE DEF Q
  <2>. QED
    BY <1>1, <1>2, CountingFromZero
<1>4. c \in 0..c
  OBVIOUS
<1>. QED
  BY <1>3, <1>4

\* Many buckets are allocated.
LEMMA BucketsAllocated ==
  ASSUME ContainersAssumptions, NEW R, NEW s, Fits(s, R), NEW k \in Nat, Free(s, k)
  PROVE  Fits(Bucket!Allocated(s, k), R)
<1>. DEFINE G == [i \in 0..k |-> {t \in States : Fits(t, R) /\ Free(t, k - i)}]
            N == [i \in 1..k |-> [t \in States |-> IF Bucket!AllocBucket(t) \in States THEN Bucket!AllocBucket(t) ELSE t]]
            f == CHOOSE f : f = [i \in 0..k |-> IF i = 0 THEN s ELSE Bucket!AllocBucket(f[i - 1])]
<1>1. ASSUME NEW i \in 1..k, NEW t \in G[i - 1] PROVE Bucket!AllocBucket(t) \in G[i]
  <2>1. i - 1 \in 0..k /\ i \in 0..k /\ k - i \in Nat /\ k - (i - 1) = (k - i) + 1
    OBVIOUS
  <2>2. Fits(t, R) /\ Free(t, (k - i) + 1)
    BY <1>1, <2>1
  <2>3. Fits(Bucket!AllocBucket(t), R) /\ Free(Bucket!AllocBucket(t), k - i)
    BY <2>1, <2>2, BucketAllocated
  <2>4. Bucket!AllocBucket(t) \in States
    BY <2>3 DEF Fits
  <2>. QED
    BY <2>1, <2>3, <2>4
<1>2. s \in States
  BY DEF Fits
<1>3. s \in G[0]
  BY <1>2
<1>4. \E g : g = [i \in 0..k |-> IF i = 0 THEN s ELSE Bucket!AllocBucket(g[i - 1])]
  <2>1. N \in [1..k -> [States -> States]]
    OBVIOUS
  <2>. HIDE DEF N, G
  <2>2. PICK g \in [0..k -> States] : g[0] = s /\ Upwards(g, N, k)
    BY <1>2, <2>1, RecursionUp
  <2>3. g[0] = s /\ \A i \in 1..k : g[i] = N[i][g[i - 1]] /\ g[i - 1] \in States
    BY <2>2 DEF Upwards
  <2>4. ASSUME NEW i \in 1..k, g[i - 1] \in G[i - 1] PROVE g[i] = Bucket!AllocBucket(g[i - 1])
    <3>1. Bucket!AllocBucket(g[i - 1]) \in G[i]
      BY <1>1, <2>4
    <3>2. Bucket!AllocBucket(g[i - 1]) \in States
      BY <3>1 DEF G
    <3>. QED
      BY <2>3, <3>2 DEF N
  <2>5. \A i \in 0..k : g[i] \in G[i]
    <3>1. \A i \in 1..k : g[i - 1] \in G[i - 1] => g[i] \in G[i]
      BY <1>1, <2>4
    <3>2. ASSUME NEW j \in 0..k PROVE g[j] \in G[j]
      <4>1. \A i \in 1..j : g[i - 1] \in G[i - 1] => g[i] \in G[i]
        BY <3>1
      <4>2. j \in Nat /\ g[0] \in G[0]
        BY <1>3, <2>3
      <4>. QED
        BY <4>1, <4>2, StepsKeep
    <3>. QED
      BY <3>2
  <2>6. \A i \in 0..k : g[i] = IF i = 0 THEN s ELSE Bucket!AllocBucket(g[i - 1])
    <3>. SUFFICES ASSUME NEW i \in 0..k, i # 0 PROVE g[i] = Bucket!AllocBucket(g[i - 1])
      BY <2>3
    <3>1. i \in 1..k /\ i - 1 \in 0..k
      OBVIOUS
    <3>. QED
      BY <2>4, <2>5, <3>1
  <2>7. g = [i \in 0..k |-> g[i]]
    <3>1. DOMAIN g = 0..k
      BY <2>2
    <3>2. g = [i \in DOMAIN g |-> g[i]]
      BY <2>2
    <3>. QED
      BY <3>1, <3>2
  <2>. QED
    BY <2>6, <2>7
<1>5. f = [i \in 0..k |-> IF i = 0 THEN s ELSE Bucket!AllocBucket(f[i - 1])]
  <2>. DEFINE P(g) == g = [i \in 0..k |-> IF i = 0 THEN s ELSE Bucket!AllocBucket(g[i - 1])]
  <2>1. \E g : P(g)
    BY <1>4
  <2>2. P(CHOOSE g : P(g))
    <3>. HIDE DEF P
    <3>. QED
      BY <2>1
  <2>. QED
    BY <2>2
<1>6. Bucket!Allocated(s, k) = f[k]
  BY DEF Bucket!Allocated
<1>. HIDE DEF f, G
<1>7. f[0] = s /\ \A i \in 1..k : f[i] = Bucket!AllocBucket(f[i - 1])
  BY <1>5
<1>8. f[k] \in G[k]
  BY <1>1, <1>3, <1>7, StepsKeep
<1>. QED
  BY <1>6, <1>8 DEF G

\* An item is pushed into the last bucket, which has room for it.
LEMMA ItemPushed ==
  ASSUME ContainersAssumptions, NEW R, NEW s, Fits(s, R), NEW k \in Nat, Free(s, k + 1),
         s.a.bucketCapacity > 0
  PROVE  /\ LET t == Bucket!WithRoom(s)
            IN  Fits(t, R) /\ Free(t, k) /\ t.a.bucketCapacity > 0
         /\ \A x \in Items : LET t == Bucket!PushInternal(s, x)
                             IN  Fits(t, R) /\ Free(t, k) /\ t.a.bucketCapacity > 0
<1>. DEFINE r == Bucket!WithRoom(s)
            l == Len(r.a.buckets)
<1>1. /\ BucketsRight(s.a) /\ s.a.bucketCapacity \in Nat /\ Len(s.a.buckets) \in Nat
      /\ s.a.buckets # <<>> => Len(s.a.buckets) > 0
      /\ \A i \in 1..Len(s.a.buckets) : Len(s.a.buckets[i].items) \in Nat /\ Len(s.a.buckets[i].items) <= s.a.bucketCapacity
  BY BucketParts DEF Fits, BucketsRight
<1>2. /\ Fits(r, R) /\ Free(r, k) /\ r.a.bucketCapacity = s.a.bucketCapacity
      /\ l > 0 /\ Len(r.a.buckets[l].items) < r.a.bucketCapacity
  <2>1. CASE Bucket!LastIsFull(s.a)
    <3>1. r = Bucket!AllocBucket(s)
      BY <2>1 DEF Bucket!WithRoom
    <3>. HIDE DEF r
    <3>2. /\ Fits(r, R) /\ Free(r, k) /\ r.a.bucketCapacity = s.a.bucketCapacity
          /\ l > 0 /\ Len(r.a.buckets[l].items) = 0
      BY <3>1, BucketAllocated
    <3>. QED
      BY <1>1, <3>2
  <2>2. CASE ~Bucket!LastIsFull(s.a)
    <3>1. r = s
      BY <2>2 DEF Bucket!WithRoom
    <3>2. s.a.buckets # <<>> /\ Len(s.a.buckets[Len(s.a.buckets)].items) # s.a.bucketCapacity
      BY <2>2 DEF Bucket!LastIsFull, Bucket!Last
    <3>3. Len(s.a.buckets) \in 1..Len(s.a.buckets)
      BY <1>1, <3>2
    <3>4. Len(s.a.buckets[Len(s.a.buckets)].items) < s.a.bucketCapacity
      <4>1. \A i \in 1..Len(s.a.buckets) : Len(s.a.buckets[i].items) \in Nat /\ Len(s.a.buckets[i].items) <= s.a.bucketCapacity
        BY <1>1
      <4>. DEFINE in == Len(s.a.buckets[Len(s.a.buckets)].items)
      <4>2. in \in Nat /\ in <= s.a.bucketCapacity /\ in # s.a.bucketCapacity
        BY <3>2, <3>3, <4>1
      <4>3. s.a.bucketCapacity \in Nat
        BY <1>1
      <4>. HIDE DEF in
      <4>4. in < s.a.bucketCapacity
        BY <4>2, <4>3
      <4>. QED
        BY <4>4 DEF in
    <3>5. Free(s, k)
      <4>1. IsFiniteSet(BucketBlocks)
        BY DEF ContainersAssumptions, Bucket!BucketAssumption, Bucket!IsFiniteSet, IsFiniteSet
      <4>2. Cardinality(BucketBlocks \ s.m) \in Nat
        BY <4>1, FS_Difference, FS_CardinalityType
      <4>. QED
        BY <4>2 DEF Free
    <3>. HIDE DEF r
    <3>. QED
      BY <1>1, <3>1, <3>3, <3>4, <3>5
  <2>. QED
    BY <2>1, <2>2
<1>. HIDE DEF r
<1>3. ASSUME NEW x \in Items
      PROVE  LET t == Bucket!PushInternal(s, x) IN Fits(t, R) /\ Free(t, k) /\ t.a.bucketCapacity > 0
  <2>. DEFINE items == r.a.buckets[l].items
              a == [r.a EXCEPT !.buckets[l].items = Append(items, x), !.count = r.a.count + 1]
              t == Bucket!PushInternal(s, x)
  <2>1. BucketsRight(r.a) /\ l \in 1..Len(r.a.buckets) /\ r.a.count \in Int /\ items \in Seq(Items)
        /\ Len(items) \in Nat /\ r.a.bucketCapacity \in Nat
    <3>1. BucketsRight(r.a)
      BY <1>2 DEF Fits
    <3>2. l \in 1..Len(r.a.buckets)
      BY <1>2, <3>1, BucketParts
    <3>. HIDE DEF l
    <3>. QED
      BY <3>1, <3>2, BucketParts
  <2>2. Append(items, x) \in Seq(Items) /\ Len(Append(items, x)) <= r.a.bucketCapacity
    <3>1. Append(items, x) \in Seq(Items) /\ Len(Append(items, x)) = Len(items) + 1
      BY <2>1, AppendIs
    <3>. QED
      BY <1>2, <2>1, <3>1
  <2>3. t = [a |-> a, m |-> r.m]
    BY DEF Bucket!PushInternal, r
  <2>4. r.a.count + 1 \in Int
    BY <2>1
  <2>5. BucketsRight(a) /\ BlocksOf(a) = BlocksOf(r.a) /\ a.bucketCapacity = r.a.bucketCapacity
    <3>. DEFINE more == Append(items, x)
                c == r.a.count + 1
    <3>1. more \in Seq(Items) /\ Len(more) <= r.a.bucketCapacity /\ c \in Int
      BY <2>2, <2>4
    <3>. HIDE DEF more, c, l
    <3>2. LET e == WithItems(r.a, l, more, c)
          IN  BucketsRight(e) /\ BlocksOf(e) = BlocksOf(r.a) /\ e.bucketCapacity = r.a.bucketCapacity
      BY <2>1, <3>1, BucketSet
    <3>. QED
      BY <3>2 DEF more, c, WithItems
  <2>. HIDE DEF a, t
  <2>6. Fits(t, R)
    BY <1>2, <2>3, <2>5 DEF Fits, States, BucketsRight
  <2>7. Free(t, k) /\ t.a.bucketCapacity > 0
    BY <1>1, <1>2, <2>3, <2>5 DEF Free
  <2>. QED
    BY <2>6, <2>7 DEF t
<1>4. Fits(r, R) /\ Free(r, k) /\ r.a.bucketCapacity > 0
  BY <1>2
<1>. QED
  BY <1>3, <1>4 DEF r

\* A chunk is pushed.
LEMMA ChunkPushed ==
  ASSUME ContainersAssumptions, NEW R, NEW s, Fits(s, R), NEW chunk \in Seq(Items),
         Free(s, Len(chunk)), s.a.bucketCapacity > 0
  PROVE  Fits(Bucket!AllPushed(s, chunk), R)
<1>. DEFINE k == Len(chunk)
            G == [i \in 0..k |-> {t \in States : Fits(t, R) /\ Free(t, k - i) /\ t.a.bucketCapacity > 0}]
            N == [i \in 1..k |-> [t \in States |-> IF Bucket!PushInternal(t, chunk[i]) \in States
                                                   THEN Bucket!PushInternal(t, chunk[i]) ELSE t]]
            f == CHOOSE f : f = [i \in 0..k |-> IF i = 0 THEN s ELSE Bucket!PushInternal(f[i - 1], chunk[i])]
<1>0. k \in Nat /\ \A i \in 1..k : chunk[i] \in Items
  BY LenProperties, ElementOfSeq
<1>. HIDE DEF k
<1>1. ASSUME NEW i \in 1..k, NEW t \in G[i - 1] PROVE Bucket!PushInternal(t, chunk[i]) \in G[i]
  <2>1. i - 1 \in 0..k /\ i \in 0..k /\ k - i \in Nat /\ k - (i - 1) = (k - i) + 1
    BY <1>0
  <2>2. Fits(t, R) /\ Free(t, (k - i) + 1) /\ t.a.bucketCapacity > 0
    BY <1>1, <2>1
  <2>. DEFINE u == Bucket!PushInternal(t, chunk[i])
  <2>3. Fits(u, R) /\ Free(u, k - i) /\ u.a.bucketCapacity > 0
    BY <1>0, <2>1, <2>2, ItemPushed
  <2>. HIDE DEF u
  <2>4. u \in States
    BY <2>3 DEF Fits
  <2>5. u \in G[i]
    BY <2>1, <2>3, <2>4
  <2>. QED
    BY <2>5 DEF u
<1>2. s \in States
  BY DEF Fits
<1>3. s \in G[0]
  BY <1>0, <1>2 DEF k
<1>4. \E g : g = [i \in 0..k |-> IF i = 0 THEN s ELSE Bucket!PushInternal(g[i - 1], chunk[i])]
  <2>1. N \in [1..k -> [States -> States]]
    OBVIOUS
  <2>. HIDE DEF N, G
  <2>2. PICK g \in [0..k -> States] : g[0] = s /\ Upwards(g, N, k)
    BY <1>0, <1>2, <2>1, RecursionUp
  <2>3. g[0] = s /\ \A i \in 1..k : g[i] = N[i][g[i - 1]] /\ g[i - 1] \in States
    BY <1>0, <2>2 DEF Upwards
  <2>4. ASSUME NEW i \in 1..k, g[i - 1] \in G[i - 1] PROVE g[i] = Bucket!PushInternal(g[i - 1], chunk[i])
    <3>1. Bucket!PushInternal(g[i - 1], chunk[i]) \in G[i]
      BY <1>1, <2>4
    <3>2. Bucket!PushInternal(g[i - 1], chunk[i]) \in States
      BY <1>0, <3>1 DEF G
    <3>. QED
      BY <2>3, <3>2 DEF N
  <2>5. \A i \in 0..k : g[i] \in G[i]
    <3>1. \A i \in 1..k : g[i - 1] \in G[i - 1] => g[i] \in G[i]
      BY <1>1, <2>4
    <3>2. ASSUME NEW j \in 0..k PROVE g[j] \in G[j]
      <4>1. \A i \in 1..j : g[i - 1] \in G[i - 1] => g[i] \in G[i]
        BY <1>0, <3>1
      <4>2. j \in Nat /\ g[0] \in G[0]
        BY <1>3, <2>3
      <4>. QED
        BY <4>1, <4>2, StepsKeep
    <3>. QED
      BY <3>2
  <2>6. \A i \in 0..k : g[i] = IF i = 0 THEN s ELSE Bucket!PushInternal(g[i - 1], chunk[i])
    <3>. SUFFICES ASSUME NEW i \in 0..k, i # 0 PROVE g[i] = Bucket!PushInternal(g[i - 1], chunk[i])
      BY <2>3
    <3>1. i \in 1..k /\ i - 1 \in 0..k
      BY <1>0
    <3>. QED
      BY <2>4, <2>5, <3>1
  <2>7. g = [i \in 0..k |-> g[i]]
    BY <2>2
  <2>. QED
    BY <2>6, <2>7
<1>5. f = [i \in 0..k |-> IF i = 0 THEN s ELSE Bucket!PushInternal(f[i - 1], chunk[i])]
  <2>. DEFINE P(g) == g = [i \in 0..k |-> IF i = 0 THEN s ELSE Bucket!PushInternal(g[i - 1], chunk[i])]
  <2>1. \E g : P(g)
    BY <1>4
  <2>2. P(CHOOSE g : P(g))
    <3>. HIDE DEF P
    <3>. QED
      BY <2>1
  <2>. QED
    BY <2>2
<1>6. Bucket!AllPushed(s, chunk) = f[k]
  BY DEF Bucket!AllPushed, k
<1>. HIDE DEF f, G
<1>7. f[0] = s /\ \A i \in 1..k : f[i] = Bucket!PushInternal(f[i - 1], chunk[i])
  BY <1>0, <1>5
<1>8. f[k] \in G[k]
  <2>1. \A i \in 1..k : f[i - 1] \in G[i - 1] => f[i] \in G[i]
    BY <1>1, <1>7
  <2>. QED
    BY <1>0, <1>3, <1>7, <2>1, StepsKeep
<1>. QED
  BY <1>0, <1>6, <1>8 DEF G

\* Buckets after the first k go to the free list.
LEMMA BucketsRetired ==
  ASSUME NEW a, BucketsRight(a), NEW k \in 0..Len(a.buckets)
  PROVE  LET r == Bucket!RetireBuckets(a, k)
         IN  /\ BucketsRight(r) /\ BlocksOf(r) = BlocksOf(a) /\ Len(r.buckets) = k
             /\ r.count = a.count /\ r.bucketCapacity = a.bucketCapacity
<1>. DEFINE n == Len(a.buckets)
            m == Len(a.free)
            p == n - k
            bs == SubSeq(a.buckets, 1, k)
            old == [i \in 1..p |-> a.buckets[k + i].data]
            fr == old \o a.free
            r == Bucket!RetireBuckets(a, k)
<1>1. /\ n \in Nat /\ m \in Nat /\ k \in Nat /\ p \in Nat /\ n = k + p
      /\ a.buckets \in Seq(BucketRecords) /\ a.free \in Seq(BucketBlocks) /\ a \in BucketArrays
      /\ \A i \in 1..n : a.buckets[i] \in BucketRecords /\ a.buckets[i].data \in BucketBlocks
  <2>1. /\ n \in Nat /\ m \in Nat
        /\ a.buckets \in Seq(BucketRecords) /\ a.free \in Seq(BucketBlocks)
        /\ \A i \in 1..n : a.buckets[i] \in BucketRecords /\ a.buckets[i].data \in BucketBlocks
    BY BucketParts
  <2>2. k \in Nat /\ k <= n
    BY <2>1
  <2>3. a \in BucketArrays
    BY DEF BucketsRight
  <2>. HIDE DEF n, m
  <2>. QED
    BY <2>1, <2>2, <2>3
<1>2. r = [a EXCEPT !.buckets = bs, !.free = fr]
  BY DEF Bucket!RetireBuckets
<1>. HIDE DEF r, n, m, p
<1>3. \A i \in 1..k : i \in 1..n
  BY <1>1
<1>4. \A i \in 1..p : k + i \in 1..n /\ k + i \notin 1..k
  BY <1>1
<1>5. bs \in Seq(BucketRecords) /\ Len(bs) = k /\ \A i \in 1..k : bs[i] = a.buckets[i]
  <2>1. \A i \in 1..k : a.buckets[i] \in BucketRecords
    BY <1>1, <1>3
  <2>2. /\ bs \in Seq(BucketRecords) /\ Len(bs) = IF 1 <= k THEN k - 1 + 1 ELSE 0
        /\ \A i \in 1..k - 1 + 1 : bs[i] = a.buckets[1 + i - 1]
    BY <1>1, <2>1, SubSeqProperties
  <2>. HIDE DEF bs
  <2>. QED
    BY <1>1, <2>2
<1>6. old \in Seq(BucketBlocks) /\ Len(old) = p /\ \A i \in 1..p : old[i] = a.buckets[k + i].data
  <2>1. old \in [1..p -> BucketBlocks]
    BY <1>1, <1>4
  <2>2. \A i \in 1..p : old[i] = a.buckets[k + i].data
    OBVIOUS
  <2>. HIDE DEF old
  <2>3. old \in Seq(BucketBlocks)
    BY <1>1, <2>1, SeqDef
  <2>. QED
    BY <1>1, <2>1, <2>2, <2>3, LenProperties
<1>. HIDE DEF bs, old
<1>7. /\ fr \in Seq(BucketBlocks) /\ Len(fr) = p + m
      /\ \A i \in 1..p+m : fr[i] = IF i <= p THEN old[i] ELSE a.free[i - p]
  BY <1>1, <1>6, ConcatProperties DEF m
<1>. HIDE DEF fr
<1>8. /\ \A i \in 1..p : i \in 1..p+m /\ fr[i] = a.buckets[k + i].data
      /\ \A i \in 1..m : p + i \in 1..p+m /\ fr[p + i] = a.free[i]
      /\ \A i \in 1..p+m : i \in 1..p \/ (i - p \in 1..m /\ i = p + (i - p))
  BY <1>1, <1>6, <1>7
<1>9. /\ r \in BucketArrays /\ r.buckets = bs /\ r.free = fr /\ r.count = a.count
      /\ r.bucketCapacity = a.bucketCapacity /\ r.bufferCapacity = a.bufferCapacity
  BY <1>1, <1>2, <1>5, <1>7 DEF BucketArrays
<1>. DEFINE U == {a.buckets[i].data : i \in 1..n}
            F == {a.free[i] : i \in 1..m}
            V == {bs[i].data : i \in 1..k}
            E == {fr[i] : i \in 1..p+m}
<1>10. BlocksOf(a) = U \cup F /\ BlocksOf(r) = V \cup E
  BY <1>5, <1>7, <1>9 DEF BlocksOf, n, m
<1>11. V \cup E = U \cup F
  <2>1. V \subseteq U
    BY <1>3, <1>5
  <2>2. ASSUME NEW i \in 1..p+m PROVE fr[i] \in U \cup F
    <3>1. CASE i \in 1..p
      BY <1>4, <1>8, <3>1
    <3>2. CASE i - p \in 1..m /\ i = p + (i - p)
      <4>1. fr[i] = a.free[i - p]
        BY <1>8, <3>2
      <4>. QED
        BY <3>2, <4>1
    <3>. QED
      BY <1>8, <3>1, <3>2
  <2>3. ASSUME NEW i \in 1..n PROVE a.buckets[i].data \in V \cup E
    <3>1. CASE i \in 1..k
      BY <1>5, <3>1
    <3>2. CASE i - k \in 1..p /\ i = k + (i - k)
      <4>1. fr[i - k] = a.buckets[i].data /\ i - k \in 1..p+m
        BY <1>8, <3>2
      <4>. QED
        BY <4>1
    <3>3. i \in 1..k \/ (i - k \in 1..p /\ i = k + (i - k))
      BY <1>1
    <3>. QED
      BY <3>1, <3>2, <3>3
  <2>4. F \subseteq E
    BY <1>8
  <2>. QED
    BY <2>1, <2>2, <2>3, <2>4
<1>12. \A i, j \in 1..k : bs[i].data = bs[j].data => i = j
  BY <1>3, <1>5 DEF BucketsRight, n
<1>13. \A i, j \in 1..p+m : fr[i] = fr[j] => i = j
  <2>. SUFFICES ASSUME NEW i \in 1..p+m, NEW j \in 1..p+m, i <= j, fr[i] = fr[j] PROVE i = j
    BY <1>1
  <2>1. CASE j \in 1..p
    <3>1. /\ i \in 1..p /\ k + i \in 1..n /\ k + j \in 1..n
          /\ a.buckets[k + i].data = a.buckets[k + j].data
      BY <1>1, <1>4, <1>8, <2>1
    <3>2. k + i = k + j
      BY <3>1 DEF BucketsRight, n
    <3>. QED
      BY <1>1, <3>2
  <2>2. CASE i \in 1..p /\ j - p \in 1..m /\ j = p + (j - p)
    <3>1. k + i \in 1..n /\ a.buckets[k + i].data = a.free[j - p]
      BY <1>4, <1>8, <2>2
    <3>. QED
      BY <2>2, <3>1 DEF BucketsRight, n, m
  <2>3. CASE i - p \in 1..m /\ i = p + (i - p) /\ j - p \in 1..m /\ j = p + (j - p)
    <3>1. a.free[i - p] = a.free[j - p]
      BY <1>8, <2>3
    <3>2. i - p = j - p
      BY <2>3, <3>1 DEF BucketsRight, m
    <3>. QED
      BY <2>3, <3>2
  <2>4. j \in 1..p => i \in 1..p
    BY <1>1
  <2>. QED
    BY <1>8, <2>1, <2>2, <2>3
<1>14. \A i \in 1..k, j \in 1..p+m : bs[i].data # fr[j]
  <2>. SUFFICES ASSUME NEW i \in 1..k, NEW j \in 1..p+m, bs[i].data = fr[j] PROVE FALSE
    OBVIOUS
  <2>1. i \in 1..n /\ bs[i].data = a.buckets[i].data
    BY <1>3, <1>5
  <2>2. CASE j \in 1..p
    <3>1. k + j \in 1..n /\ k + j # i /\ a.buckets[k + j].data = a.buckets[i].data
      BY <1>4, <1>8, <2>1, <2>2
    <3>. QED
      BY <2>1, <3>1 DEF BucketsRight, n
  <2>3. CASE j - p \in 1..m /\ j = p + (j - p)
    <3>1. a.buckets[i].data = a.free[j - p]
      BY <1>8, <2>1, <2>3
    <3>. QED
      BY <2>1, <2>3, <3>1 DEF BucketsRight, n, m
  <2>. QED
    BY <1>8, <2>2, <2>3
<1>15. \A i \in 1..k : Len(bs[i].items) <= a.bucketCapacity
  BY <1>3, <1>5 DEF BucketsRight, n
<1>16. a.bucketCapacity \in PowersOf2 \cup {0} /\ k <= a.bufferCapacity
  <2>1. n <= a.bufferCapacity /\ a.bufferCapacity \in Nat /\ a.bucketCapacity \in PowersOf2 \cup {0}
    BY BucketParts DEF BucketsRight, n
  <2>. QED
    BY <1>1, <2>1
<1>17. BucketsRight(r)
  BY <1>5, <1>7, <1>9, <1>12, <1>13, <1>14, <1>15, <1>16 DEF BucketsRight
<1>. QED
  BY <1>5, <1>9, <1>10, <1>11, <1>17 DEF r

---------------------------------------------------------------------------
(* All the BucketArrays, and the memory they share.                        *)
AllBucketsRight(as, m) ==
  /\ as = [n \in ArrayNames |-> as[n]]
  /\ \A n \in ArrayNames : BucketsRight(as[n])
  /\ m = UNION {BlocksOf(as[n]) : n \in ArrayNames}
  /\ \A n, k \in ArrayNames : n # k => BlocksOf(as[n]) \cap BlocksOf(as[k]) = {}

BucketsRightNow == AllBucketsRight(bArrays, bMem)

\* What the other arrays have.
Others(n) == bMem \ BlocksOf(bArrays[n])

LEMMA ArrayFits ==
  ASSUME BucketsRightNow, NEW n \in ArrayNames
  PROVE  /\ BucketsRight(bArrays[n]) /\ BlocksOf(bArrays[n]) \subseteq bMem
         /\ Fits([a |-> bArrays[n], m |-> bMem], Others(n))
         /\ Bucket!Data(bArrays[n]) = BlocksOf(bArrays[n])
<1>1. BucketsRight(bArrays[n]) /\ BlocksOf(bArrays[n]) \subseteq bMem
  BY DEF BucketsRightNow, AllBucketsRight
<1>2. bMem \subseteq BucketBlocks
  <2>1. \A k \in ArrayNames : BlocksOf(bArrays[k]) \subseteq BucketBlocks
    BY BucketParts DEF BucketsRightNow, AllBucketsRight
  <2>. QED
    BY <2>1 DEF BucketsRightNow, AllBucketsRight
<1>3. Fits([a |-> bArrays[n], m |-> bMem], Others(n))
  BY <1>1, <1>2 DEF Fits, States, Others, BucketsRight
<1>. QED
  BY <1>1, <1>3, HeldIs

\* One array is changed, and with it its blocks.
LEMMA ArrayUpdated ==
  ASSUME NEW as, NEW m, AllBucketsRight(as, m), NEW n \in ArrayNames,
         NEW s, Fits(s, m \ BlocksOf(as[n]))
  PROVE  AllBucketsRight([as EXCEPT ![n] = s.a], s.m)
<1>. DEFINE a == s.a
            now == [as EXCEPT ![n] = s.a]
            R == m \ BlocksOf(as[n])
<1>1. /\ BucketsRight(a) /\ s.m = R \cup BlocksOf(a) /\ R \cap BlocksOf(a) = {}
  BY DEF Fits, R
<1>. HIDE DEF R
<1>2. /\ now = [k \in ArrayNames |-> now[k]] /\ now[n] = a
      /\ \A k \in ArrayNames : k # n => now[k] = as[k]
  BY DEF AllBucketsRight
<1>. HIDE DEF now
<1>3. \A k \in ArrayNames : BucketsRight(now[k])
  BY <1>1, <1>2 DEF AllBucketsRight
<1>4. \A k \in ArrayNames : k # n => BlocksOf(as[k]) \subseteq R
  BY DEF AllBucketsRight, R
<1>5. \A k, l \in ArrayNames : k # l => BlocksOf(now[k]) \cap BlocksOf(now[l]) = {}
  <2>. SUFFICES ASSUME NEW k \in ArrayNames, NEW l \in ArrayNames, k # l
                PROVE  BlocksOf(now[k]) \cap BlocksOf(now[l]) = {}
    OBVIOUS
  <2>1. CASE k = n
    <3>1. BlocksOf(now[k]) = BlocksOf(a) /\ BlocksOf(now[l]) \subseteq R
      BY <1>2, <1>4, <2>1
    <3>. QED
      BY <1>1, <3>1
  <2>2. CASE l = n
    <3>1. BlocksOf(now[l]) = BlocksOf(a) /\ BlocksOf(now[k]) \subseteq R
      BY <1>2, <1>4, <2>2
    <3>. QED
      BY <1>1, <3>1
  <2>3. CASE k # n /\ l # n
    BY <1>2, <2>3 DEF AllBucketsRight
  <2>. QED
    BY <2>1, <2>2, <2>3
<1>6. s.m = UNION {BlocksOf(now[k]) : k \in ArrayNames}
  <2>1. ASSUME NEW b \in R PROVE \E k \in ArrayNames : b \in BlocksOf(now[k])
    <3>1. PICK k \in ArrayNames : b \in BlocksOf(as[k])
      BY <2>1 DEF R, AllBucketsRight
    <3>2. k # n
      BY <2>1, <3>1 DEF R
    <3>. QED
      BY <1>2, <3>1, <3>2
  <2>2. ASSUME NEW k \in ArrayNames PROVE BlocksOf(now[k]) \subseteq R \cup BlocksOf(a)
    BY <1>2, <1>4
  <2>3. BlocksOf(a) = BlocksOf(now[n])
    BY <1>2
  <2>. QED
    BY <1>1, <2>1, <2>2, <2>3
<1>. QED
  BY <1>2, <1>3, <1>5, <1>6 DEF AllBucketsRight, now, a

\* The array keeps its blocks.
LEMMA ArrayKept ==
  ASSUME BucketsRightNow, NEW n \in ArrayNames, NEW r, BucketsRight(r),
         BlocksOf(r) = BlocksOf(bArrays[n]),
         bArrays' = [bArrays EXCEPT ![n] = r], bMem' = bMem
  PROVE  BucketsRightNow'
<1>. DEFINE s == [a |-> r, m |-> bMem]
<1>1. Fits(s, Others(n)) /\ s.a = r /\ s.m = bMem
  BY ArrayFits DEF Fits, States, BucketsRight
<1>. HIDE DEF s
<1>2. AllBucketsRight(bArrays, bMem)
  BY DEF BucketsRightNow
<1>. QED
  BY <1>1, <1>2, ArrayUpdated DEF BucketsRightNow, Others

\* An array without buckets.
LEMMA Bucketless ==
  ASSUME NEW r \in BucketArrays, r.bucketCapacity \in PowersOf2 \cup {0}, r.buckets = <<>>, r.free = <<>>
  PROVE  BucketsRight(r) /\ BlocksOf(r) = {}
<1>1. Len(r.buckets) = 0 /\ Len(r.free) = 0 /\ r.bufferCapacity \in Nat
  BY DEF BucketArrays
<1>2. 1..0 = {}
  OBVIOUS
<1>. QED
  BY <1>1, <1>2 DEF BucketsRight, BlocksOf

LEMMA NewBuckets ==
  ASSUME HashtableAssumption, ContainersAssumptions, NEW size \in BucketSizes
  PROVE  BucketsRight(Bucket!New(size)) /\ BlocksOf(Bucket!New(size)) = {}
<1>1. PICK p \in PowersOf2 : size \in Nat /\ size <= p
  BY BucketPowers DEF ContainersAssumptions, Bucket!BucketAssumption
<1>. DEFINE c == NextPowerOf2(size)
<1>2. c \in Nat /\ c \in PowersOf2 \cup {0}
  <2>1. c \in Nat /\ (size > 0 => c \in PowersOf2)
    BY <1>1, NextPower
  <2>2. size = 0 => c \in PowersOf2 \cup {0}
    BY DEF NextPowerOf2, IsPowerOf2
  <2>. QED
    BY <1>1, <2>1, <2>2
<1>. HIDE DEF c
<1>. DEFINE r == Bucket!New(size)
<1>3. r = [buckets |-> <<>>, bufferCapacity |-> 0, count |-> 0, free |-> <<>>,
           bucketCapacity |-> c, allocator |-> TRUE]
  <2>1. Bucket!NextPowerOf2(size) = c
    BY BucketPowers DEF c
  <2>2. r = [Bucket!Unset EXCEPT !.bucketCapacity = c, !.allocator = TRUE]
    BY <2>1, Zenon DEF Bucket!New
  <2>. HIDE DEF r
  <2>. QED
    BY <2>2 DEF Bucket!Unset
<1>. HIDE DEF r
<1>4. r \in BucketArrays /\ r.bucketCapacity = c /\ r.buckets = <<>> /\ r.free = <<>>
  <2>1. <<>> \in Seq(BucketRecords) /\ <<>> \in Seq(BucketBlocks)
    BY EmptySeq
  <2>. QED
    BY <1>2, <1>3, <2>1 DEF BucketArrays
<1>. QED
  BY <1>2, <1>4, Bucketless DEF r

LEMMA NoBuckets ==
  ASSUME NEW b \in BOOLEAN, NEW r,
         r = [buckets |-> <<>>, bufferCapacity |-> 0, count |-> 0, free |-> <<>>,
              bucketCapacity |-> 0, allocator |-> b]
  PROVE  BucketsRight(r) /\ BlocksOf(r) = {}
<1>1. <<>> \in Seq(BucketRecords) /\ <<>> \in Seq(BucketBlocks)
  BY EmptySeq
<1>2. r.bucketCapacity = 0 /\ r.buckets = <<>> /\ r.free = <<>>
  OBVIOUS
<1>3. r \in BucketArrays
  <2>1. CASE b = TRUE
    BY <1>1, <2>1 DEF BucketArrays
  <2>2. CASE b = FALSE
    BY <1>1, <2>2 DEF BucketArrays
  <2>. QED
    BY <2>1, <2>2
<1>. QED
  BY <1>2, <1>3, Bucketless

\* Reset, Destroy and the assignment that moves.
LEMMA BucketHandOverSteps ==
  ASSUME HashtableAssumption, ContainersAssumptions, BucketsRightNow, NEW n \in ArrayNames,
         \/ \E size \in BucketSizes : Bucket!Reset(n, size)
         \/ Bucket!Destroy(n)
         \/ \E k \in ArrayNames : Bucket!Move(n, k)
  PROVE  BucketsRightNow'
<1>1. /\ AllBucketsRight(bArrays, bMem) /\ Bucket!Data(bArrays[n]) = BlocksOf(bArrays[n])
      /\ BucketsRight(bArrays[n]) /\ bMem \subseteq BucketBlocks
  BY ArrayFits DEF BucketsRightNow, Fits, States
<1>2. ASSUME NEW as, NEW m, AllBucketsRight(as, m), m \subseteq BucketBlocks, NEW k \in ArrayNames,
             NEW r, BucketsRight(r), BlocksOf(r) = {}
      PROVE  AllBucketsRight([as EXCEPT ![k] = r], m \ BlocksOf(as[k]))
  <2>. DEFINE s == [a |-> r, m |-> m \ BlocksOf(as[k])]
  <2>1. Fits(s, m \ BlocksOf(as[k])) /\ s.a = r /\ s.m = m \ BlocksOf(as[k])
    BY <1>2 DEF Fits, States, BucketsRight
  <2>. HIDE DEF s
  <2>2. AllBucketsRight([as EXCEPT ![k] = s.a], s.m)
    BY <1>2, <2>1, ArrayUpdated
  <2>. QED
    BY <2>1, <2>2
<1>3. CASE \E size \in BucketSizes : Bucket!Reset(n, size)
  <2>1. PICK size \in BucketSizes : Bucket!Reset(n, size)
    BY <1>3
  <2>. DEFINE r == Bucket!New(size)
  <2>2. bArrays' = [bArrays EXCEPT ![n] = r] /\ bMem' = bMem \ BlocksOf(bArrays[n])
    BY <1>1, <2>1 DEF Bucket!Reset, Bucket!Update
  <2>3. BucketsRight(r) /\ BlocksOf(r) = {}
    BY NewBuckets
  <2>. HIDE DEF r
  <2>. QED
    BY <1>1, <1>2, <2>2, <2>3 DEF BucketsRightNow
<1>4. CASE Bucket!Destroy(n)
  <2>. DEFINE b == bArrays[n].allocator
              r == [Bucket!Unset EXCEPT !.allocator = b]
  <2>1. bArrays' = [bArrays EXCEPT ![n] = r] /\ bMem' = bMem \ BlocksOf(bArrays[n])
    BY <1>1, <1>4 DEF Bucket!Destroy, Bucket!Update
  <2>2. b \in BOOLEAN
    BY <1>1 DEF BucketsRight, BucketArrays
  <2>. HIDE DEF b
  <2>3. BucketsRight(r) /\ BlocksOf(r) = {}
    <3>1. r = [buckets |-> <<>>, bufferCapacity |-> 0, count |-> 0, free |-> <<>>,
               bucketCapacity |-> 0, allocator |-> b]
      BY DEF Bucket!Unset
    <3>. HIDE DEF r
    <3>. QED
      BY <2>2, <3>1, NoBuckets
  <2>. HIDE DEF r
  <2>. QED
    BY <1>1, <1>2, <2>1, <2>3 DEF BucketsRightNow
<1>5. CASE \E k \in ArrayNames : Bucket!Move(n, k)
  <2>1. PICK k \in ArrayNames : Bucket!Move(n, k)
    BY <1>5
  <2>. DEFINE r == Bucket!Unset
              freed == [bArrays EXCEPT ![n] = r]
              m == bMem \ BlocksOf(bArrays[n])
              both == [freed EXCEPT ![k] = r]
              B == BlocksOf(bArrays[k])
              s == [a |-> bArrays[k], m |-> m]
  <2>2. bArrays' = [bArrays EXCEPT ![n] = bArrays[k], ![k] = r] /\ bMem' = m
    BY <1>1, <2>1 DEF Bucket!Move
  <2>3. BucketsRight(r) /\ BlocksOf(r) = {}
    <3>1. r = [buckets |-> <<>>, bufferCapacity |-> 0, count |-> 0, free |-> <<>>,
               bucketCapacity |-> 0, allocator |-> FALSE]
      BY DEF Bucket!Unset
    <3>. QED
      BY <3>1, NoBuckets
  <2>. HIDE DEF r
  <2>4. AllBucketsRight(freed, m) /\ m \subseteq BucketBlocks
    BY <1>1, <1>2, <2>3
  <2>12. CASE n = k
    <3>1. bArrays' = [bArrays EXCEPT ![n] = r]
      BY <1>1, <2>2, <2>12 DEF AllBucketsRight
    <3>. QED
      BY <2>2, <2>4, <3>1 DEF BucketsRightNow
  <2>13. SUFFICES ASSUME n # k PROVE BucketsRightNow'
    BY <2>12
  <2>5. /\ DOMAIN bArrays = ArrayNames /\ BucketsRight(bArrays[k]) /\ B \subseteq bMem
        /\ B \cap BlocksOf(bArrays[n]) = {}
    BY <1>1, <2>13 DEF AllBucketsRight
  <2>6. freed[k] = bArrays[k] /\ DOMAIN freed = ArrayNames
    BY <2>5, <2>13
  <2>. HIDE DEF freed
  <2>7. AllBucketsRight(both, m \ B)
    BY <1>2, <2>3, <2>4, <2>6
  <2>8. both[n] = r /\ (m \ B) \ BlocksOf(r) = m \ B
    <3>1. freed[n] = r
      BY <2>5 DEF freed
    <3>. QED
      BY <2>3, <2>6, <2>13, <3>1
  <2>. HIDE DEF both
  <2>9. Fits(s, m \ B) /\ s.a = bArrays[k] /\ s.m = m
    <3>1. m = (m \ B) \cup B /\ (m \ B) \cap B = {}
      BY <2>5
    <3>. QED
      BY <2>4, <2>5, <3>1 DEF Fits, States, BucketsRight
  <2>. HIDE DEF s, m, B
  <2>10. AllBucketsRight([both EXCEPT ![n] = bArrays[k]], m)
    BY <2>7, <2>8, <2>9, ArrayUpdated
  <2>11. [both EXCEPT ![n] = bArrays[k]] = [bArrays EXCEPT ![n] = bArrays[k], ![k] = r]
    BY <2>5, <2>13 DEF both, freed
  <2>. QED
    BY <2>2, <2>10, <2>11 DEF BucketsRightNow
<1>. QED
  BY <1>3, <1>4, <1>5

LEMMA DivideUp ==
  ASSUME NEW c \in Nat, NEW l \in Nat, NEW p \in Nat, p > 0, c > l * p
  PROVE  (c + p - 1) \div p \in Nat /\ (c + p - 1) \div p > l
<1>. DEFINE x == c + p - 1
            q == x \div p
<1>1. x \in Nat /\ x >= c
  OBVIOUS
<1>2. q \in Nat /\ x < (q + 1) * p
  <2>. HIDE DEF x
  <2>. QED
    BY <1>1
<1>3. (q + 1) * p = q * p + p
  BY <1>2
<1>4. c <= q * p
  <2>. DEFINE y == q * p
  <2>1. y \in Int
    BY <1>2
  <2>2. x < y + p
    BY <1>2, <1>3
  <2>. HIDE DEF q, y
  <2>3. c <= y
    BY <2>1, <2>2
  <2>. QED
    BY <2>3 DEF y
<1>5. q <= l => q * p <= l * p
  <2>. HIDE DEF q, x
  <2>. QED
    BY <1>2
<1>6. q * p \in Int /\ l * p \in Int
  <2>. HIDE DEF q, x
  <2>. QED
    BY <1>2
<1>. HIDE DEF x
<1>7. ~(q <= l)
  <2>. HIDE DEF q
  <2>. QED
    BY <1>4, <1>5, <1>6
<1>8. q > l
  <2>. HIDE DEF q
  <2>. QED
    BY <1>2, <1>7
<1>. QED
  BY <1>2, <1>8 DEF x

\* Reserve and Push.
LEMMA BucketGrowSteps ==
  ASSUME ContainersAssumptions, BucketsRightNow, NEW n \in ArrayNames,
         \/ \E c \in ReserveSizes : Bucket!Reserve(n, c)
         \/ \E chunk \in Chunks : Bucket!Push(n, chunk)
  PROVE  BucketsRightNow'
<1>. DEFINE a == bArrays[n]
            R == Others(n)
            s == [a |-> a, m |-> bMem]
<1>1. /\ BucketsRight(a) /\ Fits(s, R) /\ AllBucketsRight(bArrays, bMem)
      /\ R = bMem \ BlocksOf(bArrays[n])
  BY ArrayFits DEF BucketsRightNow, Others
<1>2. a.bucketCapacity \in Nat /\ Len(a.buckets) \in Nat
  BY <1>1, BucketParts
<1>. HIDE DEF R
<1>3. ASSUME NEW t, Fits(t, R), Bucket!Update(n, t) PROVE BucketsRightNow'
  <2>1. AllBucketsRight([bArrays EXCEPT ![n] = t.a], t.m)
    BY <1>1, <1>3, ArrayUpdated
  <2>. QED
    BY <1>3, <2>1 DEF BucketsRightNow, Bucket!Update
<1>4. CASE \E c \in ReserveSizes : Bucket!Reserve(n, c)
  <2>1. PICK c \in ReserveSizes : Bucket!Reserve(n, c)
    BY <1>4
  <2>2. c \in Nat
    BY DEF ContainersAssumptions, Bucket!BucketAssumption
  <2>3. CASE c <= Bucket!Capacity(a)
    BY <2>1, <2>3 DEF Bucket!Reserve, BucketsRightNow
  <2>4. CASE ~(c <= Bucket!Capacity(a))
    <3>. DEFINE p == a.bucketCapacity
                l == Len(a.buckets)
                wanted == (c + p - 1) \div p
                t == [a |-> Bucket!GrowBucketBuffer(a, wanted), m |-> bMem]
    <3>1. /\ p > 0 /\ Bucket!Room(wanted)
          /\ Bucket!Update(n, Bucket!Allocated(t, wanted - l))
      BY <2>1, <2>4 DEF Bucket!Reserve, Bucket!Usable
    <3>2. c > l * p
      <4>1. l * p \in Int
        BY <1>2
      <4>. QED
        BY <2>2, <2>4, <4>1 DEF Bucket!Capacity
    <3>3. wanted \in Nat /\ wanted > l
      <4>. HIDE DEF p, l
      <4>1. p \in Nat /\ l \in Nat
        BY <1>2 DEF p, l
      <4>. QED
        BY <2>2, <3>1, <3>2, <4>1, DivideUp
    <3>. HIDE DEF wanted
    <3>. DEFINE more == Bucket!GrowBucketBuffer(a, wanted)
    <3>4. BucketsRight(more) /\ BlocksOf(more) = BlocksOf(a)
      BY <1>1, <3>3, BufferGrown
    <3>5. Fits(t, R)
      <4>. HIDE DEF more
      <4>1. Fits([a |-> more, m |-> bMem], R)
        BY <1>1, <3>4 DEF Fits, States, BucketsRight
      <4>. QED
        BY <4>1 DEF more
    <3>6. Free(t, wanted - l) /\ wanted - l \in Nat
      <4>1. Cardinality(BucketBlocks \ bMem) >= wanted
        BY <3>1, RoomIs
      <4>2. IsFiniteSet(BucketBlocks)
        BY DEF ContainersAssumptions, Bucket!BucketAssumption, Bucket!IsFiniteSet, IsFiniteSet
      <4>3. Cardinality(BucketBlocks \ bMem) \in Nat
        BY <4>2, FS_Difference, FS_CardinalityType
      <4>. QED
        BY <1>2, <3>3, <4>1, <4>3 DEF Free
    <3>. HIDE DEF t, l
    <3>7. Fits(Bucket!Allocated(t, wanted - l), R)
      BY <3>5, <3>6, BucketsAllocated
    <3>. QED
      BY <1>3, <3>1, <3>7
  <2>. QED
    BY <2>3, <2>4
<1>5. CASE \E chunk \in Chunks : Bucket!Push(n, chunk)
  <2>1. PICK chunk \in Chunks : Bucket!Push(n, chunk)
    BY <1>5
  <2>2. chunk \in Seq(Items) /\ Len(chunk) \in Nat
    <3>1. chunk \in Seq(Items)
      BY DEF ContainersAssumptions, Bucket!BucketAssumption
    <3>. QED
      BY <3>1, LenProperties
  <2>3. s.a.bucketCapacity > 0
    BY <2>1 DEF Bucket!Push, Bucket!Usable
  <2>4. CASE chunk = <<>>
    <3>1. Bucket!Room(1) /\ Bucket!Update(n, Bucket!WithRoom(s))
      BY <2>1, <2>4 DEF Bucket!Push
    <3>2. 0 \in Nat /\ Free(s, 0 + 1)
      BY <3>1, RoomIs DEF Free
    <3>. HIDE DEF s
    <3>3. Fits(Bucket!WithRoom(s), R)
      BY <1>1, <2>3, <3>2, ItemPushed
    <3>. QED
      BY <1>3, <3>1, <3>3
  <2>5. CASE chunk # <<>>
    <3>. DEFINE k == Len(chunk)
    <3>1. Bucket!Room(k) /\ Bucket!Update(n, Bucket!AllPushed(s, chunk))
      BY <2>1, <2>5 DEF Bucket!Push
    <3>2. Free(s, k)
      <4>. HIDE DEF k
      <4>. QED
        BY <2>2, <3>1, RoomIs DEF Free, k
    <3>. HIDE DEF s
    <3>3. Fits(Bucket!AllPushed(s, chunk), R)
      BY <1>1, <2>2, <2>3, <3>2, ChunkPushed
    <3>. QED
      BY <1>3, <3>1, <3>3
  <2>. QED
    BY <2>4, <2>5
<1>. QED
  BY <1>4, <1>5

\* Items are stored over those there are.
LEMMA ItemsOverwritten ==
  ASSUME NEW a, BucketsRight(a), NEW chunk \in Seq(Items), NEW offset
  PROVE  LET r == Bucket!Overwritten(a, chunk, offset)
         IN  BucketsRight(r) /\ BlocksOf(r) = BlocksOf(a)
<1>. DEFINE n == Len(a.buckets)
            Over(b, slot) == {i \in DOMAIN chunk :
                                Bucket!FindBucket(a, offset + i - 1) = [bucket |-> b, slot |-> slot]}
            New(b) == [slot \in DOMAIN a.buckets[b].items |->
                         IF Over(b, slot) = {} THEN a.buckets[b].items[slot]
                         ELSE chunk[CHOOSE i \in Over(b, slot) : TRUE]]
            bs == [b \in DOMAIN a.buckets |-> [data |-> a.buckets[b].data, items |-> New(b)]]
            r == [a EXCEPT !.buckets = bs]
<1>1. Bucket!Overwritten(a, chunk, offset) = r
  BY DEF Bucket!Overwritten
<1>2. /\ n \in Nat /\ DOMAIN a.buckets = 1..n /\ a \in BucketArrays
      /\ \A b \in 1..n : /\ a.buckets[b].data \in BucketBlocks /\ a.buckets[b].items \in Seq(Items)
                         /\ Len(a.buckets[b].items) <= a.bucketCapacity
  BY BucketParts DEF BucketsRight
<1>3. \A i \in DOMAIN chunk : chunk[i] \in Items
  BY LenProperties, ElementOfSeq
<1>. HIDE DEF Over, n
<1>4. ASSUME NEW b \in 1..n
      PROVE  New(b) \in Seq(Items) /\ Len(New(b)) = Len(a.buckets[b].items)
  <2>. DEFINE its == a.buckets[b].items
              k == Len(its)
  <2>1. k \in Nat /\ DOMAIN its = 1..k /\ \A i \in 1..k : its[i] \in Items
    BY <1>2, LenProperties, ElementOfSeq
  <2>. HIDE DEF its, k
  <2>2. ASSUME NEW slot \in 1..k, Over(b, slot) # {}
        PROVE  chunk[CHOOSE i \in Over(b, slot) : TRUE] \in Items
    <3>1. Over(b, slot) \subseteq DOMAIN chunk
      BY DEF Over
    <3>2. (CHOOSE i \in Over(b, slot) : TRUE) \in Over(b, slot)
      BY <2>2
    <3>. QED
      BY <1>3, <3>1, <3>2
  <2>3. New(b) \in [1..k -> Items]
    <3>1. New(b) = [slot \in 1..k |-> IF Over(b, slot) = {} THEN its[slot]
                                      ELSE chunk[CHOOSE i \in Over(b, slot) : TRUE]]
      BY <2>1 DEF its
    <3>. QED
      BY <2>1, <2>2, <3>1
  <2>. HIDE DEF New
  <2>4. New(b) \in Seq(Items)
    BY <2>1, <2>3, SeqDef
  <2>5. Len(New(b)) = k
    BY <2>1, <2>3, <2>4, LenProperties
  <2>. QED
    BY <2>4, <2>5 DEF k, its
<1>. HIDE DEF New
<1>5. bs \in Seq(BucketRecords) /\ Len(bs) = n
      /\ \A b \in 1..n : bs[b].data = a.buckets[b].data /\ bs[b].items = New(b)
  <2>1. /\ bs \in [1..n -> BucketRecords]
        /\ \A b \in 1..n : bs[b].data = a.buckets[b].data /\ bs[b].items = New(b)
    BY <1>2, <1>4 DEF BucketRecords
  <2>. HIDE DEF bs
  <2>2. bs \in Seq(BucketRecords)
    BY <1>2, <2>1, SeqDef
  <2>. QED
    BY <1>2, <2>1, <2>2, LenProperties
<1>. HIDE DEF bs
<1>6. /\ r \in BucketArrays /\ r.buckets = bs /\ r.free = a.free
      /\ r.bucketCapacity = a.bucketCapacity /\ r.bufferCapacity = a.bufferCapacity
  BY <1>2, <1>5 DEF BucketArrays
<1>. HIDE DEF r
<1>7. \A b \in 1..n : r.buckets[b].data = a.buckets[b].data /\ Len(r.buckets[b].items) <= a.bucketCapacity
  BY <1>2, <1>4, <1>5, <1>6
<1>8. BucketsRight(r) /\ BlocksOf(r) = BlocksOf(a)
  BY <1>5, <1>6, <1>7, ItemsChanged DEF n
<1>. QED
  BY <1>1, <1>8

\* Pop, Clear and the copies.
LEMMA BucketItemSteps ==
  ASSUME ContainersAssumptions, BucketsRightNow, NEW n \in ArrayNames,
         \/ Bucket!Pop(n) \/ Bucket!Clear(n)
         \/ \E chunk \in Chunks : \E offset \in 0..bArrays[n].count : Bucket!CopyFrom(n, chunk, offset)
         \/ \E k \in 1..bArrays[n].count : Bucket!CopyTo(n, k, bArrays[n].count - k)
  PROVE  BucketsRightNow'
<1>. DEFINE a == bArrays[n]
            l == Len(a.buckets)
            Keeps(r) == /\ BucketsRight(r) /\ BlocksOf(r) = BlocksOf(a)
                        /\ bArrays' = [bArrays EXCEPT ![n] = r] /\ bMem' = bMem
<1>1. ASSUME NEW r, Keeps(r) PROVE BucketsRightNow'
  BY <1>1, ArrayKept
<1>2. /\ BucketsRight(a) /\ a \in BucketArrays /\ l \in Nat /\ a.count \in Int
      /\ a.buckets # <<>> => l > 0
      /\ a.bucketCapacity \in Nat
  <2>1. BucketsRight(a)
    BY ArrayFits
  <2>. QED
    BY <2>1, BucketParts DEF BucketsRight
<1>. HIDE DEF Keeps
<1>7. CASE Bucket!Pop(n) /\ a.buckets # <<>> /\ a.buckets[l].items = <<>>
  <2>. DEFINE c == a.count - 1
              r == [a EXCEPT !.count = c]
  <2>1. bArrays' = [bArrays EXCEPT ![n] = r] /\ bMem' = bMem
    BY <1>7 DEF Bucket!Pop
  <2>2. c \in Int
    BY <1>2
  <2>. HIDE DEF c
  <2>3. /\ r \in BucketArrays /\ r.buckets = a.buckets /\ r.free = a.free
        /\ r.bucketCapacity = a.bucketCapacity /\ r.bufferCapacity = a.bufferCapacity
    BY <1>2, <2>2 DEF BucketArrays
  <2>. HIDE DEF r
  <2>4. BucketsRight(r) /\ BlocksOf(r) = BlocksOf(a)
    BY <1>2, <2>3 DEF BucketsRight, BlocksOf
  <2>. QED
    BY <1>1, <2>1, <2>4 DEF Keeps
<1>3. CASE Bucket!Pop(n) /\ a.buckets # <<>> /\ a.buckets[l].items # <<>>
  <2>. DEFINE items == a.buckets[l].items
              less == Bucket!Front(items)
              c == a.count - 1
              popped == WithItems(a, l, less, c)
              r == IF Len(items) = 1 /\ l > 1 THEN Bucket!RetireBuckets(popped, l - 1) ELSE popped
  <2>1. /\ a.buckets # <<>> /\ items # <<>> /\ bMem' = bMem
        /\ bArrays' = [bArrays EXCEPT ![n] = r]
    BY <1>3 DEF Bucket!Pop, WithItems
  <2>2. l > 0 /\ l \in 1..Len(a.buckets)
    BY <1>2, <2>1
  <2>3. items \in Seq(Items) /\ Len(items) \in Nat /\ Len(items) <= a.bucketCapacity
        /\ \A i \in 1..Len(items) : items[i] \in Items
    <3>. HIDE DEF l
    <3>1. items \in Seq(Items) /\ Len(items) <= a.bucketCapacity
      BY <1>2, <2>2, BucketParts DEF BucketsRight
    <3>. HIDE DEF items
    <3>. QED
      BY <3>1, LenProperties, ElementOfSeq
  <2>4. less \in Seq(Items) /\ Len(less) <= a.bucketCapacity
    <3>. HIDE DEF items
    <3>. DEFINE m == Len(items) - 1
    <3>1. less = SubSeq(items, 1, m)
      BY DEF Bucket!Front
    <3>2. m \in Int /\ \A i \in 1..m : items[i] \in Items
      BY <2>3
    <3>3. m >= 0
      BY <2>1, <2>3, EmptySeq
    <3>. HIDE DEF m, less
    <3>4. less \in Seq(Items) /\ Len(less) = IF 1 <= m THEN m - 1 + 1 ELSE 0
      BY <3>1, <3>2, SubSeqProperties
    <3>5. m < Len(items)
      BY <2>3 DEF m
    <3>. QED
      BY <1>2, <2>3, <3>2, <3>3, <3>4, <3>5
  <2>5. c \in Int
    BY <1>2
  <2>. HIDE DEF less, c
  <2>6. BucketsRight(popped) /\ BlocksOf(popped) = BlocksOf(a) /\ Len(popped.buckets) = l
    BY <1>2, <2>2, <2>4, <2>5, BucketSet
  <2>. HIDE DEF popped, l, items
  <2>7. BucketsRight(r) /\ BlocksOf(r) = BlocksOf(a)
    <3>1. CASE Len(items) = 1 /\ l > 1
      <4>1. l - 1 \in 0..Len(popped.buckets)
        BY <1>2, <2>6, <3>1
      <4>. QED
        BY <2>6, <3>1, <4>1, BucketsRetired
    <3>2. CASE ~(Len(items) = 1 /\ l > 1)
      BY <2>6, <3>2
    <3>. QED
      BY <3>1, <3>2
  <2>. HIDE DEF r
  <2>. QED
    BY <1>1, <2>1, <2>7 DEF Keeps
<1>4. CASE Bucket!Clear(n)
  <2>1. CASE a.buckets = <<>>
    <3>. DEFINE r == [a EXCEPT !.count = 0]
    <3>1. bArrays' = [bArrays EXCEPT ![n] = r] /\ bMem' = bMem
      BY <1>4, <2>1 DEF Bucket!Clear
    <3>2. /\ r \in BucketArrays /\ r.buckets = a.buckets /\ r.free = a.free
          /\ r.bucketCapacity = a.bucketCapacity /\ r.bufferCapacity = a.bufferCapacity
      BY <1>2 DEF BucketArrays
    <3>. HIDE DEF r
    <3>3. BucketsRight(r) /\ BlocksOf(r) = BlocksOf(a)
      BY <1>2, <3>2 DEF BucketsRight, BlocksOf
    <3>. QED
      BY <1>1, <3>1, <3>3 DEF Keeps
  <2>2. CASE a.buckets # <<>>
    <3>. DEFINE one == Bucket!RetireBuckets(a, 1)
                r == WithItems(one, 1, <<>>, 0)
    <3>1. bArrays' = [bArrays EXCEPT ![n] = r] /\ bMem' = bMem
      BY <1>4, <2>2 DEF Bucket!Clear, WithItems
    <3>2. 1 \in 0..Len(a.buckets)
      BY <1>2, <2>2
    <3>3. BucketsRight(one) /\ BlocksOf(one) = BlocksOf(a) /\ Len(one.buckets) = 1
      BY <1>2, <3>2, BucketsRetired
    <3>. HIDE DEF one
    <3>4. /\ <<>> \in Seq(Items) /\ Len(<<>>) <= one.bucketCapacity
          /\ 1 \in 1..Len(one.buckets) /\ 0 \in Int
      BY <3>3, BucketParts, EmptySeq
    <3>5. BucketsRight(r) /\ BlocksOf(r) = BlocksOf(one)
      BY <3>3, <3>4, BucketSet
    <3>. HIDE DEF r
    <3>. QED
      BY <1>1, <3>1, <3>3, <3>5 DEF Keeps
  <2>. QED
    BY <2>1, <2>2
<1>5. CASE \E chunk \in Chunks : \E offset \in 0..bArrays[n].count : Bucket!CopyFrom(n, chunk, offset)
  <2>1. PICK chunk \in Chunks : \E offset \in 0..bArrays[n].count : Bucket!CopyFrom(n, chunk, offset)
    BY <1>5
  <2>2. PICK offset \in 0..bArrays[n].count : Bucket!CopyFrom(n, chunk, offset)
    BY <2>1
  <2>3. chunk \in Seq(Items)
    BY DEF ContainersAssumptions, Bucket!BucketAssumption
  <2>. DEFINE r == Bucket!Overwritten(a, chunk, offset)
  <2>4. bArrays' = [bArrays EXCEPT ![n] = r] /\ bMem' = bMem
    BY <2>2 DEF Bucket!CopyFrom
  <2>5. BucketsRight(r) /\ BlocksOf(r) = BlocksOf(a)
    BY <1>2, <2>3, ItemsOverwritten
  <2>. HIDE DEF r
  <2>. QED
    BY <1>1, <2>4, <2>5 DEF Keeps
<1>6. CASE \E k \in 1..bArrays[n].count : Bucket!CopyTo(n, k, bArrays[n].count - k)
  <2>1. bArrays' = bArrays /\ bMem' = bMem
    BY <1>6 DEF Bucket!CopyTo
  <2>. QED
    BY <2>1 DEF BucketsRightNow
<1>8. Bucket!Pop(n) => a.buckets # <<>>
  BY DEF Bucket!Pop
<1>. QED
  BY <1>3, <1>4, <1>5, <1>6, <1>7, <1>8

\* The arrays the history is about.
BucketHistory == bRoomy \subseteq ArrayNames /\ bOutside \subseteq ArrayNames

LEMMA HistoryStep ==
  ASSUME BucketHistory, Bucket!Next
  PROVE  BucketHistory'
BY DEF BucketHistory, Bucket!Next, Bucket!Reset, Bucket!Destroy, Bucket!Move, Bucket!Reserve, Bucket!Push,
       Bucket!Pop, Bucket!Clear, Bucket!CopyFrom, Bucket!CopyTo

LEMMA BucketStep ==
  ASSUME HashtableAssumption, ContainersAssumptions, BucketsRightNow, Bucket!Next
  PROVE  BucketsRightNow'
<1>1. PICK n \in ArrayNames :
    \/ \E size \in BucketSizes : Bucket!Reset(n, size)
    \/ Bucket!Destroy(n)
    \/ \E m \in ArrayNames : Bucket!Move(n, m)
    \/ \E c \in ReserveSizes : Bucket!Reserve(n, c)
    \/ \E chunk \in Chunks :
         Bucket!Push(n, chunk) \/ (\E offset \in 0..bArrays[n].count : Bucket!CopyFrom(n, chunk, offset))
    \/ Bucket!Pop(n) \/ Bucket!Clear(n)
    \/ \E k \in 1..bArrays[n].count : Bucket!CopyTo(n, k, bArrays[n].count - k)
  BY DEF Bucket!Next
<1>2. CASE \/ \E size \in BucketSizes : Bucket!Reset(n, size)
           \/ Bucket!Destroy(n) \/ \E m \in ArrayNames : Bucket!Move(n, m)
  BY <1>2, BucketHandOverSteps
<1>3. CASE (\E c \in ReserveSizes : Bucket!Reserve(n, c)) \/ \E chunk \in Chunks : Bucket!Push(n, chunk)
  BY <1>3, BucketGrowSteps
<1>4. CASE \/ Bucket!Pop(n) \/ Bucket!Clear(n)
           \/ \E chunk \in Chunks : \E offset \in 0..bArrays[n].count : Bucket!CopyFrom(n, chunk, offset)
           \/ \E k \in 1..bArrays[n].count : Bucket!CopyTo(n, k, bArrays[n].count - k)
  BY <1>4, BucketItemSteps
<1>. QED
  BY <1>1, <1>2, <1>3, <1>4

LEMMA BucketInit ==
  ASSUME HashtableAssumption, ContainersAssumptions, Bucket!Init
  PROVE  BucketsRightNow
<1>1. PICK size \in BucketSizes : bArrays = [n \in ArrayNames |-> Bucket!New(size)]
  BY DEF Bucket!Init
<1>2. BucketsRight(Bucket!New(size)) /\ BlocksOf(Bucket!New(size)) = {} /\ bMem = {}
  BY NewBuckets DEF Bucket!Init
<1>3. \A n \in ArrayNames : BucketsRight(bArrays[n]) /\ BlocksOf(bArrays[n]) = {}
  BY <1>1, <1>2
<1>. QED
  BY <1>1, <1>2, <1>3 DEF BucketsRightNow, AllBucketsRight

LEMMA BucketsAreRight ==
  ASSUME BucketsRightNow, BucketHistory
  PROVE  Bucket!TypeOK /\ Bucket!BlocksAccountedFor
<1>1. ASSUME NEW n \in ArrayNames
      PROVE  /\ Bucket!Data(bArrays[n]) = BlocksOf(bArrays[n])
             /\ Bucket!IsInjective(Bucket!Held(bArrays[n]))
             /\ BlocksOf(bArrays[n]) \subseteq BucketBlocks
             /\ Bucket!IsPowerOf2(bArrays[n].bucketCapacity) \/ bArrays[n].bucketCapacity = 0
             /\ Len(bArrays[n].buckets) <= bArrays[n].bufferCapacity
             /\ \A i \in DOMAIN bArrays[n].buckets : Len(bArrays[n].buckets[i].items) <= bArrays[n].bucketCapacity
  <2>1. BucketsRight(bArrays[n])
    BY DEF BucketsRightNow, AllBucketsRight
  <2>2. DOMAIN bArrays[n].buckets = 1..Len(bArrays[n].buckets) /\ BlocksOf(bArrays[n]) \subseteq BucketBlocks
    BY <2>1, BucketParts
  <2>3. Bucket!IsPowerOf2(bArrays[n].bucketCapacity) \/ bArrays[n].bucketCapacity = 0
    BY <2>1, BucketPowers DEF BucketsRight, Bucket!IsPowerOf2
  <2>4. /\ Bucket!Data(bArrays[n]) = BlocksOf(bArrays[n])
        /\ Bucket!IsInjective(Bucket!Held(bArrays[n]))
    BY <2>1, HeldIs
  <2>5. /\ Len(bArrays[n].buckets) <= bArrays[n].bufferCapacity
        /\ \A i \in 1..Len(bArrays[n].buckets) : Len(bArrays[n].buckets[i].items) <= bArrays[n].bucketCapacity
    BY <2>1 DEF BucketsRight
  <2>. QED
    BY <2>2, <2>3, <2>4, <2>5
<1>2. bMem = UNION {Bucket!Data(bArrays[n]) : n \in ArrayNames} /\ bMem \subseteq BucketBlocks
  BY <1>1 DEF BucketsRightNow, AllBucketsRight
<1>3. \A n, k \in ArrayNames : n # k => Bucket!Data(bArrays[n]) \cap Bucket!Data(bArrays[k]) = {}
  BY <1>1 DEF BucketsRightNow, AllBucketsRight
<1>4. Bucket!TypeOK
  BY <1>1, <1>2 DEF Bucket!TypeOK, BucketHistory
<1>. QED
  BY <1>1, <1>2, <1>3, <1>4 DEF Bucket!BlocksAccountedFor

\* Whatever Arrays and BucketArrays do, in any order: no two Arrays have one block, no
\* array uses a block that was given back, a caller's buffer is not freed; a block is
\* allocated exactly while one BucketArray has it, as a bucket or on its free list, and
\* no bucket holds more than its size (datatypes.h).  That is up to the first access
\* outside the items of a BucketArray, after which nothing is modelled.
THEOREM ArraysOwnBlocks == Arr!Spec /\ Bucket!Spec => []BlocksAccountedFor
<1>1. Arr!Init => ArraysRightNow
  BY ContainersAssumptions, ArrayInit
<1>2. ArraysRightNow /\ [Arr!Next]_Arr!vars => ArraysRightNow'
  <2>1. ArraysRightNow /\ UNCHANGED Arr!vars => ArraysRightNow'
    BY DEF Arr!vars, ArraysRightNow
  <2>. QED
    BY <2>1, ContainersAssumptions, ArrayStep
<1>3. Bucket!Init => BucketsRightNow /\ BucketHistory
  <2>1. Bucket!Init => BucketHistory
    BY DEF Bucket!Init, BucketHistory
  <2>. QED
    BY <2>1, HashtableAssumption, ContainersAssumptions, BucketInit
<1>4. BucketsRightNow /\ BucketHistory /\ [Bucket!Next]_Bucket!vars => BucketsRightNow' /\ BucketHistory'
  <2>1. BucketsRightNow /\ BucketHistory /\ UNCHANGED Bucket!vars => BucketsRightNow' /\ BucketHistory'
    BY DEF Bucket!vars, BucketsRightNow, BucketHistory
  <2>. QED
    BY <2>1, HashtableAssumption, ContainersAssumptions, BucketStep, HistoryStep
<1>5. ArraysRightNow /\ BucketsRightNow /\ BucketHistory => BlocksAccountedFor
  BY ContainersAssumptions, ArraysAreRight, BucketsAreRight DEF BlocksAccountedFor
<1>. QED
  BY <1>1, <1>2, <1>3, <1>4, <1>5, PTL DEF Arr!Spec, Bucket!Spec

---------------------------------------------------------------------------
(* RingBuffer: what the ring w with the buffer b holds, oldest first.      *)
RingValues == Items \cup {Zero, Junk}
InRing(w, b) == [i \in 1..w.count |-> b[Ring!TailIndex(w, i - 1)]]
RingRight(w, b) == w \in Ring!Words /\ b \in [Ring!Indices -> RingValues]

(* Where the item is that is j places before the next slot to write.       *)
SlotBehind(w, j) == (w.onePastHeadIndex - j) % RingSize

LEMMA RingIndices ==
  ASSUME ContainersAssumptions, NEW w \in Ring!Words
  PROVE  /\ RingSize \in Nat \ {0}
         /\ w.count \in 0..RingSize /\ w.onePastHeadIndex \in 0..RingSize-1
         /\ Ring!Indices = 0..RingSize-1
         /\ \A j \in Int : SlotBehind(w, j) \in Ring!Indices
<1>1. RingSize \in Nat \ {0}
  BY DEF ContainersAssumptions, Ring!CapacityAssumption
<1>2. w.count \in 0..RingSize /\ w.onePastHeadIndex \in 0..RingSize-1 /\ Ring!Indices = 0..RingSize-1
  BY DEF Ring!Words, Ring!Indices
<1>3. \A j \in Int : SlotBehind(w, j) \in 0..RingSize-1
  <2>. TAKE j \in Int
  <2>1. w.onePastHeadIndex - j \in Int
    BY <1>1, <1>2
  <2>. QED
    BY <1>1, <2>1, GoesRound DEF SlotBehind
<1>. QED
  BY <1>1, <1>2, <1>3

\* The head and the tail, as the code finds them.
LEMMA RingEnds ==
  ASSUME ContainersAssumptions, NEW w \in Ring!Words
  PROVE  /\ \A i \in Int : Ring!TailIndex(w, i) = SlotBehind(w, w.count - i)
         /\ \A i \in Int : Ring!IndexFromHeadOffset(w, -i) = SlotBehind(w, i + 1)
         /\ Ring!IndexFromHeadOffset(w, 0) = SlotBehind(w, 1)
<1>. DEFINE p == w.onePastHeadIndex
            c == w.count
<1>1. p \in Int /\ c \in Int
  BY RingIndices
<1>2. ASSUME NEW i \in Int PROVE Ring!TailIndex(w, i) = SlotBehind(w, c - i)
  <2>1. p + (-(c - 1 - i)) - 1 = p - (c - i)
    BY <1>1
  <2>. QED
    BY <2>1 DEF Ring!TailIndex, Ring!IndexFromHeadOffset, SlotBehind
<1>3. ASSUME NEW i \in Int PROVE Ring!IndexFromHeadOffset(w, -i) = SlotBehind(w, i + 1)
  <2>1. p + (-i) - 1 = p - (i + 1)
    BY <1>1
  <2>. QED
    BY <2>1 DEF Ring!IndexFromHeadOffset, SlotBehind
<1>4. Ring!IndexFromHeadOffset(w, 0) = SlotBehind(w, 1)
  <2>1. p + 0 - 1 = p - 1
    BY <1>1
  <2>. QED
    BY <2>1 DEF Ring!IndexFromHeadOffset, SlotBehind
<1>. QED
  BY <1>2, <1>3, <1>4

LEMMA InRingIs ==
  ASSUME ContainersAssumptions, NEW w, NEW b, RingRight(w, b)
  PROVE  /\ InRing(w, b) \in Seq(RingValues) /\ Len(InRing(w, b)) = w.count
         /\ w.count \in Nat /\ w.count <= RingSize
         /\ DOMAIN InRing(w, b) = 1..w.count
         /\ \A i \in 1..w.count : InRing(w, b)[i] = b[SlotBehind(w, w.count + 1 - i)]
<1>. DEFINE q == InRing(w, b)
            c == w.count
<1>1. w \in Ring!Words /\ c \in Nat /\ c <= RingSize
  BY RingIndices DEF RingRight
<1>2. ASSUME NEW i \in 1..c PROVE /\ Ring!TailIndex(w, i - 1) = SlotBehind(w, c + 1 - i)
                                  /\ b[SlotBehind(w, c + 1 - i)] \in RingValues
  <2>1. i - 1 \in Int /\ c - (i - 1) = c + 1 - i /\ c + 1 - i \in Int
    BY <1>1
  <2>2. Ring!TailIndex(w, i - 1) = SlotBehind(w, c + 1 - i)
    BY <1>1, <2>1, RingEnds
  <2>3. SlotBehind(w, c + 1 - i) \in Ring!Indices
    BY <1>1, <2>1, RingIndices
  <2>. QED
    BY <2>2, <2>3 DEF RingRight
<1>3. q \in [1..c -> RingValues] /\ \A i \in 1..c : q[i] = b[SlotBehind(w, c + 1 - i)]
  BY <1>2 DEF InRing
<1>. HIDE DEF q
<1>4. q \in Seq(RingValues)
  BY <1>1, <1>3, SeqDef
<1>5. Len(q) = c
  BY <1>1, <1>3, <1>4, LenProperties
<1>. QED
  BY <1>1, <1>3, <1>4, <1>5 DEF q

\* The next slot to write is none of the last ones, until all are in use.
LEMMA NextSlotFree ==
  ASSUME ContainersAssumptions, NEW w \in Ring!Words, NEW j \in 1..RingSize-1
  PROVE  SlotBehind(w, j) # w.onePastHeadIndex
<1>. DEFINE p == w.onePastHeadIndex
<1>1. RingSize \in Nat \ {0} /\ p \in 0..RingSize-1 /\ p - j \in Int
  <2>1. RingSize \in Nat \ {0} /\ p \in 0..RingSize-1
    BY RingIndices
  <2>. QED
    BY <2>1
<1>2. CASE p - j \in 0..RingSize-1
  BY <1>1, <1>2, Remainder DEF SlotBehind
<1>3. CASE p - j \in (-RingSize)..(-1)
  <2>1. (p - j) % RingSize = p - j + RingSize
    BY <1>1, <1>3, Remainder
  <2>. QED
    BY <1>1, <2>1 DEF SlotBehind
<1>. QED
  BY <1>1, <1>2, <1>3

\* The places behind move with the next slot to write.
LEMMA RingMoves ==
  ASSUME ContainersAssumptions, NEW w \in Ring!Words, NEW v \in Ring!Words, NEW j \in Int
  PROVE  /\ v.onePastHeadIndex = (w.onePastHeadIndex + 1) % RingSize => SlotBehind(v, j + 1) = SlotBehind(w, j)
         /\ v.onePastHeadIndex = (w.onePastHeadIndex - 1) % RingSize => SlotBehind(v, j) = SlotBehind(w, j + 1)
         /\ SlotBehind(w, 0) = w.onePastHeadIndex
         /\ SlotBehind(w, RingSize) = w.onePastHeadIndex
<1>. DEFINE p == w.onePastHeadIndex
            C == RingSize
<1>1. C \in Nat \ {0} /\ p \in 0..C-1 /\ p \in Int
  BY RingIndices
<1>2. ASSUME v.onePastHeadIndex = (p + 1) % C PROVE SlotBehind(v, j + 1) = SlotBehind(w, j)
  <2>1. CASE p + 1 = C
    <3>1. (p + 1) % C = p + 1 - C
      <4>1. p + 1 \in Int /\ p + 1 \in C..2*C-1
        BY <1>1, <2>1
      <4>. QED
        BY <1>1, <4>1, Remainder
    <3>. DEFINE x == p + 1 - C - (j + 1)
    <3>2. x \in Int /\ x + C = p - j
      BY <1>1
    <3>3. SlotBehind(v, j + 1) = x % C
      <4>1. v.onePastHeadIndex = p + 1 - C
        BY <1>2, <3>1
      <4>. QED
        BY <1>1, <4>1 DEF SlotBehind
    <3>. HIDE DEF x
    <3>4. SlotBehind(w, j) = (x + C) % C
      BY <3>2 DEF SlotBehind
    <3>. QED
      BY <1>1, <3>2, <3>3, <3>4, GoesRound
  <2>2. CASE p + 1 # C
    <3>1. (p + 1) % C = p + 1
      <4>1. p + 1 \in Int /\ p + 1 \in 0..C-1
        BY <1>1, <2>2
      <4>. QED
        BY <1>1, <4>1, Remainder
    <3>2. p + 1 - (j + 1) = p - j
      BY <1>1
    <3>3. SlotBehind(v, j + 1) = (p + 1 - (j + 1)) % C
      <4>1. v.onePastHeadIndex = p + 1
        BY <1>2, <3>1
      <4>. QED
        BY <1>1, <4>1 DEF SlotBehind
    <3>. QED
      BY <3>2, <3>3 DEF SlotBehind
  <2>. QED
    BY <2>1, <2>2
<1>3. ASSUME v.onePastHeadIndex = (p - 1) % C PROVE SlotBehind(v, j) = SlotBehind(w, j + 1)
  <2>1. CASE p = 0
    <3>1. (p - 1) % C = p - 1 + C
      <4>1. p - 1 \in Int /\ p - 1 \in (-C)..(-1)
        BY <1>1, <2>1
      <4>. QED
        BY <1>1, <4>1, Remainder
    <3>. DEFINE x == p - (j + 1)
    <3>2. x \in Int /\ p - 1 + C - j = x + C
      BY <1>1
    <3>3. SlotBehind(v, j) = (p - 1 + C - j) % C
      <4>1. v.onePastHeadIndex = p - 1 + C
        BY <1>3, <3>1
      <4>. QED
        BY <1>1, <4>1 DEF SlotBehind
    <3>4. SlotBehind(w, j + 1) = x % C
      BY DEF SlotBehind
    <3>. HIDE DEF x
    <3>. QED
      BY <1>1, <3>2, <3>3, <3>4, GoesRound
  <2>2. CASE p # 0
    <3>1. (p - 1) % C = p - 1
      <4>1. p - 1 \in Int /\ p - 1 \in 0..C-1
        BY <1>1, <2>2
      <4>. QED
        BY <1>1, <4>1, Remainder
    <3>2. p - 1 - j = p - (j + 1)
      BY <1>1
    <3>3. SlotBehind(v, j) = (p - 1 - j) % C
      <4>1. v.onePastHeadIndex = p - 1
        BY <1>3, <3>1
      <4>. QED
        BY <1>1, <4>1 DEF SlotBehind
    <3>. QED
      BY <3>2, <3>3 DEF SlotBehind
  <2>. QED
    BY <2>1, <2>2
<1>4. SlotBehind(w, 0) = p
  <2>1. p - 0 = p
    BY <1>1
  <2>. QED
    BY <1>1, <2>1, Remainder DEF SlotBehind
<1>5. SlotBehind(w, C) = p
  <2>1. p - C \in Int /\ (p - C) + C = p
    BY <1>1
  <2>2. ((p - C) + C) % C = (p - C) % C
    BY <1>1, <2>1, GoesRound
  <2>3. p % C = p
    BY <1>1, Remainder
  <2>. QED
    BY <2>1, <2>2, <2>3 DEF SlotBehind
<1>. QED
  BY <1>2, <1>3, <1>4, <1>5

\* A push goes behind the newest item, in the place of the oldest one in a full ring.
LEMMA PushGoesIn ==
  ASSUME ContainersAssumptions, NEW w, NEW b, RingRight(w, b), NEW x \in RingValues
  PROVE  LET v == Ring!Pushed(w)
             d == [b EXCEPT ![w.onePastHeadIndex] = x]
         IN  RingRight(v, d) /\ InRing(v, d) = Ring!Queue!Newest(Append(InRing(w, b), x))
<1>. DEFINE v == Ring!Pushed(w)
            d == [b EXCEPT ![w.onePastHeadIndex] = x]
            p == w.onePastHeadIndex
            c == w.count
            q == InRing(w, b)
            r == InRing(v, d)
            a == Append(q, x)
<1>0. v = Ring!Pushed(w) /\ d = [b EXCEPT ![p] = x]
  OBVIOUS
<1>. HIDE DEF v, d
<1>1. /\ w \in Ring!Words /\ RingSize \in Nat \ {0} /\ Ring!Indices = 0..RingSize-1
      /\ p \in 0..RingSize-1 /\ c \in 0..RingSize
  BY RingIndices DEF RingRight
<1>2. v.onePastHeadIndex = (p + 1) % RingSize /\ v.count = IF c + 1 < RingSize THEN c + 1 ELSE RingSize
  BY <1>0 DEF Ring!Pushed, Ring!AtMost
<1>3. v \in Ring!Words
  <2>1. p + 1 \in Int
    BY <1>1
  <2>2. (p + 1) % RingSize \in 0..RingSize-1
    BY <1>1, <2>1, GoesRound
  <2>3. v.count \in 0..RingSize
    BY <1>1, <1>2
  <2>4. v = [count |-> v.count, onePastHeadIndex |-> v.onePastHeadIndex]
    BY <1>0 DEF Ring!Pushed
  <2>. QED
    BY <1>1, <1>2, <2>2, <2>3, <2>4 DEF Ring!Words
<1>4. RingRight(v, d)
  BY <1>0, <1>1, <1>3 DEF RingRight
<1>5. /\ q \in Seq(RingValues) /\ Len(q) = c
      /\ \A i \in 1..c : q[i] = b[SlotBehind(w, c + 1 - i)]
  BY InRingIs
<1>6. /\ r \in Seq(RingValues) /\ Len(r) = v.count
      /\ \A i \in 1..v.count : r[i] = d[SlotBehind(v, v.count + 1 - i)]
  BY <1>4, InRingIs
<1>. HIDE DEF q, r
<1>7. /\ a \in Seq(RingValues) /\ Len(a) = c + 1 /\ a # <<>> /\ a[c + 1] = x
      /\ \A i \in 1..c : a[i] = q[i]
  BY <1>5, AppendProperties
<1>. HIDE DEF a
<1>8. \A j \in 0..RingSize-1 : SlotBehind(v, j + 1) = SlotBehind(w, j)
  BY <1>1, <1>2, <1>3, RingMoves
<1>9. d[SlotBehind(v, 1)] = x
  <2>1. SlotBehind(v, 0 + 1) = SlotBehind(w, 0)
    BY <1>1, <1>8
  <2>2. SlotBehind(w, 0) = p
    BY <1>1, RingMoves
  <2>3. b \in [Ring!Indices -> RingValues]
    BY DEF RingRight
  <2>. QED
    BY <1>0, <1>1, <2>1, <2>2, <2>3
<1>10. ASSUME NEW j \in 1..RingSize-1 PROVE d[SlotBehind(v, j + 1)] = b[SlotBehind(w, j)]
  <2>1. SlotBehind(v, j + 1) = SlotBehind(w, j)
    BY <1>1, <1>8
  <2>2. SlotBehind(w, j) # p
    BY <1>1, NextSlotFree
  <2>3. SlotBehind(w, j) \in Ring!Indices
    <3>1. j \in Int
      OBVIOUS
    <3>. QED
      BY <1>1, <3>1, RingIndices
  <2>4. b \in [Ring!Indices -> RingValues]
    BY DEF RingRight
  <2>. QED
    BY <1>0, <2>1, <2>2, <2>3, <2>4
<1>11. CASE c < RingSize
  <2>1. v.count = c + 1
    BY <1>1, <1>2, <1>11
  <2>2. ASSUME NEW i \in 1..c+1 PROVE r[i] = a[i]
    <3>1. CASE i = c + 1
      <4>1. v.count + 1 - i = 1
        BY <1>1, <2>1, <3>1
      <4>. QED
        BY <1>6, <1>7, <1>9, <2>1, <3>1, <4>1
    <3>2. CASE i # c + 1
      <4>. DEFINE j == c + 1 - i
      <4>1. i \in 1..c /\ j \in 1..RingSize-1 /\ v.count + 1 - i = j + 1
        BY <1>1, <1>11, <2>1, <3>2
      <4>2. r[i] = d[SlotBehind(v, j + 1)]
        BY <1>6, <2>1, <4>1
      <4>3. a[i] = b[SlotBehind(w, j)]
        BY <1>5, <1>7, <4>1
      <4>. HIDE DEF j
      <4>. QED
        BY <1>10, <4>1, <4>2, <4>3
    <3>. QED
      BY <3>1, <3>2
  <2>3. r = a
    BY <1>6, <1>7, <2>1, <2>2, SeqEqual
  <2>4. ~ (Len(a) > RingSize)
    BY <1>1, <1>7, <1>11
  <2>. QED
    BY <1>4, <2>3, <2>4 DEF Ring!Queue!Newest, a, q, r, v, d
<1>12. CASE c = RingSize
  <2>1. v.count = c
    BY <1>1, <1>2, <1>12
  <2>2. /\ Tail(a) \in Seq(RingValues) /\ Len(Tail(a)) = c
        /\ \A i \in 1..c : Tail(a)[i] = a[i + 1]
    BY <1>1, <1>7, HeadTailProperties
  <2>3. ASSUME NEW i \in 1..c PROVE r[i] = Tail(a)[i]
    <3>1. CASE i = c
      <4>1. v.count + 1 - i = 1
        BY <1>1, <2>1, <3>1
      <4>. QED
        BY <1>6, <1>7, <1>9, <2>1, <2>2, <3>1, <4>1
    <3>2. CASE i # c
      <4>. DEFINE j == c - i
      <4>1. i + 1 \in 1..c /\ j \in 1..RingSize-1 /\ v.count + 1 - i = j + 1 /\ c + 1 - (i + 1) = j
        BY <1>1, <1>12, <2>1, <3>2
      <4>2. r[i] = d[SlotBehind(v, j + 1)]
        BY <1>6, <2>1, <4>1
      <4>3. Tail(a)[i] = b[SlotBehind(w, j)]
        BY <1>5, <1>7, <2>2, <4>1
      <4>. HIDE DEF j
      <4>. QED
        BY <1>10, <4>1, <4>2, <4>3
    <3>. QED
      BY <3>1, <3>2
  <2>4. r = Tail(a)
    BY <1>6, <2>1, <2>2, <2>3, SeqEqual
  <2>5. Len(a) > RingSize
    BY <1>1, <1>7, <1>12
  <2>. QED
    BY <1>4, <2>4, <2>5 DEF Ring!Queue!Newest, a, q, r, v, d
<1>. QED
  BY <1>1, <1>11, <1>12 DEF v, d

\* The oldest item, or the newest, leaves the queue.
LEMMA PopsAtEnds ==
  ASSUME ContainersAssumptions, NEW w, NEW b, RingRight(w, b), w.count > 0
  PROVE  /\ LET v == Ring!TailPopped(w)
            IN  RingRight(v, b) /\ InRing(w, b) = <<b[Ring!TailIndex(w, 0)]>> \o InRing(v, b)
         /\ LET v == Ring!HeadPopped(w)
            IN  RingRight(v, b) /\ InRing(w, b) = InRing(v, b) \o <<b[v.onePastHeadIndex]>>
<1>. DEFINE p == w.onePastHeadIndex
            c == w.count
            q == InRing(w, b)
<1>1. /\ w \in Ring!Words /\ RingSize \in Nat \ {0} /\ Ring!Indices = 0..RingSize-1
      /\ p \in 0..RingSize-1 /\ c \in 1..RingSize
  BY RingIndices DEF RingRight
<1>2. /\ q \in Seq(RingValues) /\ Len(q) = c
      /\ \A i \in 1..c : q[i] = b[SlotBehind(w, c + 1 - i)]
  BY InRingIs
<1>3. ASSUME NEW k \in 1..c
      PROVE  <<q[k]>> \in Seq(RingValues) /\ Len(<<q[k]>>) = 1 /\ <<q[k]>>[1] = q[k]
  <2>1. q[k] \in RingValues
    BY <1>2, <1>3, ElementOfSeq
  <2>. QED
    BY <2>1
<1>4. ASSUME NEW v, v = Ring!TailPopped(w)
      PROVE  RingRight(v, b) /\ q = <<b[Ring!TailIndex(w, 0)]>> \o InRing(v, b)
  <2>. DEFINE r == InRing(v, b)
  <2>1. v.onePastHeadIndex = p /\ v.count = c - 1 /\ v \in Ring!Words
    BY <1>1, <1>4 DEF Ring!TailPopped, Ring!Words
  <2>2. RingRight(v, b)
    BY <2>1 DEF RingRight
  <2>3. /\ r \in Seq(RingValues) /\ Len(r) = c - 1
        /\ \A i \in 1..c-1 : r[i] = b[SlotBehind(v, c - i)]
    <3>1. /\ r \in Seq(RingValues) /\ Len(r) = v.count
          /\ \A i \in 1..v.count : r[i] = b[SlotBehind(v, v.count + 1 - i)]
      BY <2>2, InRingIs
    <3>2. \A i \in 1..c-1 : v.count + 1 - i = c - i
      BY <1>1, <2>1
    <3>. QED
      BY <2>1, <3>1, <3>2
  <2>. HIDE DEF r
  <2>4. Ring!TailIndex(w, 0) = SlotBehind(w, c) /\ q[1] = b[SlotBehind(w, c)]
    <3>1. c - 0 = c /\ c + 1 - 1 = c /\ 1 \in 1..c /\ 0 \in Int
      BY <1>1
    <3>2. Ring!TailIndex(w, 0) = SlotBehind(w, c - 0)
      BY <1>1, <3>1, RingEnds
    <3>. QED
      BY <1>2, <3>1, <3>2
  <2>. DEFINE t == <<q[1]>> \o r
  <2>5. t \in Seq(RingValues) /\ Len(t) = c /\ \A i \in 1..c : t[i] = IF i <= 1 THEN q[1] ELSE r[i - 1]
    <3>1. 1 \in 1..c /\ 1 + (c - 1) = c
      BY <1>1
    <3>2. /\ t \in Seq(RingValues) /\ Len(t) = 1 + (c - 1)
          /\ \A i \in 1..1 + (c - 1) : t[i] = IF i <= 1 THEN <<q[1]>>[i] ELSE r[i - 1]
      BY <1>3, <2>3, <3>1, ConcatProperties
    <3>3. \A i \in 1..c : i <= 1 => <<q[1]>>[i] = q[1]
      BY <1>1
    <3>. HIDE DEF t
    <3>. QED
      BY <3>1, <3>2, <3>3
  <2>6. ASSUME NEW i \in 1..c PROVE q[i] = t[i]
    <3>1. CASE i = 1
      BY <2>5, <3>1
    <3>2. CASE i # 1
      <4>1. i - 1 \in 1..c-1 /\ c - (i - 1) = c + 1 - i /\ ~ (i <= 1)
        BY <1>1, <3>2
      <4>2. r[i - 1] = b[SlotBehind(v, c + 1 - i)]
        BY <2>3, <4>1
      <4>3. SlotBehind(v, c + 1 - i) = SlotBehind(w, c + 1 - i)
        BY <2>1 DEF SlotBehind
      <4>4. q[i] = b[SlotBehind(w, c + 1 - i)]
        BY <1>2
      <4>. HIDE DEF t
      <4>. QED
        BY <2>5, <4>1, <4>2, <4>3, <4>4
    <3>. QED
      BY <3>1, <3>2
  <2>. HIDE DEF t
  <2>7. q = t
    BY <1>2, <2>5, <2>6, SeqEqual
  <2>. QED
    BY <2>2, <2>4, <2>7 DEF t, r
<1>5. ASSUME NEW v, v = Ring!HeadPopped(w)
      PROVE  RingRight(v, b) /\ q = InRing(v, b) \o <<b[v.onePastHeadIndex]>>
  <2>. DEFINE r == InRing(v, b)
  <2>1. v = [count |-> c - 1, onePastHeadIndex |-> (p - 1) % RingSize]
    BY <1>5 DEF Ring!HeadPopped
  <2>2. v.onePastHeadIndex = (p - 1) % RingSize /\ v.count = c - 1 /\ v \in Ring!Words
    <3>1. p - 1 \in Int
      BY <1>1
    <3>2. (p - 1) % RingSize \in 0..RingSize-1
      BY <1>1, <3>1, GoesRound
    <3>. QED
      BY <1>1, <2>1, <3>2 DEF Ring!Words
  <2>3. RingRight(v, b)
    BY <2>2 DEF RingRight
  <2>4. \A j \in Int : SlotBehind(v, j) = SlotBehind(w, j + 1)
    BY <1>1, <2>2, RingMoves
  <2>5. /\ r \in Seq(RingValues) /\ Len(r) = c - 1
        /\ \A i \in 1..c-1 : r[i] = b[SlotBehind(w, c + 1 - i)]
    <3>1. /\ r \in Seq(RingValues) /\ Len(r) = v.count
          /\ \A i \in 1..v.count : r[i] = b[SlotBehind(v, v.count + 1 - i)]
      BY <2>3, InRingIs
    <3>2. ASSUME NEW i \in 1..c-1 PROVE SlotBehind(v, v.count + 1 - i) = SlotBehind(w, c + 1 - i)
      <4>1. v.count + 1 - i = c - i /\ c - i \in Int /\ (c - i) + 1 = c + 1 - i
        BY <1>1, <2>2
      <4>. QED
        BY <2>4, <4>1
    <3>. QED
      BY <2>2, <3>1, <3>2
  <2>. HIDE DEF r
  <2>6. q[c] = b[v.onePastHeadIndex]
    <3>1. c \in 1..c /\ c + 1 - c = 0 + 1 /\ 0 \in Int
      BY <1>1
    <3>2. q[c] = b[SlotBehind(w, 0 + 1)]
      BY <1>2, <3>1
    <3>3. SlotBehind(v, 0) = SlotBehind(w, 0 + 1)
      BY <2>4, <3>1
    <3>4. SlotBehind(v, 0) = v.onePastHeadIndex
      BY <2>2, <3>1, RingMoves
    <3>. QED
      BY <3>2, <3>3, <3>4
  <2>. DEFINE t == r \o <<q[c]>>
  <2>7. t \in Seq(RingValues) /\ Len(t) = c /\ \A i \in 1..c : t[i] = IF i <= c - 1 THEN r[i] ELSE q[c]
    <3>1. c \in 1..c /\ (c - 1) + 1 = c
      BY <1>1
    <3>2. /\ t \in Seq(RingValues) /\ Len(t) = (c - 1) + 1
          /\ \A i \in 1..(c - 1) + 1 : t[i] = IF i <= c - 1 THEN r[i] ELSE <<q[c]>>[i - (c - 1)]
      <4>1. <<q[c]>> \in Seq(RingValues) /\ Len(<<q[c]>>) = 1
        BY <1>3, <3>1
      <4>. QED
        BY <2>5, <4>1, ConcatProperties
    <3>3. \A i \in 1..c : ~ (i <= c - 1) => <<q[c]>>[i - (c - 1)] = q[c]
      BY <1>1
    <3>. HIDE DEF t
    <3>. QED
      BY <3>1, <3>2, <3>3
  <2>. HIDE DEF t
  <2>8. ASSUME NEW i \in 1..c PROVE q[i] = t[i]
    <3>1. CASE i <= c - 1
      <4>1. i \in 1..c-1
        BY <1>1, <3>1
      <4>. QED
        BY <1>2, <2>5, <2>7, <3>1, <4>1
    <3>2. CASE ~ (i <= c - 1)
      <4>1. i = c
        BY <1>1, <3>2
      <4>. QED
        BY <2>7, <3>2, <4>1
    <3>. QED
      BY <3>1, <3>2
  <2>9. q = t
    BY <1>2, <2>7, <2>8, SeqEqual
  <2>. QED
    BY <2>3, <2>6, <2>9 DEF t, r
<1>. QED
  BY <1>4, <1>5

\* A remainder may be taken early.
LEMMA RoundEarly ==
  ASSUME NEW k \in Nat \ {0}, NEW x \in Int, NEW y \in Int
  PROVE  ((x % k) + y) % k = (x + y) % k
<1>. DEFINE q == x \div k
            r == x % k
<1>1. x = k * q + r /\ r \in 0..k-1 /\ q \in Int
  OBVIOUS
<1>. HIDE DEF q, r
<1>. DEFINE s == (r + y) \div k
            a == (r + y) % k
            t == (x + y) \div k
            e == (x + y) % k
            d == q + s - t
<1>2. /\ r + y = k * s + a /\ a \in 0..k-1 /\ s \in Int
      /\ x + y = k * t + e /\ e \in 0..k-1 /\ t \in Int
  BY <1>1
<1>. HIDE DEF s, a, t, e
<1>3. d \in Int /\ k * d = e - a
  BY <1>1, <1>2
<1>. HIDE DEF d
<1>4. (d >= 1 => k * d >= k) /\ (d <= -1 => k * d <= -k)
  BY <1>3
<1>5. d = 0
  BY <1>2, <1>3, <1>4
<1>6. a = e
  BY <1>2, <1>3, <1>5
<1>. QED
  BY <1>6 DEF a, e, r

\* Where an iterator is that has been to k items.
Reached(w, forward, k) == IF forward THEN SlotBehind(w, w.count + 1 - k) ELSE SlotBehind(w, k)

LEMMA IteratorSteps ==
  ASSUME ContainersAssumptions, NEW w \in Ring!Words, NEW forward \in BOOLEAN, NEW k \in 1..RingSize,
         NEW step, step = IF forward THEN Ring!StepForward(w, Reached(w, forward, k))
                          ELSE Ring!StepBackward(w, Reached(w, forward, k))
  PROVE  /\ step.index = Reached(w, forward, k + 1)
         /\ k = w.count => step.ended
         /\ (forward \/ w.count < RingSize \/ w.onePastHeadIndex = 0) /\ k < w.count => ~ step.ended
         /\ ~ forward /\ w.count = RingSize /\ w.onePastHeadIndex > 0 /\ k = 1 => step.ended
<1>. DEFINE p == w.onePastHeadIndex
            c == w.count
            C == RingSize
<1>1. C \in Nat \ {0} /\ p \in 0..C-1 /\ c \in 0..C /\ k \in Nat
  BY RingIndices
<1>2. CASE forward
  <2>. DEFINE i == p - (c + 1 - k)
  <2>1. i \in Int /\ i + 1 = p - (c - k) /\ c + 1 - (k + 1) = c - k
    BY <1>1
  <2>2. Reached(w, forward, k) = i % C /\ Reached(w, forward, k + 1) = SlotBehind(w, c - k)
    BY <1>2, <2>1 DEF Reached, SlotBehind
  <2>3. step = Ring!StepForward(w, i % C)
    BY <1>2, <2>2
  <2>. HIDE DEF i
  <2>4. ((i % C) + 1) % C = (i + 1) % C
    BY <1>1, <2>1, RoundEarly
  <2>5. (i + 1) % C = SlotBehind(w, c - k)
    BY <2>1 DEF SlotBehind
  <2>6. step.index = SlotBehind(w, c - k) /\ (step.ended <=> SlotBehind(w, c - k) = p)
    <3>. DEFINE to == ((i % C) + 1) % C
    <3>1. step = [index |-> to, ended |-> to = p]
      BY <2>3 DEF Ring!StepForward
    <3>2. to = SlotBehind(w, c - k)
      BY <2>4, <2>5
    <3>. HIDE DEF to
    <3>3. step.index = to /\ step.ended = (to = p)
      BY <3>1
    <3>. QED
      BY <3>2, <3>3
  <2>7. k = c => SlotBehind(w, c - k) = p
    <3>1. k = c => c - k = 0
      BY <1>1
    <3>2. SlotBehind(w, 0) = p
      BY <1>1, RingMoves
    <3>. QED
      BY <3>1, <3>2
  <2>8. k < c => SlotBehind(w, c - k) # p
    <3>1. k < c => c - k \in 1..C-1
      BY <1>1
    <3>. QED
      BY <3>1, NextSlotFree
  <2>. QED
    BY <1>2, <2>2, <2>6, <2>7, <2>8
<1>3. CASE ~ forward
  <2>. DEFINE i == SlotBehind(w, k)
              tail == SlotBehind(w, c)
  <2>1. Reached(w, forward, k) = i /\ Reached(w, forward, k + 1) = SlotBehind(w, k + 1)
    BY <1>3 DEF Reached
  <2>2. Ring!TailIndex(w, 0) = tail
    <3>1. c - 0 = c
      BY <1>1
    <3>2. Ring!TailIndex(w, 0) = SlotBehind(w, c - 0)
      BY <1>1, RingEnds
    <3>. QED
      BY <3>1, <3>2
  <2>3. i = (p - k) % C /\ p - k \in Int /\ (p - k) + (-1) = p - (k + 1)
    BY <1>1 DEF SlotBehind
  <2>4. \A j \in 0..C : (j <= p => SlotBehind(w, j) = p - j) /\ (j > p => SlotBehind(w, j) = p - j + C)
    <3>. TAKE j \in 0..C
    <3>1. j <= p => p - j \in 0..C-1
      BY <1>1
    <3>2. j > p => p - j \in (-C)..(-1)
      BY <1>1
    <3>3. p - j \in Int
      BY <1>1
    <3>. QED
      BY <1>1, <3>1, <3>2, <3>3, Remainder DEF SlotBehind
  <2>5. /\ k <= p => i = p - k
        /\ k > p => i = p - k + C
        /\ c <= p => tail = p - c
        /\ c > p => tail = p - c + C
    BY <1>1, <2>4
  <2>6. step = Ring!StepBackward(w, i)
    BY <1>3, <2>1
  <2>7. step.index = SlotBehind(w, k + 1)
    <3>1. step.index = (i - 1) % C
      BY <2>6 DEF Ring!StepBackward
    <3>2. i \in Int
      BY <1>1, <2>5
    <3>. HIDE DEF i
    <3>3. (i - 1) % C = (i + (-1)) % C
      <4>1. i - 1 = i + (-1)
        BY <3>2
      <4>. QED
        BY <4>1
    <3>4. (i + (-1)) % C = ((p - k) + (-1)) % C
      <4>. DEFINE x == p - k
                  y == -1
      <4>1. x \in Int /\ y \in Int /\ i = x % C
        BY <2>3
      <4>. HIDE DEF x, y
      <4>2. ((x % C) + y) % C = (x + y) % C
        BY <1>1, <4>1, RoundEarly
      <4>. QED
        BY <4>1, <4>2 DEF x, y
    <3>. QED
      BY <2>3, <3>1, <3>3, <3>4 DEF SlotBehind
  <2>8. step.ended <=> IF p < tail THEN i - 1 >= p /\ i - 1 < tail ELSE i - 1 < tail
    <3>. DEFINE over == IF p < tail THEN i - 1 >= p /\ i - 1 < tail ELSE i - 1 < tail
    <3>1. step = [index |-> (i - 1) % C, ended |-> over]
      BY <2>2, <2>6 DEF Ring!StepBackward
    <3>. HIDE DEF over
    <3>2. step.ended <=> over
      BY <3>1
    <3>. QED
      BY <3>2 DEF over
  <2>. HIDE DEF i, tail
  <2>9. k = c => step.ended
    BY <1>1, <2>5, <2>8
  <2>10. (c < C \/ p = 0) /\ k < c => ~ step.ended
    BY <1>1, <2>5, <2>8
  <2>11. c = C /\ p > 0 /\ k = 1 => step.ended
    BY <1>1, <2>5, <2>8
  <2>. QED
    BY <1>3, <2>1, <2>7, <2>9, <2>10, <2>11
<1>. QED
  BY <1>2, <1>3

\* What the iterators go over: forward all items, oldest first; backward from the newest,
\* all of them, or no other if the ring is full and does not end at its last slot.
LEMMA VisitedAre ==
  ASSUME ContainersAssumptions, NEW w \in Ring!Words, NEW forward \in BOOLEAN, w.count > 0,
         NEW seen, seen = Ring!Visited(w, forward, RingSize + 1)
  PROVE  \E m \in 1..w.count :
           /\ DOMAIN seen = 1..m /\ \A k \in 1..m : seen[k] = Reached(w, forward, k)
           /\ forward \/ w.count < RingSize \/ w.onePastHeadIndex = 0 => m = w.count
           /\ ~ forward /\ w.count = RingSize /\ w.onePastHeadIndex > 0 => m = 1
<1>. DEFINE c == w.count
            p == w.onePastHeadIndex
            M == RingSize + 1
            Step(i) == IF forward THEN Ring!StepForward(w, i) ELSE Ring!StepBackward(w, i)
            first == IF forward THEN Ring!TailIndex(w, 0) ELSE Ring!IndexFromHeadOffset(w, 0)
            f == CHOOSE f : f = [k \in 1..M |-> IF k = 1 THEN first ELSE Step(f[k - 1]).index]
            Ended == {k \in 1..M-1 : Step(f[k]).ended}
            m == CHOOSE k \in Ended \cup {M} : \A l \in Ended : k <= l
<1>1. RingSize \in Nat \ {0} /\ c \in 1..RingSize /\ M - 1 = RingSize /\ M \in Nat
  <2>1. RingSize \in Nat \ {0} /\ c \in 0..RingSize
    BY RingIndices
  <2>. QED
    BY <2>1
<1>2. seen = SubSeq(f, 1, m)
  <2>1. w.count # 0
    BY <1>1
  <2>. QED
    BY <2>1 DEF Ring!Visited
<1>3. first = Reached(w, forward, 1)
  <2>1. c - 0 = c /\ c + 1 - 1 = c /\ 0 \in Int
    BY <1>1
  <2>2. Ring!TailIndex(w, 0) = SlotBehind(w, c - 0) /\ Ring!IndexFromHeadOffset(w, 0) = SlotBehind(w, 1)
    BY <2>1, RingEnds
  <2>. QED
    BY <2>1, <2>2 DEF Reached
<1>4. \A k \in 1..RingSize :
        /\ Step(Reached(w, forward, k)).index = Reached(w, forward, k + 1)
        /\ k = c => Step(Reached(w, forward, k)).ended
        /\ (forward \/ c < RingSize \/ p = 0) /\ k < c => ~ Step(Reached(w, forward, k)).ended
        /\ ~ forward /\ c = RingSize /\ p > 0 /\ k = 1 => Step(Reached(w, forward, k)).ended
  BY IteratorSteps
<1>. HIDE DEF Step, first
<1>5. f = [k \in 1..M |-> IF k = 1 THEN first ELSE Step(f[k - 1]).index]
  <2>. DEFINE g == [k \in 1..M |-> Reached(w, forward, k)]
  <2>1. ASSUME NEW k \in 1..M PROVE g[k] = IF k = 1 THEN first ELSE Step(g[k - 1]).index
    <3>1. CASE k = 1
      BY <1>3, <3>1
    <3>2. CASE k # 1
      <4>1. k - 1 \in 1..RingSize /\ k - 1 \in 1..M /\ (k - 1) + 1 = k
        BY <1>1, <3>2
      <4>2. Step(g[k - 1]).index = Reached(w, forward, (k - 1) + 1)
        BY <1>4, <4>1
      <4>. QED
        BY <3>2, <4>1, <4>2
    <3>. QED
      BY <3>1, <3>2
  <2>2. g = [k \in 1..M |-> IF k = 1 THEN first ELSE Step(g[k - 1]).index]
    BY <2>1
  <2>. HIDE DEF g
  <2>. QED
    BY <2>2
<1>. HIDE DEF f
<1>6. \A k \in 1..M : f[k] = Reached(w, forward, k)
  <2>. DEFINE Q == {k \in 1..M : f[k] = Reached(w, forward, k)}
  <2>1. 1 \in Q
    BY <1>1, <1>3, <1>5
  <2>2. ASSUME NEW k \in 1..M, k < M, k \in Q PROVE k + 1 \in Q
    <3>1. k + 1 \in 1..M /\ k + 1 # 1 /\ (k + 1) - 1 = k /\ k \in 1..RingSize
      BY <1>1, <2>2
    <3>2. f[k + 1] = Step(f[k]).index
      BY <1>5, <3>1
    <3>. QED
      BY <1>4, <2>2, <3>1, <3>2
  <2>. HIDE DEF Q
  <2>3. \A k \in 1..M : k \in Q
    BY <1>1, <2>1, <2>2, CountingUp
  <2>. QED
    BY <2>3 DEF Q
<1>7. c \in Ended /\ Ended \subseteq 1..RingSize
  <2>1. c \in 1..M
    BY <1>1
  <2>. QED
    BY <1>1, <1>4, <1>6, <2>1
<1>8. forward \/ c < RingSize \/ p = 0 => \A k \in Ended : ~ (k < c)
  <2>. SUFFICES ASSUME forward \/ c < RingSize \/ p = 0, NEW k \in Ended, k < c PROVE FALSE
    OBVIOUS
  <2>1. k \in 1..RingSize /\ k \in 1..M /\ Step(f[k]).ended
    BY <1>1
  <2>. QED
    BY <1>4, <1>6, <2>1
<1>12. ~ forward /\ c = RingSize /\ p > 0 => 1 \in Ended
  <2>1. 1 \in 1..RingSize /\ 1 \in 1..M /\ 1 \in 1..M-1
    BY <1>1
  <2>2. f[1] = Reached(w, forward, 1)
    BY <1>6, <2>1
  <2>3. ~ forward /\ c = RingSize /\ p > 0 => Step(Reached(w, forward, 1)).ended
    BY <1>4, <2>1
  <2>. HIDE DEF M
  <2>. QED
    BY <2>1, <2>2, <2>3
<1>. HIDE DEF Ended
<1>9. m \in Ended \cup {M} /\ \A l \in Ended : m <= l
  <2>1. \E k \in Ended : \A l \in Ended : k <= l
    <3>1. Ended \in SUBSET Nat /\ Ended # {}
      BY <1>1, <1>7
    <3>. QED
      BY <3>1, LeastNumber
  <2>. QED
    BY <2>1
<1>. HIDE DEF m
<1>10. /\ m \in 1..c /\ (forward \/ c < RingSize \/ p = 0 => m = c)
       /\ ~ forward /\ c = RingSize /\ p > 0 => m = 1
  <2>1. m <= c /\ m \in 1..M
    BY <1>1, <1>7, <1>9
  <2>2. m \in Ended
    BY <1>1, <1>9, <2>1
  <2>. QED
    BY <1>1, <1>7, <1>8, <1>9, <1>12, <2>1, <2>2
<1>11. DOMAIN seen = 1..m /\ \A k \in 1..m : seen[k] = f[k]
  <2>. DEFINE S == {f[k] : k \in 1..M}
  <2>1. \A k \in 1..m : f[k] \in S
    BY <1>1, <1>10
  <2>. HIDE DEF S
  <2>2. /\ SubSeq(f, 1, m) \in Seq(S) /\ Len(SubSeq(f, 1, m)) = IF 1 <= m THEN m - 1 + 1 ELSE 0
        /\ \A k \in 1..m - 1 + 1 : SubSeq(f, 1, m)[k] = f[1 + k - 1]
    <3>1. 1 \in Int /\ m \in Int
      BY <1>1, <1>10
    <3>. QED
      BY <2>1, <3>1, SubSeqProperties
  <2>3. m - 1 + 1 = m /\ 1 <= m /\ \A k \in 1..m : 1 + k - 1 = k
    BY <1>1, <1>10
  <2>4. seen \in Seq(S) /\ Len(seen) = m /\ \A k \in 1..m : seen[k] = f[k]
    BY <1>2, <2>2, <2>3
  <2>. QED
    BY <2>4, LenProperties
<1>. QED
  BY <1>1, <1>6, <1>10, <1>11

\* Read in turn from the buffer, that is the queue, forward or backward, or its end.
LEMMA WentThrough ==
  ASSUME ContainersAssumptions, NEW w, NEW b, RingRight(w, b), NEW forward \in BOOLEAN,
         NEW given, given = LET seen == Ring!Visited(w, forward, RingSize + 1)
                            IN  [k \in DOMAIN seen |-> b[seen[k]]]
  PROVE  LET q == InRing(w, b) IN
         \/ given = q \/ given = [i \in DOMAIN q |-> q[Len(q) + 1 - i]]
         \/ Len(q) = RingSize /\ given = <<q[RingSize]>>
<1>. DEFINE c == w.count
            q == InRing(w, b)
            seen == Ring!Visited(w, forward, RingSize + 1)
<1>1. /\ q \in Seq(RingValues) /\ Len(q) = c /\ DOMAIN q = 1..c /\ c \in Nat /\ c <= RingSize
      /\ q = [i \in 1..c |-> q[i]]
      /\ \A i \in 1..c : q[i] = b[SlotBehind(w, c + 1 - i)]
  BY InRingIs DEF InRing
<1>. HIDE DEF q
<1>2. CASE c = 0
  <2>1. seen = <<>>
    BY <1>2 DEF Ring!Visited
  <2>2. given = [k \in DOMAIN <<>> |-> b[<<>>[k]]]
    BY <2>1
  <2>3. DOMAIN <<>> = {} /\ 1..c = {}
    BY <1>2
  <2>4. given = q
    BY <1>1, <2>2, <2>3
  <2>. QED
    BY <2>4 DEF q
<1>3. CASE c # 0
  <2>1. w \in Ring!Words /\ c > 0
    BY <1>1, <1>3 DEF RingRight
  <2>2. PICK m \in 1..c :
           /\ DOMAIN seen = 1..m /\ \A k \in 1..m : seen[k] = Reached(w, forward, k)
           /\ m = c \/ (c = RingSize /\ m = 1)
           /\ forward => m = c
    <3>1. w.onePastHeadIndex \in Nat
      BY <2>1, RingIndices
    <3>2. w.onePastHeadIndex = 0 \/ w.onePastHeadIndex > 0
      BY <3>1
    <3>3. c < RingSize \/ c = RingSize
      BY <1>1, RingIndices, <2>1
    <3>4. PICK m \in 1..c :
             /\ DOMAIN seen = 1..m /\ \A k \in 1..m : seen[k] = Reached(w, forward, k)
             /\ forward \/ c < RingSize \/ w.onePastHeadIndex = 0 => m = c
             /\ ~ forward /\ c = RingSize /\ w.onePastHeadIndex > 0 => m = 1
      <4>. HIDE DEF seen
      <4>1. seen = Ring!Visited(w, forward, RingSize + 1)
        BY DEF seen
      <4>. QED
        BY <2>1, <4>1, VisitedAre
    <3>5. (m = c \/ (c = RingSize /\ m = 1)) /\ (forward => m = c)
      <4>. HIDE DEF seen
      <4>. QED
        BY <3>2, <3>3, <3>4
    <3>. HIDE DEF seen
    <3>. QED
      BY <3>4, <3>5
  <2>3. given = [k \in 1..m |-> b[Reached(w, forward, k)]]
    BY <2>2
  <2>4. CASE forward
    <3>1. \A k \in 1..c : b[Reached(w, forward, k)] = q[k]
      BY <1>1, <2>4 DEF Reached
    <3>2. given = q
      BY <1>1, <2>2, <2>3, <2>4, <3>1
    <3>. QED
      BY <3>2 DEF q
  <2>5. CASE ~ forward
    <3>1. \A k \in 1..m : given[k] = q[c + 1 - k] /\ given[k] \in RingValues
      <4>. TAKE k \in 1..m
      <4>1. k \in Int /\ c + 1 - k \in 1..c /\ c + 1 - (c + 1 - k) = k
        BY <1>1, <2>2
      <4>2. given[k] = b[SlotBehind(w, k)]
        BY <2>3, <2>5 DEF Reached
      <4>3. q[c + 1 - k] = b[SlotBehind(w, k)]
        BY <1>1, <4>1
      <4>4. q[c + 1 - k] \in RingValues
        BY <1>1, <4>1, ElementOfSeq
      <4>. QED
        BY <4>2, <4>3, <4>4
    <3>2. CASE m = c
      <4>1. given = [k \in 1..c |-> q[c + 1 - k]]
        BY <2>3, <3>1, <3>2
      <4>. QED
        BY <1>1, <4>1 DEF q
    <3>3. CASE c = RingSize /\ m = 1
      <4>1. given = [k \in 1..1 |-> q[c + 1 - k]]
        BY <2>3, <3>1, <3>3
      <4>2. \A k \in 1..1 : c + 1 - k = RingSize
        BY <1>1, <3>3
      <4>3. given = [k \in 1..1 |-> q[RingSize]]
        BY <4>1, <4>2
      <4>4. given = <<q[RingSize]>>
        BY <4>3
      <4>. QED
        BY <1>1, <3>3, <4>4 DEF q
    <3>. QED
      BY <2>2, <3>2, <3>3
  <2>. QED
    BY <2>4, <2>5
<1>. QED
  BY <1>2, <1>3

---------------------------------------------------------------------------
RingNow == RingRight(rRing, rBuffer)
QueueNow == InRing(rRing, rBuffer)

LEMMA RingBegins ==
  ASSUME ContainersAssumptions, Ring!Init
  PROVE  RingNow /\ Ring!Queue!Init
<1>1. RingSize \in Nat \ {0}
  BY DEF ContainersAssumptions, Ring!CapacityAssumption
<1>2. rRing = [count |-> 0, onePastHeadIndex |-> 0] /\ rIo = <<>>
      /\ rBuffer = [i \in Ring!Indices |-> Junk]
  BY DEF Ring!Init, Ring!NothingIn
<1>3. RingNow
  BY <1>1, <1>2 DEF RingNow, RingRight, Ring!Words, Ring!Indices, RingValues
<1>4. QueueNow = <<>>
  BY <1>2 DEF QueueNow, InRing
<1>. QED
  BY <1>2, <1>3, <1>4 DEF Ring!Queue!Init, QueueNow, InRing

\* Each call is one of the queue's.
LEMMA RingCalls ==
  ASSUME ContainersAssumptions, RingNow, Ring!Next
  PROVE  RingNow' /\ Ring!Queue!Next
<1>. DEFINE w == rRing
            b == rBuffer
            q == QueueNow
            c == w.count
<1>1. /\ RingRight(w, b) /\ w \in Ring!Words /\ b \in [Ring!Indices -> RingValues]
      /\ c \in Nat /\ Len(q) = c /\ DOMAIN q = 1..c /\ q \in Seq(RingValues)
      /\ \A i \in 1..c : q[i] = b[SlotBehind(w, c + 1 - i)]
  BY InRingIs DEF RingNow, QueueNow, RingRight
<1>2. c = 0 => q = <<>>
  BY DEF QueueNow, InRing
<1>3. CASE \E x \in Items \cup {Zero} : Ring!Push(x)
  <2>1. PICK x \in Items \cup {Zero} : Ring!Push(x)
    BY <1>3
  <2>2. x \in RingValues
    BY DEF RingValues
  <2>3. RingRight(rRing', rBuffer') /\ InRing(rRing', rBuffer') = Ring!Queue!Newest(Append(InRing(w, b), x))
    <3>1. rRing' = Ring!Pushed(w) /\ rBuffer' = [b EXCEPT ![w.onePastHeadIndex] = x]
      BY <2>1 DEF Ring!Push
    <3>. DEFINE v == Ring!Pushed(w)
                d == [b EXCEPT ![w.onePastHeadIndex] = x]
    <3>2. RingRight(v, d) /\ InRing(v, d) = Ring!Queue!Newest(Append(InRing(w, b), x))
      <4>1. RingRight(w, b)
        BY <1>1
      <4>. QED
        BY <2>2, <4>1, PushGoesIn
    <3>. HIDE DEF v, d
    <3>3. rRing' = v /\ rBuffer' = d
      BY <3>1 DEF v, d
    <3>. QED
      BY <3>2, <3>3
  <2>4. rIo' = <<x>>
    BY <2>1 DEF Ring!Push
  <2>5. Ring!Queue!Push(x)
    BY <2>3, <2>4 DEF Ring!Queue!Push, InRing
  <2>. QED
    BY <2>2, <2>3, <2>5 DEF Ring!Queue!Next, RingNow, RingValues
<1>4. CASE Ring!TryPop
  <2>1. CASE c > 0
    <3>1. rRing' = Ring!TailPopped(w) /\ rBuffer' = b /\ rIo' = <<b[Ring!TailIndex(w, 0)]>>
      BY <1>4, <2>1 DEF Ring!TryPop
    <3>2. RingRight(rRing', rBuffer') /\ q = rIo' \o InRing(rRing', rBuffer')
      BY <1>1, <2>1, <3>1, PopsAtEnds DEF QueueNow
    <3>3. Ring!Queue!PopOldest
      BY <3>1, <3>2 DEF Ring!Queue!PopOldest, InRing, QueueNow
    <3>. QED
      BY <3>2, <3>3 DEF Ring!Queue!Next, RingNow
  <2>2. CASE c = 0
    <3>1. rRing' = rRing /\ rBuffer' = rBuffer /\ rIo' = <<>>
      BY <1>4, <2>2 DEF Ring!TryPop
    <3>2. Ring!Queue!PopNothing
      BY <1>2, <2>2, <3>1 DEF Ring!Queue!PopNothing, InRing, QueueNow
    <3>. QED
      BY <3>1, <3>2 DEF Ring!Queue!Next, RingNow
  <2>. QED
    BY <1>1, <2>1, <2>2
<1>5. CASE Ring!TryPopHead
  <2>1. CASE c > 0
    <3>1. rRing' = Ring!HeadPopped(w) /\ rBuffer' = b /\ rIo' = <<b[rRing'.onePastHeadIndex]>>
      BY <1>5, <2>1 DEF Ring!TryPopHead
    <3>2. RingRight(rRing', rBuffer') /\ q = InRing(rRing', rBuffer') \o rIo'
      BY <1>1, <2>1, <3>1, PopsAtEnds DEF QueueNow
    <3>3. Ring!Queue!PopNewest
      BY <3>1, <3>2 DEF Ring!Queue!PopNewest, InRing, QueueNow
    <3>. QED
      BY <3>2, <3>3 DEF Ring!Queue!Next, RingNow
  <2>2. CASE c = 0
    <3>1. rRing' = rRing /\ rBuffer' = rBuffer /\ rIo' = <<>>
      BY <1>5, <2>2 DEF Ring!TryPopHead, Ring!HeadPopped
    <3>2. Ring!Queue!PopNothing
      BY <1>2, <2>2, <3>1 DEF Ring!Queue!PopNothing, InRing, QueueNow
    <3>. QED
      BY <3>1, <3>2 DEF Ring!Queue!Next, RingNow
  <2>. QED
    BY <1>1, <2>1, <2>2
<1>6. CASE Ring!Clear \/ Ring!ClearToZero
  <2>1. /\ rRing' = [count |-> 0, onePastHeadIndex |-> 0] /\ rIo' = <<>>
        /\ rBuffer' = b \/ rBuffer' = [i \in Ring!Indices |-> Zero]
    BY <1>6 DEF Ring!Clear, Ring!ClearToZero, Ring!NothingIn
  <2>2. RingSize \in Nat \ {0}
    BY <1>1, RingIndices
  <2>3. RingRight(rRing', rBuffer')
    <3>1. rRing' \in Ring!Words
      BY <2>1, <2>2 DEF Ring!Words, Ring!Indices
    <3>2. rBuffer' \in [Ring!Indices -> RingValues]
      BY <1>1, <2>1 DEF RingValues
    <3>. QED
      BY <3>1, <3>2 DEF RingRight
  <2>4. InRing(rRing', rBuffer') = <<>>
    BY <2>1 DEF InRing
  <2>5. Ring!Queue!Clear
    BY <2>1, <2>4 DEF Ring!Queue!Clear, InRing
  <2>. QED
    BY <2>3, <2>5 DEF Ring!Queue!Next, RingNow
<1>7. CASE \E x \in Items : Ring!ContainsItem(x)
  <2>1. PICK x \in Items : Ring!ContainsItem(x)
    BY <1>7
  <2>. DEFINE there == x \in {b[i] : i \in Ring!Indices}
  <2>2. rIo' = <<x, there>> /\ rRing' = rRing /\ rBuffer' = rBuffer
    BY <2>1 DEF Ring!ContainsItem
  <2>3. (\E i \in DOMAIN q : q[i] = x) => there
    <3>. SUFFICES ASSUME NEW i \in 1..c, q[i] = x PROVE there
      BY <1>1
    <3>1. c + 1 - i \in Int
      BY <1>1
    <3>2. SlotBehind(w, c + 1 - i) \in Ring!Indices
      BY <1>1, <3>1, RingIndices
    <3>. QED
      BY <1>1, <3>2
  <2>4. there \in BOOLEAN
    OBVIOUS
  <2>. HIDE DEF there
  <2>5. rIo' \in {<<x, TRUE>>, <<x, FALSE>>} /\ rIo'[2] = there
    BY <2>2, <2>4
  <2>6. Ring!Queue!ContainsItem(x)
    BY <2>2, <2>3, <2>5 DEF Ring!Queue!ContainsItem, InRing, QueueNow
  <2>7. x \in RingValues
    BY DEF RingValues
  <2>. QED
    BY <2>2, <2>6, <2>7 DEF Ring!Queue!Next, RingNow, RingValues
<1>8. CASE \E offset \in 0..RingSize-1 : Ring!Look(offset)
  <2>1. PICK offset \in 0..RingSize-1 : Ring!Look(offset)
    BY <1>8
  <2>2. /\ c > offset /\ rRing' = rRing /\ rBuffer' = rBuffer
        /\ rIo' \in {<<b[Ring!IndexFromHeadOffset(w, -offset)]>>, <<b[Ring!TailIndex(w, offset)]>>}
    BY <2>1 DEF Ring!Look
  <2>3. /\ offset \in Int /\ c - offset \in 1..c /\ offset + 1 \in 1..c
        /\ c + 1 - (c - offset) = offset + 1 /\ c + 1 - (offset + 1) = c - offset
    BY <1>1, <2>2
  <2>4. /\ Ring!IndexFromHeadOffset(w, -offset) = SlotBehind(w, offset + 1)
        /\ Ring!TailIndex(w, offset) = SlotBehind(w, c - offset)
    BY <1>1, <2>3, RingEnds
  <2>5. b[SlotBehind(w, offset + 1)] = q[c - offset] /\ b[SlotBehind(w, c - offset)] = q[offset + 1]
    BY <1>1, <2>3
  <2>6. PICK i \in DOMAIN q : rIo' = <<q[i]>>
    BY <1>1, <2>2, <2>3, <2>4, <2>5
  <2>7. Ring!Queue!Look(i)
    BY <2>2, <2>6 DEF Ring!Queue!Look, InRing, QueueNow
  <2>. QED
    BY <2>2, <2>6, <2>7 DEF Ring!Queue!Next, RingNow, InRing, QueueNow
<1>9. CASE \E forward \in BOOLEAN : Ring!Iterate(forward)
  <2>1. PICK forward \in BOOLEAN : Ring!Iterate(forward)
    BY <1>9
  <2>2. /\ rIo' = LET seen == Ring!Visited(w, forward, RingSize + 1)
                  IN  [k \in DOMAIN seen |-> b[seen[k]]]
        /\ rRing' = rRing /\ rBuffer' = rBuffer
    BY <2>1 DEF Ring!Iterate
  <2>3. \/ rIo' = q \/ rIo' = [i \in DOMAIN q |-> q[Len(q) + 1 - i]]
        \/ Len(q) = RingSize /\ rIo' = <<q[RingSize]>>
    <3>. DEFINE given == LET seen == Ring!Visited(w, forward, RingSize + 1)
                         IN  [k \in DOMAIN seen |-> b[seen[k]]]
    <3>1. \/ given = q \/ given = [i \in DOMAIN q |-> q[Len(q) + 1 - i]]
          \/ Len(q) = RingSize /\ given = <<q[RingSize]>>
      BY <1>1, WentThrough DEF QueueNow
    <3>2. rIo' = given
      BY <2>2
    <3>. HIDE DEF given
    <3>. QED
      BY <3>1, <3>2
  <2>4. Ring!Queue!GoThrough
    BY <2>2, <2>3 DEF Ring!Queue!GoThrough, Ring!Queue!Backward, InRing, QueueNow
  <2>. QED
    BY <2>2, <2>4 DEF Ring!Queue!Next, RingNow
<1>. QED
  BY <1>3, <1>4, <1>5, <1>6, <1>7, <1>8, <1>9 DEF Ring!Next

\* A RingBuffer of any size is a queue of the newest items, whatever is pushed and popped
\* at which end: "Head and tail will wrap around when needed and can never overlap"
\* (datatypes.h:1969).  Its forward iterator goes over all of it, and the backward one over
\* all of a ring that is not full; of a full one it may give the newest item only.
THEOREM RingIsDeque == Ring!Spec => []Ring!TypeOK /\ Ring!ImplementsDeque
<1>1. Ring!Init => RingNow /\ Ring!Queue!Init
  BY ContainersAssumptions, RingBegins
<1>2. RingNow /\ [Ring!Next]_(Ring!vars) => RingNow' /\ [Ring!Queue!Next]_(Ring!Queue!vars)
  <2>1. RingNow /\ UNCHANGED Ring!vars => RingNow' /\ UNCHANGED Ring!Queue!vars
    BY DEF Ring!vars, Ring!Queue!vars, RingNow
  <2>. QED
    BY <2>1, ContainersAssumptions, RingCalls
<1>3. RingNow => Ring!TypeOK
  BY DEF RingNow, RingRight, RingValues, Ring!TypeOK
<1>. QED
  BY <1>1, <1>2, <1>3, PTL DEF Ring!Spec, Ring!ImplementsDeque, Ring!Queue!Spec

=============================================================================
