----------------------------- MODULE GenericHeap -----------------------------
(***************************************************************************)
(* GenericHeap of memory.h: one chunk of memory cut into blocks, each      *)
(* behind a header, that form a circular list through a sentinel.  A block *)
(* is looked for from the one that was allocated last, cut in two if it is *)
(* much too large, and merged with free neighbours when it is freed.       *)
(***************************************************************************)
EXTENDS Integers, SequencesExt, FiniteSets

CONSTANTS
  HeapSize,      (* bytes of the chunk                                      *)
  Header,        (* sizeof(Block)                                           *)
  MinSplit,      (* the 16 bytes that a remainder must exceed               *)
  Sizes          (* those asked for                                         *)

HeapAssumption ==
  /\ Header \in Nat \ {0} /\ HeapSize \in Nat /\ HeapSize > Header
  /\ MinSplit \in Nat /\ Sizes \subseteq Nat \ {0}

Addresses == 0..HeapSize-1
Sentinel  == -1

VARIABLES
  blocks,           (* the headers in the list, by address                  *)
  lastAllocated,
  allocatedBlocks,
  granted           (* what the callers were given and have not freed: the  *)
                    (* size they asked for, by address of the block         *)

vars == <<blocks, lastAllocated, allocatedBlocks, granted>>

Block(p, n, s, u) == [prev |-> p, next |-> n, size |-> s, used |-> u]

Init ==
  /\ blocks = [b \in {Sentinel, 0} |-> IF b = Sentinel THEN Block(0, 0, 0, FALSE)
                                      ELSE Block(Sentinel, Sentinel, HeapSize - Header, FALSE)]
  /\ lastAllocated = Sentinel
  /\ allocatedBlocks = 0
  /\ granted = <<>>

(* A new block behind prev, on `available` bytes.                          *)
InsertBlock(bs, prev, address, available) ==
  LET linked == [bs EXCEPT ![prev].next = address, ![bs[prev].next].prev = address]
  IN  [b \in DOMAIN bs \cup {address} |->
         IF b = address THEN Block(prev, bs[prev].next, available - Header, FALSE) ELSE linked[b]]

(* The blocks from the one that `link` leads to, round to b itself.        *)
Round(bs, b, link) ==
  FoldLeft(LAMBDA s, i : IF Last(s) = b THEN s ELSE Append(s, bs[Last(s)][link]),
           <<bs[b][link]>>, [i \in 1..Cardinality(DOMAIN bs) |-> i])

(* The block that such a walk meets first with Test, before its last block.*)
FirstOn(walk, Test(_), b) ==
  \E i \in 1..Len(walk)-1 : walk[i] = b /\ Test(b) /\ \A j \in 1..i-1 : ~Test(walk[j])

(* Every block but lastAllocated, the sentinel too, may be the one found. *)
FindBlockForSize(size, b) ==
  FirstOn(Round(blocks, lastAllocated, "next"), LAMBDA c : ~blocks[c].used /\ blocks[c].size >= size, b)

UseBlock(b, size) ==
  LET remaining == blocks[b].size - size
      taken     == [blocks EXCEPT ![b].used = TRUE]
  IN  IF remaining > Header + MinSplit
      THEN InsertBlock([taken EXCEPT ![b].size = size], b, b + Header + size, remaining)
      ELSE taken

Alloc(size) ==
  \E b \in DOMAIN blocks :
    /\ FindBlockForSize(size, b)
    /\ blocks' = UseBlock(b, size)
    /\ lastAllocated' = b
    /\ allocatedBlocks' = allocatedBlocks + 1
    /\ granted' = [a \in DOMAIN granted \cup {b} |-> IF a = b THEN size ELSE granted[a]]

(* ASSERT( false, "FULL" ): the caller gets a null pointer. *)
AllocFull(size) == (\A b \in DOMAIN blocks : ~FindBlockForSize(size, b)) /\ UNCHANGED vars

Mergeable(bs, first, second) ==
  /\ first # Sentinel /\ second # Sentinel
  /\ ~bs[first].used /\ ~bs[second].used

(* Mutated: the header of the second block is lost. *)
MergeWithoutHeader(bs, first, second) ==
  IF ~Mergeable(bs, first, second) THEN bs
  ELSE LET merged == [bs EXCEPT ![bs[second].next].prev = first, ![first].next = bs[second].next,
                                ![first].size = @ + bs[second].size]
       IN  [b \in DOMAIN bs \ {second} |-> merged[b]]

(* The second block is deleted: it leaves the list. *)
MergeIfPossible(bs, first, second) ==
  IF ~Mergeable(bs, first, second) THEN bs
  ELSE LET merged == [bs EXCEPT ![bs[second].next].prev = first, ![first].next = bs[second].next,
                                ![first].size = @ + Header + bs[second].size]
       IN  [b \in DOMAIN bs \ {second} |-> merged[b]]

(* lastAllocated, if it is in use; else the first used block to be found   *)
(* going back from the one before start, without start.                    *)
Reposition(bs, start, b) ==
  LET FirstUsed(c) == FirstOn(Round(bs, start, "prev"), LAMBDA d : bs[d].used, c) IN
  IF lastAllocated \in DOMAIN bs /\ bs[lastAllocated].used THEN b = lastAllocated
  ELSE FirstUsed(b) \/ (b = Sentinel /\ \A c \in DOMAIN bs : ~FirstUsed(c))

Free(b) ==
  LET freed == [blocks EXCEPT ![b].used = FALSE]
      next  == MergeIfPossible(freed, b, freed[b].next)
  IN
  /\ b \in DOMAIN granted
  /\ blocks' = MergeIfPossible(next, next[b].prev, b)
  /\ lastAllocated' \in {c \in DOMAIN blocks' : Reposition(blocks', blocks[b].prev, c)}
  /\ allocatedBlocks' = allocatedBlocks - 1
  /\ granted' = [a \in DOMAIN granted \ {b} |-> granted[a]]

Next ==
  \/ \E size \in Sizes : Alloc(size) \/ AllocFull(size)
  \/ \E b \in Addresses : Free(b)

Spec == Init /\ [][Next]_vars

---------------------------------------------------------------------------
Real == DOMAIN blocks \ {Sentinel}

(* Types; lastAllocated is a block in use or the sentinel, so that the     *)
(* search may leave it out.                                                *)
TypeOK ==
  /\ Real \subseteq Addresses
  /\ \A b \in Real : blocks[b].size >= 0
  /\ lastAllocated \in DOMAIN granted \cup {Sentinel}
  /\ allocatedBlocks = Cardinality({b \in Real : blocks[b].used})

(* The list has all blocks in the order of their addresses, each right     *)
(* behind the one before it, and they cover the chunk from end to end.     *)
BlocksTile ==
  /\ \A b \in DOMAIN blocks : blocks[blocks[b].next].prev = b /\ blocks[blocks[b].prev].next = b
  /\ blocks[Sentinel].next = 0
  /\ \A b \in Real :
       LET end == b + Header + blocks[b].size
       IN  blocks[b].next = IF end = HeapSize THEN Sentinel ELSE end

(* A caller's memory is a used block that has room for what was asked,     *)
(* until the caller frees it; with BlocksTile, no other caller has it.     *)
GrantsKept ==
  /\ DOMAIN granted = {b \in Real : blocks[b].used}
  /\ \A b \in DOMAIN granted : granted[b] <= blocks[b].size

(* "Merges free contiguous blocks" (memory.h:447): no two neighbours are   *)
(* free.                                                                   *)
FreeBlocksMerged ==
  \A b \in Real : blocks[b].next # Sentinel => blocks[b].used \/ blocks[blocks[b].next].used

(* The heap is full only for a size that no free block has room for,       *)
(* wherever the search starts.                                             *)
FindsRoom ==
  \A size \in Sizes :
    (\E b \in Real : ~blocks[b].used /\ blocks[b].size >= size)
      => \E b \in DOMAIN blocks : FindBlockForSize(size, b)

=============================================================================
