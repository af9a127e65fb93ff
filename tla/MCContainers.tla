---------------------------- MODULE MCContainers ----------------------------
(***************************************************************************)
(* The containers of datatypes.h, the allocators of memory.h and the       *)
(* Strings of strings.h, side by side, and what the code that uses them    *)
(* relies on.  The Hashtable's own constants and variables keep their      *)
(* names.                                                                  *)
(***************************************************************************)
EXTENDS Hashtable, TLC

CONSTANTS
  Components,    \* the components a run looks at
  ArrayNames, ArrayItems, Capacities, ArrayBlocks, Buffer, BufferLen,
  NoBlock, NoContents,
  Items, Zero, Junk,                       \* of BucketArrays and RingBuffers
  RingSize,
  BucketSizes, ReserveSizes, Chunks, MinBuffer, BucketBlocks,
  HeapSize, HeapHeader, MinSplit, HeapSizes,
  PageSize, PageHeader, ArenaSizes, Alignments, PageBases, NoBase, MaxScopes,
  Names, StringBlocks, Literals, NoText, Null,
  itemA, itemB, keyA, keyB, keyC, keyD     \* what is stored, in a run

VARIABLES
  which,  \* the component that runs
  aArrays, aMem, aIo,
  bArrays, bMem, bRoomy, bOutside, bIo,
  rRing, rBuffer, rIo,
  gBlocks, gLastAllocated, gAllocatedBlocks, gGranted,
  mPages, mTempCount, mTemps, mLive, mSub,
  sStrings, sMem, sMisfreed, sIo

\* Four keys that collide, two with equal hashes, and probes that go round the end.
Hashes == keyA :> 3 @@ keyB :> 3 @@ keyC :> 7 @@ keyD :> 4
NoTable == [keys |-> <<>>, values |-> <<>>, count |-> 0, capacity |-> 0, fixed |-> FALSE]

\* Nothing, one item, and two that may have to go to different buckets.
SomeChunks == {<<>>, <<itemA>>, <<itemB, itemA>>}

Arr == INSTANCE Array WITH
  Names <- ArrayNames, Items <- ArrayItems, Blocks <- ArrayBlocks,
  Freed <- NoContents,
  arrays <- aArrays, mem <- aMem, io <- aIo

Bucket == INSTANCE BucketArray WITH
  Names <- ArrayNames, Blocks <- BucketBlocks,
  arrays <- bArrays, mem <- bMem, roomy <- bRoomy, outside <- bOutside, io <- bIo

Ring == INSTANCE RingBuffer WITH
  Capacity <- RingSize, ring <- rRing, buffer <- rBuffer, io <- rIo

Heap == INSTANCE GenericHeap WITH
  Header <- HeapHeader, Sizes <- HeapSizes,
  blocks <- gBlocks, lastAllocated <- gLastAllocated,
  allocatedBlocks <- gAllocatedBlocks, granted <- gGranted

Arena == INSTANCE MemoryArena WITH
  Header <- PageHeader, Sizes <- ArenaSizes, Bases <- PageBases,
  pages <- mPages, tempCount <- mTempCount, temps <- mTemps, live <- mLive,
  sub <- mSub

Str == INSTANCE Strings WITH
  Blocks <- StringBlocks, Texts <- Literals, Empty <- NoText,
  strings <- sStrings, mem <- sMem, misfreed <- sMisfreed, io <- sIo

arrVars == <<aArrays, aMem, aIo>>
bucketVars == <<bArrays, bMem, bRoomy, bOutside, bIo>>
ringVars == <<rRing, rBuffer, rIo>>
heapVars == <<gBlocks, gLastAllocated, gAllocatedBlocks, gGranted>>
arenaVars == <<mPages, mTempCount, mTemps, mLive, mSub>>
strVars == <<sStrings, sMem, sMisfreed, sIo>>
allVars == <<which, arrVars, bucketVars, vars, ringVars, heapVars, arenaVars, strVars>>

\* No component tells the first two names apart.
Symmetry == Permutations(ArrayNames)

\* One component runs; the others stay as they are.
AllInit ==
  /\ which \in Components
  /\ Arr!Init
  /\ Bucket!Init
  /\ IF which = "hashtable" THEN Init ELSE
       /\ table = NoTable /\ io = <<>>
  /\ Ring!Init
  /\ Heap!Init
  /\ Arena!Init
  /\ Str!Init

OnlyArr ==
  /\ which = "array"
  /\ UNCHANGED <<which, bucketVars, vars, ringVars,
                 heapVars, arenaVars, strVars>>
RunArr == OnlyArr /\ Arr!Next

OnlyBucket ==
  /\ which = "buckets"
  /\ UNCHANGED <<which, arrVars, vars, ringVars,
                 heapVars, arenaVars, strVars>>
RunBucket == OnlyBucket /\ Bucket!Next

OnlyHash ==
  /\ which = "hashtable"
  /\ UNCHANGED <<which, arrVars, bucketVars, ringVars,
                 heapVars, arenaVars, strVars>>
RunHash == OnlyHash /\ Next

OnlyRing ==
  /\ which = "ring"
  /\ UNCHANGED <<which, arrVars, bucketVars, vars,
                 heapVars, arenaVars, strVars>>
RunRing == OnlyRing /\ Ring!Next

OnlyHeap ==
  /\ which = "heap"
  /\ UNCHANGED <<which, arrVars, bucketVars, vars,
                 ringVars, arenaVars, strVars>>
RunHeap == OnlyHeap /\ Heap!Next

OnlyArena ==
  /\ which = "arena"
  /\ UNCHANGED <<which, arrVars, bucketVars, vars,
                 ringVars, heapVars, strVars>>
RunArena == OnlyArena /\ Arena!Next

OnlyStr ==
  /\ which = "strings"
  /\ UNCHANGED <<which, arrVars, bucketVars, vars,
                 ringVars, heapVars, arenaVars>>
RunStr == OnlyStr /\ Str!Next

AllNext == RunArr \/ RunBucket \/ RunHash \/ RunRing \/ RunHeap \/ RunArena \/ RunStr

AllSpec == AllInit /\ [][AllNext]_allVars

-----------------------------------------------------------------------------
\* What the constants have to be.
ASSUME ContainersAssumptions ==
  /\ Heap!HeapAssumption /\ Arena!ArenaAssumption /\ Str!StringsAssumption
  /\ Arr!ArrayAssumption /\ Bucket!BucketAssumption /\ Ring!CapacityAssumption

\* The blocks of a GenericHeap cover its chunk without gap or overlap, no two
\* free ones side by side; and a caller's memory is a used block until it is freed.
HeapBlocksTile ==
  Heap!TypeOK /\ Heap!BlocksTile /\ Heap!GrantsKept /\ Heap!FreeBlocksMerged

\* What a scope has from a MemoryArena stays its own, through growth and the end
\* of inner temporary memory, which leaves the arena as its beginning found it; a
\* sub-arena's blocks stay within it.
ArenaBlocksIntact ==
  [](Arena!TypeOK /\ Arena!BlocksIntact /\ Arena!SubArenaKept) /\ Arena!EndRestores

\* Every block has one String that owns it, which frees it with the allocator it is
\* from; nothing but a block is freed, except for the empty literal that a String
\* constructed from it says it owns; and a String reads as what was last put in it.
StringBlocksHaveOwners == Str!TypeOK /\ Str!BlocksHaveOwners /\ Str!ReadsAsAssigned

\* Read by index, Arrays are sequences of items, and so are BucketArrays while all
\* their buckets but the last are full, which Reserve or pushing nothing may change;
\* a Hashtable is a map, through collisions and growth; and a RingBuffer is a queue of
\* the newest items, gone through from the oldest, and from the newest if not full.  A
\* GenericHeap refuses a size only when no free block has room for it.
ContainersImplementAbstract ==
  /\ Arr!ImplementsSequences /\ Bucket!ImplementsSequences /\ []Bucket!OnlyRoomHasGaps
  /\ ImplementsMap /\ Ring!ImplementsDeque /\ []Ring!TypeOK /\ []Heap!FindsRoom

\* No two Arrays have one block, and a caller's buffer is not freed; a block is
\* allocated exactly while one BucketArray has it, in use or retired.
BlocksAccountedFor ==
  /\ Arr!TypeOK /\ Arr!BlocksNotShared
  /\ Bucket!TypeOK /\ Bucket!BlocksAccountedFor

=============================================================================
