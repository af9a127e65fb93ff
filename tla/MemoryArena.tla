----------------------------- MODULE MemoryArena -----------------------------
(***************************************************************************)
(* MemoryArena of memory.h: memory is pushed onto the last of a chain of   *)
(* pages, each of which keeps in its header what the page before it was    *)
(* like when it was left.  TemporaryMemory remembers a position and takes  *)
(* the arena back to it, page by page.  A sub-arena is a block of another  *)
(* arena and cannot grow.                                                  *)
(***************************************************************************)
EXTENDS Integers, SequencesExt

CONSTANTS
  PageSize,      (* bytes of a page, headers not counted                    *)
  Header,        (* sizeof(MemoryArenaHeader)                               *)
  Sizes,         (* those asked for                                         *)
  Alignments,
  Bases,         (* BOUND: addresses at which the platform can put a page   *)
  NoBase,
  MaxScopes      (* BOUND: nested temporary memory                          *)

(* "ASSERT( arena->pageSize > SIZEOF(MemoryArenaHeader) )" (memory.h:329). *)
ArenaAssumption ==
  /\ PageSize \in Nat /\ Header \in Nat /\ PageSize > Header
  /\ Sizes \subseteq Nat /\ Alignments \subseteq Nat \ {0}
  /\ Bases \subseteq Nat /\ NoBase \notin Bases
  /\ MaxScopes \in Nat

VARIABLES
  pages,         (* the arena: the pages it has, the current one last       *)
  tempCount,
  temps,         (* the TemporaryMemory in scope, innermost last            *)
  live,          (* the blocks of every scope that their owners still use,  *)
                 (* those outside any temporary memory first                *)
  sub            (* the block that is a sub-arena, and what is used of it   *)

vars == <<pages, tempCount, temps, live, sub>>

NoSub == [base |-> NoBase, from |-> 0, size |-> 0, used |-> 0]

Init ==
  /\ pages = <<>> /\ tempCount = 0 /\ temps = <<>> /\ live = <<{}>>
  /\ sub = NoSub

(* What base, size and used are now; an arena without pages has none.      *)
Current == IF pages = <<>> THEN [base |-> NoBase, size |-> 0, used |-> 0] ELSE Last(pages)

AlignUp(n, alignment) == ((n + alignment - 1) \div alignment) * alignment

(* Mutated: the alignment is left out when the room is computed.           *)
FitsUnaligned(size, align) == Current.used + size <= Current.size

Aligned(size, align) == AlignUp(Current.used, align) + size
Fits(size, align)    == Aligned(size, align) <= Current.size

(* The page a block of that size gets when it does not fit. *)
NewPage(base, size) ==
  [base |-> base, used |-> size, size |-> IF size + Header > PageSize THEN size ELSE PageSize - Header]

FreeBases == Bases \ {pages[i].base : i \in DOMAIN pages}

(* _PushSize, and the position at which the block is put.                  *)
PushSize(size, align, from, base) ==
  IF Fits(size, align)
  THEN /\ pages # <<>>
       /\ from = AlignUp(Current.used, align) /\ base = Current.base
       /\ pages' = Append(Front(pages), [Current EXCEPT !.used = Aligned(size, align)])
  ELSE /\ from = 0 /\ FreeBases # {} /\ base = Min(FreeBases)
       /\ pages' = Append(pages, NewPage(base, size))

Block(base, from, size, align) == [base |-> base, from |-> from, size |-> size, align |-> align]

Alloc(size, align) ==
  \E base \in Bases, from \in 0..Current.size :
    /\ PushSize(size, align, from, base)
    /\ live' = [live EXCEPT ![Len(live)] = @ \cup {Block(base, from, size, align)}]
    /\ UNCHANGED <<tempCount, temps, sub>>

MakeSubArena(size) ==
  \E base \in Bases, from \in 0..Current.size :
    /\ tempCount = 0 /\ sub = NoSub
    /\ PushSize(size, 2, from, base)
    /\ sub' = [base |-> base, from |-> from, size |-> size, used |-> 0]
    /\ UNCHANGED <<tempCount, temps, live>>

(* An allocation in the sub-arena, "Static arena overflow" when it is full *)
AllocInSub(size) ==
  /\ sub # NoSub /\ sub.used + size <= sub.size
  /\ sub' = [sub EXCEPT !.used = @ + size]
  /\ live' = [live EXCEPT ![1] = @ \cup {Block(sub.base, sub.from + sub.used, size, 1)}]
  /\ UNCHANGED <<pages, tempCount, temps>>

BeginTemporaryMemory ==
  /\ Len(temps) < MaxScopes
  /\ temps' = Append(temps, [base |-> Current.base, used |-> Current.used])
  /\ tempCount' = tempCount + 1
  /\ live' = Append(live, {})
  /\ UNCHANGED <<pages, sub>>

(* FreeLastPage until the page is found where the temporary memory began.  *)
FreePagesDownTo(base) ==
  SubSeq(pages, 1, IF base = NoBase THEN 0 ELSE CHOOSE i \in DOMAIN pages : pages[i].base = base)

(* Scopes end innermost first, as ScopedTmpMemory makes sure.              *)
EndTemporaryMemory ==
  LET record == Last(temps)
      left   == FreePagesDownTo(record.base)
  IN
  /\ temps # <<>> /\ tempCount > 0
  /\ pages' = IF left = <<>> THEN left ELSE Append(Front(left), [Last(left) EXCEPT !.used = record.used])
  /\ temps' = Front(temps)
  /\ tempCount' = tempCount - 1
  /\ live' = Front(live)
  /\ UNCHANGED sub

(* All pages are freed; nothing that was in them is used any more.         *)
ClearArena ==
  /\ temps = <<>>
  /\ pages' = <<>> /\ tempCount' = 0
  /\ live' = <<{}>> /\ sub' = NoSub
  /\ UNCHANGED temps

Next ==
  \/ \E size \in Sizes : MakeSubArena(size) \/ AllocInSub(size) \/ (\E align \in Alignments : Alloc(size, align))
  \/ BeginTemporaryMemory \/ EndTemporaryMemory \/ ClearArena

Spec == Init /\ [][Next]_vars

---------------------------------------------------------------------------
(* Types. *)
TypeOK ==
  /\ \A i \in DOMAIN pages : pages[i].base \in Bases /\ pages[i].used \in 0..pages[i].size
  /\ tempCount = Len(temps) /\ Len(live) = Len(temps) + 1

InUse(b) ==
  \E i \in DOMAIN pages :
    pages[i].base = b.base /\ b.from + b.size <= pages[i].used /\ pages[i].used <= pages[i].size

Apart(b, c) == b.base # c.base \/ b.from + b.size <= c.from \/ c.from + c.size <= b.from

Blocks == UNION ToSet(live)

(* What an owner still uses stays allocated within its page, is aligned,   *)
(* and nobody else gets it: growing to a new page and ending an inner      *)
(* temporary memory take nothing away from the scopes around it.  Only of  *)
(* blocks of no bytes there can be several at one place.                   *)
BlocksIntact ==
  /\ \A b \in Blocks : InUse(b) /\ b.from % b.align = 0
  /\ \A b, c \in Blocks : b = c \/ Apart(b, c)
  /\ \A i, j \in DOMAIN live : i = j \/ \A b \in live[i] \cap live[j] : b.size = 0

(* The blocks of a sub-arena stay within it. *)
SubArenaKept ==
  sub # NoSub =>
    /\ sub.used <= sub.size /\ InUse(sub)
    /\ \A b \in Blocks : Apart(b, sub) \/ (b.base = sub.base /\ b.from >= sub.from
                                            /\ b.from + b.size <= sub.from + sub.used)

(* Once everything is cleared or ended, nothing is left over: the end of a *)
(* temporary memory leaves exactly the pages and positions of its          *)
(* beginning.                                                              *)
EndRestores ==
  [][\A n \in 1..MaxScopes :
       Len(temps) = n /\ Len(temps') = n - 1 =>
         /\ pages' = <<>> <=> temps[n].base = NoBase
         /\ pages' # <<>> => Last(pages').base = temps[n].base /\ Last(pages').used = temps[n].used]_vars

=============================================================================
