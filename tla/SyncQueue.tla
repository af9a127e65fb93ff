------------------------------ MODULE SyncQueue ------------------------------
(***************************************************************************)
(* SyncQueue of datatypes.h: an unbounded queue shared by any threads,     *)
(* kept as a list of fixed-capacity pages, each page a circular buffer.    *)
(*                                                                         *)
(* Items enter at the tail page and leave from the head page.  A head page *)
(* that is drained while another page follows it goes to the free list,    *)
(* from which AllocPage takes pages before it asks the allocator for one.  *)
(* A std::mutex guards every operation, except that TryPop looks at the    *)
(* count before it locks, and that a slot handed out by PushEmpty is       *)
(* filled by its caller after the lock is released.                        *)
(*                                                                         *)
(* One action per step that another thread can tell apart: the unlocked    *)
(* look at the count, the acquisition of the mutex, claiming a slot,       *)
(* storing the item, taking the oldest item, and the release.              *)
(***************************************************************************)
EXTENDS Integers, FiniteSets, SequencesExt, TLC

CONSTANTS
  Threads,       (* the threads that call the queue                         *)
  Items,         (* the values that are pushed                              *)
  Pages,         (* the pages the allocator can provide                     *)
  PageCapacity,  (* items per page, a power of two                          *)
  MaxItems,      (* BOUND: items queued or being pushed at any time         *)
  Zero,          (* a cleared item, as new memory and PushEmpty leave it   *)
  NoThread, NoPage, NoItem

ASSUME CapacityAssumption ==
  /\ PageCapacity \in Nat \ {0}
  /\ \E k \in 0..PageCapacity : PageCapacity = 2^k

ASSUME QueueAssumption ==
  /\ NoThread \notin Threads
  /\ NoPage \notin Pages
  /\ NoItem \notin Items /\ Zero \notin Items /\ Zero # NoItem
  /\ Pages # {} /\ IsFiniteSet(Pages)
  /\ MaxItems \in Nat

VARIABLES
  mutex,      (* the thread that holds the mutex                            *)
  head, tail, firstFree,
  count,      (* the queue's own item count                                 *)
  page,       (* the header of every page                                   *)
  slot,       (* the contents of every page                                 *)
  heap,       (* pages never obtained from the allocator                    *)
  pc, arg,    (* where each thread is in its call, and the item it is about *)
  result,     (* what the call has computed                                 *)
  claimed     (* the slot PushEmptyUnsafe returned to the thread            *)

(* Two auxiliary variables, read by no action: the pages a walk along the  *)
(* next pointers should meet, from head to tail and along the free list.   *)
VARIABLES live, free

vars == <<mutex, head, tail, firstFree, count, page, slot, heap,
          pc, arg, result, claimed, live, free>>

Indices == 0..PageCapacity-1
Values  == Items \cup {Zero}
Links   == Pages \cup {NoPage}
Slots   == Pages \X Indices
NoSlot  == <<NoPage, 0>>

EmptyPage == [next |-> NoPage, count |-> 0, onePastTailIndex |-> 0]

(* Index of the oldest item of a page; the masking by capacity - 1 is the  *)
(* remainder, for a negative difference too.                               *)
HeadIndex(p) == (page[p].onePastTailIndex - page[p].count) % PageCapacity

---------------------------------------------------------------------------
(* The queue as its constructor leaves it: one empty page, both ends.      *)
Init ==
  /\ mutex = NoThread
  /\ head \in Pages
  /\ tail = head
  /\ firstFree = NoPage
  /\ count = 0
  /\ page = [p \in Pages |-> EmptyPage]
  /\ slot = [p \in Pages |-> [i \in Indices |-> Zero]]
  /\ heap = Pages \ {head}
  /\ pc = [t \in Threads |-> "idle"]
  /\ arg = [t \in Threads |-> NoItem]
  /\ result = [t \in Threads |-> NoItem]
  /\ claimed = [t \in Threads |-> NoSlot]
  /\ live = <<head>>
  /\ free = <<>>

Goto(t, from, to) ==
  /\ pc[t] = from
  /\ pc' = [pc EXCEPT ![t] = to]

listVars  == <<head, tail, firstFree, heap, live, free>>
queueVars == <<listVars, count, page, slot>>
callVars  == <<arg, result, claimed>>

(* Pushes that are on their way to a slot. *)
Pushing == {t \in Threads : pc[t] \in {"push", "pushempty",
                                       "push_claim", "pushempty_claim"}}

---------------------------------------------------------------------------
(* A thread calls Push, PushEmpty, TryPop or Find.                         *)

CallPush(t, x) ==
  /\ count + Cardinality(Pushing) < MaxItems
  /\ Goto(t, "idle", "push")
  /\ arg' = [arg EXCEPT ![t] = x]
  /\ UNCHANGED <<mutex, queueVars, result, claimed>>

CallPushEmpty(t, x) ==
  /\ count + Cardinality(Pushing) < MaxItems
  /\ Goto(t, "idle", "pushempty")
  /\ arg' = [arg EXCEPT ![t] = x]
  /\ UNCHANGED <<mutex, queueVars, result, claimed>>

CallTryPop(t) ==
  /\ Goto(t, "idle", "pop_peek")
  /\ UNCHANGED <<mutex, queueVars, callVars>>

CallFind(t, x) ==
  /\ Goto(t, "idle", "find")
  /\ arg' = [arg EXCEPT ![t] = x]
  /\ UNCHANGED <<mutex, queueVars, result, claimed>>

(* TryPop reads the count without the mutex, and gives up when it sees none. *)
PeekCount(t) ==
  /\ \/ /\ count > 0
        /\ Goto(t, "pop_peek", "pop")
        /\ UNCHANGED result
     \/ /\ ~ count > 0
        /\ Goto(t, "pop_peek", "return")
        /\ result' = [result EXCEPT ![t] = NoItem]
  /\ UNCHANGED <<mutex, queueVars, arg, claimed>>

---------------------------------------------------------------------------
(* The mutex: an operation waits at its own name and proceeds inside.      *)

AfterLock == [push |-> "push_claim", pushempty |-> "pushempty_claim",
              pop |-> "pop_take", find |-> "find_scan"]

Acquire(t) ==
  /\ pc[t] \in DOMAIN AfterLock
  /\ mutex = NoThread
  /\ mutex' = t
  /\ Goto(t, pc[t], AfterLock[pc[t]])
  /\ UNCHANGED <<queueVars, callVars>>

Release(t, from, to) ==
  /\ Goto(t, from, to)
  /\ mutex' = NoThread

(* The end of a critical section, on the way back to the caller. *)
Unlock(t) == Release(t, "unlock", "return") /\ UNCHANGED <<queueVars, callVars>>

(* The same for PushEmpty, whose slot is still to be filled. *)
UnlockToFill(t) == Release(t, "unlock_fill", "fill") /\ UNCHANGED <<queueVars, callVars>>

---------------------------------------------------------------------------
(* Mutated: the reused page stays on the free list. *)
AllocPageKeepsFree(p) ==
  IF firstFree # NoPage
  THEN p = firstFree /\ free' = Tail(free) /\ UNCHANGED <<firstFree, heap>>
  ELSE p \in heap /\ heap' = heap \ {p} /\ UNCHANGED <<firstFree, free>>

(* Mutated: free pages are never used again. *)
AllocPageFresh(p) == p \in heap /\ heap' = heap \ {p} /\ UNCHANGED <<firstFree, free>>

(* AllocPage: the first free page if there is one, or else a new one from  *)
(* the allocator; either way its header is reset, its contents are not.    *)
AllocPage(p) ==
  IF firstFree # NoPage
  THEN /\ p = firstFree
       /\ firstFree' = page[p].next
       /\ free' = Tail(free)
       /\ UNCHANGED heap
  ELSE /\ p \in heap
       /\ heap' = heap \ {p}
       /\ UNCHANGED <<firstFree, free>>

(* Mutated: the tail index is not masked. *)
ClaimSlotUnmasked(t, p, h, headers, clear) ==
  LET i == h.onePastTailIndex
  IN  /\ page' = [headers EXCEPT ![p] =
                    [next |-> h.next, count |-> h.count + 1, onePastTailIndex |-> i + 1]]
      /\ slot' = IF clear THEN [slot EXCEPT ![p][i] = Zero] ELSE slot
      /\ claimed' = [claimed EXCEPT ![t] = <<p, i>>]
      /\ count' = count + 1

(* PushEmptyUnsafe on a page p that has room (the header h it starts from): *)
(* hand out the slot at the tail index, count it in page and queue.         *)
ClaimSlot(t, p, h, headers, clear) ==
  LET i == h.onePastTailIndex
  IN  /\ page' = [headers EXCEPT ![p] =
                    [next |-> h.next, count |-> h.count + 1,
                     onePastTailIndex |-> (i + 1) % PageCapacity]]
      /\ slot' = IF clear THEN [slot EXCEPT ![p][i] = Zero] ELSE slot
      /\ claimed' = [claimed EXCEPT ![t] = <<p, i>>]
      /\ count' = count + 1

(* Mutated: a page takes one item more than it has room for. *)
PushEmptyUnsafeOverfull(t, clear) ==
  \/ /\ page[tail].count <= PageCapacity
     /\ ClaimSlot(t, tail, page[tail], page, clear)
     /\ UNCHANGED listVars
  \/ /\ page[tail].count > PageCapacity
     /\ \E p \in Pages :
          /\ AllocPage(p)
          /\ tail' = p
          /\ live' = Append(live, p)
          /\ ClaimSlot(t, p, EmptyPage, [page EXCEPT ![tail].next = p], clear)
     /\ UNCHANGED head

PushEmptyUnsafe(t, clear) ==
  \/ /\ page[tail].count < PageCapacity
     /\ ClaimSlot(t, tail, page[tail], page, clear)
     /\ UNCHANGED listVars
  \/ /\ page[tail].count >= PageCapacity
     /\ \E p \in Pages :
          /\ AllocPage(p)
          /\ tail' = p
          /\ live' = Append(live, p)
          /\ ClaimSlot(t, p, EmptyPage, [page EXCEPT ![tail].next = p], clear)
     /\ UNCHANGED head

PushClaim(t) ==
  /\ Goto(t, "push_claim", "push_store")
  /\ PushEmptyUnsafe(t, FALSE)
  /\ UNCHANGED <<mutex, arg, result>>

(* Push stores the item while it still holds the mutex. *)
PushStore(t) ==
  /\ Goto(t, "push_store", "unlock")
  /\ slot' = [slot EXCEPT ![claimed[t][1]][claimed[t][2]] = arg[t]]
  /\ result' = [result EXCEPT ![t] = TRUE]
  /\ UNCHANGED <<mutex, listVars, count, page, arg, claimed>>

(* PushEmpty clears the slot and releases the mutex; the caller fills the  *)
(* slot it was given.                                                      *)
PushEmptyClaim(t) ==
  /\ Goto(t, "pushempty_claim", "unlock_fill")
  /\ PushEmptyUnsafe(t, TRUE)
  /\ UNCHANGED <<mutex, arg, result>>

CallerFills(t) ==
  /\ Goto(t, "fill", "return")
  /\ slot' = [slot EXCEPT ![claimed[t][1]][claimed[t][2]] = arg[t]]
  /\ result' = [result EXCEPT ![t] = TRUE]
  /\ UNCHANGED <<mutex, listVars, count, page, arg, claimed>>

---------------------------------------------------------------------------
(* All pages, p having lost its oldest item and been linked to page q. *)
PopFromPage(p, q) ==
  [page EXCEPT ![p] = [next |-> q, count |-> page[p].count - 1,
                       onePastTailIndex |-> page[p].onePastTailIndex]]

(* TryPop looks at the count again, now under the mutex: another thread    *)
(* may have taken the last item since.  Draining a page that is not the    *)
(* last one moves it to the free list.                                     *)
PopTake(t) ==
  /\ Goto(t, "pop_take", "unlock")
  /\ \/ /\ count > 0
        /\ result' = [result EXCEPT ![t] = slot[head][HeadIndex(head)]]
        /\ count' = count - 1
        /\ \/ /\ page[head].count = 1 /\ head # tail
              /\ head' = page[head].next
              /\ page' = PopFromPage(head, firstFree)
              /\ firstFree' = head
              /\ live' = Tail(live)
              /\ free' = <<head>> \o free
           \/ /\ ~ (page[head].count = 1 /\ head # tail)
              /\ page' = PopFromPage(head, page[head].next)
              /\ UNCHANGED <<head, firstFree, live, free>>
     \/ /\ ~ count > 0
        /\ result' = [result EXCEPT ![t] = NoItem]
        /\ UNCHANGED <<head, firstFree, live, free, count, page>>
  /\ UNCHANGED <<mutex, tail, slot, heap, arg, claimed>>

---------------------------------------------------------------------------
(* The pages reached by following next from page p, in order.              *)
ListFrom(p) ==
  LET at[n \in 0..Cardinality(Pages)] ==
        IF n = 0 THEN p
        ELSE LET q == at[n-1] IN IF q = NoPage THEN NoPage ELSE page[q].next
      reached == {n \in 0..Cardinality(Pages) : at[n] # NoPage}
  IN  [n \in 1..Cardinality(reached) |-> at[n-1]]

(* The items of a page, oldest first. *)
PageItems(p) ==
  [i \in 1..page[p].count |-> slot[p][(HeadIndex(p) + i - 1) % PageCapacity]]

(* What a scan from the head page sees. *)
Contents == LET l == ListFrom(head) IN FlattenSeq([n \in DOMAIN l |-> PageItems(l[n])])

(* Mutated: the scan does not go on to the next page. *)
FindScanOnePage(t) ==
  /\ Goto(t, "find_scan", "unlock")
  /\ result' = [result EXCEPT ![t] = arg[t] \in ToSet(PageItems(head))]
  /\ UNCHANGED <<mutex, queueVars, arg, claimed>>

FindScan(t) ==
  /\ Goto(t, "find_scan", "unlock")
  /\ result' = [result EXCEPT ![t] = arg[t] \in ToSet(Contents)]
  /\ UNCHANGED <<mutex, queueVars, arg, claimed>>

(* The call is over; the model forgets its argument and result. *)
Return(t) ==
  /\ Goto(t, "return", "idle")
  /\ arg' = [arg EXCEPT ![t] = NoItem]
  /\ result' = [result EXCEPT ![t] = NoItem]
  /\ claimed' = [claimed EXCEPT ![t] = NoSlot]
  /\ UNCHANGED <<mutex, queueVars>>

(* What a thread does that calls Push, TryPop and Find, and what it does   *)
(* that calls PushEmpty as well.                                           *)
QueueStep(t) ==
  \/ \E x \in Items : CallPush(t, x) \/ CallFind(t, x)
  \/ CallTryPop(t) \/ PeekCount(t)
  \/ Acquire(t) \/ Unlock(t)
  \/ PushClaim(t) \/ PushStore(t)
  \/ PopTake(t)
  \/ FindScan(t)
  \/ Return(t)

PushEmptyStep(t) ==
  \/ \E x \in Items : CallPushEmpty(t, x)
  \/ PushEmptyClaim(t) \/ UnlockToFill(t) \/ CallerFills(t)

QueueNext == \E t \in Threads : QueueStep(t)
Next      == \E t \in Threads : QueueStep(t) \/ PushEmptyStep(t)

QueueSpec == Init /\ [][QueueNext]_vars
Spec == Init /\ [][Next]_vars

---------------------------------------------------------------------------
(* Types of all variables. *)
TypeOK ==
  /\ mutex \in Threads \cup {NoThread}
  /\ head \in Pages /\ tail \in Pages /\ firstFree \in Links
  /\ count \in Int
  /\ page \in [Pages -> [next : Links, count : Int, onePastTailIndex : Indices]]
  /\ slot \in [Pages -> [Indices -> Values]]
  /\ heap \subseteq Pages
  /\ pc \in [Threads -> {"idle", "pop_peek", "push", "pushempty", "pop", "find",
                         "push_claim", "push_store", "pushempty_claim",
                         "pop_take", "find_scan", "unlock", "unlock_fill",
                         "fill", "return"}]
  /\ arg \in [Threads -> Items \cup {NoItem}]
  /\ result \in [Threads -> Values \cup {NoItem} \cup BOOLEAN]
  /\ claimed \in [Threads -> Slots \cup {NoSlot}]
  /\ live \in Seq(Pages) /\ free \in Seq(Pages)

---------------------------------------------------------------------------
(* The pages of list l, linked in that order from page first to no page.   *)
Linked(l, first) ==
  /\ first = IF l = <<>> THEN NoPage ELSE l[1]
  /\ \A n \in 1..Len(l) :
       page[l[n]].next = IF n = Len(l) THEN NoPage ELSE l[n+1]

(* No page is lost or shared: every page the allocator ever provided is    *)
(* either in the queue, from head to tail, or on the free list, and never  *)
(* twice in one list or in both (TryPop's retirement at 2593-2600 against  *)
(* AllocPage's reuse at 2678-2689).                                        *)
PagesAccountedFor ==
  /\ live # <<>> /\ tail = live[Len(live)]
  /\ Linked(live, head) /\ Linked(free, firstFree)
  /\ \A m, n \in 1..Len(live) : live[m] = live[n] => m = n
  /\ \A m, n \in 1..Len(free) : free[m] = free[n] => m = n
  /\ \A m \in 1..Len(live), n \in 1..Len(free) : live[m] # free[n]
  /\ \A p \in Pages \ heap :
       (\E n \in 1..Len(live) : p = live[n]) \/ (\E n \in 1..Len(free) : p = free[n])
  /\ \A n \in 1..Len(live) : live[n] \notin heap
  /\ \A n \in 1..Len(free) : free[n] \notin heap

(* Only the head and the tail page may be partly filled, and a page holds  *)
(* nothing only when it is the only one: so the oldest item is always in   *)
(* the head page, where TryPop looks for it, and the count read without    *)
(* the mutex is the number of items there are to pop.                      *)
QueueShape ==
  /\ \A n \in 1..Len(live) :
       /\ page[live[n]].count \in 0..PageCapacity
       /\ 1 < n /\ n < Len(live) => page[live[n]].count = PageCapacity
       /\ 1 < Len(live) => page[live[n]].count > 0
  /\ count = IF Len(live) = 1
             THEN page[head].count
             ELSE page[head].count + (Len(live) - 2) * PageCapacity + page[tail].count

(* The queue never takes more memory than its fullest moment needs: both   *)
(* end pages may be nearly empty, so MaxItems items need at most this many *)
(* pages, and drained pages come back before new ones are allocated.       *)
PagesNeeded == IF MaxItems < 2 THEN 1 ELSE 2 + ((MaxItems - 2) \div PageCapacity)

MemoryBounded == Cardinality(Pages \ heap) <= PagesNeeded

(* A stored item stays where it is until it is popped: no push, no         *)
(* retirement and no reuse of a page overwrites a slot that is in the      *)
(* queue, or gives it to another push, so the pointer that Push and Find   *)
(* return stays good until then (datatypes.h:2535-2552, 2593-2600).        *)
InQueue(p, i) ==
  /\ p \in ToSet(live)
  /\ \E n \in 1..page[p].count : i = (HeadIndex(p) + n - 1) % PageCapacity

BeingFilled(p, i) ==
  \E t \in Threads : /\ claimed[t] = <<p, i>>
                     /\ pc[t] \in {"push_store", "unlock_fill", "fill"}

SlotsStable ==
  [][\A p \in Pages, i \in Indices :
       InQueue(p, i) /\ ~ BeingFilled(p, i) =>
         slot'[p][i] = slot[p][i] /\ ~ BeingFilled(p, i)']_vars

(* "Thread safe queue." (datatypes.h:2468): what one thread pops is an     *)
(* item that another has pushed, never the cleared slot of a push that is  *)
(* still under way.                                                        *)
PopsWholeItems == \A t \in Threads : result[t] # Zero

(* Threads, pages and items are interchangeable: no definition names one.  *)
Symmetry == Permutations(Threads) \cup Permutations(Pages) \cup Permutations(Items)

---------------------------------------------------------------------------
(* Without PushEmpty the queue implements FifoQueue.  A push takes effect when its item is   *)
(* stored, a pop when the item is taken or when the count is seen to be    *)
(* zero, with or without the mutex.                                        *)
QueueSeen ==
  IF \E t \in Threads : pc[t] = "push_store" THEN Front(Contents) ELSE Contents

CallSeen(t) ==
  CASE pc[t] = "idle"                                -> [op |-> "idle"]
    [] pc[t] \in {"push", "push_claim", "push_store"} -> [op |-> "push", item |-> arg[t]]
    [] pc[t] \in {"pop_peek", "pop", "pop_take"}      -> [op |-> "pop", item |-> NoItem]
    [] pc[t] \in {"find", "find_scan"}                -> [op |-> "find", item |-> arg[t]]
    [] OTHER                                          -> [op |-> "done", result |-> result[t]]

Fifo == INSTANCE FifoQueue WITH queue <- QueueSeen,
                                call  <- [t \in Threads |-> CallSeen(t)]

(* Push, TryPop and Find are those of a first-in first-out queue: nothing  *)
(* is lost, duplicated or reordered, and TryPop fails only on a queue that *)
(* was empty at some instant of the call.                                  *)
ImplementsFifo == Fifo!Spec

(* The queue is a first-in first-out queue, and what it holds stays where  *)
(* it is: no step but its own pop moves or changes a queued item.          *)
FifoInPlace == ImplementsFifo /\ SlotsStable

=============================================================================
