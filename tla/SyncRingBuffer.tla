--------------------------- MODULE SyncRingBuffer ---------------------------
(***************************************************************************)
(* SyncRingBuffer of datatypes.h: a circular buffer whose count and head   *)
(* index are packed in one atomic word.  An operation loads the word,      *)
(* computes the next one, and exchanges them unless another thread was     *)
(* faster, in which case it starts again from what it found; only then     *)
(* does it touch the slot it was given, and nobody waits for that.         *)
(***************************************************************************)
EXTENDS RingIndex, SequencesExt

CONSTANTS
  Threads,
  Items,
  RangeLens,     (* lengths PushRangeAdjacent is called with                *)
  Operations,    (* those in use: among "push", "range", "pop", "pop_head"  *)
  Unwritten,     (* what a slot holds before anything is stored there       *)
  NoItem, NoSlot

RingAssumption ==
  /\ RangeLens \subseteq 1..Capacity-1
  /\ Unwritten \notin Items /\ NoItem \notin Items /\ NoItem # Unwritten
  /\ Operations \subseteq {"push", "range", "pop", "pop_head"}

VARIABLES
  indexData,     (* the atomic word: count and onePastHeadIndex             *)
  buffer,
  pc,
  op, arg, len,  (* the operation of each thread, its item and range length *)
  curData,       (* the word a thread has last seen                         *)
  slot,          (* the slot it was given                                   *)
  out            (* the item it popped                                      *)

vars == <<indexData, buffer, pc, op, arg, len, curData, slot, out>>

(* The buffer is not cleared when it is allocated. *)
Init ==
  /\ indexData = NothingIn
  /\ buffer = [i \in Indices |-> Unwritten]
  /\ pc = [t \in Threads |-> "idle"]
  /\ op = [t \in Threads |-> "push"]
  /\ arg = [t \in Threads |-> NoItem]
  /\ len = [t \in Threads |-> 1]
  /\ curData = [t \in Threads |-> NothingIn]
  /\ slot = [t \in Threads |-> NoSlot]
  /\ out = [t \in Threads |-> NoItem]

Goto(t, from, to) ==
  /\ pc[t] = from
  /\ pc' = [pc EXCEPT ![t] = to]

Call(t, o, x, n) ==
  /\ o \in Operations
  /\ o \in {"pop", "pop_head"} => x = NoItem
  /\ o \in {"push", "range"} => x \in Items
  /\ o # "range" => n = 1
  /\ Goto(t, "idle", "load")
  /\ op' = [op EXCEPT ![t] = o]
  /\ arg' = [arg EXCEPT ![t] = x]
  /\ len' = [len EXCEPT ![t] = n]
  /\ UNCHANGED <<indexData, buffer, curData, slot, out>>

LoadIndex(t) ==
  /\ Goto(t, "load", "exchange")
  /\ curData' = [curData EXCEPT ![t] = indexData]
  /\ UNCHANGED <<indexData, buffer, op, arg, len, slot, out>>

---------------------------------------------------------------------------
(* What an operation makes of the word w, and the slot it means to use.    *)

NewData(o, w, n) ==
  CASE o = "push"     -> Pushed(w)
    [] o = "range"    -> RangePushed(w, n)
    [] o = "pop"      -> TailPopped(w)
    [] o = "pop_head" -> HeadPopped(w)

SlotOf(o, w, n) ==
  CASE o = "push"     -> w.onePastHeadIndex
    [] o = "range"    -> RangeSlot(w, n)
    [] o = "pop"      -> IF w.count > 0 THEN TailSlot(w) ELSE NoSlot
    [] o = "pop_head" -> IF w.count > 0 THEN HeadPopped(w).onePastHeadIndex ELSE NoSlot

(* The exchange succeeds if the word is still the one that was seen, or    *)
(* one that looks the same; otherwise the loop goes on with the new one.   *)
(* (It may also fail for no reason, and then tries again.)                 *)
Exchange(t) ==
  \/ /\ indexData = curData[t]
     /\ indexData' = NewData(op[t], indexData, len[t])
     /\ slot' = [slot EXCEPT ![t] = SlotOf(op[t], indexData, len[t])]
     /\ \/ op[t] \in {"push", "range"} /\ Goto(t, "exchange", "store")
        \/ /\ op[t] \in {"pop", "pop_head"}
           /\ Goto(t, "exchange", IF indexData.count > 0 THEN "read" ELSE "return")
     /\ UNCHANGED <<buffer, op, arg, len, curData, out>>
  \/ /\ indexData # curData[t]
     /\ pc[t] = "exchange"
     /\ curData' = [curData EXCEPT ![t] = indexData]
     /\ UNCHANGED <<indexData, buffer, pc, op, arg, len, slot, out>>

(* The item, or all items of a range, are stored in the claimed slots ...  *)
Store(t) ==
  /\ Goto(t, "store", "return")
  /\ buffer' = [i \in Indices |-> IF i \in slot[t]..slot[t]+len[t]-1 THEN arg[t] ELSE buffer[i]]
  /\ UNCHANGED <<indexData, op, arg, len, curData, slot, out>>

(* ... and a popped item is copied from its slot.                          *)
Read(t) ==
  /\ Goto(t, "read", "return")
  /\ out' = [out EXCEPT ![t] = buffer[slot[t]]]
  /\ UNCHANGED <<indexData, buffer, op, arg, len, curData, slot>>

Return(t) ==
  /\ Goto(t, "return", "idle")
  /\ op' = [op EXCEPT ![t] = "push"]
  /\ arg' = [arg EXCEPT ![t] = NoItem]
  /\ len' = [len EXCEPT ![t] = 1]
  /\ curData' = [curData EXCEPT ![t] = NothingIn]
  /\ out' = [out EXCEPT ![t] = NoItem]
  /\ UNCHANGED <<indexData, buffer, slot>>

Next ==
  \E t \in Threads :
    \/ \E o \in Operations, x \in Items \cup {NoItem}, n \in RangeLens \cup {1} : Call(t, o, x, n)
    \/ LoadIndex(t) \/ Exchange(t) \/ Store(t) \/ Read(t) \/ Return(t)

Spec == Init /\ [][Next]_vars

---------------------------------------------------------------------------
(* Types of the variables; a range never runs past the end of the buffer.  *)
TypeOK ==
  /\ indexData \in Words
  /\ buffer \in [Indices -> Items \cup {Unwritten}]
  /\ pc \in [Threads -> {"idle", "load", "exchange", "store", "read", "return"}]
  /\ op \in [Threads -> {"push", "range", "pop", "pop_head"}]
  /\ arg \in [Threads -> Items \cup {NoItem}]
  /\ len \in [Threads -> RangeLens \cup {1}]
  /\ curData \in [Threads -> Words]
  /\ slot \in [Threads -> Indices \cup {NoSlot}]
  /\ out \in [Threads -> Items \cup {Unwritten, NoItem}]
  /\ \A t \in Threads : pc[t] = "store" => slot[t] + len[t] <= Capacity

SlotsSeen ==
  [i \in 1..indexData.count |->
     (indexData.onePastHeadIndex - indexData.count + i - 1) % Capacity]

Ring == INSTANCE LossyQueue
          WITH queue <- SlotsSeen, next <- indexData.onePastHeadIndex, taken <- slot

(* The indexes alone are a lossy queue of slots, however the threads       *)
(* interleave: every operation is given the slot that is next in order at  *)
(* the moment of its exchange, even if the word it compares is an old one  *)
(* that has come back.                                                     *)
SlotsInOrder == Ring!Spec

(* "Can be used as a fixed-capacity thread-safe queue." (datatypes.h:2173) *)
(* What one thread pops is an item that another thread has pushed.         *)
PopsPushedItems == \A t \in Threads : out[t] # Unwritten

=============================================================================
