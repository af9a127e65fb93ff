------------------------------ MODULE Hashtable ------------------------------
(***************************************************************************)
(* Hashtable of datatypes.h: open addressing in two parallel arrays, where *)
(* a key is found by going from its hash to the first slot that holds it   *)
(* or no key at all.  The table grows before it is half full, also when    *)
(* the key that is put turns out to be there already.  Nothing is removed. *)
(***************************************************************************)
EXTENDS Intrinsics, Sequences, FiniteSets

CONSTANTS
  Keys, Values,
  ZeroKey,       (* the key of a slot that is not in use                    *)
  Default,       (* the value-initialised value                             *)
  Hash,          (* the hash of every key                                   *)
  MinCapacity,   (* 16 in the code                                          *)
  Expected,      (* entry counts Resize and the constructor are called with *)
  MaxCapacity    (* BOUND: the table is not made to grow beyond             *)

(* "Max( NextPowerOf2( expectedEntryCount * 2 ), 16 )" (datatypes.h:1702),  *)
(* and no caller puts the key of a free slot (datatypes.h:1613).           *)
ASSUME HashtableAssumption ==
  /\ MaxBits \in Nat /\ Hash \in [Keys -> Nat]
  /\ ZeroKey \notin Keys /\ Default \in Values
  /\ {MinCapacity, MaxCapacity, 2 * MaxCapacity} \subseteq PowersOf2
  /\ 1 < MinCapacity /\ MinCapacity <= MaxCapacity
  /\ Expected \subseteq {e \in Nat : 2 * e <= MaxCapacity}

VARIABLES table, io

vars == <<table, io>>

Slots(t) == 0..t.capacity-1

(* Allocated, and every key cleared; a table that is to be kept at a fixed *)
(* size must be given one.                                                 *)
Cleared(capacity, fixed) ==
  [keys |-> [i \in 0..capacity-1 |-> ZeroKey], values |-> [i \in 0..capacity-1 |-> Default],
   count |-> 0, capacity |-> capacity, fixed |-> fixed]

CapacityFor(expected) ==
  LET c == NextPowerOf2(2 * expected) IN IF c < MinCapacity THEN MinCapacity ELSE c

Init ==
  /\ \E expected \in Expected, fixed \in BOOLEAN :
       /\ fixed => expected > 0
       /\ table = Cleared(IF expected = 0 THEN 0 ELSE CapacityFor(expected), fixed)
  /\ io = <<>>

(* The j-th slot that is looked at for k. *)
Probe(t, k, j) == (Hash[k] + j) % t.capacity

Stops(t, k, j) == t.keys[Probe(t, k, j)] \in {k, ZeroKey}

SlotFor(t, k) ==
  Probe(t, k, CHOOSE j \in Slots(t) : Stops(t, k, j) /\ \A i \in 0..j-1 : ~Stops(t, k, i))

Claimed(t, k) ==
  LET i == SlotFor(t, k)
  IN  IF t.keys[i] = k THEN t ELSE [t EXCEPT !.keys[i] = k, !.count = @ + 1]

Stored(t, k, v) == [Claimed(t, k) EXCEPT !.values[SlotFor(t, k)] = v]

(* Mutated: the slots are copied as they are. *)
ResizedInPlace(t, expected) ==
  LET new == Cleared(CapacityFor(expected), t.fixed)
  IN  [new EXCEPT !.keys = [i \in DOMAIN @ |-> IF i < t.capacity THEN t.keys[i] ELSE ZeroKey],
                  !.values = [i \in DOMAIN @ |-> IF i < t.capacity THEN t.values[i] ELSE Default],
                  !.count = t.count]

(* The entries are put again, in the order of their slots: the new table  *)
(* when those in the first n slots have been.                              *)
Resized(t, expected) ==
  LET new[n \in 0..t.capacity] ==
        IF n = 0 THEN Cleared(CapacityFor(expected), t.fixed)
        ELSE IF t.keys[n - 1] = ZeroKey THEN new[n - 1]
        ELSE Stored(new[n - 1], t.keys[n - 1], t.values[n - 1])
  IN  new[t.capacity]

(* Mutated: the table grows when it is full. *)
MustGrowWhenFull(t) == t.count >= t.capacity

MustGrow(t)   == 2 * t.count >= t.capacity
MayResize(t)  == ~t.fixed \/ t.capacity = 0
ForPut(t)     == IF MustGrow(t) THEN Resized(t, 2 * t.count) ELSE t

(* FindSlot; its assertion lets no table of a fixed size through that is   *)
(* half full.                                                              *)
CanPut(t) ==
  /\ MustGrow(t) => MayResize(t)
  /\ ForPut(t).capacity <= MaxCapacity

---------------------------------------------------------------------------
(* Asked for less than it holds, Resize would resize again while it puts   *)
(* the entries back; that is left out.                                     *)
Resize(expected) ==
  /\ MayResize(table) /\ expected >= table.count
  /\ table' = Resized(table, expected)
  /\ io' = <<>>

Get(k) ==
  /\ IF table.count = 0 THEN io' = <<k>>
     ELSE LET i == SlotFor(table, k)
          IN  io' = IF table.keys[i] = k THEN <<k, table.values[i]>> ELSE <<k>>
  /\ UNCHANGED table

Put(k, v) ==
  /\ CanPut(table)
  /\ table' = Stored(ForPut(table), k, v)
  /\ io' = <<k, v>>

GetOrPut(k, v) ==
  /\ CanPut(table)
  /\ LET t        == ForPut(table)
         occupied == t.keys[SlotFor(t, k)] = k
     IN  /\ table' = IF occupied THEN t ELSE Stored(t, k, v)
         /\ io' = <<k, table'.values[SlotFor(table', k)], occupied>>

(* The iterators go over the slots in their order: what they have given    *)
(* after the first n.                                                      *)
Iterate ==
  LET given[n \in 0..table.capacity] ==
        IF n = 0 THEN <<>>
        ELSE IF table.keys[n - 1] = ZeroKey THEN given[n - 1]
        ELSE Append(given[n - 1], <<table.keys[n - 1], table.values[n - 1]>>)
  IN  io' = given[table.capacity] /\ UNCHANGED table

Next ==
  \/ \E expected \in Expected : Resize(expected)
  \/ \E k \in Keys : Get(k) \/ (\E v \in Values : Put(k, v) \/ GetOrPut(k, v))
  \/ Iterate

Spec == Init /\ [][Next]_vars

---------------------------------------------------------------------------
(* Types, and the count is that of the slots in use. *)
TypeOK ==
  /\ table.capacity = 0 \/ IsPowerOf2(table.capacity)
  /\ table.keys \in [Slots(table) -> Keys \cup {ZeroKey}]
  /\ table.values \in [Slots(table) -> Values]
  /\ table.count = Cardinality({i \in Slots(table) : table.keys[i] # ZeroKey})

SearchEnds ==
  table.capacity > 0 => \A k \in Keys : \E j \in Slots(table) : Stops(table, k, j)

(* A search always comes to an end: it never goes round a table without    *)
(* finding the key or a free slot ("Something went horribly wrong",        *)
(* datatypes.h:1764).                                                      *)
HashtableSearchEnds == TypeOK /\ SearchEnds

Entries(t) == {i \in Slots(t) : t.keys[i] # ZeroKey}

Content(t) ==
  [k \in {t.keys[i] : i \in Entries(t)} |-> t.values[CHOOSE i \in Entries(t) : t.keys[i] = k]]

Map == INSTANCE ItemMap WITH map <- Content(table)

(* The table answers like a map, through collisions, growth and           *)
(* reinsertion: no entry is lost, found twice, or given another's value.   *)
ImplementsMap == Map!Spec

=============================================================================
