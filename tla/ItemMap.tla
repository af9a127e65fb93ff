------------------------------- MODULE ItemMap -------------------------------
(***************************************************************************)
(* What a hash table promises: a finite map from keys to values, whose     *)
(* answers depend on nothing but what was put into it.                     *)
(***************************************************************************)
CONSTANTS Keys, Values

VARIABLES
  map,           (* the values of the keys that were put                    *)
  io             (* the key of the last operation, and the value if it has  *)
                 (* one to give; for GetOrPut also whether it was there     *)

vars == <<map, io>>

Init == map = <<>> /\ io = <<>>

With(k, v) == [c \in DOMAIN map \cup {k} |-> IF c = k THEN v ELSE map[c]]

Answer(k) == IF k \in DOMAIN map THEN <<k, map[k]>> ELSE <<k>>

Put(k, v) == map' = With(k, v) /\ io' = <<k, v>>

Get(k)    == io' = Answer(k) /\ UNCHANGED map

GetOrPut(k, v) ==
  IF k \in DOMAIN map
  THEN io' = <<k, map[k], TRUE>> /\ UNCHANGED map
  ELSE io' = <<k, v, FALSE>> /\ map' = With(k, v)

(* Each key and its value once, in no particular order.                    *)
Iterate ==
  /\ UNCHANGED map
  /\ {io'[i] : i \in DOMAIN io'} = {<<k, map[k]>> : k \in DOMAIN map}
  /\ \A i, j \in DOMAIN io' : io'[i] = io'[j] => i = j

Reorganise == UNCHANGED map /\ io' = <<>>

Next ==
  \/ \E k \in Keys : Get(k) \/ (\E v \in Values : Put(k, v) \/ GetOrPut(k, v))
  \/ Iterate \/ Reorganise

Spec == Init /\ [][Next]_vars

=============================================================================
