---------------------------- MODULE ItemSequences ----------------------------
(***************************************************************************)
(* What a growable array promises (Array and BucketArray of datatypes.h):  *)
(* every array is a sequence of items, changed at its end, in place, or as *)
(* a whole, and reading it back gives what was put there.  Items that an   *)
(* operation adds without storing to them hold any value.                  *)
(***************************************************************************)
EXTENDS Integers, Sequences

CONSTANT Names   (* the arrays                                              *)

VARIABLES
  seqs,          (* the contents of each array                              *)
  io             (* the items the last operation was given, or gave back    *)

vars == <<seqs, io>>

Init == seqs = [n \in Names |-> <<>>] /\ io = <<>>

Becomes(n, s) == seqs' = [seqs EXCEPT ![n] = s]

Add(n)       == Becomes(n, seqs[n] \o io')
Truncate(n)  == io' = <<>> /\ \E k \in 0..Len(seqs[n]) : Becomes(n, SubSeq(seqs[n], 1, k))
Extend(n)    ==
  /\ io' = <<>> /\ Becomes(n, seqs'[n])
  /\ \E k \in 0..Len(seqs'[n]) : seqs[n] = SubSeq(seqs'[n], 1, k)
PopLast(n)   == Len(io') = 1 /\ Becomes(n, seqs'[n]) /\ seqs[n] = seqs'[n] \o io'

(* The last item takes the place of the one that is removed. *)
RemoveSwap(n) ==
  LET l == Len(seqs[n]) IN
  \E i \in 1..l :
    io' = <<seqs[n][i]>> /\ Becomes(n, SubSeq([seqs[n] EXCEPT ![i] = seqs[n][l]], 1, l - 1))

Overwrite(n) ==
  \E offset \in 0..Len(seqs[n]) - Len(io') :
    Becomes(n, SubSeq(seqs[n], 1, offset) \o io' \o SubSeq(seqs[n], offset + Len(io') + 1, Len(seqs[n])))

Move(n, m) == n # m /\ io' = <<>> /\ seqs' = [seqs EXCEPT ![n] = seqs[m], ![m] = <<>>]
Copy(n, m) == n # m /\ io' = <<>> /\ Becomes(n, seqs[m])

(* Where an item is first found, if it is.                                 *)
Find(n) ==
  /\ io' # <<>> /\ UNCHANGED seqs
  /\ LET places == {i \in DOMAIN seqs[n] : seqs[n][i] = io'[1]}
     IN  IF places = {} THEN Len(io') = 1 ELSE Len(io') = 2 /\ io'[2] \in places /\ \A i \in places : io'[2] <= i

Read(n) ==
  /\ UNCHANGED seqs
  /\ \E offset \in 0..Len(seqs[n]) - Len(io') : io' = SubSeq(seqs[n], offset + 1, offset + Len(io'))

Next ==
  \E n \in Names :
    \/ Add(n) \/ Truncate(n) \/ Extend(n) \/ PopLast(n) \/ RemoveSwap(n) \/ Overwrite(n) \/ Find(n) \/ Read(n)
    \/ \E m \in Names : Move(n, m) \/ Copy(n, m)

Spec == Init /\ [][Next]_vars

=============================================================================
