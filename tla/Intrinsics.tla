------------------------------ MODULE Intrinsics ------------------------------
(***************************************************************************)
(* The integer helpers of intrinsics.h that the containers size their      *)
(* memory with.                                                            *)
(***************************************************************************)
EXTENDS Integers

CONSTANT MaxBits       (* BOUND: sizes are below 2^MaxBits                  *)

(* 1 << i *)
PowerOf2[i \in 0..MaxBits+1] == IF i = 0 THEN 1 ELSE 2 * PowerOf2[i - 1]

PowersOf2 == {PowerOf2[i] : i \in 0..MaxBits}

IsPowerOf2(n) == n \in PowersOf2

(* The position of the highest bit that is set; -1 when there is none. *)
Log2(n) == IF n <= 0 THEN -1 ELSE CHOOSE i \in 0..MaxBits : PowerOf2[i] <= n /\ n < PowerOf2[i + 1]

(* The smallest power of two that is not below n, but 0 for 0. *)
NextPowerOf2(n) ==
  CASE IsPowerOf2(n) -> n
    [] n = 0         -> 0
    [] OTHER         -> PowerOf2[Log2(n) + 1]

=============================================================================
