---------------------------- MODULE ThreadCounts ----------------------------
(***************************************************************************)
(* How the number of threads at some place of the code changes when one    *)
(* thread moves: what the proofs about the locks and semaphores of         *)
(* threading.h count with.  Then what several proofs need: induction over  *)
(* numbers, indices that go round, and sequences put one after another.    *)
(***************************************************************************)
EXTENDS Integers, SequencesExt, FiniteSetTheorems, SequenceTheorems, TLAPS

\* A finite set that one element may join or leave.
LEMMA CountMoves ==
  ASSUME NEW S, NEW T, NEW x, IsFiniteSet(S),
         \A y: y # x => (y \in S <=> y \in T)
  PROVE  /\ IsFiniteSet(T)
         /\ Cardinality(S) \in Nat /\ Cardinality(T) \in Nat
         /\ x \in S /\ x \in T => Cardinality(T) = Cardinality(S)
         /\ x \notin S /\ x \notin T => Cardinality(T) = Cardinality(S)
         /\ x \in S /\ x \notin T => Cardinality(T) = Cardinality(S) - 1
         /\ x \notin S /\ x \in T => Cardinality(T) = Cardinality(S) + 1
<1>1. CASE (x \in S) <=> (x \in T)
  <2>1. S = T
    BY <1>1
  <2>. QED
    BY <2>1, <1>1, FS_CardinalityType
<1>2. CASE x \in S /\ x \notin T
  <2>1. T = S \ {x}
    BY <1>2
  <2>. QED
    BY <2>1, <1>2, FS_RemoveElement, FS_CardinalityType
<1>3. CASE x \notin S /\ x \in T
  <2>1. T = S \cup {x}
    BY <1>3
  <2>. QED
    BY <2>1, <1>3, FS_AddElement, FS_CardinalityType
<1>. QED
  BY <1>1, <1>2, <1>3

\* A finite set with some element, with none, and with one at most.
LEMMA CountMembers ==
  ASSUME NEW S, IsFiniteSet(S)
  PROVE  /\ Cardinality(S) \in Nat
         /\ Cardinality(S) = 0 <=> S = {}
         /\ Cardinality(S) <= 1 => \A x, y \in S: x = y
<1>1. Cardinality(S) \in Nat /\ (Cardinality(S) = 0 <=> S = {})
  BY FS_CardinalityType, FS_EmptySet
<1>2. ASSUME Cardinality(S) <= 1, NEW x \in S, NEW y \in S
      PROVE  x = y
  <2>1. Cardinality(S) = 1
    BY <1>1, <1>2
  <2>2. PICK z: S = {z}
    BY <2>1, FS_Singleton
  <2>. QED
    BY <2>2, <1>2
<1>. QED
  BY <1>1, <1>2

---------------------------------------------------------------------------
(* Induction for the provers at hand, none of which takes the library's    *)
(* theorems of it: a set of numbers has a least one.                       *)
LEMMA LeastNumber ==
  ASSUME NEW S \in SUBSET Nat, S # {}
  PROVE  \E m \in S : \A n \in S : m <= n
<1>. DEFINE less == {ss \in Nat \X Nat : ss[1] < ss[2]}
<1>1. IsWellFoundedOn(less, Nat)
  <2>1. less = OpToRel(<, Nat)
    BY DEF OpToRel
  <2>. HIDE DEF less
  <2>. QED
    BY <2>1, NatLessThanWellFounded
<1>2. PICK m \in S : \A n \in S : ~ (<<n, m>> \in less)
  <2>. HIDE DEF less
  <2>. QED
    BY <1>1, WFMin
<1>3. ASSUME NEW n \in S PROVE m <= n
  <2>1. m \in Nat /\ n \in Nat /\ <<n, m>> \in Nat \X Nat /\ <<n, m>>[1] = n /\ <<n, m>>[2] = m
    OBVIOUS
  <2>2. ~ (n < m)
    BY <1>2, <2>1
  <2>. QED
    BY <2>1, <2>2
<1>. QED
  BY <1>3

LEMMA CountingUp ==
  ASSUME NEW n \in Nat, NEW S, n > 0 => 1 \in S,
         \A i \in 1..n : i < n /\ i \in S => i+1 \in S
  PROVE  \A i \in 1..n : i \in S
<1>. DEFINE rest == {i \in 1..n : i \notin S}
<1>1. SUFFICES ASSUME rest # {} PROVE FALSE
  OBVIOUS
<1>2. PICK i \in rest : \A j \in rest : i <= j
  <2>1. rest \in SUBSET Nat
    OBVIOUS
  <2>. HIDE DEF rest
  <2>. QED
    BY <1>1, <2>1, LeastNumber
<1>3. i \in 1..n /\ i \notin S /\ i # 1
  BY <1>2
<1>4. i-1 \in 1..n /\ i-1 < n /\ (i-1)+1 = i /\ i-1 \notin rest
  BY <1>2, <1>3
<1>. QED
  BY <1>3, <1>4

LEMMA CountingFromZero ==
  ASSUME NEW n \in Nat, NEW S, 0 \in S,
         \A i \in 0..n-1 : i \in S => i+1 \in S
  PROVE  \A i \in 0..n : i \in S
<1>1. n > 0 => 1 \in S
  <2>1. n > 0 => 0 \in 0..n-1 /\ 0+1 = 1
    OBVIOUS
  <2>. QED
    BY <2>1
<1>2. \A i \in 1..n : i < n /\ i \in S => i+1 \in S
  OBVIOUS
<1>3. \A i \in 1..n : i \in S
  BY <1>1, <1>2, CountingUp
<1>. QED
  BY <1>3

\* A function that is defined upwards, each value from the one before it, exists.
Upwards(f, F, n) == \A i \in 1..n : f[i] = F[i][f[i-1]]

LEMMA RecursionUp ==
  ASSUME NEW n \in Nat, NEW S, NEW a \in S, NEW F \in [1..n -> [S -> S]]
  PROVE  \E f \in [0..n -> S] : f[0] = a /\ Upwards(f, F, n)
<1>. DEFINE Good(f, m) == f[0] = a /\ \A i \in 1..m : f[i] = F[i][f[i-1]]
            Q == {m \in 1..n+1 : \E f \in [0..m-1 -> S] : Good(f, m-1)}
<1>1. 1 \in Q
  <2>. DEFINE g == [i \in 0..0 |-> a]
  <2>1. g \in [0..0 -> S] /\ g[0] = a /\ 1..0 = {}
    OBVIOUS
  <2>. HIDE DEF g
  <2>2. 1 \in 1..n+1 /\ 1-1 = 0
    OBVIOUS
  <2>. QED
    BY <2>1, <2>2
<1>2. ASSUME NEW m \in 1..n+1, m < n+1, m \in Q PROVE m+1 \in Q
  <2>1. PICK f \in [0..m-1 -> S] : Good(f, m-1)
    BY <1>2
  <2>. DEFINE g == [i \in 0..m |-> IF i = m THEN F[m][f[m-1]] ELSE f[i]]
  <2>2. m \in 1..n /\ m-1 \in 0..m-1 /\ f[m-1] \in S /\ F[m][f[m-1]] \in S
    BY <1>2, <2>1
  <2>3. g \in [0..m -> S]
    BY <2>1, <2>2
  <2>4. \A i \in 1..m : g[i] = F[i][g[i-1]]
    <3>1. \A i \in 1..m : i-1 \in 0..m-1 /\ i-1 # m /\ g[i-1] = f[i-1]
      OBVIOUS
    <3>2. \A i \in 1..m-1 : g[i] = f[i]
      OBVIOUS
    <3>3. g[m] = F[m][f[m-1]]
      OBVIOUS
    <3>4. ASSUME NEW i \in 1..m PROVE g[i] = F[i][g[i-1]]
      <4>1. CASE i = m
        BY <4>1, <3>1, <3>3
      <4>2. CASE i \in 1..m-1
        BY <4>2, <2>1, <3>1, <3>2
      <4>. QED
        BY <4>1, <4>2
    <3>. QED
      BY <3>4
  <2>5. g[0] = a
    BY <2>1, <2>2
  <2>. HIDE DEF g
  <2>6. (m+1)-1 = m /\ m+1 \in 1..n+1
    BY <1>2
  <2>. QED
    BY <2>3, <2>4, <2>5, <2>6
<1>3. n+1 \in Q
  <2>. HIDE DEF Q
  <2>1. n+1 \in Nat /\ n+1 \in 1..n+1
    OBVIOUS
  <2>. QED
    BY <1>1, <1>2, <2>1, CountingUp
<1>4. PICK f \in [0..n -> S] : Good(f, n)
  <2>1. (n+1)-1 = n
    OBVIOUS
  <2>. QED
    BY <1>3, <2>1
<1>. QED
  BY <1>4 DEF Upwards

---------------------------------------------------------------------------
(* Circular indices: the remainder of the numbers that they take, and that *)
(* going round once changes none.                                          *)
LEMMA Remainder ==
  ASSUME NEW k \in Nat \ {0}, NEW x \in Int
  PROVE  /\ x \in 0..k-1 => x % k = x
         /\ x \in k..2*k-1 => x % k = x - k
         /\ x \in (-k)..(-1) => x % k = x + k
<1>1. x = k * (x \div k) + (x % k) /\ x % k \in 0..k-1 /\ x \div k \in Int
  OBVIOUS
<1>. DEFINE q == x \div k
            r == x % k
<1>2. q \in Int /\ r \in 0..k-1 /\ x = k * q + r
  BY <1>1
<1>. HIDE DEF q, r
<1>3. k * q \in Int /\ (q >= 1 => k * q >= k) /\ (q <= -1 => k * q <= -k) /\ (q = 0 => k * q = 0)
      /\ (q >= 2 => k * q >= 2 * k) /\ (q <= -2 => k * q <= -2 * k) /\ (q = 1 => k * q = k) /\ (q = -1 => k * q = -k)
  BY <1>2
<1>4. x \in 0..k-1 => q = 0
  BY <1>2, <1>3
<1>5. x \in k..2*k-1 => q = 1
  BY <1>2, <1>3
<1>6. x \in (-k)..(-1) => q = -1
  BY <1>2, <1>3
<1>. QED
  BY <1>2, <1>3, <1>4, <1>5, <1>6 DEF r

LEMMA GoesRound ==
  ASSUME NEW k \in Nat \ {0}, NEW x \in Int
  PROVE  /\ x % k \in 0..k-1
         /\ (x + k) % k = x % k
<1>1. /\ x = k * (x \div k) + (x % k) /\ x % k \in 0..k-1 /\ x \div k \in Int
      /\ x + k \in Int
  OBVIOUS
<1>2. /\ x + k = k * ((x + k) \div k) + ((x + k) % k)
      /\ (x + k) % k \in 0..k-1 /\ (x + k) \div k \in Int
  BY <1>1
<1>. DEFINE q == x \div k
            r == x % k
            p == (x + k) \div k
            s == (x + k) % k
            d == p - q - 1
<1>3. /\ q \in Int /\ p \in Int /\ r \in 0..k-1 /\ s \in 0..k-1 /\ d \in Int
      /\ x = k * q + r /\ x + k = k * p + s
  BY <1>1, <1>2
<1>. HIDE DEF q, r, p, s
<1>4. k * d = r - s
  BY <1>3
<1>. HIDE DEF d
<1>5. d = 0
  <2>1. (d >= 1 => k * d >= k) /\ (d <= -1 => k * d <= -k)
    BY <1>3
  <2>. QED
    BY <1>3, <1>4, <2>1
<1>6. r = s
  BY <1>3, <1>4, <1>5
<1>. QED
  BY <1>1, <1>6 DEF r, s

---------------------------------------------------------------------------
(* Sequences one after another: what FlattenSeq comes to.                  *)

(* The sequence F of all concatenations of the first few of ss, which      *)
(* FlattenSeq takes the last of.                                           *)
Flattens(F, ss, m) ==
  F = [i \in 1..m |-> IF i = 1 THEN ss[i] ELSE F[i-1] \o ss[i]]

(* There is one for every number of sequences ... *)
LEMMA FlattensExists ==
  ASSUME NEW ss, NEW m \in Nat
  PROVE  \E F : Flattens(F, ss, m)
<1>. DEFINE S == {k \in Nat : ~ \E F : Flattens(F, ss, k)}
<1>1. SUFFICES ASSUME S # {} PROVE FALSE
  OBVIOUS
<1>2. PICK k \in S : \A n \in S : k <= n
  <2>1. S \in SUBSET Nat
    OBVIOUS
  <2>. HIDE DEF S
  <2>. QED
    BY <1>1, <2>1, LeastNumber
<1>3. k # 0
  <2>1. Flattens([i \in 1..0 |-> i], ss, 0)
    BY DEF Flattens
  <2>. QED
    BY <2>1
<1>4. k - 1 \in Nat /\ k - 1 \notin S
  BY <1>2, <1>3
<1>5. PICK G : Flattens(G, ss, k-1)
  BY <1>4
<1>. DEFINE F == [i \in 1..k |-> IF i < k THEN G[i] ELSE IF i = 1 THEN ss[i] ELSE G[i-1] \o ss[i]]
<1>6. \A i \in 1..k : F[i] = IF i = 1 THEN ss[i] ELSE F[i-1] \o ss[i]
  <2>1. ASSUME NEW i \in 1..k
        PROVE  F[i] = IF i = 1 THEN ss[i] ELSE F[i-1] \o ss[i]
    <3>1. i \in Int /\ (i # 1 => i-1 \in 1..k /\ i-1 < k /\ F[i-1] = G[i-1])
      OBVIOUS
    <3>2. CASE i < k
      <4>1. i \in 1..(k-1) /\ F[i] = G[i]
        BY <3>2
      <4>2. G[i] = IF i = 1 THEN ss[i] ELSE G[i-1] \o ss[i]
        BY <1>5, <4>1 DEF Flattens
      <4>. QED
        BY <3>1, <4>1, <4>2
    <3>3. CASE i = k
      BY <3>1, <3>3
    <3>. QED
      BY <3>2, <3>3
  <2>. QED
    BY <2>1
<1>7. Flattens(F, ss, k)
  <2>1. DOMAIN F = 1..k /\ F = [i \in 1..k |-> F[i]]
    OBVIOUS
  <2>. HIDE DEF F
  <2>. QED
    BY <1>6, <2>1 DEF Flattens
<1>. QED
  BY <1>7

(* ... and FlattenSeq takes its last element. *)
LEMMA FlattenIs ==
  ASSUME NEW ss, Len(ss) \in Nat \ {0}
  PROVE  \E F : Flattens(F, ss, Len(ss)) /\ FlattenSeq(ss) = F[Len(ss)]
<1>1. \E F : Flattens(F, ss, Len(ss))
  BY FlattensExists
<1>. DEFINE G == CHOOSE F : F = [i \in 1..Len(ss) |-> IF i = 1 THEN ss[i] ELSE F[i-1] \o ss[i]]
<1>2. Flattens(G, ss, Len(ss))
  BY <1>1 DEF Flattens
<1>3. FlattenSeq(ss) = G[Len(ss)]
  BY DEF FlattenSeq
<1>. QED
  BY <1>2, <1>3

(* The first k elements are the same; all elements are sequences over V.   *)
Alike(ss, tt, k) == \A i \in 1..k : ss[i] = tt[i]
AllSeqs(ss, V, m) == \A i \in 1..m : ss[i] \in Seq(V)

(* Sequences that begin alike are flattened alike so far. *)
LEMMA FlattensAlike ==
  ASSUME NEW ss, NEW tt, NEW m \in Nat, NEW n \in Nat, NEW k \in Nat, k <= m, k <= n,
         NEW F, Flattens(F, ss, m), NEW G, Flattens(G, tt, n), Alike(ss, tt, k)
  PROVE  Alike(F, G, k)
<1>. DEFINE S == {i \in 1..k : F[i] = G[i]}
<1>1. \A i \in 1..k : /\ F[i] = IF i = 1 THEN ss[i] ELSE F[i-1] \o ss[i]
                      /\ G[i] = IF i = 1 THEN tt[i] ELSE G[i-1] \o tt[i]
                      /\ ss[i] = tt[i]
  <2>1. \A i \in 1..k : i \in 1..m /\ i \in 1..n
    OBVIOUS
  <2>2. \A i \in 1..m : F[i] = IF i = 1 THEN ss[i] ELSE F[i-1] \o ss[i]
    BY DEF Flattens
  <2>3. \A i \in 1..n : G[i] = IF i = 1 THEN tt[i] ELSE G[i-1] \o tt[i]
    BY DEF Flattens
  <2>4. \A i \in 1..k : ss[i] = tt[i]
    BY DEF Alike
  <2>. QED
    BY <2>1, <2>2, <2>3, <2>4
<1>2. k > 0 => 1 \in S
  BY <1>1
<1>3. \A i \in 1..k : i < k /\ i \in S => i+1 \in S
  <2>1. ASSUME NEW i \in 1..k, i < k, F[i] = G[i]
        PROVE  F[i+1] = G[i+1]
    <3>1. i+1 \in 1..k /\ i+1 # 1 /\ (i+1)-1 = i
      BY <2>1
    <3>. QED
      BY <1>1, <2>1, <3>1
  <2>. QED
    BY <2>1
<1>4. \A i \in 1..k : i \in S
  <2>. HIDE DEF S
  <2>. QED
    BY <1>2, <1>3, CountingUp
<1>. QED
  BY <1>4 DEF Alike

(* Flattened sequences over a set are sequences over it. *)
LEMMA FlattensTypes ==
  ASSUME NEW V, NEW ss, NEW m \in Nat, NEW F, Flattens(F, ss, m), AllSeqs(ss, V, m)
  PROVE  AllSeqs(F, V, m)
<1>. DEFINE S == {i \in 1..m : F[i] \in Seq(V)}
<1>1. \A i \in 1..m : F[i] = (IF i = 1 THEN ss[i] ELSE F[i-1] \o ss[i]) /\ ss[i] \in Seq(V)
  BY DEF Flattens, AllSeqs
<1>2. m > 0 => 1 \in S
  BY <1>1
<1>3. \A i \in 1..m : i < m /\ i \in S => i+1 \in S
  <2>1. ASSUME NEW i \in 1..m, i < m, F[i] \in Seq(V)
        PROVE  F[i+1] \in Seq(V)
    <3>1. i+1 \in 1..m /\ i+1 # 1 /\ (i+1)-1 = i
      BY <2>1
    <3>2. F[i+1] = F[i] \o ss[i+1] /\ ss[i+1] \in Seq(V)
      BY <1>1, <3>1
    <3>. QED
      BY <2>1, <3>2, ConcatProperties
  <2>. QED
    BY <2>1
<1>4. \A i \in 1..m : i \in S
  <2>. HIDE DEF S
  <2>. QED
    BY <1>2, <1>3, CountingUp
<1>. QED
  BY <1>4 DEF AllSeqs

(* One sequence is what it is flattened to. *)
LEMMA FlattenOne ==
  ASSUME NEW ss, Len(ss) = 1
  PROVE  FlattenSeq(ss) = ss[1]
<1>1. Len(ss) \in Nat \ {0}
  OBVIOUS
<1>2. PICK F : Flattens(F, ss, Len(ss)) /\ FlattenSeq(ss) = F[Len(ss)]
  BY <1>1, FlattenIs
<1>3. \A i \in 1..1 : F[i] = IF i = 1 THEN ss[i] ELSE F[i-1] \o ss[i]
  BY <1>2 DEF Flattens
<1>4. 1 \in 1..1
  OBVIOUS
<1>. QED
  BY <1>2, <1>3, <1>4

(* Two sequences that differ in how they end. *)
ShareFront(V, s, t, endS, endT) ==
  \E front \in Seq(V) : s = front \o endS /\ t = front \o endT

(* Of sequences that differ in the last only, the flattenings differ in    *)
(* their ends.                                                             *)
LEMMA FlattenLast ==
  ASSUME NEW V, NEW n \in Nat \ {0}, NEW ss, NEW tt, Len(ss) = n, Len(tt) = n,
         AllSeqs(ss, V, n), AllSeqs(tt, V, n), Alike(ss, tt, n-1)
  PROVE  ShareFront(V, FlattenSeq(ss), FlattenSeq(tt), ss[n], tt[n])
<1>. USE DEF ShareFront
<1>1. PICK F : Flattens(F, ss, n) /\ FlattenSeq(ss) = F[n]
  BY FlattenIs
<1>2. PICK G : Flattens(G, tt, n) /\ FlattenSeq(tt) = G[n]
  BY FlattenIs
<1>3. n \in 1..n /\ ss[n] \in Seq(V) /\ tt[n] \in Seq(V)
  BY DEF AllSeqs
<1>4. /\ F[n] = IF n = 1 THEN ss[n] ELSE F[n-1] \o ss[n]
      /\ G[n] = IF n = 1 THEN tt[n] ELSE G[n-1] \o tt[n]
  BY <1>1, <1>2, <1>3 DEF Flattens
<1>5. CASE n = 1
  <2>1. <<>> \in Seq(V) /\ ss[n] = <<>> \o ss[n] /\ tt[n] = <<>> \o tt[n]
    BY <1>3, ConcatEmptySeq
  <2>. QED
    BY <1>1, <1>2, <1>4, <1>5, <2>1
<1>6. CASE n # 1
  <2>1. n-1 \in Nat /\ n-1 <= n /\ n-1 \in 1..n-1 /\ n-1 \in 1..n
    BY <1>6
  <2>2. F[n-1] = G[n-1]
    <3>1. Alike(F, G, n-1)
      BY <1>1, <1>2, <2>1, FlattensAlike
    <3>. QED
      BY <2>1, <3>1 DEF Alike
  <2>3. F[n-1] \in Seq(V)
    <3>1. AllSeqs(F, V, n)
      BY <1>1, FlattensTypes
    <3>. QED
      BY <2>1, <3>1 DEF AllSeqs
  <2>. QED
    BY <1>1, <1>2, <1>4, <1>6, <2>2, <2>3
<1>. QED
  BY <1>5, <1>6

(* One more sequence follows. *)
LEMMA FlattenMore ==
  ASSUME NEW n \in Nat \ {0}, NEW ss, NEW tt, Len(ss) = n, Len(tt) = n+1, Alike(ss, tt, n)
  PROVE  FlattenSeq(tt) = FlattenSeq(ss) \o tt[n+1]
<1>0. n+1 \in Nat \ {0} /\ n+1 \in Nat /\ n \in 1..n /\ n <= n+1 /\ n <= n /\ n \in Nat
  OBVIOUS
<1>1. PICK F : Flattens(F, ss, n) /\ FlattenSeq(ss) = F[n]
  BY FlattenIs
<1>2. PICK G : Flattens(G, tt, n+1) /\ FlattenSeq(tt) = G[n+1]
  BY <1>0, FlattenIs
<1>3. F[n] = G[n]
  <2>1. Alike(F, G, n)
    BY <1>0, <1>1, <1>2, FlattensAlike
  <2>. QED
    BY <1>0, <2>1 DEF Alike
<1>4. G[n+1] = G[n] \o tt[n+1]
  <2>1. n+1 \in 1..n+1 /\ n+1 # 1 /\ (n+1)-1 = n
    OBVIOUS
  <2>. QED
    BY <1>2, <2>1 DEF Flattens
<1>. QED
  BY <1>1, <1>2, <1>3, <1>4

=============================================================================
