------------------------------ MODULE DataLemmas -----------------------------
(***************************************************************************)
(* Facts about data that the proofs share: induction and recursion, stated *)
(* with sets (the library's induction theorems take a predicate, which the *)
(* provers cannot instantiate), and what the operations of jobqueue.py's   *)
(* deque do to a queue without repetitions: the elements it holds          *)
(* afterwards and, where it matters, that they keep their order.           *)
(***************************************************************************)
EXTENDS Integers, Sequences, SequencesExt, SequenceTheorems, FiniteSets,
        FiniteSetTheorems, NaturalsInduction, TLAPS

-----------------------------------------------------------------------------
(* Induction and recursion.                                                *)

(* Induction over the naturals, for a set of them rather than a predicate. *)
LEMMA Induction ==
    ASSUME NEW S, 0 \in S, \A n \in Nat : n \in S => n + 1 \in S
    PROVE  Nat \subseteq S
<1> DEFINE less == OpToRel(<, Nat)
<1>1. IsWellFoundedOn(less, Nat)
  BY NatLessThanWellFounded
<1>2. \A k, m \in Nat : k < m => <<k, m>> \in less
  BY Zenon DEF OpToRel
<1> HIDE DEF less
<1> SUFFICES ASSUME Nat \ S # {} PROVE FALSE
  OBVIOUS
<1>3. PICK m \in Nat \ S : \A k \in Nat \ S : <<k, m>> \notin less
  BY <1>1, WFMin
<1>4. m # 0 /\ m \in Nat
  OBVIOUS
<1>5. m - 1 \in Nat /\ m - 1 < m /\ (m - 1) + 1 = m
  BY <1>4
<1>6. m - 1 \in S
  BY <1>2, <1>3, <1>5
<1> QED BY <1>3, <1>5, <1>6

(* A set of naturals has a least one.                                      *)
LEMMA LeastOf ==
    ASSUME NEW S \in SUBSET Nat, S # {} PROVE \E x \in S : \A y \in S : x <= y
<1>1. IsWellFoundedOn(OpToRel(<, Nat), Nat)
  BY NatLessThanWellFounded
<1>2. \E x \in S : \A y \in S : ~(<<y, x>> \in OpToRel(<, Nat))
  BY <1>1, WFMin
<1>3. \A x, y \in Nat : y < x => <<y, x>> \in OpToRel(<, Nat)
  BY Zenon DEF OpToRel
<1>4. \E x \in S : \A y \in S : ~(y < x)
  BY <1>2, <1>3
<1> QED BY <1>4

(* The least element of a set of naturals is one.                          *)
LEMMA LeastIn ==
    ASSUME NEW S \in SUBSET Nat, S # {} PROVE Min(S) \in S
BY LeastOf DEF Min

(* A set of the first numbers is counted by its last.                      *)
LEMMA FirstOnes ==
    ASSUME NEW n \in Nat, NEW S \in SUBSET (1..n), \A i \in S, k \in 1..n : k < i => k \in S
    PROVE  \E m \in 0..n : S = 1..m /\ Cardinality(S) = m
<1> DEFINE T == (1..(n + 1)) \ S
<1>1. T \in SUBSET Nat /\ n + 1 \in T
  OBVIOUS
<1>2. PICK k \in T : \A x \in T : k <= x
  BY <1>1, LeastOf
<1>3. k - 1 \in 0..n
  OBVIOUS
<1>4. S = 1..(k - 1)
  <2>1. \A i \in 1..(k - 1) : i \in S
    BY <1>2
  <2>2. \A i \in S : i \in 1..(k - 1)
    <3> SUFFICES ASSUME NEW i \in S, ~(i <= k - 1) PROVE FALSE
      OBVIOUS
    <3>1. k \in 1..n /\ (k < i \/ k = i)
      BY <1>3
    <3> QED BY <3>1
  <2> QED BY <2>1, <2>2
<1>5. Cardinality(1..(k - 1)) = k - 1
  BY <1>3, FS_Interval
<1> QED BY <1>3, <1>4, <1>5


(* A set of numbers up to n has a last one.                                *)
LEMMA GreatestOf ==
    ASSUME NEW n \in Nat, NEW S \in SUBSET (0..n), S # {} PROVE \E x \in S : \A y \in S : y <= x
<1>0. PICK T : T = {n - x : x \in S}
  OBVIOUS
<1>1. T \in SUBSET Nat /\ T # {}
  <2>1. \A x \in S : x \in 0..n /\ n - x \in Nat
    OBVIOUS
  <2>2. \A y \in T : y \in Nat
    BY <1>0, <2>1
  <2>3. PICK x \in S : TRUE
    OBVIOUS
  <2>4. n - x \in T
    BY <1>0
  <2> QED BY <2>2, <2>4
<1>2. PICK m \in T : \A y \in T : m <= y
  BY <1>1, LeastOf
<1>3. PICK x \in S : m = n - x
  BY <1>0
<1>4. \A y \in S : n - x <= n - y
  BY <1>0, <1>2, <1>3
<1>5. \A y \in S : y \in Int
  OBVIOUS
<1> QED BY <1>4, <1>5

LEMMA LastOf ==
    ASSUME NEW n \in Nat, NEW S \in SUBSET (1..n), S # {} PROVE \E x \in S : \A y \in S : y <= x
<1>1. S \in SUBSET (0..n)
  OBVIOUS
<1> QED BY <1>1, GreatestOf

(* f is a recursive function of the numbers up to N, each step by its own. *)
Recurs(f, N, base, next) == f = [n \in 0..N |-> IF n = 0 THEN base ELSE next[<<n, f[n - 1]>>]]

(* There is one.                                                           *)
LEMMA Recursion ==
    ASSUME NEW N \in Nat, NEW X, NEW base \in X, NEW next \in [Nat \X X -> X]
    PROVE  \E f \in [0..N -> X] : Recurs(f, N, base, next)
<1> DEFINE S == {n \in Nat : \E f \in [0..n -> X] : Recurs(f, n, base, next)}
<1>1. 0 \in S
  <2> DEFINE f == [n \in 0..0 |-> base]
  <2>1. f \in [0..0 -> X]
    OBVIOUS
  <2>2. Recurs(f, 0, base, next)
    BY DEF Recurs
  <2> HIDE DEF f
  <2> QED BY <2>1, <2>2
<1>2. \A n \in Nat : n \in S => n + 1 \in S
  <2> SUFFICES ASSUME NEW n \in Nat, n \in S PROVE n + 1 \in S
    OBVIOUS
  <2>1. PICK f \in [0..n -> X] : Recurs(f, n, base, next)
    OBVIOUS
  <2> DEFINE g == [m \in 0..(n + 1) |-> IF m = 0 THEN base ELSE next[<<m, f[m - 1]>>]]
  <2>2. \A m \in 0..(n + 1) : m # 0 => m - 1 \in 0..n /\ m \in Nat
    OBVIOUS
  <2>3. g \in [0..(n + 1) -> X]
    BY <2>2
  <2>4. \A m \in 0..n : g[m] = f[m]
    BY <2>1 DEF Recurs
  <2>5. Recurs(g, n + 1, base, next)
    <3>1. \A m \in 0..(n + 1) : m # 0 => g[m - 1] = f[m - 1]
      BY <2>2, <2>4
    <3> QED BY <3>1 DEF Recurs
  <2> HIDE DEF g
  <2> QED BY <2>3, <2>5
<1> HIDE DEF S
<1>3. N \in S
  BY <1>1, <1>2, Induction
<1> QED BY <1>3 DEF S

(* How a fold over a set takes the set apart.                              *)
AnyOf(s) == CHOOSE x \in s : TRUE
Less1(s) == s \ {AnyOf(s)}

(* One element less is one less to count.                                  *)
LEMMA AnyOfIt ==
    ASSUME NEW A, IsFiniteSet(A), NEW s \in SUBSET A, s # {}
    PROVE  /\ AnyOf(s) \in s /\ Less1(s) \in SUBSET A
           /\ IsFiniteSet(s) /\ Cardinality(s) \in Nat /\ Cardinality(s) # 0
           /\ Cardinality(Less1(s)) = Cardinality(s) - 1
<1>1. AnyOf(s) \in s
  BY DEF AnyOf
<1>2. IsFiniteSet(s) /\ Cardinality(s) \in Nat
  BY FS_Subset, FS_CardinalityType
<1>3. Cardinality(s) # 0
  BY <1>2, FS_EmptySet
<1>4. Cardinality(s \ {AnyOf(s)}) = Cardinality(s) - 1
  BY <1>1, <1>2, FS_RemoveElement
<1> QED BY <1>1, <1>2, <1>3, <1>4 DEF Less1

(* Induction over the subsets of a finite set.                             *)
LEMMA SetInduction ==
    ASSUME NEW A, IsFiniteSet(A), NEW P, {} \in P,
           \A s \in SUBSET A : s # {} /\ Less1(s) \in P => s \in P
    PROVE  SUBSET A \subseteq P
<1> DEFINE N == {n \in Nat : \A s \in SUBSET A : Cardinality(s) = n => s \in P}
<1>1. 0 \in N
  <2>1. \A s \in SUBSET A : Cardinality(s) = 0 => s = {}
    BY AnyOfIt
  <2> QED BY <2>1
<1>2. \A n \in Nat : n \in N => n + 1 \in N
  <2> SUFFICES ASSUME NEW n \in Nat, n \in N, NEW s \in SUBSET A, Cardinality(s) = n + 1
               PROVE  s \in P
    OBVIOUS
  <2>1. s # {}
    BY FS_EmptySet
  <2>2. Less1(s) \in SUBSET A /\ Cardinality(Less1(s)) = n
    BY <2>1, AnyOfIt
  <2> QED BY <2>1, <2>2
<1> HIDE DEF N
<1>3. Nat \subseteq N
  BY <1>1, <1>2, Induction
<1>4. \A s \in SUBSET A : Cardinality(s) \in Nat
  BY FS_Subset, FS_CardinalityType
<1> QED BY <1>3, <1>4 DEF N

(* f is the fold over the subsets of A that the library's FoldSet makes.   *)
Recurses(f, A, base, next) ==
    f = [s \in SUBSET A |-> IF s = {} THEN base ELSE next[<<AnyOf(s), f[Less1(s)]>>]]

(* There is one.                                                           *)
LEMMA SetRecursion ==
    ASSUME NEW A, IsFiniteSet(A), NEW X, NEW base \in X, NEW next \in [A \X X -> X]
    PROVE  \E f \in [SUBSET A -> X] : Recurses(f, A, base, next)
<1> DEFINE Upto(n) == {s \in SUBSET A : Cardinality(s) <= n}
           Solves(n, f) == f = [s \in Upto(n) |->
                                  IF s = {} THEN base ELSE next[<<AnyOf(s), f[Less1(s)]>>]]
           N == {n \in Nat : \E f \in [Upto(n) -> X] : Solves(n, f)}
<1>0. \A s \in SUBSET A :
         /\ Cardinality(s) \in Nat
         /\ s # {} => /\ AnyOf(s) \in A /\ Less1(s) \in SUBSET A
                      /\ Cardinality(Less1(s)) = Cardinality(s) - 1
  <2>1. \A s \in SUBSET A : Cardinality(s) \in Nat
    BY FS_Subset, FS_CardinalityType
  <2>2. \A s \in SUBSET A : s # {} => /\ AnyOf(s) \in s /\ Less1(s) \in SUBSET A
                                      /\ Cardinality(Less1(s)) = Cardinality(s) - 1
    BY AnyOfIt
  <2> QED BY <2>1, <2>2
<1>1. 0 \in N
  <2>1. \A s \in Upto(0) : s = {}
    <3> SUFFICES ASSUME NEW s \in Upto(0), s # {} PROVE FALSE
      OBVIOUS
    <3> QED BY <1>0
  <2> DEFINE f == [s \in Upto(0) |-> base]
  <2>2. f \in [Upto(0) -> X]
    OBVIOUS
  <2>3. Solves(0, f)
    BY <2>1
  <2> HIDE DEF f, Solves
  <2> QED BY <2>2, <2>3
<1>2. \A n \in Nat : n \in N => n + 1 \in N
  <2> SUFFICES ASSUME NEW n \in Nat, n \in N PROVE n + 1 \in N
    OBVIOUS
  <2> HIDE DEF Solves
  <2>0. PICK f \in [Upto(n) -> X] : Solves(n, f)
    OBVIOUS
  <2> USE DEF Solves
  <2> DEFINE g == [s \in Upto(n + 1) |->
                     IF s = {} THEN base ELSE next[<<AnyOf(s), f[Less1(s)]>>]]
  <2>1. \A s \in Upto(n + 1) : s # {} => AnyOf(s) \in A /\ Less1(s) \in Upto(n)
    BY <1>0
  <2>2. g \in [Upto(n + 1) -> X]
    BY <2>1
  <2>3. \A s \in Upto(n) : s \in Upto(n + 1) /\ g[s] = f[s]
    <3>1. \A s \in Upto(n) : s \in Upto(n + 1)
      BY <1>0
    <3>2. ASSUME NEW s \in Upto(n) PROVE g[s] = f[s]
      <4>1. g[s] = IF s = {} THEN base ELSE next[<<AnyOf(s), f[Less1(s)]>>]
        BY <3>1
      <4>2. f[s] = IF s = {} THEN base ELSE next[<<AnyOf(s), f[Less1(s)]>>]
        BY <2>0
      <4> QED BY <4>1, <4>2
    <3> QED BY <3>1, <3>2
  <2>4. Solves(n + 1, g)
    <3>1. \A s \in Upto(n + 1) : s # {} => g[Less1(s)] = f[Less1(s)]
      BY <2>1, <2>3
    <3> QED BY <3>1
  <2> HIDE DEF g, Solves, Upto
  <2>5. \E h \in [Upto(n + 1) -> X] : Solves(n + 1, h)
    BY <2>2, <2>4
  <2> QED BY <2>5
<1> HIDE DEF N, Solves
<1>3. Cardinality(A) \in N
  BY <1>1, <1>2, Induction, FS_CardinalityType
<1>4. Upto(Cardinality(A)) = SUBSET A
  BY FS_Subset
<1>5. PICK f \in [Upto(Cardinality(A)) -> X] : Solves(Cardinality(A), f)
  BY <1>3 DEF N
<1> QED BY <1>4, <1>5 DEF Solves, Recurses

(* f is a recursive function of the numbers up to N.                       *)
Iterates(f, N, base, next) == f = [n \in 0..N |-> IF n = 0 THEN base ELSE next[f[n - 1]]]

(* There is one.                                                           *)
LEMMA Iteration ==
    ASSUME NEW N \in Nat, NEW X, NEW base \in X, NEW next \in [X -> X]
    PROVE  \E f \in [0..N -> X] : Iterates(f, N, base, next)
<1> DEFINE S == {n \in Nat : \E f \in [0..n -> X] : Iterates(f, n, base, next)}
<1>1. 0 \in S
  <2> DEFINE f == [n \in 0..0 |-> base]
  <2>1. f \in [0..0 -> X]
    OBVIOUS
  <2>2. Iterates(f, 0, base, next)
    BY DEF Iterates
  <2> HIDE DEF f
  <2> QED BY <2>1, <2>2
<1>2. \A n \in Nat : n \in S => n + 1 \in S
  <2> SUFFICES ASSUME NEW n \in Nat, n \in S PROVE n + 1 \in S
    OBVIOUS
  <2>1. PICK f \in [0..n -> X] : Iterates(f, n, base, next)
    OBVIOUS
  <2> DEFINE g == [m \in 0..(n + 1) |-> IF m = 0 THEN base ELSE next[f[m - 1]]]
  <2>2. \A m \in 0..(n + 1) : m # 0 => m - 1 \in 0..n
    OBVIOUS
  <2>3. g \in [0..(n + 1) -> X]
    BY <2>2
  <2>4. \A m \in 0..n : g[m] = f[m]
    BY <2>1 DEF Iterates
  <2>5. Iterates(g, n + 1, base, next)
    <3>1. \A m \in 0..(n + 1) : m # 0 => g[m - 1] = f[m - 1]
      BY <2>2, <2>4
    <3> QED BY <3>1 DEF Iterates
  <2> HIDE DEF g
  <2> QED BY <2>3, <2>5
<1> HIDE DEF S
<1>3. N \in S
  BY <1>1, <1>2, Induction
<1> QED BY <1>3 DEF S

-----------------------------------------------------------------------------
(* Queues.                                                                 *)

NoRepeats(q) == \A i, k \in DOMAIN q : q[i] = q[k] => i = k

(* r holds some of the elements of q, in the order in which q has them.    *)
InOrderOf(r, q) ==
    \A a, b \in DOMAIN r : a < b =>
        \E c, d \in DOMAIN q : c < d /\ q[c] = r[a] /\ q[d] = r[b]

-----------------------------------------------------------------------------
(* deque.remove() at a known place: the rest closes up.                    *)
LEMMA RemoveAtShape ==
    ASSUME NEW S, NEW q \in Seq(S), NEW i \in DOMAIN q
    PROVE  /\ RemoveAt(q, i) \in Seq(S)
           /\ Len(RemoveAt(q, i)) = Len(q) - 1
           /\ \A k \in 1 .. (Len(q) - 1) :
                 RemoveAt(q, i)[k] = IF k < i THEN q[k] ELSE q[k + 1]
<1> DEFINE front == SubSeq(q, 1, i - 1)
           back == SubSeq(q, i + 1, Len(q))
<1>1. /\ Len(q) \in Nat
      /\ DOMAIN q = 1 .. Len(q)
      /\ \A k \in 1 .. Len(q) : q[k] \in S
  BY LenProperties, ElementOfSeq
<1>2. i \in Int /\ i - 1 \in Int /\ i + 1 \in Int /\ Len(q) \in Int /\ 1 \in Int
  BY <1>1
<1>3. /\ front \in Seq(S)
      /\ Len(front) = i - 1
      /\ \A k \in 1 .. (i - 1) : front[k] = q[k]
  <2>1. \A k \in 1 .. (i - 1) : q[k] \in S
    BY <1>1
  <2>2. /\ SubSeq(q, 1, i - 1) \in Seq(S)
        /\ Len(SubSeq(q, 1, i - 1)) = IF 1 <= i - 1 THEN (i - 1) - 1 + 1 ELSE 0
        /\ \A k \in 1 .. (i - 1) - 1 + 1 : SubSeq(q, 1, i - 1)[k] = q[1 + k - 1]
    BY <1>2, <2>1, SubSeqProperties
  <2> QED  BY <1>1, <2>2
<1>4. /\ back \in Seq(S)
      /\ Len(back) = Len(q) - i
      /\ \A k \in 1 .. (Len(q) - i) : back[k] = q[k + i]
  <2>1. \A k \in (i + 1) .. Len(q) : q[k] \in S
    BY <1>1
  <2>2. /\ SubSeq(q, i + 1, Len(q)) \in Seq(S)
        /\ Len(SubSeq(q, i + 1, Len(q))) =
              IF i + 1 <= Len(q) THEN Len(q) - (i + 1) + 1 ELSE 0
        /\ \A k \in 1 .. Len(q) - (i + 1) + 1 :
              SubSeq(q, i + 1, Len(q))[k] = q[(i + 1) + k - 1]
    BY <1>2, <2>1, SubSeqProperties
  <2>3. ASSUME NEW k \in 1 .. (Len(q) - i) PROVE back[k] = q[k + i]
    <3>1. k \in 1 .. Len(q) - (i + 1) + 1 /\ (i + 1) + k - 1 = k + i
      BY <1>1
    <3> QED BY <2>2, <3>1
  <2>4. Len(back) = Len(q) - i
    BY <1>1, <2>2
  <2> QED  BY <2>2, <2>3, <2>4
<1>5. RemoveAt(q, i) = front \o back
  BY DEF RemoveAt
<1> HIDE DEF front, back
<1>6. /\ front \o back \in Seq(S)
      /\ Len(front \o back) = Len(front) + Len(back)
      /\ \A k \in 1 .. Len(front) + Len(back) :
            (front \o back)[k] = IF k <= Len(front) THEN front[k] ELSE back[k - Len(front)]
  BY <1>3, <1>4, ConcatProperties
<1>7. Len(front \o back) = Len(q) - 1
  BY <1>1, <1>3, <1>4, <1>6
<1>8. ASSUME NEW k \in 1 .. (Len(q) - 1)
      PROVE  (front \o back)[k] = IF k < i THEN q[k] ELSE q[k + 1]
  <2>1. (front \o back)[k] = IF k <= i - 1 THEN front[k] ELSE back[k - (i - 1)]
    BY <1>1, <1>3, <1>4, <1>6
  <2>2. CASE k < i
    BY <1>1, <1>3, <2>1, <2>2
  <2>3. CASE ~(k < i)
    <3>1. /\ k - (i - 1) \in 1 .. (Len(q) - i)
          /\ (k - (i - 1)) + i = k + 1
      BY <1>1, <2>3
    <3>2. back[k - (i - 1)] = q[(k - (i - 1)) + i]
      BY <1>4, <3>1
    <3> QED  BY <1>1, <2>1, <2>3, <3>1, <3>2
  <2> QED  BY <2>2, <2>3
<1> QED  BY <1>5, <1>6, <1>7, <1>8

(* list.insert() behind the element at place i - 1.                        *)
LEMMA InsertAtShape ==
    ASSUME NEW S, NEW q \in Seq(S), NEW i \in 1 .. (Len(q) + 1), NEW e \in S
    PROVE  /\ InsertAt(q, i, e) \in Seq(S)
           /\ Len(InsertAt(q, i, e)) = Len(q) + 1
           /\ InsertAt(q, i, e)[i] = e
           /\ \A k \in 1 .. (i - 1) : InsertAt(q, i, e)[k] = q[k]
           /\ \A k \in i .. Len(q) : InsertAt(q, i, e)[k + 1] = q[k]
<1> DEFINE front == SubSeq(q, 1, i - 1)
           one == <<e>>
           back == SubSeq(q, i, Len(q))
<1>1. /\ Len(q) \in Nat
      /\ DOMAIN q = 1 .. Len(q)
      /\ \A k \in 1 .. Len(q) : q[k] \in S
  BY LenProperties, ElementOfSeq
<1>2. i \in Int /\ i - 1 \in Int /\ Len(q) \in Int /\ 1 \in Int
  BY <1>1
<1>3. /\ front \in Seq(S)
      /\ Len(front) = i - 1
      /\ \A k \in 1 .. (i - 1) : front[k] = q[k]
  <2>1. \A k \in 1 .. (i - 1) : q[k] \in S
    BY <1>1
  <2>2. /\ SubSeq(q, 1, i - 1) \in Seq(S)
        /\ Len(SubSeq(q, 1, i - 1)) = IF 1 <= i - 1 THEN (i - 1) - 1 + 1 ELSE 0
        /\ \A k \in 1 .. (i - 1) - 1 + 1 : SubSeq(q, 1, i - 1)[k] = q[1 + k - 1]
    BY <1>2, <2>1, SubSeqProperties
  <2> QED  BY <1>1, <2>2
<1>4. /\ back \in Seq(S)
      /\ Len(back) = Len(q) - i + 1
      /\ \A k \in 1 .. (Len(q) - i + 1) : back[k] = q[k + i - 1]
  <2>1. \A k \in i .. Len(q) : q[k] \in S
    BY <1>1
  <2>2. /\ SubSeq(q, i, Len(q)) \in Seq(S)
        /\ Len(SubSeq(q, i, Len(q))) = IF i <= Len(q) THEN Len(q) - i + 1 ELSE 0
        /\ \A k \in 1 .. Len(q) - i + 1 : SubSeq(q, i, Len(q))[k] = q[i + k - 1]
    BY <1>2, <2>1, SubSeqProperties
  <2> QED  BY <1>1, <2>2
<1>5. one \in Seq(S) /\ Len(one) = 1 /\ one[1] = e
  OBVIOUS
<1>6. InsertAt(q, i, e) = (front \o one) \o back
  BY DEF InsertAt
<1> HIDE DEF front, back, one
<1> DEFINE left == front \o one
<1>7. /\ left \in Seq(S)
      /\ Len(left) = i
      /\ \A k \in 1 .. i : left[k] = IF k < i THEN q[k] ELSE e
  <2>1. /\ front \o one \in Seq(S)
        /\ Len(front \o one) = Len(front) + Len(one)
        /\ \A k \in 1 .. Len(front) + Len(one) :
              (front \o one)[k] = IF k <= Len(front) THEN front[k] ELSE one[k - Len(front)]
    BY <1>3, <1>5, ConcatProperties
  <2>2. Len(left) = i
    BY <1>2, <1>3, <1>5, <2>1
  <2>3. ASSUME NEW k \in 1 .. i
        PROVE  left[k] = IF k < i THEN q[k] ELSE e
    <3>1. left[k] = IF k <= i - 1 THEN front[k] ELSE one[k - (i - 1)]
      BY <1>2, <1>3, <1>5, <2>1
    <3>2. CASE k < i
      BY <1>2, <1>3, <3>1, <3>2
    <3>3. CASE ~(k < i)
      <4>1. k - (i - 1) = 1
        BY <1>2, <3>3
      <4> QED  BY <1>2, <1>5, <3>1, <3>3, <4>1
    <3> QED  BY <3>2, <3>3
  <2> QED  BY <2>1, <2>2, <2>3
<1> HIDE DEF left
<1>8. /\ left \o back \in Seq(S)
      /\ Len(left \o back) = Len(left) + Len(back)
      /\ \A k \in 1 .. Len(left) + Len(back) :
            (left \o back)[k] = IF k <= Len(left) THEN left[k] ELSE back[k - Len(left)]
  BY <1>4, <1>7, ConcatProperties
<1>9. Len(left \o back) = Len(q) + 1
  BY <1>1, <1>2, <1>4, <1>7, <1>8
<1>10. ASSUME NEW k \in 1 .. (i - 1)
       PROVE  (left \o back)[k] = q[k]
  BY <1>1, <1>2, <1>4, <1>7, <1>8
<1>11. (left \o back)[i] = e
  BY <1>1, <1>2, <1>4, <1>7, <1>8
<1>12. ASSUME NEW k \in i .. Len(q)
       PROVE  (left \o back)[k + 1] = q[k]
  <2>1. /\ k + 1 \in 1 .. Len(left) + Len(back) /\ ~(k + 1 <= Len(left))
        /\ (k + 1) - Len(left) \in 1 .. (Len(q) - i + 1)
        /\ (k + 1) - Len(left) + i - 1 = k
    BY <1>1, <1>2, <1>4, <1>7
  <2>2. (left \o back)[k + 1] = back[(k + 1) - Len(left)]
    BY <1>8, <2>1
  <2> QED  BY <1>4, <2>1, <2>2
<1>13. InsertAt(q, i, e) = left \o back
  BY <1>6 DEF left
<1> HIDE DEF left
<1> QED  BY <1>8, <1>9, <1>10, <1>11, <1>12, <1>13

-----------------------------------------------------------------------------
(* What is left of a queue once the element at place i has been removed.   *)
LEMMA RemoveAtQueue ==
    ASSUME NEW S, NEW q \in Seq(S), NEW i \in DOMAIN q, NoRepeats(q)
    PROVE  /\ RemoveAt(q, i) \in Seq(S)
           /\ NoRepeats(RemoveAt(q, i))
           /\ ToSet(RemoveAt(q, i)) = ToSet(q) \ {q[i]}
           /\ InOrderOf(RemoveAt(q, i), q)
<1> DEFINE r == RemoveAt(q, i)
<1>1. Len(q) \in Nat /\ DOMAIN q = 1 .. Len(q)
  BY LenProperties
<1>2. /\ r \in Seq(S)
      /\ Len(r) = Len(q) - 1
      /\ \A k \in 1 .. (Len(q) - 1) : r[k] = IF k < i THEN q[k] ELSE q[k + 1]
  BY RemoveAtShape
<1>3. DOMAIN r = 1 .. (Len(q) - 1)
  BY <1>2, LenProperties
<1> HIDE DEF r
<1> DEFINE from(k) == IF k < i THEN k ELSE k + 1
<1>4. \A k \in DOMAIN r : from(k) \in DOMAIN q /\ from(k) # i /\ r[k] = q[from(k)]
  BY <1>1, <1>2, <1>3
<1>5. \A k, m \in DOMAIN r : /\ k < m => from(k) < from(m)
                            /\ from(k) = from(m) => k = m
  BY <1>1, <1>3
<1>6. NoRepeats(r)
  <2> SUFFICES ASSUME NEW k \in DOMAIN r, NEW m \in DOMAIN r, r[k] = r[m]
               PROVE  k = m
    BY DEF NoRepeats
  <2>1. from(k) \in DOMAIN q /\ from(m) \in DOMAIN q /\ q[from(k)] = q[from(m)]
    BY <1>4
  <2> HIDE DEF from
  <2>2. from(k) = from(m)
    BY <2>1 DEF NoRepeats
  <2> QED  BY <1>5, <2>2
<1>7. InOrderOf(r, q)
  <2> SUFFICES ASSUME NEW a \in DOMAIN r, NEW b \in DOMAIN r, a < b
               PROVE  \E c, d \in DOMAIN q : c < d /\ q[c] = r[a] /\ q[d] = r[b]
    BY DEF InOrderOf
  <2>1. /\ from(a) \in DOMAIN q /\ q[from(a)] = r[a]
        /\ from(b) \in DOMAIN q /\ q[from(b)] = r[b]
    BY <1>4
  <2>2. from(a) < from(b)
    BY <1>1, <1>3
  <2> QED  BY <2>1, <2>2
<1>8. ToSet(r) \subseteq ToSet(q) \ {q[i]}
  BY <1>4 DEF ToSet, NoRepeats
<1>9. ToSet(q) \ {q[i]} \subseteq ToSet(r)
  <2> SUFFICES ASSUME NEW k \in DOMAIN q, q[k] # q[i]
               PROVE  \E m \in DOMAIN r : r[m] = q[k]
    BY DEF ToSet
  <2>1. CASE k < i
    <3>1. k \in DOMAIN r /\ r[k] = q[k]
      BY <1>1, <1>2, <1>3, <2>1
    <3> QED  BY <3>1
  <2>2. CASE k > i
    <3>1. k - 1 \in DOMAIN r /\ ~(k - 1 < i) /\ (k - 1) + 1 = k
      BY <1>1, <1>3, <2>2
    <3>2. r[k - 1] = q[k]
      BY <1>2, <1>3, <3>1
    <3> QED  BY <3>1, <3>2
  <2> QED  BY <1>1, <2>1, <2>2
<1> QED  BY <1>2, <1>6, <1>7, <1>8, <1>9 DEF r

(* ... once its head has been taken.                                       *)
LEMMA TailQueue ==
    ASSUME NEW S, NEW q \in Seq(S), q # <<>>, NoRepeats(q)
    PROVE  /\ Head(q) \in S
           /\ Head(q) \in ToSet(q)
           /\ Tail(q) \in Seq(S)
           /\ NoRepeats(Tail(q))
           /\ ToSet(Tail(q)) = ToSet(q) \ {Head(q)}
           /\ InOrderOf(Tail(q), q)
<1> DEFINE r == Tail(q)
<1>1. Len(q) \in Nat \ {0} /\ DOMAIN q = 1 .. Len(q)
  BY LenProperties, EmptySeq
<1>2. /\ Head(q) \in S
      /\ r \in Seq(S)
      /\ Len(r) = Len(q) - 1
      /\ \A k \in 1 .. Len(r) : r[k] = q[k + 1]
  BY HeadTailProperties
<1>3. DOMAIN r = 1 .. (Len(q) - 1)
  BY <1>2, LenProperties
<1>4. Head(q) = q[1]
  OBVIOUS
<1> HIDE DEF r
<1>5. \A k \in DOMAIN r : k + 1 \in DOMAIN q /\ k + 1 # 1 /\ r[k] = q[k + 1]
  BY <1>1, <1>2, <1>3
<1>6. NoRepeats(r)
  BY <1>1, <1>3, <1>5 DEF NoRepeats
<1>7. InOrderOf(r, q)
  <2> SUFFICES ASSUME NEW a \in DOMAIN r, NEW b \in DOMAIN r, a < b
               PROVE  \E c, d \in DOMAIN q : c < d /\ q[c] = r[a] /\ q[d] = r[b]
    BY DEF InOrderOf
  <2>1. a + 1 < b + 1
    BY <1>3
  <2> QED  BY <1>5, <2>1
<1>8. ToSet(r) \subseteq ToSet(q) \ {q[1]}
  BY <1>1, <1>5 DEF ToSet, NoRepeats
<1>9. ToSet(q) \ {q[1]} \subseteq ToSet(r)
  <2> SUFFICES ASSUME NEW k \in DOMAIN q, q[k] # q[1]
               PROVE  \E m \in DOMAIN r : r[m] = q[k]
    BY DEF ToSet
  <2>1. k - 1 \in DOMAIN r /\ (k - 1) + 1 = k
    BY <1>1, <1>3
  <2> QED  BY <1>5, <2>1
<1>10. q[1] \in ToSet(q)
  BY <1>1 DEF ToSet
<1> QED  BY <1>2, <1>4, <1>6, <1>7, <1>8, <1>9, <1>10 DEF r

(* A queue one longer: e inserted at place i of a queue that has it not.   *)
LEMMA InsertAtQueue ==
    ASSUME NEW S, NEW q \in Seq(S), NEW i \in 1 .. (Len(q) + 1), NEW e \in S,
           NoRepeats(q), e \notin ToSet(q)
    PROVE  /\ InsertAt(q, i, e) \in Seq(S)
           /\ NoRepeats(InsertAt(q, i, e))
           /\ ToSet(InsertAt(q, i, e)) = ToSet(q) \cup {e}
<1> DEFINE r == InsertAt(q, i, e)
<1>1. Len(q) \in Nat /\ DOMAIN q = 1 .. Len(q)
  BY LenProperties
<1>2. /\ r \in Seq(S)
      /\ Len(r) = Len(q) + 1
      /\ r[i] = e
      /\ \A k \in 1 .. (i - 1) : r[k] = q[k]
      /\ \A k \in i .. Len(q) : r[k + 1] = q[k]
  BY InsertAtShape
<1>3. DOMAIN r = 1 .. (Len(q) + 1)
  BY <1>2, LenProperties
<1> HIDE DEF r
<1>4. ASSUME NEW k \in DOMAIN r
      PROVE  \/ k = i
             \/ k \in 1 .. (i - 1)
             \/ \E m \in i .. Len(q) : k = m + 1
  <2>1. CASE k > i
    <3>1. k - 1 \in i .. Len(q) /\ k = (k - 1) + 1
      BY <1>1, <1>3, <2>1
    <3> QED  BY <3>1
  <2> QED  BY <1>1, <1>3, <2>1
<1>5. i \in DOMAIN r /\ 1 .. (i - 1) \subseteq DOMAIN q /\ i .. Len(q) \subseteq DOMAIN q
  BY <1>1, <1>3
<1>6. \A k \in DOMAIN q : q[k] # e
  BY DEF ToSet
<1>7. NoRepeats(r)
  <2> SUFFICES ASSUME NEW k \in DOMAIN r, NEW m \in DOMAIN r, r[k] = r[m]
               PROVE  k = m
    BY DEF NoRepeats
  <2>1. CASE k = i \/ m = i
    BY SMTT(30), <1>2, <1>4, <1>5, <1>6, <2>1
  <2>2. CASE k \in 1 .. (i - 1) /\ m \in 1 .. (i - 1)
    BY <1>2, <1>5, <2>2 DEF NoRepeats
  <2>3. ASSUME NEW x \in i .. Len(q), k = x + 1, m \in 1 .. (i - 1)
        PROVE  FALSE
    <3>1. x \in DOMAIN q /\ m \in DOMAIN q /\ q[x] = q[m] /\ x # m
      BY <1>1, <1>2, <1>5, <2>3
    <3> QED  BY <3>1 DEF NoRepeats
  <2>4. ASSUME NEW x \in i .. Len(q), m = x + 1, k \in 1 .. (i - 1)
        PROVE  FALSE
    <3>1. x \in DOMAIN q /\ k \in DOMAIN q /\ q[x] = q[k] /\ x # k
      BY <1>1, <1>2, <1>5, <2>4
    <3> QED  BY <3>1 DEF NoRepeats
  <2>5. ASSUME NEW x \in i .. Len(q), k = x + 1, NEW y \in i .. Len(q), m = y + 1
        PROVE  k = m
    <3>1. x \in DOMAIN q /\ y \in DOMAIN q /\ q[x] = q[y]
      BY <1>2, <1>5, <2>5
    <3> QED  BY <2>5, <3>1 DEF NoRepeats
  <2> QED  BY <1>4, <2>1, <2>2, <2>3, <2>4, <2>5
<1>8. ToSet(r) \subseteq ToSet(q) \cup {e}
  <2> SUFFICES ASSUME NEW k \in DOMAIN r, k # i
               PROVE  \E m \in DOMAIN q : r[k] = q[m]
    BY <1>2 DEF ToSet
  <2> QED  BY <1>2, <1>4, <1>5
<1>9. ToSet(q) \subseteq ToSet(r)
  <2> SUFFICES ASSUME NEW k \in DOMAIN q
               PROVE  \E m \in DOMAIN r : r[m] = q[k]
    BY DEF ToSet
  <2>1. CASE k < i
    <3>1. k \in DOMAIN r /\ k \in 1 .. (i - 1)
      BY <1>1, <1>3, <2>1
    <3> QED  BY <1>2, <3>1
  <2>2. CASE ~(k < i)
    <3>1. k + 1 \in DOMAIN r /\ k \in i .. Len(q)
      BY <1>1, <1>3, <2>2
    <3> QED  BY <1>2, <3>1
  <2> QED  BY <2>1, <2>2
<1>10. e \in ToSet(r)
  BY <1>2, <1>5 DEF ToSet
<1> QED  BY <1>2, <1>7, <1>8, <1>9, <1>10 DEF r

(* deque.append() and deque.appendleft() are insertions at either end.     *)
LEMMA AppendQueue ==
    ASSUME NEW S, NEW q \in Seq(S), NEW e \in S, NoRepeats(q), e \notin ToSet(q)
    PROVE  /\ Append(q, e) \in Seq(S)
           /\ NoRepeats(Append(q, e))
           /\ ToSet(Append(q, e)) = ToSet(q) \cup {e}
           /\ Append(q, e) # <<>>
<1>1. Len(q) \in Nat /\ DOMAIN q = 1 .. Len(q)
  BY LenProperties
<1>2. /\ Append(q, e) \in Seq(S)
      /\ Append(q, e) # <<>>
      /\ Len(Append(q, e)) = Len(q) + 1
      /\ \A i \in 1 .. Len(q) : Append(q, e)[i] = q[i]
      /\ Append(q, e)[Len(q) + 1] = e
  BY AppendProperties
<1>3. DOMAIN Append(q, e) = 1 .. (Len(q) + 1)
  BY <1>2, LenProperties
<1>4. \A k \in DOMAIN q : q[k] # e
  BY DEF ToSet
<1>5. NoRepeats(Append(q, e))
  BY <1>1, <1>2, <1>3, <1>4 DEF NoRepeats
<1>6. ToSet(Append(q, e)) = ToSet(q) \cup {e}
  <2>1. ToSet(Append(q, e)) \subseteq ToSet(q) \cup {e}
    BY <1>1, <1>2, <1>3 DEF ToSet
  <2>2. ToSet(q) \subseteq ToSet(Append(q, e))
    BY <1>1, <1>2, <1>3 DEF ToSet
  <2>3. e \in ToSet(Append(q, e))
    BY <1>1, <1>2, <1>3 DEF ToSet
  <2> QED  BY <2>1, <2>2, <2>3
<1> QED  BY <1>2, <1>5, <1>6

(* Inserting at the first place is what deque.appendleft() does.           *)
LEMMA FrontQueue ==
    ASSUME NEW S, NEW q \in Seq(S), NEW e \in S, NoRepeats(q), e \notin ToSet(q)
    PROVE  /\ <<e>> \o q \in Seq(S)
           /\ NoRepeats(<<e>> \o q)
           /\ ToSet(<<e>> \o q) = ToSet(q) \cup {e}
<1> DEFINE one == <<e>>
<1>1. Len(q) \in Nat /\ DOMAIN q = 1 .. Len(q)
  BY LenProperties
<1>2. one \in Seq(S) /\ Len(one) = 1 /\ one[1] = e
  OBVIOUS
<1> HIDE DEF one
<1> DEFINE r == one \o q
<1>3. /\ r \in Seq(S)
      /\ Len(r) = Len(q) + 1
      /\ \A k \in 1 .. (Len(q) + 1) : r[k] = IF k = 1 THEN e ELSE q[k - 1]
  <2>1. /\ one \o q \in Seq(S)
        /\ Len(one \o q) = Len(one) + Len(q)
        /\ \A k \in 1 .. Len(one) + Len(q) :
              (one \o q)[k] = IF k <= Len(one) THEN one[k] ELSE q[k - Len(one)]
    BY <1>2, ConcatProperties
  <2> QED  BY <1>1, <1>2, <2>1
<1>4. DOMAIN r = 1 .. (Len(q) + 1)
  BY <1>3, LenProperties
<1> HIDE DEF r
<1>5. \A k \in DOMAIN q : q[k] # e
  BY DEF ToSet
<1>6. \A k \in DOMAIN r : k # 1 => k - 1 \in DOMAIN q /\ r[k] = q[k - 1]
  BY <1>1, <1>3, <1>4
<1>7. 1 \in DOMAIN r /\ r[1] = e
  BY <1>1, <1>3, <1>4
<1>8. NoRepeats(r)
  <2> SUFFICES ASSUME NEW k \in DOMAIN r, NEW m \in DOMAIN r, r[k] = r[m]
               PROVE  k = m
    BY DEF NoRepeats
  <2>1. CASE k # 1 /\ m # 1
    <3>1. k - 1 = m - 1
      BY <1>6, <2>1 DEF NoRepeats
    <3> QED  BY <1>4, <3>1
  <2>2. CASE k = 1 \/ m = 1
    BY <1>5, <1>6, <1>7, <2>2
  <2> QED  BY <2>1, <2>2
<1>9. ToSet(r) \subseteq ToSet(q) \cup {e}
  BY <1>6, <1>7 DEF ToSet
<1>10. ToSet(q) \subseteq ToSet(r)
  <2> SUFFICES ASSUME NEW k \in DOMAIN q
               PROVE  \E m \in DOMAIN r : r[m] = q[k]
    BY DEF ToSet
  <2>1. k + 1 \in DOMAIN r /\ k + 1 # 1 /\ (k + 1) - 1 = k
    BY <1>1, <1>4
  <2> QED  BY <1>6, <2>1
<1>11. e \in ToSet(r)
  BY <1>7 DEF ToSet
<1> QED  BY <1>3, <1>8, <1>9, <1>10, <1>11 DEF r, one

(* SetToSeqs(S), the orders in which a set can be queued.                  *)
LEMMA SetToSeqsQueue ==
    ASSUME NEW S, IsFiniteSet(S), NEW q \in SetToSeqs(S)
    PROVE  /\ q \in Seq(S)
           /\ NoRepeats(q)
           /\ ToSet(q) = S
<1> DEFINE n == Cardinality(S)
<1>1. n \in Nat
  BY FS_CardinalityType
<1> HIDE DEF n
<1>2. q \in [1 .. n -> S] /\ \A i, k \in 1 .. n : i # k => q[i] # q[k]
  BY DEF SetToSeqs, n
<1>3. q \in Seq(S)
  BY <1>1, <1>2, SeqDef
<1>4. DOMAIN q = 1 .. n
  BY <1>2
<1>5. NoRepeats(q)
  BY <1>2, <1>4 DEF NoRepeats
<1>6. q \in Surjection(1 .. n, S)
  <2>1. q \in Injection(1 .. n, S)
    BY <1>2 DEF Injection, IsInjective
  <2>2. Cardinality(1 .. n) = n
    BY <1>1, FS_Interval
  <2> QED  BY <2>1, <2>2, FS_Injection DEF n
<1>7. ToSet(q) = S
  BY <1>2, <1>4, <1>6 DEF ToSet, Surjection
<1> QED  BY <1>3, <1>5, <1>7
=============================================================================
