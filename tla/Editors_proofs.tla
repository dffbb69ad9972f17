---------------------------- MODULE Editors_proofs ----------------------------
(* Proofs about the editors of the studio: the beat grid, the sections and *)
(* the timing of the lyrics.                                               *)
EXTENDS BeatGrid, TimelineSections, LyricsTiming, DataLemmas

-----------------------------------------------------------------------------
(* What Filter() leaves: the elements that pass, and any relation of each  *)
(* to all behind it.                                                       *)
LEMMA FilterIs ==
    ASSUME NEW T, NEW q \in Seq(T), NEW S, NEW R, \A i, j \in DOMAIN q : i < j => <<q[i], q[j]>> \in R
    PROVE  LET r == Filter(q, S)
           IN /\ r \in Seq(T)
              /\ \A i \in DOMAIN r : r[i] \in S /\ r[i] \in ToSet(q)
              /\ \A j \in DOMAIN q : q[j] \in S => q[j] \in ToSet(r)
              /\ \A i, j \in DOMAIN r : i < j => <<r[i], r[j]>> \in R
<1> DEFINE next == [p \in Nat \X Seq(T) |->
                      IF p[1] \in DOMAIN q /\ q[p[1]] \in S THEN Append(p[2], q[p[1]]) ELSE p[2]]
           it == CHOOSE stays : stays = [k \in 0..Len(q) |->
                    IF k = 0 THEN <<>>
                    ELSE IF q[k] \in S THEN Append(stays[k - 1], q[k]) ELSE stays[k - 1]]
<1>1. PICK N \in Nat : N = Len(q) /\ DOMAIN q = 1..N
  OBVIOUS
<1>2. Filter(q, S) = it[N]
  BY <1>1 DEF Filter
<1>3. next \in [Nat \X Seq(T) -> Seq(T)]
  OBVIOUS
<1>4. \A k \in 1..N, p \in Seq(T) :
         next[<<k, p>>] = IF q[k] \in S THEN Append(p, q[k]) ELSE p
  BY <1>1
<1> HIDE DEF next
<1>5. PICK f \in [0..N -> Seq(T)] : Recurs(f, N, <<>>, next)
  <2>1. <<>> \in Seq(T)
    OBVIOUS
  <2> QED BY <1>3, <2>1, Recursion
<1>6. \A k \in 0..N : k # 0 => k \in 1..N /\ k - 1 \in 0..N
  OBVIOUS
<1>7. f = [k \in 0..N |-> IF k = 0 THEN <<>>
                         ELSE IF q[k] \in S THEN Append(f[k - 1], q[k]) ELSE f[k - 1]]
  <2>1. \A k \in 0..N : k # 0 => next[<<k, f[k - 1]>>] = IF q[k] \in S THEN Append(f[k - 1], q[k])
                                                       ELSE f[k - 1]
    BY <1>4, <1>6
  <2> QED BY <1>5, <2>1 DEF Recurs
<1>8. it = [k \in 0..N |-> IF k = 0 THEN <<>>
                         ELSE IF q[k] \in S THEN Append(it[k - 1], q[k]) ELSE it[k - 1]]
  BY <1>1, <1>7
<1> HIDE DEF it
<1> DEFINE Fine(k) == /\ it[k] \in Seq(T)
                      /\ \A i \in DOMAIN it[k] : it[k][i] \in S /\ it[k][i] \in ToSet(q)
                      /\ \A j \in 1..k : q[j] \in S => \E i \in DOMAIN it[k] : it[k][i] = q[j]
                      /\ \A i, j \in DOMAIN it[k] : i < j => <<it[k][i], it[k][j]>> \in R
                      /\ \A i \in DOMAIN it[k], j \in DOMAIN q : k < j => <<it[k][i], q[j]>> \in R
           D == {k \in Nat : k <= N => Fine(k)}
<1>9. 0 \in D
  <2>1. it[0] = <<>>
    BY <1>8
  <2>2. PICK e \in Seq(T) : e = <<>> /\ Len(e) = 0
    <3>1. <<>> \in Seq(T) /\ Len(<<>>) = 0
      BY EmptySeq
    <3> QED BY <3>1
  <2>3. \A i \in DOMAIN e : FALSE
    BY <2>2
  <2>4. it[0] = e
    BY <2>1, <2>2
  <2> QED BY <2>3, <2>4
<1>10. ASSUME NEW k \in Nat, k <= N => Fine(k), k + 1 <= N PROVE Fine(k + 1)
  <2>a. Fine(k)
    BY <1>10
  <2>1. k + 1 \in 0..N /\ k + 1 # 0 /\ (k + 1) - 1 = k /\ k + 1 \in DOMAIN q
    BY <1>1
  <2>2. PICK p \in Seq(T), b \in T : p = it[k] /\ b = q[k + 1]
    <3>1. it[k] \in Seq(T) /\ q[k + 1] \in T
      BY <2>1, <2>a
    <3> QED BY <3>1
  <2>0. PICK r : r = it[k + 1]
    OBVIOUS
  <2>3. r = IF b \in S THEN Append(p, b) ELSE p
    BY <1>8, <2>0, <2>1, <2>2
  <2>4. PICK m \in Nat : m = Len(p) /\ DOMAIN p = 1..m
    OBVIOUS
  <2>5. /\ \A i \in 1..m : p[i] \in S /\ p[i] \in ToSet(q)
        /\ \A j \in 1..k : q[j] \in S => \E i \in 1..m : p[i] = q[j]
        /\ \A i, j \in 1..m : i < j => <<p[i], p[j]>> \in R
        /\ \A i \in 1..m, j \in 1..N : k < j => <<p[i], q[j]>> \in R
    BY <1>1, <2>a, <2>2, <2>4
  <2>6. \A j \in 1..(k + 1) : j \in 1..k \/ (j = k + 1 /\ q[j] = b)
    BY <2>2
  <2>7. \A j \in 1..N : k + 1 < j => k < j
    OBVIOUS
  <2>8. CASE b \notin S
    <3>1. r = p
      BY <2>3, <2>8
    <3>2. \A j \in 1..(k + 1) : q[j] \in S => \E i \in 1..m : p[i] = q[j]
      BY <2>5, <2>6, <2>8
    <3>3. \A i \in 1..m, j \in 1..N : k + 1 < j => <<p[i], q[j]>> \in R
      BY <2>5, <2>7
    <3>4. /\ p \in Seq(T)
          /\ \A i \in DOMAIN p : p[i] \in S /\ p[i] \in ToSet(q)
          /\ \A j \in 1..(k + 1) : q[j] \in S => \E i \in DOMAIN p : p[i] = q[j]
          /\ \A i, j \in DOMAIN p : i < j => <<p[i], p[j]>> \in R
          /\ \A i \in DOMAIN p, j \in DOMAIN q : k + 1 < j => <<p[i], q[j]>> \in R
      BY <1>1, <2>4, <2>5, <3>2, <3>3
    <3> QED BY <2>0, <3>1, <3>4
  <2>9. CASE b \in S
    <3>1. r = Append(p, b)
      BY <2>3, <2>9
    <3>2. r \in Seq(T) /\ DOMAIN r = 1..(m + 1) /\ r[m + 1] = b /\ \A i \in 1..m : r[i] = p[i]
      BY <2>4, <3>1
    <3>3. \A i \in 1..(m + 1) : i \in 1..m \/ i = m + 1
      OBVIOUS
    <3>4. b \in ToSet(q)
      BY <2>1, <2>2 DEF ToSet
    <3>5. \A i \in 1..(m + 1) : r[i] \in S /\ r[i] \in ToSet(q)
      BY <2>5, <2>9, <3>2, <3>3, <3>4
    <3>6. ASSUME NEW j \in 1..(k + 1), q[j] \in S PROVE \E i \in 1..(m + 1) : r[i] = q[j]
      <4>1. CASE j \in 1..k
        <5>1. PICK i \in 1..m : p[i] = q[j]
          BY <2>5, <3>6, <4>1
        <5>2. i \in 1..(m + 1)
          OBVIOUS
        <5>3. r[i] = q[j]
          BY <3>2, <5>1
        <5> QED BY <5>2, <5>3
      <4>2. CASE j = k + 1 /\ q[j] = b
        <5>1. m + 1 \in 1..(m + 1) /\ r[m + 1] = q[j]
          BY <3>2, <4>2
        <5> QED BY <5>1
      <4> QED BY <2>6, <4>1, <4>2
    <3>7. \A i \in 1..m : <<p[i], b>> \in R
      <4>1. k < k + 1 /\ k + 1 \in 1..N
        BY <1>1, <2>1
      <4> QED BY <2>2, <2>5, <4>1
    <3>8. ASSUME NEW i \in 1..(m + 1), NEW j \in 1..(m + 1), i < j PROVE <<r[i], r[j]>> \in R
      <4>0. i \in 1..m
        BY <3>8
      <4>1. i \in 1..m /\ r[i] = p[i]
        BY <3>2, <4>0
      <4>2. CASE j = m + 1
        BY <3>2, <3>7, <4>1, <4>2
      <4>3. CASE j \in 1..m
        BY <2>5, <3>2, <3>8, <4>1, <4>3
      <4> QED BY <3>3, <4>2, <4>3
    <3>9. ASSUME NEW i \in 1..(m + 1), NEW j \in 1..N, k + 1 < j PROVE <<r[i], q[j]>> \in R
      <4>1. CASE i = m + 1
        <5>1. <<q[k + 1], q[j]>> \in R
          BY <1>1, <2>1, <3>9
        <5> QED BY <2>2, <3>2, <4>1, <5>1
      <4>2. CASE i \in 1..m
        BY <2>5, <2>7, <3>2, <3>9, <4>2
      <4> QED BY <3>3, <4>1, <4>2
    <3>10. /\ r \in Seq(T)
           /\ \A i \in DOMAIN r : r[i] \in S /\ r[i] \in ToSet(q)
           /\ \A j \in 1..(k + 1) : q[j] \in S => \E i \in DOMAIN r : r[i] = q[j]
           /\ \A i, j \in DOMAIN r : i < j => <<r[i], r[j]>> \in R
           /\ \A i \in DOMAIN r, j \in DOMAIN q : k + 1 < j => <<r[i], q[j]>> \in R
      BY <1>1, <3>2, <3>5, <3>6, <3>8, <3>9
    <3> QED BY <2>0, <3>10
  <2> QED BY <2>8, <2>9
<1> HIDE DEF Fine
<1>11. \A k \in Nat : k \in D => k + 1 \in D
  <2>1. \A k \in Nat : k \in D => (k <= N => Fine(k))
    OBVIOUS
  <2>2. \A k \in Nat : (k + 1 <= N => Fine(k + 1)) => k + 1 \in D
    OBVIOUS
  <2> QED BY <1>10, <2>1, <2>2
<1>15. 0 \in D /\ Nat \subseteq D
  <2> HIDE DEF D
  <2> QED BY <1>9, <1>11, Induction
<1>12. Fine(N)
  BY <1>1, <1>15
<1>13. PICK r : r = it[N]
  OBVIOUS
<1>14. /\ r \in Seq(T)
       /\ \A i \in DOMAIN r : r[i] \in S /\ r[i] \in ToSet(q)
       /\ \A j \in DOMAIN q : q[j] \in S => q[j] \in ToSet(r)
       /\ \A i, j \in DOMAIN r : i < j => <<r[i], r[j]>> \in R
  BY <1>1, <1>12, <1>13 DEF ToSet, Fine
<1> QED BY <1>2, <1>13, <1>14

-----------------------------------------------------------------------------
(***************************************************************************)
(* The sections, for any tracks, any length of them, any sections the      *)
(* model finds apart and any scene.  SectionsInv says of the list on the   *)
(* page, of those on their way to the server and of those kept there that  *)
(* ids are never used twice and, as long as none is moved as a whole, that *)
(* no two overlap; and of a gesture that the section in hand can go back   *)
(* to where it was taken from.  Lists only change in three ways, each with *)
(* a lemma: one section is replaced by one that fits (PutIs), one is taken *)
(* out (OthersIs) and one that fits is added (AppendIs).  Edits are        *)
(* numbered on, whichever track is open, so every list anywhere was made   *)
(* by edits with numbers below the next one's.                             *)
(***************************************************************************)

(* What the sections are made of.                                          *)
SectionSet ==
    {s \in [id : Nat, start : 0..SongLength, end : 0..SongLength, locked : BOOLEAN, named : BOOLEAN] :
       s.start <= s.end}
SectionLists == {q \in Seq(SectionSet) : \A i, j \in DOMAIN q : q[i].id = q[j].id => i = j}

Stays(does) == "move" \notin does
Clear(list, id, start, end) ==
    start < end /\ \A i \in DOMAIN list : list[i].id # id => ~Overlap(start, end, list[i])
Neat(list) == \A i \in DOMAIN list : Clear(list, list[i].id, list[i].start, list[i].end)
Ordered(list, does) == list \in SectionLists /\ (Stays(does) => Neat(list))

LEMMA SectionIs ==
    ASSUME NEW s \in SectionSet
    PROVE  /\ s.id \in Nat /\ s.start \in 0..SongLength /\ s.end \in 0..SongLength /\ s.start <= s.end
           /\ s.start \in Nat /\ s.end \in Nat
BY SectionsAssumption DEF SectionSet

LEMMA ListIs ==
    ASSUME NEW list \in SectionLists
    PROVE  /\ list \in Seq(SectionSet)
           /\ \A i \in DOMAIN list : list[i] \in SectionSet
           /\ Len(list) \in Nat /\ DOMAIN list = 1..Len(list)
           /\ \A i, j \in DOMAIN list : list[i].id = list[j].id => i = j
<1>1. list \in Seq(SectionSet) /\ \A i, j \in DOMAIN list : list[i].id = list[j].id => i = j
  BY DEF SectionLists
<1> QED BY <1>1, ElementOfSeq, LenProperties

(* The section of an id.                                                   *)
LEMMA OfIs ==
    ASSUME NEW does, NEW list, Ordered(list, does), NEW id \in Ids(list)
    PROVE  /\ Of(list, id) \in SectionSet /\ Of(list, id).id = id
           /\ \E i \in DOMAIN list : list[i] = Of(list, id) /\ \A j \in DOMAIN list : j # i => list[j].id # id
           /\ Stays(does) => Clear(list, id, Of(list, id).start, Of(list, id).end)
<1>1. list \in SectionLists
  BY DEF Ordered
<1>0. PICK i : i = CHOOSE k \in DOMAIN list : list[k].id = id
  OBVIOUS
<1>2. i \in DOMAIN list /\ list[i].id = id
  <2>1. \E k \in DOMAIN list : list[k].id = id
    BY DEF Ids
  <2> QED BY <1>0, <2>1
<1>3. PICK s : s = list[i] /\ s = Of(list, id)
  BY <1>0 DEF Of
<1>7. /\ \A k \in DOMAIN list : list[k] \in SectionSet
      /\ \A k, j \in DOMAIN list : list[k].id = list[j].id => k = j
  BY <1>1, ListIs
<1>4. s \in SectionSet /\ s.id = id
  BY <1>2, <1>3, <1>7
<1>5. \A j \in DOMAIN list : j # i => list[j].id # id
  BY <1>2, <1>7
<1>6. Stays(does) => Clear(list, id, s.start, s.end)
  BY <1>2, <1>3 DEF Ordered, Neat
<1> QED BY <1>2, <1>3, <1>4, <1>5, <1>6

LEMMA OverlapTurns ==
    ASSUME NEW a \in SectionSet, NEW b \in SectionSet
    PROVE  Overlap(a.start, a.end, b) <=> Overlap(b.start, b.end, a)
BY SectionIs DEF Overlap

(* One section is replaced by one that fits.                               *)
LEMMA PutIs ==
    ASSUME NEW does, NEW list, Ordered(list, does), NEW new \in SectionSet, new.id \in Ids(list),
           Stays(does) => Clear(list, new.id, new.start, new.end)
    PROVE  /\ Ordered(Put(list, new), does) /\ Ids(Put(list, new)) = Ids(list)
           /\ \A start, end : Clear(list, new.id, start, end) => Clear(Put(list, new), new.id, start, end)
<1>1. list \in SectionLists
  BY DEF Ordered
<1>2. PICK q : q = Put(list, new)
  OBVIOUS
<1>3. PICK n \in Nat : n = Len(list) /\ DOMAIN list = 1..n
  BY <1>1, ListIs
<1>4. q = [i \in 1..n |-> IF list[i].id = new.id THEN new ELSE list[i]]
  BY <1>2, <1>3 DEF Put
<1>5. DOMAIN q = 1..n /\ \A i \in 1..n : q[i].id = list[i].id
  BY <1>4
<1>6. \A i \in 1..n : q[i] \in SectionSet
  <2>1. \A i \in 1..n : list[i] \in SectionSet
    BY <1>1, <1>3, ListIs
  <2> QED BY <1>4, <2>1
<1>7. q \in Seq(SectionSet)
  BY <1>4, <1>6
<1>8. q \in SectionLists
  <2>1. \A i, j \in 1..n : q[i].id = q[j].id => i = j
    BY <1>1, <1>3, <1>5, ListIs
  <2> QED BY <1>5, <1>7, <2>1 DEF SectionLists
<1>9. Ids(q) = Ids(list)
  BY <1>3, <1>5 DEF Ids
<1>10. \A i \in 1..n : list[i].id # new.id => q[i] = list[i]
  BY <1>4
<1>11. \A i \in 1..n : list[i].id = new.id => q[i] = new
  BY <1>4
<1>12. \A start, end : Clear(list, new.id, start, end) => Clear(q, new.id, start, end)
  BY <1>3, <1>5, <1>10 DEF Clear
<1>13. ASSUME Stays(does) PROVE Neat(q)
  <2> SUFFICES ASSUME NEW i \in 1..n PROVE Clear(q, q[i].id, q[i].start, q[i].end)
    BY <1>5 DEF Neat
  <2>1. CASE list[i].id = new.id
    BY <1>11, <1>12, <1>13, <2>1
  <2>2. CASE list[i].id # new.id
    <3>1. q[i] = list[i]
      BY <1>10, <2>2
    <3>2. Clear(list, list[i].id, list[i].start, list[i].end)
      BY <1>3, <1>13 DEF Ordered, Neat
    <3>3. ASSUME NEW j \in 1..n, q[j].id # q[i].id PROVE ~Overlap(q[i].start, q[i].end, q[j])
      <4>1. CASE list[j].id # new.id
        BY <1>3, <1>5, <1>10, <3>1, <3>2, <3>3, <4>1 DEF Clear
      <4>2. CASE list[j].id = new.id
        <5>1. q[j] = new
          BY <1>11, <4>2
        <5>2. ~Overlap(new.start, new.end, list[i])
          BY <1>3, <1>13, <2>2 DEF Clear
        <5>3. list[i] \in SectionSet
          BY <1>6, <3>1
        <5> QED BY <3>1, <5>1, <5>2, <5>3, OverlapTurns
      <4> QED BY <4>1, <4>2
    <3> QED BY <1>5, <3>1, <3>2, <3>3 DEF Clear
  <2> QED BY <2>1, <2>2
<1> QED BY <1>2, <1>8, <1>9, <1>12, <1>13 DEF Ordered

(* All but one section.                                                    *)
LEMMA OthersIs ==
    ASSUME NEW does, NEW list, Ordered(list, does), NEW id
    PROVE  /\ Ordered(Others(list, id), does) /\ Ids(Others(list, id)) \subseteq Ids(list)
           /\ \A o \in ToSet(Others(list, id)) : \E i \in DOMAIN list : o = list[i] /\ list[i].id # id
           /\ \A i \in DOMAIN list : list[i].id # id => list[i] \in ToSet(Others(list, id))
<1> DEFINE S == {s \in ToSet(list) : s.id # id}
           R == {p \in SectionSet \X SectionSet :
                   p[1].id # p[2].id /\ (Stays(does) => ~Overlap(p[1].start, p[1].end, p[2]))}
<1>1. list \in SectionLists
  BY DEF Ordered
<1>2. \A i \in DOMAIN list : list[i] \in SectionSet
  BY <1>1, ListIs
<1>3. ASSUME NEW i \in DOMAIN list, NEW j \in DOMAIN list, i < j PROVE <<list[i], list[j]>> \in R
  <2>1. list[i].id # list[j].id
    <3>1. i # j
      BY <1>1, <1>3, ListIs
    <3> QED BY <1>1, <3>1, ListIs
  <2>2. Stays(does) => ~Overlap(list[i].start, list[i].end, list[j])
    BY <2>1 DEF Ordered, Neat, Clear
  <2> QED BY <1>2, <2>1, <2>2
<1>4. PICK r : r = Others(list, id)
  OBVIOUS
<1>5. r = Filter(list, S)
  BY <1>4 DEF Others
<1>6. list \in Seq(SectionSet)
  BY <1>1, ListIs
<1>7. \A s : s \in S <=> s \in ToSet(list) /\ s.id # id
  OBVIOUS
<1>8. \A a, b : <<a, b>> \in R => a \in SectionSet /\ b \in SectionSet /\ a.id # b.id
  OBVIOUS
<1>18. \A a, b : <<a, b>> \in R /\ Stays(does) => ~Overlap(a.start, a.end, b)
  OBVIOUS
<1> HIDE DEF S, R
<1>9. /\ r \in Seq(SectionSet)
      /\ \A i \in DOMAIN r : r[i] \in S /\ r[i] \in ToSet(list)
      /\ \A j \in DOMAIN list : list[j] \in S => list[j] \in ToSet(r)
      /\ \A i, j \in DOMAIN r : i < j => <<r[i], r[j]>> \in R
  BY <1>3, <1>5, <1>6, FilterIs
<1>10. PICK n \in Nat : n = Len(r) /\ DOMAIN r = 1..n
  BY <1>9, LenProperties
<1>11. ASSUME NEW i \in 1..n, NEW j \in 1..n, i # j
       PROVE  r[i].id # r[j].id /\ (Stays(does) => ~Overlap(r[i].start, r[i].end, r[j]))
  <2>1. i < j \/ j < i
    BY <1>11
  <2>2. <<r[i], r[j]>> \in R \/ <<r[j], r[i]>> \in R
    BY <1>9, <1>10, <2>1
  <2>3. /\ r[i] \in SectionSet /\ r[j] \in SectionSet /\ r[i].id # r[j].id
  <3>1. CASE <<r[i], r[j]>> \in R
    BY <1>8, <3>1
  <3>2. CASE <<r[j], r[i]>> \in R
    BY <1>8, <3>2
  <3> QED BY <2>2, <3>1, <3>2
  <2>4. Stays(does) => ~Overlap(r[i].start, r[i].end, r[j]) \/ ~Overlap(r[j].start, r[j].end, r[i])
    BY <1>18, <2>2
  <2> QED BY <2>3, <2>4, OverlapTurns
<1>12. r \in SectionLists
  BY <1>9, <1>10, <1>11 DEF SectionLists
<1>13. \A i \in 1..n : \E k \in DOMAIN list : r[i] = list[k] /\ list[k].id # id
  BY <1>7, <1>9, <1>10 DEF ToSet
<1>14. ASSUME Stays(does) PROVE Neat(r)
  <2> SUFFICES ASSUME NEW i \in 1..n PROVE Clear(r, r[i].id, r[i].start, r[i].end)
    BY <1>10 DEF Neat
  <2>1. r[i].start < r[i].end
    <3>1. PICK k \in DOMAIN list : r[i] = list[k]
      BY <1>13
    <3> QED BY <1>14, <3>1 DEF Ordered, Neat, Clear
  <2>2. \A j \in 1..n : r[j].id # r[i].id => ~Overlap(r[i].start, r[i].end, r[j])
    BY <1>11, <1>14
  <2> QED BY <1>10, <2>1, <2>2 DEF Clear
<1>15. Ids(r) \subseteq Ids(list)
  BY <1>10, <1>13 DEF Ids
<1>16. \A o \in ToSet(r) : \E i \in DOMAIN list : o = list[i] /\ list[i].id # id
  BY <1>10, <1>13 DEF ToSet
<1>17. \A i \in DOMAIN list : list[i].id # id => list[i] \in ToSet(r)
  BY <1>7, <1>9 DEF ToSet
<1> QED BY <1>4, <1>12, <1>14, <1>15, <1>16, <1>17 DEF Ordered

(* A section that fits is added.                                           *)
LEMMA AppendIs ==
    ASSUME NEW does, NEW list, Ordered(list, does), NEW new \in SectionSet, new.id \notin Ids(list),
           Stays(does) => Clear(list, new.id, new.start, new.end)
    PROVE  /\ Ordered(Append(list, new), does)
           /\ Ids(Append(list, new)) = Ids(list) \cup {new.id}
<1>1. list \in SectionLists /\ list \in Seq(SectionSet)
  BY ListIs DEF Ordered
<1>2. PICK q : q = Append(list, new)
  OBVIOUS
<1>3. PICK n \in Nat : n = Len(list) /\ DOMAIN list = 1..n
  BY <1>1, ListIs
<1>4. q \in Seq(SectionSet) /\ DOMAIN q = 1..(n + 1) /\ q[n + 1] = new /\ \A i \in 1..n : q[i] = list[i]
  BY <1>1, <1>2, <1>3, AppendProperties
<1>5. \A i \in 1..(n + 1) : i \in 1..n \/ i = n + 1
  OBVIOUS
<1>6. \A i \in 1..n : i \in 1..(n + 1) /\ i # n + 1
  OBVIOUS
<1>7. \A i \in 1..n : list[i].id # new.id /\ list[i] \in SectionSet
  BY <1>1, <1>3, ListIs DEF Ids
<1>8. Ids(q) = Ids(list) \cup {new.id}
  <2>1. \A i \in 1..(n + 1) : q[i].id \in Ids(list) \cup {new.id}
    BY <1>3, <1>4, <1>5 DEF Ids
  <2>2. n + 1 \in 1..(n + 1) /\ q[n + 1].id = new.id
    BY <1>4
  <2>3. \A i \in 1..n : \E k \in 1..(n + 1) : q[k].id = list[i].id
    BY <1>4, <1>6
  <2> QED BY SMTT(40), <1>3, <1>4, <2>1, <2>2, <2>3 DEF Ids
<1>9. q \in SectionLists
  <2>1. ASSUME NEW i \in 1..(n + 1), NEW j \in 1..(n + 1), q[i].id = q[j].id PROVE i = j
    <3>1. CASE i \in 1..n /\ j \in 1..n
      BY <1>1, <1>3, <1>4, <2>1, <3>1, ListIs
    <3>2. CASE i = n + 1 /\ j \in 1..n
      BY <1>4, <1>7, <2>1, <3>2
    <3>3. CASE i \in 1..n /\ j = n + 1
      BY <1>4, <1>7, <2>1, <3>3
    <3> QED BY <1>5, <3>1, <3>2, <3>3
  <2> QED BY <1>4, <2>1 DEF SectionLists
<1>10. ASSUME Stays(does) PROVE Neat(q)
  <2>0. Neat(list) /\ Clear(list, new.id, new.start, new.end)
    BY <1>10 DEF Ordered
  <2>1. ASSUME NEW i \in 1..(n + 1) PROVE Clear(q, q[i].id, q[i].start, q[i].end)
    <3>1. CASE i = n + 1
      <4>1. \A j \in 1..(n + 1) : q[j].id # new.id => ~Overlap(new.start, new.end, q[j])
        BY <1>3, <1>4, <1>5, <2>0 DEF Clear
      <4>2. new.start < new.end
        BY <2>0 DEF Clear
      <4>3. Clear(q, new.id, new.start, new.end)
        BY <1>4, <4>1, <4>2 DEF Clear
      <4> QED BY <1>4, <3>1, <4>3
    <3>2. CASE i \in 1..n
      <4>1. PICK s \in SectionSet : s = list[i] /\ s = q[i]
        BY <1>4, <1>7, <3>2
      <4>2. Clear(list, s.id, s.start, s.end)
        BY <1>3, <2>0, <3>2, <4>1 DEF Neat
      <4>3. ~Overlap(s.start, s.end, new)
        <5>1. ~Overlap(new.start, new.end, s)
          BY <1>3, <1>7, <2>0, <3>2, <4>1 DEF Clear
        <5> QED BY <5>1, OverlapTurns
      <4>4. \A j \in 1..(n + 1) : q[j].id # s.id => ~Overlap(s.start, s.end, q[j])
        BY <1>3, <1>4, <1>5, <4>2, <4>3 DEF Clear
      <4>5. s.start < s.end
        BY <4>2 DEF Clear
      <4>6. Clear(q, s.id, s.start, s.end)
        BY <1>4, <4>4, <4>5 DEF Clear
      <4> QED BY <4>1, <4>6
    <3> QED BY <1>5, <3>1, <3>2
  <2> QED BY <1>4, <2>1 DEF Neat
<1> QED BY <1>2, <1>8, <1>9, <1>10 DEF Ordered

(* The neighbours of a section bound it.                                   *)
LEMMA LeftBoundIs ==
    ASSUME NEW does, NEW list, Ordered(list, does), NEW s \in SectionSet, s.id \in Ids(list), s = Of(list, s.id)
    PROVE  /\ LeftBound(list, s) \in 0..SongLength /\ LeftBound(list, s) <= s.end
           /\ Stays(does) => /\ LeftBound(list, s) <= s.start
                             /\ \A i \in DOMAIN list : list[i].id # s.id =>
                                  list[i].end <= LeftBound(list, s) \/ s.end <= list[i].start
<1>1. PICK n \in Nat : n = SongLength
  BY SectionsAssumption
<1>2. PICK ends : ends = {0} \cup {o.end : o \in {p \in ToSet(Others(list, s.id)) : p.end <= s.end}}
  OBVIOUS
<1>3. PICK b : b = CHOOSE c \in ends : \A d \in ends : d <= c
  OBVIOUS
<1>4. LeftBound(list, s) = b
  BY <1>2, <1>3 DEF LeftBound
<1>5. \A i \in DOMAIN list : list[i] \in SectionSet
  BY ListIs DEF Ordered
<1>6. \A o \in ToSet(Others(list, s.id)) : \E i \in DOMAIN list : o = list[i] /\ list[i].id # s.id
  BY OthersIs
<1>7. \A i \in DOMAIN list : list[i].id # s.id => list[i] \in ToSet(Others(list, s.id))
  BY OthersIs
<1>8. s.start \in 0..n /\ s.end \in 0..n
  BY <1>1, SectionIs
<1>9. \A e \in ends : e \in 0..n /\ e <= s.end
  <2>1. \A o \in ToSet(Others(list, s.id)) : o.end \in 0..n
    BY <1>1, <1>5, <1>6, SectionIs
  <2> QED BY <1>2, <1>8, <2>1
<1>10. b \in ends /\ \A d \in ends : d <= b
  <2>1. 0 \in ends
    BY <1>2
  <2>2. ends \in SUBSET (0..n) /\ ends # {}
    BY <1>9, <2>1
  <2> QED BY <1>3, <2>2, GreatestOf
<1>11. ASSUME Stays(does)
       PROVE  /\ b <= s.start
              /\ \A i \in DOMAIN list : list[i].id # s.id => list[i].end <= b \/ s.end <= list[i].start
  <2>1. Clear(list, s.id, s.start, s.end)
    BY <1>11, OfIs
  <2>2. ASSUME NEW i \in DOMAIN list, list[i].id # s.id
        PROVE  list[i].end <= s.start \/ (s.end <= list[i].start /\ list[i].start < list[i].end)
    <3>1. ~Overlap(s.start, s.end, list[i])
      BY <2>1, <2>2 DEF Clear
    <3>2. list[i].start \in 0..n /\ list[i].end \in 0..n
      BY <1>1, <1>5, SectionIs
    <3>3. list[i].start < list[i].end
      BY <1>11 DEF Ordered, Neat, Clear
    <3> QED BY <1>8, <3>1, <3>2, <3>3 DEF Overlap
  <2>3. s.start < s.end
    BY <2>1 DEF Clear
  <2>4. \A e \in ends : e <= s.start
    <3>1. ASSUME NEW o \in ToSet(Others(list, s.id)), o.end <= s.end PROVE o.end <= s.start
      <4>1. PICK i \in DOMAIN list : o = list[i] /\ list[i].id # s.id
        BY <1>6
      <4>2. o.start \in 0..n /\ o.end \in 0..n
        BY <1>1, <1>5, <4>1, SectionIs
      <4> QED BY <1>8, <2>2, <2>3, <3>1, <4>1, <4>2
    <3> QED BY <1>2, <1>8, <3>1
  <2>5. ASSUME NEW i \in DOMAIN list, list[i].id # s.id PROVE list[i].end <= b \/ s.end <= list[i].start
    <3>1. PICK o \in ToSet(Others(list, s.id)) : o = list[i]
      BY <1>7, <2>5
    <3>2. o.start \in 0..n /\ o.end \in 0..n
      BY <1>1, <1>5, <3>1, SectionIs
    <3>3. CASE o.end <= s.end
      <4>1. o.end \in ends
        BY <1>2, <3>3
      <4> QED BY <1>10, <3>1, <4>1
    <3>4. CASE s.end < o.end
      BY <1>8, <2>2, <2>3, <2>5, <3>1, <3>2, <3>4
    <3> QED BY <1>8, <3>2, <3>3, <3>4
  <2> QED BY <1>10, <2>4, <2>5
<1>12. b \in 0..SongLength /\ b <= s.end
  BY <1>1, <1>9, <1>10
<1> QED BY <1>4, <1>11, <1>12

LEMMA RightBoundIs ==
    ASSUME NEW does, NEW list, Ordered(list, does), NEW s \in SectionSet, s.id \in Ids(list), s = Of(list, s.id)
    PROVE  /\ RightBound(list, s) \in 0..SongLength /\ s.start <= RightBound(list, s)
           /\ Stays(does) => /\ s.end <= RightBound(list, s)
                             /\ \A i \in DOMAIN list : list[i].id # s.id =>
                                  RightBound(list, s) <= list[i].start \/ list[i].end <= s.start
<1>1. PICK n \in Nat : n = SongLength
  BY SectionsAssumption
<1>2. PICK begins : begins = {SongLength} \cup
                      {o.start : o \in {p \in ToSet(Others(list, s.id)) : p.start >= s.start}}
  OBVIOUS
<1>3. PICK b : b = CHOOSE c \in begins : \A d \in begins : c <= d
  OBVIOUS
<1>4. RightBound(list, s) = b
  BY <1>2, <1>3 DEF RightBound
<1>5. \A i \in DOMAIN list : list[i] \in SectionSet
  BY ListIs DEF Ordered
<1>6. \A o \in ToSet(Others(list, s.id)) : \E i \in DOMAIN list : o = list[i] /\ list[i].id # s.id
  BY OthersIs
<1>7. \A i \in DOMAIN list : list[i].id # s.id => list[i] \in ToSet(Others(list, s.id))
  BY OthersIs
<1>8. s.start \in 0..n /\ s.end \in 0..n
  BY <1>1, SectionIs
<1>9. \A e \in begins : e \in 0..n /\ s.start <= e
  <2>1. \A o \in ToSet(Others(list, s.id)) : o.start \in 0..n
    BY <1>1, <1>5, <1>6, SectionIs
  <2> QED BY <1>1, <1>2, <1>8, <2>1
<1>10. b \in begins /\ \A d \in begins : b <= d
  <2>1. SongLength \in begins
    BY <1>2
  <2>2. begins \in SUBSET Nat /\ begins # {}
    BY <1>9, <2>1
  <2> QED BY <1>3, <2>2, LeastOf
<1>11. ASSUME Stays(does)
       PROVE  /\ s.end <= b
              /\ \A i \in DOMAIN list : list[i].id # s.id => b <= list[i].start \/ list[i].end <= s.start
  <2>1. Clear(list, s.id, s.start, s.end)
    BY <1>11, OfIs
  <2>2. ASSUME NEW i \in DOMAIN list, list[i].id # s.id
        PROVE  (list[i].end <= s.start /\ list[i].start < list[i].end) \/ s.end <= list[i].start
    <3>1. ~Overlap(s.start, s.end, list[i])
      BY <2>1, <2>2 DEF Clear
    <3>2. list[i].start \in 0..n /\ list[i].end \in 0..n
      BY <1>1, <1>5, SectionIs
    <3>3. list[i].start < list[i].end
      BY <1>11 DEF Ordered, Neat, Clear
    <3> QED BY <1>8, <3>1, <3>2, <3>3 DEF Overlap
  <2>3. s.start < s.end
    BY <2>1 DEF Clear
  <2>4. \A e \in begins : s.end <= e
    <3>1. ASSUME NEW o \in ToSet(Others(list, s.id)), o.start >= s.start PROVE s.end <= o.start
      <4>1. PICK i \in DOMAIN list : o = list[i] /\ list[i].id # s.id
        BY <1>6
      <4>2. o.start \in 0..n /\ o.end \in 0..n
        BY <1>1, <1>5, <4>1, SectionIs
      <4> QED BY <1>8, <2>2, <2>3, <3>1, <4>1, <4>2
    <3> QED BY <1>1, <1>2, <1>8, <3>1
  <2>5. ASSUME NEW i \in DOMAIN list, list[i].id # s.id PROVE b <= list[i].start \/ list[i].end <= s.start
    <3>1. PICK o \in ToSet(Others(list, s.id)) : o = list[i]
      BY <1>7, <2>5
    <3>2. o.start \in 0..n /\ o.end \in 0..n
      BY <1>1, <1>5, <3>1, SectionIs
    <3>3. CASE o.start >= s.start
      <4>1. o.start \in begins
        BY <1>2, <3>3
      <4> QED BY <1>10, <3>1, <4>1
    <3>4. CASE o.start < s.start
      BY <1>8, <2>2, <2>3, <2>5, <3>1, <3>2, <3>4
    <3> QED BY <1>8, <3>2, <3>3, <3>4
  <2> QED BY <1>10, <2>4, <2>5
<1>12. b \in 0..SongLength /\ s.start <= b
  BY <1>1, <1>9, <1>10
<1> QED BY <1>4, <1>11, <1>12

(* A section moved as a whole stays within the track.                      *)
LEMMA ClampMoveIs ==
    ASSUME NEW does, NEW list, Ordered(list, does), NEW id, NEW wanted \in Int, NEW width \in 0..SongLength
    PROVE  ClampMove(list, id, wanted, width) \in 0..(SongLength - width)
<1>0. PICK n \in Nat : n = SongLength
  BY SectionsAssumption
<1>1. PICK span \in Nat : span = SongLength - width /\ span <= n
  BY <1>0
<1>2. PICK others \in Seq(SectionSet) : others = Others(list, id)
  <2>1. Others(list, id) \in Seq(SectionSet)
    BY OthersIs, ListIs DEF Ordered
  <2> QED BY <2>1
<1>3. PICK N \in Nat : N = Len(others) /\ DOMAIN others = 1..N
  BY LenProperties
<1> DEFINE Push(start, o) ==
             IF ~Overlap(start, start + width, o) THEN start
             ELSE IF Distance(wanted, o.start - width) < Distance(wanted, o.end)
                  THEN Most(0, o.start - width)
                  ELSE Least(SongLength - width, o.end)
           next == [p \in Nat \X (0..span) |-> IF p[1] \in 1..N THEN Push(p[2], others[p[1]]) ELSE p[2]]
           base == Most(0, Least(SongLength - width, wanted))
           it == CHOOSE pushed : pushed = [k \in 0..Len(others) |->
                    IF k = 0 THEN base ELSE Push(pushed[k - 1], others[k])]
<1>4. ClampMove(list, id, wanted, width) = it[N]
  BY <1>2, <1>3 DEF ClampMove
<1>5. base \in 0..span
  BY <1>0, <1>1 DEF Most, Least
<1>6. \A start \in 0..span, k \in 1..N : Push(start, others[k]) \in 0..span
  <2> SUFFICES ASSUME NEW start \in 0..span, NEW k \in 1..N PROVE Push(start, others[k]) \in 0..span
    OBVIOUS
  <2>1. PICK o \in SectionSet : o = others[k]
    BY <1>3, ElementOfSeq
  <2>2. o.start \in 0..n /\ o.end \in 0..n
    BY <1>0, <2>1, SectionIs
  <2>3. Most(0, o.start - width) \in 0..span
    BY <1>0, <1>1, <2>2 DEF Most
  <2>4. Least(SongLength - width, o.end) \in 0..span
    BY <1>0, <1>1, <2>2 DEF Least
  <2>5. PICK p, q, r : /\ p = start /\ q = Most(0, o.start - width) /\ r = Least(SongLength - width, o.end)
                       /\ p \in 0..span /\ q \in 0..span /\ r \in 0..span
    BY <2>3, <2>4
  <2>6. Push(start, o) \in {p, q, r}
    BY <2>5
  <2> QED BY <2>1, <2>5, <2>6
<1> HIDE DEF Push, base
<1>7. next \in [Nat \X (0..span) -> 0..span]
  <2>1. \A p \in Nat \X (0..span) : p[2] \in 0..span
    OBVIOUS
  <2> QED BY <1>6, <2>1
<1>8. \A k \in 1..N, p \in 0..span : next[<<k, p>>] = Push(p, others[k])
  BY <1>3
<1> HIDE DEF next
<1>9. PICK f \in [0..N -> 0..span] : Recurs(f, N, base, next)
  BY <1>5, <1>7, Recursion
<1>10. \A k \in 0..N : k # 0 => k \in 1..N /\ k - 1 \in 0..N
  OBVIOUS
<1>11. f = [k \in 0..N |-> IF k = 0 THEN base ELSE Push(f[k - 1], others[k])]
  <2>1. \A k \in 0..N : k # 0 => next[<<k, f[k - 1]>>] = Push(f[k - 1], others[k])
    BY <1>8, <1>9, <1>10
  <2> QED BY <1>9, <2>1 DEF Recurs
<1>12. it = [k \in 0..N |-> IF k = 0 THEN base ELSE Push(it[k - 1], others[k])]
  BY <1>3, <1>11
<1> HIDE DEF it
<1> DEFINE D == {k \in Nat : k <= N => it[k] \in 0..span}
<1>13. 0 \in D
  <2>1. it[0] = base
    BY <1>12
  <2> QED BY <1>5, <2>1
<1>14. \A k \in Nat : k \in D => k + 1 \in D
  <2> SUFFICES ASSUME NEW k \in Nat, it[k] \in 0..span, k + 1 <= N PROVE it[k + 1] \in 0..span
    OBVIOUS
  <2>1. k + 1 \in 0..N /\ k + 1 # 0 /\ (k + 1) - 1 = k /\ k + 1 \in 1..N
    OBVIOUS
  <2>2. it[k + 1] = Push(it[k], others[k + 1])
    BY <1>12, <2>1
  <2> QED BY <1>6, <2>1, <2>2
<1> HIDE DEF D
<1>15. N \in D
  BY <1>13, <1>14, Induction
<1>16. it[N] \in 0..span
  BY <1>15 DEF D
<1> QED BY <1>1, <1>4, <1>16

SectionHands ==
    {h \in [id : Nat, edge : {"whole", "left", "right"}, start : 0..SongLength, end : 0..SongLength] :
       h.start <= h.end}

(* A section on a new stretch.                                             *)
Respanned(s, start, end) == [s EXCEPT !.start = start, !.end = end]

LEMMA RespanIs ==
    ASSUME NEW s \in SectionSet, NEW start \in 0..SongLength, NEW end \in 0..SongLength, start <= end
    PROVE  /\ Respanned(s, start, end) \in SectionSet /\ Respanned(s, start, end).id = s.id
           /\ Respanned(s, start, end).start = start /\ Respanned(s, start, end).end = end
<1>1. s \in [id : Nat, start : 0..SongLength, end : 0..SongLength, locked : BOOLEAN, named : BOOLEAN]
  BY DEF SectionSet
<1>2. PICK new : new = Respanned(s, start, end)
  OBVIOUS
<1>3. /\ new \in [id : Nat, start : 0..SongLength, end : 0..SongLength, locked : BOOLEAN, named : BOOLEAN]
      /\ new.id = s.id /\ new.start = start /\ new.end = end
  BY <1>1, <1>2 DEF Respanned
<1>4. new \in SectionSet
  BY <1>3 DEF SectionSet
<1> QED BY <1>2, <1>3, <1>4

LEMMA PulledIs ==
    ASSUME NEW does, NEW list, Ordered(list, does), NEW hand \in SectionHands, hand.id \in Ids(list),
           NEW by \in Int, Stays(does) => hand.edge # "whole"
    PROVE  LET new == Pulled(list, hand, by)
           IN /\ new \in SectionSet /\ new.id = hand.id
              /\ Stays(does) => Clear(list, hand.id, new.start, new.end)
<1>1. PICK n \in Nat : n = SongLength
  BY SectionsAssumption
<1>2. PICK id \in Nat, from \in 0..n, to \in 0..n :
         id = hand.id /\ from = hand.start /\ to = hand.end /\ from <= to
  BY <1>1 DEF SectionHands
<1>3. PICK s \in SectionSet : s = Of(list, id) /\ s.id = id
  BY <1>2, OfIs
<1>4. s.start \in 0..n /\ s.end \in 0..n /\ s.start <= s.end
  BY <1>1, SectionIs
<1>5. PICK new : new = Pulled(list, hand, by)
  OBVIOUS
<1>6. hand.edge \in {"whole", "left", "right"}
  BY DEF SectionHands
<1>7. Stays(does) => s.start < s.end /\ Clear(list, id, s.start, s.end)
  BY <1>2, <1>3, OfIs DEF Clear
<1>8. \A i \in DOMAIN list : list[i].start \in 0..n /\ list[i].end \in 0..n
  <2>1. \A i \in DOMAIN list : list[i] \in SectionSet
    BY ListIs DEF Ordered
  <2> QED BY <1>1, <2>1, SectionIs
<1>9. CASE hand.edge = "whole"
  <2>1. PICK width \in 0..n : width = s.end - s.start
    BY <1>4
  <2>2. PICK start \in 0..(n - width) : start = ClampMove(list, s.id, hand.start + by, s.end - s.start)
    <3>1. hand.start + by \in Int
      BY <1>2
    <3> QED BY <1>1, <2>1, <3>1, ClampMoveIs
  <2>6. PICK end : end = start + width
    OBVIOUS
  <2>3. new = Respanned(s, start, end)
    BY <1>2, <1>3, <1>5, <1>9, <2>1, <2>2, <2>6 DEF Pulled, Respanned
  <2>4. start \in 0..SongLength /\ end \in 0..SongLength /\ start <= end
    BY <1>1, <2>6
  <2>5. new \in SectionSet /\ new.id = s.id
    BY <2>3, <2>4, RespanIs
  <2> QED BY <1>2, <1>3, <1>5, <1>9, <2>5
<1>10. CASE hand.edge = "left"
  <2>1. PICK b \in 0..n : b = LeftBound(list, s)
    BY <1>1, <1>2, <1>3, LeftBoundIs
  <2>2. b <= s.end
    BY <1>2, <1>3, <2>1, LeftBoundIs
  <2>3. PICK start : start = Most(LeftBound(list, s), Least(s.end - 1, hand.start + by))
    OBVIOUS
  <2>4. PICK pull \in Int : pull = hand.start + by
    BY <1>2
  <2>5. start = Most(b, Least(s.end - 1, pull))
    BY <2>1, <2>3, <2>4
  <2>6. start \in 0..n /\ start <= s.end /\ b <= start /\ (b < s.end => start < s.end)
    BY <1>4, <2>2, <2>5 DEF Most, Least
  <2>7. new = [s EXCEPT !.start = start]
    BY <1>2, <1>3, <1>5, <1>10, <2>3 DEF Pulled
  <2>8. new = Respanned(s, start, s.end)
    <3>1. s \in [id : Nat, start : 0..SongLength, end : 0..SongLength, locked : BOOLEAN, named : BOOLEAN]
      BY DEF SectionSet
    <3> QED BY <2>7, <3>1 DEF Respanned
  <2>9. new \in SectionSet /\ new.id = s.id /\ new.start = start /\ new.end = s.end
    <3>1. PICK p \in 0..SongLength, q \in 0..SongLength : p = start /\ q = s.end /\ p <= q
      BY <1>1, <1>4, <2>6
    <3> QED BY <2>8, <3>1, RespanIs
  <2>10. ASSUME Stays(does) PROVE Clear(list, id, new.start, new.end)
    <3>1. /\ b <= s.start
          /\ \A i \in DOMAIN list : list[i].id # id => list[i].end <= b \/ s.end <= list[i].start
      BY <1>2, <1>3, <2>1, <2>10, LeftBoundIs
    <3>2. start < s.end
      BY <1>4, <1>7, <2>6, <2>10, <3>1
    <3>3. ASSUME NEW i \in DOMAIN list, list[i].id # id PROVE ~Overlap(start, s.end, list[i])
      BY <1>4, <1>8, <2>6, <3>1, <3>3 DEF Overlap
    <3> QED BY <2>9, <3>2, <3>3 DEF Clear
  <2> QED BY <1>2, <1>3, <1>5, <2>9, <2>10
<1>11. CASE hand.edge = "right"
  <2>1. PICK b \in 0..n : b = RightBound(list, s)
    BY <1>1, <1>2, <1>3, RightBoundIs
  <2>2. s.start <= b
    BY <1>2, <1>3, <2>1, RightBoundIs
  <2>3. PICK end : end = Least(RightBound(list, s), Most(s.start + 1, hand.end + by))
    OBVIOUS
  <2>4. PICK pull \in Int : pull = hand.end + by
    BY <1>2
  <2>5. end = Least(b, Most(s.start + 1, pull))
    BY <2>1, <2>3, <2>4
  <2>6. end \in 0..n /\ s.start <= end /\ end <= b /\ (s.start < b => s.start < end)
    BY <1>4, <2>2, <2>5 DEF Most, Least
  <2>7. new = [s EXCEPT !.end = end]
    BY <1>2, <1>3, <1>5, <1>11, <2>3 DEF Pulled
  <2>8. new = Respanned(s, s.start, end)
    <3>1. s \in [id : Nat, start : 0..SongLength, end : 0..SongLength, locked : BOOLEAN, named : BOOLEAN]
      BY DEF SectionSet
    <3> QED BY <2>7, <3>1 DEF Respanned
  <2>9. new \in SectionSet /\ new.id = s.id /\ new.start = s.start /\ new.end = end
    <3>1. PICK p \in 0..SongLength, q \in 0..SongLength : p = s.start /\ q = end /\ p <= q
      BY <1>1, <1>4, <2>6
    <3> QED BY <2>8, <3>1, RespanIs
  <2>10. ASSUME Stays(does) PROVE Clear(list, id, new.start, new.end)
    <3>1. /\ s.end <= b
          /\ \A i \in DOMAIN list : list[i].id # id => b <= list[i].start \/ list[i].end <= s.start
      BY <1>2, <1>3, <2>1, <2>10, RightBoundIs
    <3>2. s.start < end
      BY <1>4, <1>7, <2>6, <2>10, <3>1
    <3>3. ASSUME NEW i \in DOMAIN list, list[i].id # id PROVE ~Overlap(s.start, end, list[i])
      BY <1>4, <1>8, <2>6, <3>1, <3>3 DEF Overlap
    <3> QED BY <2>9, <3>2, <3>3 DEF Clear
  <2> QED BY <1>2, <1>3, <1>5, <2>9, <2>10
<1> QED BY <1>6, <1>9, <1>10, <1>11

(* The first gap is one.                                                   *)
LEMMA FirstGapIs ==
    ASSUME NEW list \in SectionLists
    PROVE  /\ FirstGap(list).start \in 0..SongLength /\ FirstGap(list).end \in 0..SongLength
           /\ FirstGap(list).start < FirstGap(list).end
<1>1. PICK n \in Nat : n = SongLength /\ n >= 1
  BY SectionsAssumption
<1>2. PICK w \in Nat : w = DefaultWidth /\ w >= 1
  BY SectionsAssumption
<1>3. PICK ends : ends = {0} \cup {s.end : s \in ToSet(list)}
  OBVIOUS
<1>4. PICK free : free = {at \in ends : \A s \in ToSet(list) : s.end <= at \/ s.start - at >= DefaultWidth}
  OBVIOUS
<1>5. PICK first : first = CHOOSE at \in free : \A later \in free : at <= later
  OBVIOUS
<1>6. \A s \in ToSet(list) : s.end \in 0..n
  <2>1. \A i \in DOMAIN list : list[i] \in SectionSet
    BY ListIs
  <2> QED BY <1>1, <2>1, SectionIs DEF ToSet
<1>7. \A at \in ends : at \in 0..n
  BY <1>3, <1>6
<1>8. PICK last \in ends : \A at \in ends : at <= last
  <2>1. ends \in SUBSET (0..n) /\ ends # {}
    BY <1>3, <1>7
  <2> QED BY <2>1, GreatestOf
<1>9. last \in free
  BY <1>3, <1>4, <1>8
<1>10. first \in 0..n
  <2>1. free \in SUBSET Nat /\ free # {}
    BY <1>4, <1>7, <1>9
  <2>2. first \in free
    BY <1>5, <2>1, LeastOf
  <2> QED BY <1>4, <1>7, <2>2
<1>11. PICK start : start = Least(first, n - 1)
  OBVIOUS
<1>12. start \in 0..(n - 1)
  BY <1>1, <1>10, <1>11 DEF Least
<1>13. FirstGap(list) = [start |-> start, end |-> Least(start + w, n)]
  BY <1>1, <1>2, <1>3, <1>4, <1>5, <1>11 DEF FirstGap
<1>14. Least(start + w, n) \in 0..n /\ start < Least(start + w, n)
  BY <1>1, <1>2, <1>12 DEF Least
<1> QED BY <1>1, <1>12, <1>13, <1>14

(* A new section is on no other.                                           *)
LEMMA NewSectionIs ==
    ASSUME NEW does, NEW list, Ordered(list, does), NEW loop,
           loop = NoLoop \/ (/\ loop.start \in 0..SongLength /\ loop.end \in 0..SongLength
                             /\ loop.start < loop.end),
           NEW b \in NewSectionBounds(list, loop), NEW id \in Nat
    PROVE  /\ Section(id, b.start, b.end) \in SectionSet
           /\ Section(id, b.start, b.end).id = id
           /\ Clear(list, id, Section(id, b.start, b.end).start, Section(id, b.start, b.end).end)
<1>1. list \in SectionLists
  BY DEF Ordered
<1>2. b = (IF loop # NoLoop THEN loop ELSE FirstGap(list))
  BY DEF NewSectionBounds
<1>3. \A s \in ToSet(list) : ~Overlap(b.start, b.end, s)
  BY <1>2 DEF NewSectionBounds
<1>4. b.start \in 0..SongLength /\ b.end \in 0..SongLength /\ b.start < b.end
  BY <1>1, <1>2, FirstGapIs
<1>5. PICK start \in 0..SongLength, end \in 0..SongLength : start = b.start /\ end = b.end /\ start < end
  BY <1>4
<1>6. PICK s : s = Section(id, start, end)
  OBVIOUS
<1>7. /\ s \in [id : Nat, start : 0..SongLength, end : 0..SongLength, locked : BOOLEAN, named : BOOLEAN]
      /\ s.id = id /\ s.start = start /\ s.end = end
  BY <1>6 DEF Section
<1>8. start <= end
  BY <1>5, SectionsAssumption
<1>9. s \in SectionSet
  BY <1>7, <1>8 DEF SectionSet
<1>10. Clear(list, id, start, end)
  BY <1>3, <1>5 DEF Clear, ToSet
<1> QED BY <1>5, <1>6, <1>7, <1>9, <1>10

AnyHand == {NoHand} \cup SectionHands
Ribbons == [track : Songs, list : SectionLists, version : Nat, stale : BOOLEAN,
            timer : BOOLEAN, armed : BOOLEAN, hand : AnyHand, next : Nat]
StoredLists == [list : SectionLists, version : Nat, stale : BOOLEAN]
Sent == [track : Songs, stored : StoredLists]
SceneSet == [does : SUBSET {"add", "delete", "lock", "rename", "clear", "move", "resize", "open", "leave", "lose"},
             edits : Nat,
             loop : {NoLoop} \cup {l \in [start : 0..SongLength, end : 0..SongLength] : l.start < l.end}]

Under(list, bound) == \A id \in Ids(list) : id < bound

HandOK(list, hand, does) ==
    /\ hand.id \in Ids(list)
    /\ Stays(does) => hand.edge # "whole" /\ Clear(list, hand.id, hand.start, hand.end)
RibbonOK(r, does) ==
    /\ r \in Ribbons /\ Ordered(r.list, does)
    /\ Under(r.list, r.next) /\ r.version < r.next
    /\ r.hand # NoHand => HandOK(r.list, r.hand, does)
StoredOK(s, does, next) ==
    s \in StoredLists /\ Ordered(s.list, does) /\ Under(s.list, next) /\ s.version < next
ChainOK(c, does, next) == c \in Seq(Sent) /\ \A i \in DOMAIN c : StoredOK(c[i].stored, does, next)
KeptOK(k, does, next) == k \in [Songs -> StoredLists] /\ \A t \in Songs : StoredOK(k[t], does, next)
ComingOK(c, does, next) == c \subseteq Sent /\ \A a \in c : StoredOK(a.stored, does, next)

SectionsInv ==
    /\ script \in SceneSet
    /\ RibbonOK(ribbon, script.does)
    /\ ChainOK(chain, script.does, ribbon.next)
    /\ KeptOK(kept, script.does, ribbon.next)
    /\ ComingOK(coming, script.does, ribbon.next)

(* What holds a section is none of the hands that hold nothing.            *)
LEMMA HandIs ==
    ASSUME NEW r \in Ribbons, r.hand # NoHand
    PROVE  r.hand \in SectionHands
BY DEF Ribbons, AnyHand

LEMMA IdsAreNumbers == ASSUME NEW list \in SectionLists PROVE \A id \in Ids(list) : id \in Nat
<1>1. \A i \in DOMAIN list : list[i].id \in Nat
  BY ListIs, SectionIs
<1> QED BY <1>1 DEF Ids

(* More edits make room for what there is.                                 *)
LEMMA RoomGrows ==
    ASSUME NEW s, NEW does, NEW next \in Nat, NEW more \in Nat, next <= more, StoredOK(s, does, next)
    PROVE  StoredOK(s, does, more)
<1>1. s.list \in SectionLists /\ s.version \in Nat
  BY DEF StoredOK, StoredLists
<1>2. PICK v \in Nat : v = s.version
  BY <1>1
<1>3. v < more
  BY <1>2 DEF StoredOK
<1>4. Under(s.list, more)
  BY <1>1, IdsAreNumbers DEF StoredOK, Under
<1> QED BY <1>2, <1>3, <1>4 DEF StoredOK

LEMMA SpentScript ==
    ASSUME script \in SceneSet, NEW what, SectionActs(what), SectionSpent
    PROVE  script' \in SceneSet /\ script'.does = script.does
BY DEF SceneSet, SectionActs, SectionSpent

(* A change of the list.                                                   *)
LEMMA ChangedParts ==
    ASSUME NEW o \in Ribbons, o = ribbon, NEW list \in SectionLists, NEW c, c = Changed(list)
    PROVE  c \in Ribbons /\ c.list = list /\ c.hand = o.hand /\ c.version = o.next /\ c.next = o.next + 1
<1>1. PICK a \in BOOLEAN : a = IF list = <<>> THEN FALSE ELSE o.armed
  BY DEF Ribbons
<1>2. PICK v \in Nat, w \in Nat : v = o.next /\ w = v + 1
  BY DEF Ribbons
<1>3. c = [o EXCEPT !.list = list, !.timer = TRUE, !.version = v, !.next = w, !.armed = a]
  BY <1>1, <1>2 DEF Changed
<1>4. c \in Ribbons /\ c.list = list /\ c.hand = o.hand /\ c.next = w /\ c.version = v
  BY <1>3 DEF Ribbons
<1> QED BY <1>2, <1>4

LEMMA GrownIs ==
    ASSUME NEW does, NEW o \in Ribbons, o.hand = NoHand, NEW list, Ordered(list, does),
           Under(list, o.next + 1),
           NEW r \in Ribbons, r.list = list, r.hand = NoHand, r.version = o.next, r.next = o.next + 1
    PROVE  RibbonOK(r, does)
<1>1. PICK n \in Nat : n = o.next
  BY DEF Ribbons
<1> QED BY <1>1 DEF RibbonOK

LEMMA RibbonMoves ==
    ASSUME SectionsInv, script' \in SceneSet, script'.does = script.does,
           NEW r, r = ribbon', RibbonOK(r, script.does), ribbon.next <= r.next,
           UNCHANGED <<chain, kept, coming>>
    PROVE  SectionsInv'
<1>1. PICK n \in Nat, m \in Nat : n = ribbon.next /\ m = r.next /\ n <= m
  BY DEF SectionsInv, RibbonOK, Ribbons
<1>2. ChainOK(chain, script.does, m)
  BY <1>1, RoomGrows DEF SectionsInv, ChainOK
<1>3. KeptOK(kept, script.does, m)
  BY <1>1, RoomGrows DEF SectionsInv, KeptOK
<1>4. ComingOK(coming, script.does, m)
  BY <1>1, RoomGrows DEF SectionsInv, ComingOK
<1> QED BY <1>1, <1>2, <1>3, <1>4 DEF SectionsInv

LEMMA RibbonStays ==
    ASSUME SectionsInv, script' \in SceneSet, script'.does = script.does,
           NEW r, r = ribbon', RibbonOK(r, script.does), r.next = ribbon.next,
           UNCHANGED <<chain, kept, coming>>
    PROVE  SectionsInv'
<1>1. ribbon.next <= ribbon.next
  BY DEF SectionsInv, RibbonOK, Ribbons
<1> QED BY <1>1, RibbonMoves

(* A change of the list by the user.                                       *)
LEMMA EditIs ==
    ASSUME SectionsInv, NEW what, SectionActs(what), SectionSpent, UNCHANGED <<chain, kept, coming>>,
           NEW list, Ordered(list, script.does), Ids(list) \subseteq Ids(ribbon.list),
           ribbon' = Changed(list)
    PROVE  SectionsInv'
<1>1. RibbonOK(ribbon, script.does) /\ ribbon.hand = NoHand /\ script \in SceneSet
  BY DEF SectionsInv, SectionActs
<1>2. PICK o, r : o \in Ribbons /\ o = ribbon /\ r = ribbon' /\ o.next \in Nat /\ Under(o.list, o.next)
  BY <1>1 DEF RibbonOK, Ribbons
<1>3. r \in Ribbons /\ r.list = list /\ r.hand = o.hand /\ r.version = o.next /\ r.next = o.next + 1
  BY <1>2, ChangedParts DEF Ordered
<1>4. Under(list, o.next + 1)
  <2>1. \A id \in Ids(list) : id \in Nat /\ id < o.next
    BY <1>2, IdsAreNumbers DEF Under, Ordered
  <2> QED BY <1>2, <2>1 DEF Under
<1>5. RibbonOK(r, script.does) /\ o.next <= r.next
  BY <1>1, <1>2, <1>3, <1>4, GrownIs
<1> QED BY <1>1, <1>2, <1>5, SpentScript, RibbonMoves

LEMMA AddKeeps == ASSUME SectionsInv, AddSection PROVE SectionsInv'
<1>1. SectionActs("add") /\ SectionSpent /\ UNCHANGED <<chain, kept, coming>>
  BY DEF AddSection
<1>2. RibbonOK(ribbon, script.does) /\ ribbon.hand = NoHand /\ script \in SceneSet
  BY <1>1 DEF SectionsInv, SectionActs
<1>3. PICK b \in NewSectionBounds(ribbon.list, script.loop) :
         ribbon' = Changed(Append(ribbon.list, Section(ribbon.next, b.start, b.end)))
  BY DEF AddSection
<1>4. PICK id, list : id \in Nat /\ id = ribbon.next /\ list = ribbon.list /\ Ordered(list, script.does) /\ Under(list, id)
  BY <1>2 DEF RibbonOK, Ribbons
<1>5. PICK new : new = Section(id, b.start, b.end)
  OBVIOUS
<1>6. script.loop = NoLoop \/ (/\ script.loop.start \in 0..SongLength /\ script.loop.end \in 0..SongLength
                               /\ script.loop.start < script.loop.end)
  BY <1>2 DEF SceneSet
<1>7. new \in SectionSet /\ new.id = id /\ Clear(list, id, new.start, new.end)
  BY <1>3, <1>4, <1>5, <1>6, NewSectionIs
<1>8. id \notin Ids(list)
  BY <1>4 DEF Under
<1>9. PICK more : more = Append(list, new)
  OBVIOUS
<1>10. Ordered(more, script.does) /\ Ids(more) = Ids(list) \cup {id}
  BY <1>4, <1>7, <1>8, <1>9, AppendIs
<1>11. Under(more, id + 1)
  <2>1. \A k \in Ids(list) : k \in Nat
    <3>1. \A i \in DOMAIN list : list[i].id \in Nat
      BY <1>4, ListIs, SectionIs DEF Ordered
    <3> QED BY <3>1 DEF Ids
  <2> QED BY <1>4, <1>10, <2>1 DEF Under
<1>12. PICK o, c : o \in Ribbons /\ o = ribbon /\ c = Changed(more) /\ o.next = id
  BY <1>2, <1>4 DEF RibbonOK
<1>13. c \in Ribbons /\ c.list = more /\ c.hand = NoHand /\ c.version = o.next /\ c.next = o.next + 1
  BY <1>2, <1>4, <1>10, <1>12, ChangedParts DEF Ordered
<1>14. ribbon' = c
  BY <1>3, <1>4, <1>5, <1>9, <1>12
<1>15. RibbonOK(c, script.does) /\ o.next <= c.next
  BY <1>2, <1>4, <1>10, <1>11, <1>12, <1>13, GrownIs
<1> QED BY <1>1, <1>2, <1>12, <1>14, <1>15, SpentScript, RibbonMoves

LEMMA DeleteKeeps == ASSUME SectionsInv, NEW id, DeleteSection(id) PROVE SectionsInv'
<1>1. /\ SectionActs("delete") /\ SectionSpent /\ UNCHANGED <<chain, kept, coming>>
      /\ ribbon' = Changed(Others(ribbon.list, id))
  BY DEF DeleteSection
<1>2. Ordered(ribbon.list, script.does)
  BY DEF SectionsInv, RibbonOK
<1> QED BY <1>1, <1>2, OthersIs, EditIs

(* A section keeps its place.                                              *)
LEMMA SamePlace ==
    ASSUME NEW does, NEW list, Ordered(list, does), NEW id \in Ids(list), NEW new,
           \/ new = [Of(list, id) EXCEPT !.locked = ~@]
           \/ new = [Of(list, id) EXCEPT !.named = TRUE]
    PROVE  Ordered(Put(list, new), does) /\ Ids(Put(list, new)) = Ids(list)
<1>1. PICK s \in SectionSet : s = Of(list, id) /\ s.id = id /\ (Stays(does) => Clear(list, id, s.start, s.end))
  BY OfIs
<1>2. s \in [id : Nat, start : 0..SongLength, end : 0..SongLength, locked : BOOLEAN, named : BOOLEAN]
      /\ s.start <= s.end
  BY DEF SectionSet
<1>3. /\ new \in [id : Nat, start : 0..SongLength, end : 0..SongLength, locked : BOOLEAN, named : BOOLEAN]
      /\ new.id = s.id /\ new.start = s.start /\ new.end = s.end
  <2>1. CASE new = [s EXCEPT !.locked = ~@]
    BY <1>2, <2>1
  <2>2. CASE new = [s EXCEPT !.named = TRUE]
    BY <1>2, <2>2
  <2> QED BY <1>1, <2>1, <2>2
<1>4. new \in SectionSet
  BY <1>2, <1>3 DEF SectionSet
<1> QED BY <1>1, <1>3, <1>4, PutIs

LEMMA LockKeeps == ASSUME SectionsInv, NEW id \in Ids(ribbon.list), ToggleLock(id) PROVE SectionsInv'
<1>1. PICK new : new = [Of(ribbon.list, id) EXCEPT !.locked = ~@]
  OBVIOUS
<1>2. /\ SectionActs("lock") /\ SectionSpent /\ UNCHANGED <<chain, kept, coming>>
      /\ ribbon' = Changed(Put(ribbon.list, new))
  BY <1>1 DEF ToggleLock
<1>3. Ordered(ribbon.list, script.does)
  BY DEF SectionsInv, RibbonOK
<1>4. Ordered(Put(ribbon.list, new), script.does) /\ Ids(Put(ribbon.list, new)) \subseteq Ids(ribbon.list)
  BY <1>1, <1>3, SamePlace
<1> QED BY <1>2, <1>4, EditIs

LEMMA RenameKeeps == ASSUME SectionsInv, NEW id \in Ids(ribbon.list), Rename(id) PROVE SectionsInv'
<1>1. PICK new : new = [Of(ribbon.list, id) EXCEPT !.named = TRUE]
  OBVIOUS
<1>2. /\ SectionActs("rename") /\ SectionSpent /\ UNCHANGED <<chain, kept, coming>>
      /\ ribbon' = Changed(Put(ribbon.list, new))
  BY <1>1 DEF Rename
<1>3. Ordered(ribbon.list, script.does)
  BY DEF SectionsInv, RibbonOK
<1>4. Ordered(Put(ribbon.list, new), script.does) /\ Ids(Put(ribbon.list, new)) \subseteq Ids(ribbon.list)
  BY <1>1, <1>3, SamePlace
<1> QED BY <1>2, <1>4, EditIs

LEMMA NoSections == ASSUME NEW does PROVE Ordered(<<>>, does) /\ Ids(<<>>) = {}
<1>1. PICK e \in Seq(SectionSet) : e = <<>> /\ Len(e) = 0 /\ DOMAIN e = {}
  <2>1. <<>> \in Seq(SectionSet) /\ Len(<<>>) = 0 /\ DOMAIN <<>> = {}
    BY EmptySeq
  <2> QED BY <2>1
<1>2. e \in SectionLists /\ Neat(e) /\ Ids(e) = {}
  BY <1>1 DEF SectionLists, Neat, Ids
<1> QED BY <1>1, <1>2 DEF Ordered

(* The list, the hand and the count of edits stay as they are.             *)
LEMMA FlagsOnly ==
    ASSUME NEW does, NEW o, RibbonOK(o, does), NEW r \in Ribbons,
           r.list = o.list, r.hand = o.hand, r.next = o.next, r.version = o.version
    PROVE  RibbonOK(r, does)
BY DEF RibbonOK

LEMMA ClearKeeps == ASSUME SectionsInv, PressClear PROVE SectionsInv'
<1>1. SectionActs("clear") /\ SectionSpent /\ UNCHANGED <<chain, kept, coming>>
  BY DEF PressClear
<1>2. CASE ribbon.armed
  <2>1. ribbon' = Changed(<<>>)
    BY <1>2 DEF PressClear
  <2>2. Ids(<<>>) \subseteq Ids(ribbon.list) /\ Ordered(<<>>, script.does)
    BY NoSections
  <2> QED BY <1>1, <2>1, <2>2, EditIs
<1>3. CASE ~ribbon.armed
  <2>1. RibbonOK(ribbon, script.does) /\ ribbon \in Ribbons /\ script \in SceneSet
    BY DEF SectionsInv, RibbonOK
  <2>2. PICK o \in Ribbons : o = ribbon
    BY <2>1
  <2>3. PICK r : r = ribbon' /\ r = [o EXCEPT !.armed = TRUE]
    BY <1>3, <2>2 DEF PressClear
  <2>4. r \in Ribbons /\ r.list = o.list /\ r.hand = o.hand /\ r.next = o.next /\ r.version = o.version
    BY <2>3 DEF Ribbons
  <2>5. RibbonOK(ribbon', script.does)
    BY <2>1, <2>2, <2>3, <2>4, FlagsOnly
  <2> QED BY <1>1, <2>1, <2>2, <2>3, <2>4, <2>5, SpentScript, RibbonStays
<1> QED BY <1>2, <1>3

LEMMA DisarmKeeps == ASSUME SectionsInv, ClearDisarms PROVE SectionsInv'
<1>1. RibbonOK(ribbon, script.does) /\ ribbon \in Ribbons /\ script \in SceneSet
  BY DEF SectionsInv, RibbonOK
<1>2. PICK o \in Ribbons : o = ribbon
  BY <1>1
<1>3. PICK r : r = ribbon' /\ r = [o EXCEPT !.armed = FALSE]
  BY <1>2 DEF ClearDisarms
<1>4. r \in Ribbons /\ r.list = o.list /\ r.hand = o.hand /\ r.next = o.next /\ r.version = o.version
  BY <1>3 DEF Ribbons
<1>5. RibbonOK(ribbon', script.does)
  BY <1>1, <1>2, <1>3, <1>4, FlagsOnly
<1> QED BY <1>1, <1>2, <1>3, <1>4, <1>5, RibbonStays DEF ClearDisarms

LEMMA GripKeeps ==
    ASSUME SectionsInv, NEW id \in Ids(ribbon.list), NEW edge \in {"whole", "left", "right"}, Grip(id, edge)
    PROVE  SectionsInv'
<1>1. /\ SectionActs(IF edge = "whole" THEN "move" ELSE "resize") /\ SectionSpent
      /\ UNCHANGED <<chain, kept, coming>>
  BY DEF Grip
<1>2. RibbonOK(ribbon, script.does) /\ script \in SceneSet
  BY DEF SectionsInv
<1>3. PICK o \in Ribbons : o = ribbon /\ Ordered(o.list, script.does) /\ id \in Ids(o.list)
  BY <1>2 DEF RibbonOK
<1>4. PICK s \in SectionSet : /\ s = Of(o.list, id) /\ s.id = id
                              /\ Stays(script.does) => Clear(o.list, id, s.start, s.end)
  BY <1>3, OfIs
<1>5. PICK h : h = [id |-> id, edge |-> edge, start |-> s.start, end |-> s.end]
  OBVIOUS
<1>6. h \in SectionHands /\ h.id = id /\ h.edge = edge /\ h.start = s.start /\ h.end = s.end
  BY <1>4, <1>5, SectionIs DEF SectionHands
<1>7. PICK r : r = ribbon' /\ r = [o EXCEPT !.hand = h]
  BY <1>3, <1>4, <1>5 DEF Grip
<1>8. h \in AnyHand
  BY <1>6 DEF AnyHand
<1>9. r \in Ribbons /\ r.list = o.list /\ r.hand = h /\ r.next = o.next /\ r.version = o.version
  BY <1>7, <1>8 DEF Ribbons
<1>10. Stays(script.does) => edge # "whole"
  BY <1>1 DEF SectionActs, Stays
<1>11. HandOK(o.list, h, script.does)
  BY <1>3, <1>4, <1>6, <1>10 DEF HandOK
<1>12. RibbonOK(r, script.does)
  BY <1>2, <1>3, <1>9, <1>11 DEF RibbonOK
<1> QED BY <1>1, <1>2, <1>3, <1>7, <1>9, <1>12, SpentScript, RibbonStays

(* The list of the same sections, one on another stretch.                  *)
LEMMA PlacedIs ==
    ASSUME NEW does, NEW o, RibbonOK(o, does), o.hand # NoHand, NEW new \in SectionSet, new.id = o.hand.id,
           Stays(does) => Clear(o.list, new.id, new.start, new.end),
           NEW r \in Ribbons, r.list = Put(o.list, new), r.hand \in {o.hand, NoHand}, r.next = o.next,
           r.version = o.version
    PROVE  RibbonOK(r, does)
<1>1. PICK list, h : list = o.list /\ h = o.hand
  OBVIOUS
<1>2. Ordered(list, does) /\ HandOK(list, h, does) /\ new.id \in Ids(list)
  BY <1>1 DEF RibbonOK, HandOK
<1>3. PICK q : q = Put(list, new)
  OBVIOUS
<1>4. /\ Ordered(q, does) /\ Ids(q) = Ids(list)
      /\ \A start, end : Clear(list, new.id, start, end) => Clear(q, new.id, start, end)
  BY <1>1, <1>2, <1>3, PutIs
<1>5. HandOK(q, h, does)
  BY <1>1, <1>2, <1>4 DEF HandOK
<1>6. Under(q, o.next)
  BY <1>1, <1>4 DEF RibbonOK, Under
<1>7. r.list = q /\ (r.hand # NoHand => r.hand = h)
  BY <1>1, <1>3
<1> QED BY <1>4, <1>5, <1>6, <1>7 DEF RibbonOK

LEMMA PutType ==
    ASSUME NEW does, NEW o, RibbonOK(o, does), NEW new \in SectionSet, new.id \in Ids(o.list),
           Stays(does) => Clear(o.list, new.id, new.start, new.end)
    PROVE  Put(o.list, new) \in SectionLists
BY PutIs DEF RibbonOK, Ordered

LEMMA PullKeeps == ASSUME SectionsInv, NEW by \in Int, Pull(by) PROVE SectionsInv'
<1>1. ribbon.hand # NoHand /\ UNCHANGED <<chain, kept, coming, script>>
  BY DEF Pull
<1>2. RibbonOK(ribbon, script.does) /\ script \in SceneSet
  BY DEF SectionsInv
<1>3. PICK o \in Ribbons : o = ribbon /\ Ordered(o.list, script.does) /\ HandOK(o.list, o.hand, script.does)
  BY <1>1, <1>2 DEF RibbonOK
<1>4. PICK new : new = Pulled(o.list, o.hand, by)
  OBVIOUS
<1>5. o.hand \in SectionHands
  BY <1>1, <1>3, HandIs
<1>6. new \in SectionSet /\ new.id = o.hand.id /\ (Stays(script.does) => Clear(o.list, new.id, new.start, new.end))
  BY <1>3, <1>4, <1>5, PulledIs DEF HandOK
<1>7. PICK q \in SectionLists : q = Put(o.list, new)
  BY <1>2, <1>3, <1>6, PutType DEF HandOK
<1>8. PICK r : r = ribbon' /\ r = [o EXCEPT !.list = q]
  BY <1>3, <1>4, <1>7 DEF Pull
<1>9. r \in Ribbons /\ r.list = q /\ r.hand = o.hand /\ r.next = o.next /\ r.version = o.version
  BY <1>8 DEF Ribbons
<1>10. RibbonOK(r, script.does)
  BY <1>1, <1>2, <1>3, <1>6, <1>7, <1>9, PlacedIs
<1> QED BY <1>1, <1>2, <1>3, <1>8, <1>9, <1>10, RibbonStays

LEMMA CancelKeeps == ASSUME SectionsInv, PointerCancel PROVE SectionsInv'
<1>1. ribbon.hand # NoHand /\ UNCHANGED <<chain, kept, coming, script>>
  BY DEF PointerCancel
<1>2. RibbonOK(ribbon, script.does) /\ script \in SceneSet
  BY DEF SectionsInv
<1>3. PICK o \in Ribbons : o = ribbon /\ Ordered(o.list, script.does) /\ HandOK(o.list, o.hand, script.does)
  BY <1>1, <1>2 DEF RibbonOK
<1>4. PICK h \in SectionHands : h = o.hand /\ h.id \in Ids(o.list)
  BY <1>1, <1>3, HandIs DEF HandOK
<1>5. PICK s \in SectionSet : s = Of(o.list, h.id) /\ s.id = h.id
  BY <1>3, <1>4, OfIs
<1>6. h.start \in 0..SongLength /\ h.end \in 0..SongLength /\ h.start <= h.end
  BY DEF SectionHands
<1>7. PICK new : new = Respanned(s, h.start, h.end)
  OBVIOUS
<1>8. new \in SectionSet /\ new.id = h.id /\ new.start = h.start /\ new.end = h.end
  BY <1>5, <1>6, <1>7, RespanIs
<1>9. Stays(script.does) => Clear(o.list, new.id, new.start, new.end)
  BY <1>3, <1>4, <1>8 DEF HandOK
<1>10. PICK q \in SectionLists : q = Put(o.list, new)
  BY <1>2, <1>3, <1>4, <1>8, <1>9, PutType
<1>11. PICK r : r = ribbon' /\ r = [o EXCEPT !.hand = NoHand, !.list = q]
  BY <1>3, <1>4, <1>5, <1>7, <1>10 DEF PointerCancel, Respanned
<1>12. NoHand \in AnyHand
  BY DEF AnyHand
<1>13. r \in Ribbons /\ r.list = q /\ r.hand = NoHand /\ r.next = o.next /\ r.version = o.version
  BY <1>11, <1>12 DEF Ribbons
<1>14. RibbonOK(r, script.does)
  BY <1>1, <1>2, <1>3, <1>4, <1>8, <1>9, <1>10, <1>13, PlacedIs
<1> QED BY <1>1, <1>2, <1>3, <1>11, <1>13, <1>14, RibbonStays

LEMMA LetGoKeeps == ASSUME SectionsInv, LetGo PROVE SectionsInv'
<1>1. ribbon.hand # NoHand /\ UNCHANGED <<chain, kept, coming, script>>
  BY DEF LetGo
<1>2. RibbonOK(ribbon, script.does) /\ script \in SceneSet
  BY DEF SectionsInv
<1>3. PICK o \in Ribbons : o = ribbon
  BY <1>2 DEF RibbonOK
<1>4. NoHand \in AnyHand
  BY DEF AnyHand
<1>5. PICK v \in Nat, n \in Nat : v = o.version /\ n = o.next /\ v < n
  BY <1>2, <1>3 DEF RibbonOK, Ribbons
<1>6. PICK d : d = [o EXCEPT !.hand = NoHand]
  OBVIOUS
<1>7. d \in Ribbons /\ d.list = o.list /\ d.hand = NoHand /\ d.next = n /\ d.version = v
  BY <1>4, <1>5, <1>6 DEF Ribbons
<1>8. PICK w \in Nat : w = n + 1
  OBVIOUS
<1>9. PICK r : r = ribbon' /\ (r = d \/ r = [d EXCEPT !.timer = TRUE, !.version = n, !.next = w])
  <2>1. ribbon' = d \/ ribbon' = [d EXCEPT !.timer = TRUE, !.version = ribbon.next, !.next = @ + 1]
    BY <1>3, <1>6 DEF LetGo
  <2>2. [d EXCEPT !.timer = TRUE, !.version = ribbon.next, !.next = @ + 1]
          = [d EXCEPT !.timer = TRUE, !.version = n, !.next = w]
    BY <1>3, <1>5, <1>7, <1>8
  <2> QED BY <2>1, <2>2
<1>10. r \in Ribbons /\ r.list = o.list /\ r.hand = NoHand /\ <<r.version, r.next>> \in {<<v, n>>, <<n, w>>}
  <2>1. CASE r = d
    BY <1>7, <2>1
  <2>2. CASE r = [d EXCEPT !.timer = TRUE, !.version = n, !.next = w]
    BY <1>7, <2>2 DEF Ribbons
  <2> QED BY <1>9, <2>1, <2>2
<1>11. r.version < r.next /\ n <= r.next /\ r.next \in {n, w}
  BY <1>5, <1>8, <1>10
<1>12. Under(o.list, r.next)
  <2>1. \A id \in Ids(o.list) : id \in Nat /\ id < n
    BY <1>2, <1>3, <1>5, IdsAreNumbers DEF RibbonOK, Ribbons, Under
  <2> QED BY <1>8, <1>11, <2>1 DEF Under
<1>13. RibbonOK(r, script.does)
  BY <1>2, <1>3, <1>10, <1>11, <1>12 DEF RibbonOK
<1> QED BY <1>1, <1>2, <1>3, <1>5, <1>9, <1>11, <1>13, RibbonMoves

-----------------------------------------------------------------------------
(* Saves and the next track.                                               *)

(* What the timer would send of the ribbon.                                *)
LEMMA OutgoingIs ==
    ASSUME SectionsInv, NEW s, s = [track |-> ribbon.track, stored |-> Stored(ribbon.list, ribbon.version, ribbon.stale)]
    PROVE  /\ s \in Sent /\ StoredOK(s.stored, script.does, ribbon.next)
           /\ s.track = ribbon.track /\ s.stored.version = ribbon.version /\ s.stored.stale = ribbon.stale
<1>1. PICK o \in Ribbons : o = ribbon /\ RibbonOK(o, script.does)
  BY DEF SectionsInv, RibbonOK
<1>2. PICK p : p = Stored(o.list, o.version, o.stale)
  OBVIOUS
<1>3. p \in StoredLists /\ p.list = o.list /\ p.version = o.version /\ p.stale = o.stale
  BY <1>1, <1>2 DEF Stored, StoredLists, Ribbons
<1>4. StoredOK(p, script.does, o.next)
  BY <1>1, <1>3 DEF StoredOK, RibbonOK
<1>5. s = [track |-> o.track, stored |-> p] /\ o.track \in Songs
  BY <1>1, <1>2 DEF Ribbons
<1> QED BY <1>1, <1>3, <1>4, <1>5 DEF Sent

(* The chain with one save more.                                           *)
LEMMA QueuedParts ==
    ASSUME SectionsInv
    PROVE  /\ QueueSave(chain, ribbon) \in Seq(Sent)
           /\ DOMAIN QueueSave(chain, ribbon) = 1..(Len(chain) + 1)
           /\ \A i \in DOMAIN chain : QueueSave(chain, ribbon)[i] = chain[i]
           /\ QueueSave(chain, ribbon)[Len(chain) + 1] =
                [track |-> ribbon.track, stored |-> Stored(ribbon.list, ribbon.version, ribbon.stale)]
           /\ Len(chain) \in Nat /\ DOMAIN chain = 1..Len(chain)
<1>1. PICK s : s = [track |-> ribbon.track, stored |-> Stored(ribbon.list, ribbon.version, ribbon.stale)]
  OBVIOUS
<1>2. s \in Sent
  BY <1>1, OutgoingIs
<1>3. PICK c \in Seq(Sent) : c = chain
  BY DEF SectionsInv, ChainOK
<1>4. Len(c) \in Nat /\ DOMAIN c = 1..Len(c)
  BY LenProperties
<1>5. PICK d : d = Append(c, s)
  OBVIOUS
<1>6. d \in Seq(Sent) /\ DOMAIN d = 1..(Len(c) + 1) /\ (\A i \in 1..Len(c) : d[i] = c[i]) /\ d[Len(c) + 1] = s
  BY <1>2, <1>4, <1>5, AppendProperties
<1>7. d = QueueSave(chain, ribbon)
  BY <1>1, <1>3, <1>5 DEF QueueSave
<1> QED BY <1>1, <1>3, <1>4, <1>6, <1>7

LEMMA QueuedIs ==
    ASSUME SectionsInv
    PROVE  ChainOK(QueueSave(chain, ribbon), script.does, ribbon.next)
<1>1. PICK d, n : d = QueueSave(chain, ribbon) /\ n = Len(chain)
  OBVIOUS
<1>2. d \in Seq(Sent) /\ DOMAIN d = 1..(n + 1) /\ DOMAIN chain = 1..n /\ n \in Nat
      /\ (\A i \in 1..n : d[i] = chain[i])
      /\ d[n + 1] = [track |-> ribbon.track, stored |-> Stored(ribbon.list, ribbon.version, ribbon.stale)]
  BY <1>1, QueuedParts
<1>3. StoredOK(d[n + 1].stored, script.does, ribbon.next)
  BY <1>2, OutgoingIs
<1>4. \A i \in 1..n : StoredOK(d[i].stored, script.does, ribbon.next)
  BY <1>2 DEF SectionsInv, ChainOK
<1>5. \A i \in 1..(n + 1) : i \in 1..n \/ i = n + 1
  BY <1>2
<1> QED BY <1>1, <1>2, <1>3, <1>4, <1>5 DEF ChainOK

LEMMA TimerKeeps == ASSUME SectionsInv, SectionsTimer PROVE SectionsInv'
<1>1. chain' = QueueSave(chain, ribbon) /\ UNCHANGED <<kept, coming, script>>
  BY DEF SectionsTimer
<1>2. RibbonOK(ribbon, script.does)
  BY DEF SectionsInv
<1>3. PICK o \in Ribbons : o = ribbon
  BY <1>2 DEF RibbonOK
<1>4. PICK r : r = ribbon' /\ r = [o EXCEPT !.timer = FALSE]
  BY <1>3 DEF SectionsTimer
<1>5. r \in Ribbons /\ r.list = o.list /\ r.hand = o.hand /\ r.next = o.next /\ r.version = o.version
  BY <1>4 DEF Ribbons
<1>6. RibbonOK(r, script.does)
  BY <1>2, <1>3, <1>5, FlagsOnly
<1>7. ChainOK(chain', script.does, ribbon.next)
  BY <1>1, QueuedIs
<1> QED BY <1>1, <1>3, <1>4, <1>5, <1>6, <1>7 DEF SectionsInv

(* A save leaves the chain, for the server or for nothing.                 *)
LEMMA LeftParts ==
    ASSUME SectionsInv, NEW i \in DOMAIN chain
    PROVE  /\ RemoveAt(chain, i) \in Seq(Sent) /\ DOMAIN RemoveAt(chain, i) = 1..(Len(chain) - 1)
           /\ \A k \in 1..(Len(chain) - 1) : RemoveAt(chain, i)[k] = IF k < i THEN chain[k] ELSE chain[k + 1]
           /\ Len(chain) \in Nat /\ DOMAIN chain = 1..Len(chain)
<1>1. PICK c \in Seq(Sent) : c = chain /\ i \in DOMAIN c
  BY DEF SectionsInv, ChainOK
<1>2. PICK d : d = RemoveAt(c, i)
  OBVIOUS
<1>3. PICK n \in Nat : n = Len(c) /\ DOMAIN c = 1..n
  BY LenProperties
<1>4. /\ d \in Seq(Sent) /\ Len(d) = n - 1
      /\ \A k \in 1..(n - 1) : d[k] = IF k < i THEN c[k] ELSE c[k + 1]
  BY <1>1, <1>2, <1>3, RemoveAtShape
<1>5. DOMAIN d = 1..(n - 1)
  BY <1>4, LenProperties
<1> QED BY <1>1, <1>2, <1>3, <1>4, <1>5

LEMMA LeftChain ==
    ASSUME SectionsInv, NEW i \in DOMAIN chain
    PROVE  ChainOK(RemoveAt(chain, i), script.does, ribbon.next)
<1>1. PICK d, n : d = RemoveAt(chain, i) /\ n = Len(chain)
  OBVIOUS
<1>2. d \in Seq(Sent) /\ DOMAIN d = 1..(n - 1) /\ n \in Nat /\ DOMAIN chain = 1..n
      /\ \A k \in 1..(n - 1) : d[k] = IF k < i THEN chain[k] ELSE chain[k + 1]
  BY <1>1, LeftParts
<1>3. \A k \in 1..(n - 1) : k \in 1..n /\ k + 1 \in 1..n
  BY <1>2
<1>4. \A k \in 1..n : StoredOK(chain[k].stored, script.does, ribbon.next)
  BY <1>2 DEF SectionsInv, ChainOK
<1>5. \A k \in 1..(n - 1) : StoredOK(d[k].stored, script.does, ribbon.next)
  BY <1>2, <1>3, <1>4
<1> QED BY <1>1, <1>2, <1>5 DEF ChainOK

LEMMA LandsKeeps == ASSUME SectionsInv, NEW i \in DOMAIN chain, SaveLands(i) PROVE SectionsInv'
<1>1. /\ kept' = [kept EXCEPT ![chain[i].track] = chain[i].stored]
      /\ chain' = RemoveAt(chain, i) /\ UNCHANGED <<ribbon, coming, script>>
  BY DEF SaveLands
<1>2. PICK s, t : s = chain[i].stored /\ t = chain[i].track
  OBVIOUS
<1>3. StoredOK(s, script.does, ribbon.next)
  BY <1>2 DEF SectionsInv, ChainOK
<1>4. KeptOK(kept, script.does, ribbon.next) /\ s \in StoredLists
  BY <1>3 DEF SectionsInv, StoredOK
<1>5. PICK k : k = kept' /\ k = [kept EXCEPT ![t] = s]
  BY <1>1, <1>2
<1>6. k \in [Songs -> StoredLists] /\ \A x \in Songs : k[x] = s \/ k[x] = kept[x]
  BY <1>4, <1>5 DEF KeptOK
<1>7. KeptOK(k, script.does, ribbon.next)
  BY <1>3, <1>4, <1>6 DEF KeptOK
<1> QED BY <1>1, <1>5, <1>7, LeftChain DEF SectionsInv

LEMMA FailsKeeps == ASSUME SectionsInv, NEW i \in DOMAIN chain, SaveFails(i) PROVE SectionsInv'
BY LeftChain DEF SaveFails, SectionsInv

LEMMA OpenedRibbon ==
    ASSUME NEW does, NEW t \in Songs, NEW next \in Nat, NEW s, StoredOK(s, does, next)
    PROVE  /\ RibbonOK(OpenRibbon(t, s, next), does)
           /\ OpenRibbon(t, s, next) \in Ribbons
           /\ OpenRibbon(t, s, next).track = t /\ OpenRibbon(t, s, next).next = next
           /\ OpenRibbon(t, s, next).version = s.version /\ OpenRibbon(t, s, next).stale = s.stale
<1>1. s.list \in SectionLists /\ s.version \in Nat /\ s.stale \in BOOLEAN
  BY DEF StoredOK, StoredLists
<1>2. PICK r : r = OpenRibbon(t, s, next)
  OBVIOUS
<1>3. r = [track |-> t, list |-> s.list, version |-> s.version, stale |-> s.stale,
           timer |-> FALSE, armed |-> FALSE, hand |-> NoHand, next |-> next]
  BY <1>2 DEF OpenRibbon
<1>4. NoHand \in AnyHand
  BY DEF AnyHand
<1>5. r \in Ribbons /\ r.list = s.list /\ r.hand = NoHand /\ r.next = next /\ r.version = s.version
      /\ r.track = t /\ r.stale = s.stale
  BY <1>1, <1>3, <1>4 DEF Ribbons
<1>6. RibbonOK(r, does)
  BY <1>5 DEF RibbonOK, StoredOK
<1> QED BY <1>2, <1>5, <1>6

(* A list that the server had, opened.                                     *)
LEMMA NextTrack ==
    ASSUME SectionsInv, NEW t \in Songs, NEW s, StoredOK(s, script.does, ribbon.next), NEW c,
           NEW r, r = OpenedNow(t, s, c)
    PROVE  /\ RibbonOK(r, script.does) /\ r \in Ribbons /\ r.track = t /\ r.next = ribbon.next
           /\ r.version = s.version
           /\ r.stale = (s.version # kept[t].version \/ \E i \in DOMAIN c : c[i].track = t)
<1>1. PICK old \in BOOLEAN : old = (s.version # kept[t].version \/ \E i \in DOMAIN c : c[i].track = t)
  OBVIOUS
<1>2. PICK p : p = [s EXCEPT !.stale = old]
  OBVIOUS
<1>3. s \in StoredLists
  BY DEF StoredOK
<1>4. p \in StoredLists /\ p.list = s.list /\ p.version = s.version /\ p.stale = old
  BY <1>2, <1>3 DEF StoredLists
<1>5. StoredOK(p, script.does, ribbon.next)
  BY <1>4 DEF StoredOK
<1>6. r = OpenRibbon(t, p, ribbon.next)
  BY <1>1, <1>2 DEF OpenedNow
<1>7. ribbon.next \in Nat
  BY DEF SectionsInv, RibbonOK, Ribbons
<1> QED BY <1>1, <1>4, <1>5, <1>6, <1>7, OpenedRibbon

LEMMA AskedKeeps == ASSUME SectionsInv, NEW t \in Songs, AskTrack(t) PROVE SectionsInv'
<1>1. /\ SectionActs("open") /\ SectionSpent /\ UNCHANGED <<ribbon, chain, kept>>
      /\ coming' = {[track |-> t, stored |-> kept[t]]}
  BY DEF AskTrack
<1>2. kept[t] \in StoredLists /\ StoredOK(kept[t], script.does, ribbon.next)
  BY DEF SectionsInv, KeptOK
<1>3. PICK s : s = kept[t]
  OBVIOUS
<1>4. PICK a : a = [track |-> t, stored |-> s]
  OBVIOUS
<1>5. a \in Sent /\ a.stored = s
  BY <1>2, <1>3, <1>4 DEF Sent
<1>6. ComingOK({a}, script.does, ribbon.next)
  BY <1>2, <1>3, <1>5 DEF ComingOK
<1>7. script \in SceneSet
  BY DEF SectionsInv
<1> QED BY <1>1, <1>3, <1>4, <1>6, <1>7, SpentScript DEF SectionsInv

LEMMA OpenKeeps == ASSUME SectionsInv, NEW a \in coming, OpenOther(a) PROVE SectionsInv'
<1>1. /\ UNCHANGED <<chain, kept, script>> /\ coming' = {}
      /\ ribbon' = [OpenedNow(a.track, a.stored, chain) EXCEPT !.timer = ribbon.timer]
  BY DEF OpenOther
<1>2. PICK due \in BOOLEAN : due = ribbon.timer
  BY DEF SectionsInv, RibbonOK, Ribbons
<1>3. PICK o : o = OpenedNow(a.track, a.stored, chain)
  OBVIOUS
<1>4. a.track \in Songs /\ StoredOK(a.stored, script.does, ribbon.next)
  BY DEF SectionsInv, ComingOK, Sent
<1>5. RibbonOK(o, script.does) /\ o \in Ribbons /\ o.next = ribbon.next
  BY <1>3, <1>4, NextTrack
<1>6. PICK r : r = ribbon' /\ r = [o EXCEPT !.timer = due]
  BY <1>1, <1>2, <1>3
<1>7. r \in Ribbons /\ r.list = o.list /\ r.hand = o.hand /\ r.next = o.next /\ r.version = o.version
  BY <1>5, <1>6 DEF Ribbons
<1>8. RibbonOK(r, script.does)
  BY <1>5, <1>7, FlagsOnly
<1>9. ComingOK({}, script.does, ribbon.next)
  BY DEF ComingOK
<1> QED BY <1>1, <1>5, <1>6, <1>7, <1>8, <1>9 DEF SectionsInv

LEMMA LeaveRibbon == ASSUME SectionsInv, NEW t \in Songs, LeaveAndOpen(t) PROVE SectionsInv'
<1>1. /\ SectionActs("leave") /\ SectionSpent /\ UNCHANGED <<kept, coming>>
      /\ ribbon' = OpenedNow(t, kept[t], chain)
      /\ chain' = IF ribbon.timer THEN QueueSave(chain, ribbon) ELSE chain
  BY DEF LeaveAndOpen
<1>2. StoredOK(kept[t], script.does, ribbon.next)
  BY DEF SectionsInv, KeptOK
<1>3. PICK r : r = ribbon' /\ r = OpenedNow(t, kept[t], chain)
  BY <1>1
<1>4. RibbonOK(r, script.does) /\ r.next = ribbon.next
  BY <1>2, <1>3, NextTrack
<1>5. ChainOK(chain', script.does, ribbon.next)
  BY <1>1, QueuedIs DEF SectionsInv
<1>6. script \in SceneSet
  BY DEF SectionsInv
<1>7. script' \in SceneSet /\ script'.does = script.does
  BY <1>1, <1>6, SpentScript
<1> QED BY <1>1, <1>3, <1>4, <1>5, <1>7 DEF SectionsInv

-----------------------------------------------------------------------------
(* The whole of it.                                                        *)

LEMMA AnalysedIs ==
    ASSUME NEW does
    PROVE  Ordered(Analysed, does) /\ Under(Analysed, Len(Analysed) + 1) /\ Len(Analysed) \in Nat
<1>1. PICK n \in Nat : n = SongLength
  BY SectionsAssumption
<1>2. PICK q : q = Analysed
  OBVIOUS
<1>3. PICK S : S = {s \in [id : Nat, start : 0..SongLength, end : 0..SongLength,
                           locked : BOOLEAN, named : BOOLEAN] : s.start < s.end}
  OBVIOUS
<1>4. q \in Seq(S) /\ (\A i \in DOMAIN q : q[i].id = i) /\ Apart(q)
  BY <1>2, <1>3, SectionsAssumption
<1>5. \A s \in S : s \in SectionSet /\ s.start < s.end
  <2>1. ASSUME NEW s \in S PROVE s \in SectionSet /\ s.start < s.end
    <3>1. /\ s \in [id : Nat, start : 0..SongLength, end : 0..SongLength, locked : BOOLEAN, named : BOOLEAN]
          /\ s.start < s.end
      BY <1>3
    <3>2. s.start \in 0..n /\ s.end \in 0..n
      BY <1>1, <3>1
    <3>3. s.start <= s.end
      BY <3>1, <3>2
    <3> QED BY <3>1, <3>3 DEF SectionSet
  <2> QED BY <2>1
<1>6. PICK m \in Nat : m = Len(q) /\ DOMAIN q = 1..m
  BY <1>4, LenProperties
<1>7. \A i \in 1..m : q[i] \in S
  BY <1>4, <1>6, ElementOfSeq
<1>8. q \in Seq(SectionSet)
  BY <1>4, <1>5
<1>9. q \in SectionLists
  BY <1>4, <1>6, <1>8 DEF SectionLists
<1>10. Neat(q)
  <2> SUFFICES ASSUME NEW i \in 1..m PROVE Clear(q, q[i].id, q[i].start, q[i].end)
    BY <1>6 DEF Neat
  <2>1. q[i].start < q[i].end
    BY <1>5, <1>7
  <2>2. ASSUME NEW j \in 1..m, q[j].id # q[i].id PROVE ~Overlap(q[i].start, q[i].end, q[j])
    <3>1. q[i] # q[j] /\ q[i] \in ToSet(q) /\ q[j] \in ToSet(q)
      BY <1>6, <2>2 DEF ToSet
    <3> QED BY <1>4, <3>1 DEF Apart
  <2> QED BY <1>6, <2>1, <2>2 DEF Clear
<1>11. Under(q, m + 1)
  <2>2. \A i \in 1..m : q[i].id = i /\ i < m + 1
    BY <1>4, <1>6
  <2> QED BY <1>6, <2>2 DEF Under, Ids
<1> QED BY <1>2, <1>6, <1>9, <1>10, <1>11 DEF Ordered

LEMMA SectionsStart == SectionsInit => SectionsInv
<1> SUFFICES ASSUME SectionsInit PROVE SectionsInv
  OBVIOUS
<1>1. script \in SceneSet
  BY SectionsAssumption DEF SectionsInit, SceneSet
<1>0. Len(Analysed) \in Nat
  BY AnalysedIs
<1>2. PICK s, n : s = Stored(Analysed, 0, FALSE) /\ n = Len(Analysed) + 1 /\ n \in Nat
  <2>1. PICK n : n = Len(Analysed) + 1 /\ n \in Nat
    BY <1>0
  <2> QED BY <2>1
<1>3. s \in StoredLists /\ s.list = Analysed /\ s.version = 0
  BY <1>2, AnalysedIs DEF Stored, StoredLists, Ordered
<1>4. 0 < n
  BY <1>2, AnalysedIs
<1>5. StoredOK(s, script.does, n)
  BY <1>2, <1>3, <1>4, AnalysedIs DEF StoredOK
<1>6. PICK t : t \in Songs /\ ribbon = OpenRibbon(t, s, n)
  BY <1>2 DEF SectionsInit
<1>7. RibbonOK(ribbon, script.does) /\ ribbon.next = n
  <2>1. n \in Nat
    BY <1>2
  <2>2. PICK r : r = OpenRibbon(t, s, n)
    OBVIOUS
  <2>3. RibbonOK(r, script.does) /\ r.next = n
    BY <1>5, <1>6, <2>1, <2>2, OpenedRibbon
  <2> QED BY <1>6, <2>2, <2>3
<1>8. kept = [x \in Songs |-> s]
  BY <1>2 DEF SectionsInit
<1>9. KeptOK(kept, script.does, n)
  BY <1>3, <1>5, <1>8 DEF KeptOK
<1>10. PICK c : c = <<>> /\ c = chain
  BY DEF SectionsInit
<1>11. c \in Seq(Sent) /\ DOMAIN c = {}
  BY <1>10, EmptySeq
<1>12. ChainOK(chain, script.does, n)
  BY <1>10, <1>11 DEF ChainOK
<1>13. ComingOK(coming, script.does, n)
  BY DEF SectionsInit, ComingOK
<1> QED BY <1>1, <1>7, <1>9, <1>12, <1>13 DEF SectionsInv

LEMMA SectionsStep == SectionsInv /\ [SectionsNext]_sectionVars => SectionsInv'
<1> SUFFICES ASSUME SectionsInv, [SectionsNext]_sectionVars PROVE SectionsInv'
  OBVIOUS
<1>1. CASE UNCHANGED sectionVars
  BY <1>1 DEF sectionVars, SectionsInv
<1>2. CASE AddSection
  BY <1>2, AddKeeps
<1>3. CASE PressClear
  BY <1>3, ClearKeeps
<1>4. CASE ClearDisarms
  BY <1>4, DisarmKeeps
<1>5. CASE LetGo
  BY <1>5, LetGoKeeps
<1>6. CASE PointerCancel
  BY <1>6, CancelKeeps
<1>7. CASE SectionsTimer
  BY <1>7, TimerKeeps
<1>8. CASE \E id \in Ids(ribbon.list) : DeleteSection(id)
  BY <1>8, DeleteKeeps
<1>9. CASE \E id \in Ids(ribbon.list) : ToggleLock(id)
  BY <1>9, LockKeeps
<1>10. CASE \E id \in Ids(ribbon.list) : Rename(id)
  BY <1>10, RenameKeeps
<1>11. CASE \E id \in Ids(ribbon.list), edge \in {"whole", "left", "right"} : Grip(id, edge)
  BY <1>11, GripKeeps
<1>12. CASE \E by \in -SongLength..SongLength : Pull(by)
  <2>1. PICK by \in -SongLength..SongLength : Pull(by)
    BY <1>12
  <2>2. by \in Int
    BY SectionsAssumption
  <2> QED BY <2>1, <2>2, PullKeeps
<1>13. CASE \E i \in DOMAIN chain : SaveLands(i)
  BY <1>13, LandsKeeps
<1>14. CASE \E i \in DOMAIN chain : SaveFails(i)
  BY <1>14, FailsKeeps
<1>15. CASE \E t \in Songs : AskTrack(t)
  BY <1>15, AskedKeeps
<1>16. CASE \E a \in coming : OpenOther(a)
  BY <1>16, OpenKeeps
<1>17. CASE \E t \in Songs : LeaveAndOpen(t)
  BY <1>17, LeaveRibbon
<1> QED BY <1>1, <1>2, <1>3, <1>4, <1>5, <1>6, <1>7, <1>8, <1>9, <1>10, <1>11, <1>12, <1>13, <1>14, <1>15, <1>16, <1>17
     DEF SectionsNext

(* As many ids as sections.                                                *)
LEMMA IdsCount == ASSUME NEW list \in SectionLists PROVE Cardinality(Ids(list)) = Len(list)
<1>1. PICK n \in Nat : n = Len(list) /\ DOMAIN list = 1..n
  BY ListIs
<1>2. PICK f : f = [i \in 1..n |-> list[i].id]
  OBVIOUS
<1>3. \A i, j \in 1..n : f[i] = f[j] => i = j
  BY <1>1, <1>2, ListIs
<1>4. f \in [1..n -> Ids(list)] /\ \A id \in Ids(list) : \E i \in 1..n : f[i] = id
  BY <1>1, <1>2 DEF Ids
<1>5. f \in Bijection(1..n, Ids(list))
  BY <1>3, <1>4 DEF Bijection, Injection, Surjection, IsInjective
<1>6. IsFiniteSet(1..n) /\ Cardinality(1..n) = n
  BY FS_Interval
<1>7. Cardinality(Ids(list)) = n
  BY <1>5, <1>6, FS_Bijection DEF ExistsBijection
<1> QED BY <1>1, <1>7

LEMMA SectionsHold == ASSUME SectionsInv PROVE SectionsTypeOK /\ AddedSectionsStayApart
<1>1. RibbonOK(ribbon, script.does) /\ ribbon \in Ribbons /\ ribbon.list \in SectionLists
  BY DEF SectionsInv, RibbonOK, Ribbons
<1>2. PICK list \in SectionLists : list = ribbon.list
  BY <1>1
<1>3. ribbon.track \in Songs /\ ribbon.timer \in BOOLEAN /\ ribbon.armed \in BOOLEAN
  BY <1>1 DEF Ribbons
<1>4. \A s \in ToSet(list) : s.start \in 0..SongLength /\ s.end \in 0..SongLength
  <2>1. \A i \in DOMAIN list : list[i] \in SectionSet
    BY ListIs
  <2> QED BY <2>1, SectionIs DEF ToSet
<1>5. Cardinality(Ids(list)) = Len(list)
  BY IdsCount
<1>6. ribbon.hand.id \in Ids(list) \cup {0}
  <2>1. CASE ribbon.hand = NoHand
    <3>1. NoHand.id = 0
      BY DEF NoHand
    <3> QED BY <2>1, <3>1
  <2>2. CASE ribbon.hand # NoHand
    BY <1>1, <1>2, <2>2 DEF RibbonOK, HandOK
  <2> QED BY <2>1, <2>2
<1>7. \A i \in DOMAIN chain : chain[i].track \in Songs
  <2>1. \A i \in DOMAIN chain : chain[i] \in Sent
    BY ElementOfSeq, LenProperties DEF SectionsInv, ChainOK
  <2> QED BY <2>1 DEF Sent
<1>9. \A a \in coming : a.track \in Songs /\ kept[a.track].version \in Nat
  BY DEF SectionsInv, ComingOK, KeptOK, Sent, StoredLists
<1>8. ASSUME Stays(script.does) PROVE Apart(list)
  <2>1. Neat(list)
    BY <1>1, <1>2, <1>8 DEF RibbonOK, Ordered
  <2>2. ASSUME NEW i \in DOMAIN list, NEW j \in DOMAIN list, list[i] # list[j]
        PROVE  ~Overlap(list[i].start, list[i].end, list[j])
    <3>1. list[i].id # list[j].id
      <4>1. i # j
        BY <2>2
      <4> QED BY <4>1, ListIs
    <3> QED BY <2>1, <3>1 DEF Neat, Clear
  <2> QED BY <2>2 DEF Apart, ToSet
<1> QED BY <1>2, <1>3, <1>4, <1>5, <1>6, <1>7, <1>8, <1>9 DEF SectionsTypeOK, AddedSectionsStayApart, Stays

(* As long as sections are only added, cut, renamed and resized by their   *)
(* edges, no two overlap, whatever is cancelled, saved, lost or opened     *)
(* again meanwhile (sections.js, _newSectionBounds and the drags).         *)
THEOREM SectionsStayApart == SectionsSpec => [](SectionsTypeOK /\ AddedSectionsStayApart)
<1>1. SectionsInv => SectionsTypeOK /\ AddedSectionsStayApart
  BY SectionsHold
<1> QED BY <1>1, SectionsStart, SectionsStep, PTL DEF SectionsSpec

-----------------------------------------------------------------------------
(***************************************************************************)
(* The saves of the sections, for any tracks, any sections and any scene.  *)
(* SavesInv is about the lists that were not stale when they were opened:  *)
(* nothing of their track is ahead of them, neither on the server nor      *)
(* before them in the chain.  With the ids' part of SectionsInv (an edit's *)
(* number is new) it is inductive: the chain is a queue, and a list that   *)
(* is opened while a save of its track waits in it is stale.               *)
(***************************************************************************)

ServerIsBehind ==
    \A i \in DOMAIN chain :
       ~chain[i].stored.stale => kept[chain[i].track].version <= chain[i].stored.version
ChainIsOrdered ==
    \A i, j \in DOMAIN chain :
       i < j /\ chain[i].track = chain[j].track /\ ~chain[j].stored.stale
         => chain[i].stored.version <= chain[j].stored.version
RibbonIsAhead ==
    ~ribbon.stale =>
      /\ kept[ribbon.track].version <= ribbon.version
      /\ \A i \in DOMAIN chain : chain[i].track = ribbon.track => chain[i].stored.version <= ribbon.version

SavesInv == ServerIsBehind /\ ChainIsOrdered /\ RibbonIsAhead

LEMMA SavesTypes ==
    ASSUME SectionsInv
    PROVE  /\ ribbon.version \in Nat /\ ribbon.next \in Nat /\ ribbon.version < ribbon.next
           /\ ribbon.track \in Songs /\ ribbon.stale \in BOOLEAN
           /\ \A t \in Songs : kept[t].version \in Nat /\ kept[t].version < ribbon.next
           /\ \A i \in DOMAIN chain : /\ chain[i].track \in Songs
                                      /\ chain[i].stored.version \in Nat /\ chain[i].stored.version < ribbon.next
           /\ \A a \in coming : a.track \in Songs /\ StoredOK(a.stored, script.does, ribbon.next)
<1>1. \A i \in DOMAIN chain : chain[i] \in Sent
  BY ElementOfSeq, LenProperties DEF SectionsInv, ChainOK
<1> QED BY <1>1 DEF SectionsInv, RibbonOK, Ribbons, ChainOK, KeptOK, ComingOK, StoredOK, StoredLists, Sent

(* An edit, or none, of the list that is open.                             *)
LEMMA EditKeeps ==
    ASSUME SectionsInv, SavesInv, UNCHANGED <<chain, kept>>,
           ribbon'.track = ribbon.track, ribbon'.stale = ribbon.stale,
           ribbon'.version \in {ribbon.version, ribbon.next}
    PROVE  SavesInv'
<1>1. RibbonIsAhead'
  <2>1. PICK v \in Nat, w \in Nat : v = ribbon.version /\ w = ribbon'.version /\ v <= w /\ w \in {v, ribbon.next}
    BY SavesTypes
  <2>2. CASE w = v
    BY <2>1, <2>2 DEF SavesInv, RibbonIsAhead
  <2>3. CASE w = ribbon.next
    BY <2>1, <2>3, SavesTypes DEF SavesInv, RibbonIsAhead
  <2> QED BY <2>1, <2>2, <2>3
<1> QED BY <1>1 DEF SavesInv, ServerIsBehind, ChainIsOrdered

(* The list that is open joins the chain.                                  *)
LEMMA QueueKeeps ==
    ASSUME SectionsInv, SavesInv, NEW d, d = QueueSave(chain, ribbon)
    PROVE  /\ \A i \in DOMAIN d : ~d[i].stored.stale => kept[d[i].track].version <= d[i].stored.version
           /\ \A i, j \in DOMAIN d : i < j /\ d[i].track = d[j].track /\ ~d[j].stored.stale
                                       => d[i].stored.version <= d[j].stored.version
           /\ ~ribbon.stale => \A i \in DOMAIN d : d[i].track = ribbon.track => d[i].stored.version <= ribbon.version
<1>1. PICK n : n = Len(chain) /\ n \in Nat /\ DOMAIN chain = 1..n /\ DOMAIN d = 1..(n + 1)
               /\ (\A i \in 1..n : d[i] = chain[i])
               /\ d[n + 1] = [track |-> ribbon.track, stored |-> Stored(ribbon.list, ribbon.version, ribbon.stale)]
  BY QueuedParts
<1>2. d[n + 1].track = ribbon.track /\ d[n + 1].stored.version = ribbon.version
      /\ d[n + 1].stored.stale = ribbon.stale
  BY <1>1, OutgoingIs
<1>3. \A i \in 1..(n + 1) : i \in 1..n \/ i = n + 1
  BY <1>1
<1>4. \A i, j \in 1..(n + 1) : i < j => i \in 1..n
  BY <1>1
<1>5. \A i \in DOMAIN d : ~d[i].stored.stale => kept[d[i].track].version <= d[i].stored.version
  BY <1>1, <1>2, <1>3 DEF SavesInv, ServerIsBehind, RibbonIsAhead
<1>6. ~ribbon.stale => \A i \in 1..n : d[i].track = ribbon.track => d[i].stored.version <= ribbon.version
  BY <1>1 DEF SavesInv, RibbonIsAhead
<1>7. ASSUME NEW i \in 1..(n + 1), NEW j \in 1..(n + 1), i < j, d[i].track = d[j].track, ~d[j].stored.stale
      PROVE  d[i].stored.version <= d[j].stored.version
  <2>1. i \in 1..n
    BY <1>4, <1>7
  <2>2. CASE j = n + 1
    BY <1>2, <1>6, <1>7, <2>1, <2>2
  <2>3. CASE j \in 1..n
    BY <1>1, <1>7, <2>1, <2>3 DEF SavesInv, ChainIsOrdered
  <2> QED BY <1>3, <2>2, <2>3
<1>8. ribbon.version <= ribbon.version
  BY SavesTypes
<1>9. ~ribbon.stale => \A i \in DOMAIN d : d[i].track = ribbon.track => d[i].stored.version <= ribbon.version
  BY <1>1, <1>2, <1>3, <1>6, <1>8
<1> QED BY <1>1, <1>5, <1>7, <1>9

(* The first of the chain leaves it, for the server or for nothing.        *)
LEMMA LeavesKeep ==
    ASSUME SectionsInv, SavesInv, 1 \in DOMAIN chain, chain' = RemoveAt(chain, 1), ribbon' = ribbon,
           \/ kept' = kept
           \/ kept' = [kept EXCEPT ![chain[1].track] = chain[1].stored]
    PROVE  SavesInv' /\ \A t \in Songs : kept'[t].version < kept[t].version => kept'[t].stale
<1>1. PICK n : n = Len(chain) /\ n \in Nat /\ DOMAIN chain = 1..n
  BY LeftParts
<1>2. PICK d : d = chain' /\ DOMAIN d = 1..(n - 1)
               /\ \A k \in 1..(n - 1) : d[k] = IF k < 1 THEN chain[k] ELSE chain[k + 1]
  BY <1>1, LeftParts
<1>3. \A k \in 1..(n - 1) : k + 1 \in 2..n /\ k + 1 \in 1..n /\ ~(k < 1)
  BY <1>1
<1>4. \A k \in 1..(n - 1) : d[k] = chain[k + 1]
  BY <1>2, <1>3
<1>5. PICK x, s : x = chain[1].track /\ s = chain[1].stored
  OBVIOUS
<1>6. x \in Songs /\ DOMAIN kept = Songs
  BY <1>5, SavesTypes DEF SectionsInv, KeptOK
<1>7. \A t \in Songs : kept'[t] = kept[t] \/ (t = x /\ kept'[t] = s)
  BY <1>5, <1>6
<1>8. \A k \in 1..(n - 1) : chain[k + 1].track = x /\ ~chain[k + 1].stored.stale
                              => s.version <= chain[k + 1].stored.version
  BY <1>1, <1>3, <1>5 DEF SavesInv, ChainIsOrdered
<1>9. ServerIsBehind'
  <2>1. ASSUME NEW k \in 1..(n - 1), ~d[k].stored.stale PROVE kept'[d[k].track].version <= d[k].stored.version
    <3>1. d[k] = chain[k + 1] /\ k + 1 \in DOMAIN chain /\ d[k].track \in Songs
      BY <1>1, <1>3, <1>4, SavesTypes
    <3>2. CASE kept'[d[k].track] = kept[d[k].track]
      BY <2>1, <3>1, <3>2 DEF SavesInv, ServerIsBehind
    <3>3. CASE d[k].track = x /\ kept'[d[k].track] = s
      BY <1>8, <2>1, <3>1, <3>3
    <3> QED BY <1>7, <3>1, <3>2, <3>3
  <2> QED BY <1>2, <2>1 DEF ServerIsBehind
<1>10. ChainIsOrdered'
  <2>1. \A i, j \in 1..(n - 1) : i < j => i + 1 < j + 1 /\ i + 1 \in DOMAIN chain /\ j + 1 \in DOMAIN chain
    BY <1>1
  <2> SUFFICES ASSUME NEW i \in 1..(n - 1), NEW j \in 1..(n - 1), i < j,
                      d[i].track = d[j].track, ~d[j].stored.stale
               PROVE  d[i].stored.version <= d[j].stored.version
    BY <1>2 DEF ChainIsOrdered
  <2> QED BY <1>4, <2>1 DEF SavesInv, ChainIsOrdered
<1>11. RibbonIsAhead'
  <2>1. ASSUME ~ribbon.stale PROVE kept'[ribbon.track].version <= ribbon.version
    BY <1>1, <1>5, <1>7, <2>1, SavesTypes DEF SavesInv, RibbonIsAhead
  <2>2. ASSUME ~ribbon.stale, NEW k \in 1..(n - 1), d[k].track = ribbon.track
        PROVE  d[k].stored.version <= ribbon.version
    BY <1>1, <1>3, <1>4, <2>2 DEF SavesInv, RibbonIsAhead
  <2> QED BY <1>2, <2>1, <2>2 DEF RibbonIsAhead
<1>12. ASSUME NEW t \in Songs, kept'[t].version < kept[t].version PROVE kept'[t].stale
  <2>1. kept[t].version \in Nat
    BY SavesTypes
  <2>2. t = x /\ kept'[t] = s
    BY <1>7, <1>12, <2>1
  <2>3. SUFFICES ASSUME ~s.stale PROVE FALSE
    BY <2>2
  <2>4. kept[x].version <= s.version
    BY <1>5, <2>3 DEF SavesInv, ServerIsBehind
  <2>5. s.version \in Nat
    BY <1>5, SavesTypes
  <2> QED BY <1>12, <2>1, <2>2, <2>4, <2>5
<1> QED BY <1>9, <1>10, <1>11, <1>12 DEF SavesInv

(* A list is opened: what it does not have is on the server or on its way. *)
LEMMA OpensKeep ==
    ASSUME SectionsInv, SavesInv, UNCHANGED <<chain, kept>>, NEW t \in Songs, ribbon'.track = t,
           NEW s, ribbon'.version = s.version,
           ribbon'.stale = (s.version # kept[t].version \/ \E i \in DOMAIN chain : chain[i].track = t)
    PROVE  SavesInv'
<1>1. kept[t].version <= kept[t].version
  BY SavesTypes
<1>2. RibbonIsAhead'
  BY <1>1 DEF RibbonIsAhead
<1> QED BY <1>2 DEF SavesInv, ServerIsBehind, ChainIsOrdered

LEMMA SavesStart == SectionsInit => SavesInv
<1> SUFFICES ASSUME SectionsInit PROVE SavesInv
  OBVIOUS
<1>1. PICK t, s : t \in Songs /\ s = Stored(Analysed, 0, FALSE) /\ ribbon = OpenRibbon(t, s, Len(Analysed) + 1)
  BY DEF SectionsInit
<1>2. kept = [x \in Songs |-> s] /\ chain = <<>>
  BY <1>1 DEF SectionsInit
<1>3. s.version = 0 /\ ribbon.version = s.version /\ ribbon.track = t
  BY <1>1 DEF Stored, OpenRibbon
<1>4. DOMAIN chain = {}
  BY <1>2, EmptySeq
<1>5. kept[ribbon.track].version = 0
  BY <1>1, <1>2, <1>3
<1>6. 0 <= 0
  OBVIOUS
<1> QED BY <1>6, <1>3, <1>4, <1>5 DEF SavesInv, ServerIsBehind, ChainIsOrdered, RibbonIsAhead

LEMMA SavesStep ==
    ASSUME SectionsInv, SavesInv, [SectionsNext]_sectionVars
    PROVE  SavesInv' /\ [\A t \in Songs : kept'[t].version < kept[t].version => kept'[t].stale]_sectionVars
<1> DEFINE Forward == \A t \in Songs : kept'[t].version < kept[t].version => kept'[t].stale
<1>1. CASE UNCHANGED sectionVars
  BY <1>1 DEF sectionVars, SavesInv, ServerIsBehind, ChainIsOrdered, RibbonIsAhead
<1>2. ASSUME kept' = kept PROVE Forward
  <2>1. \A t \in Songs : ~(kept[t].version < kept[t].version)
    BY SavesTypes
  <2> QED BY <1>2, <2>1
<1>3. PICK o \in Ribbons : o = ribbon
  BY DEF SectionsInv, RibbonOK
<1>4. ASSUME NEW list PROVE /\ Changed(list).track = ribbon.track /\ Changed(list).stale = ribbon.stale
                            /\ Changed(list).version = ribbon.next
  BY <1>3 DEF Changed, Ribbons
<1>5. CASE AddSection
  BY <1>2, <1>4, <1>5, EditKeeps DEF AddSection
<1>6. CASE PressClear
  <2>1. CASE ribbon.armed
    BY <1>2, <1>4, <1>6, <2>1, EditKeeps DEF PressClear
  <2>2. CASE ~ribbon.armed
    <3>1. ribbon' = [o EXCEPT !.armed = TRUE] /\ UNCHANGED <<chain, kept>>
      BY <1>3, <1>6, <2>2 DEF PressClear
    <3> QED BY <1>2, <1>3, <3>1, EditKeeps DEF Ribbons
  <2> QED BY <2>1, <2>2
<1>7. CASE ClearDisarms
  <2>1. ribbon' = [o EXCEPT !.armed = FALSE] /\ UNCHANGED <<chain, kept>>
    BY <1>3, <1>7 DEF ClearDisarms
  <2> QED BY <1>2, <1>3, <2>1, EditKeeps DEF Ribbons
<1>8. CASE LetGo
  <2>1. UNCHANGED <<chain, kept>>
    BY <1>8 DEF LetGo
  <2>2. \/ ribbon' = [o EXCEPT !.hand = NoHand]
        \/ ribbon' = [[o EXCEPT !.hand = NoHand] EXCEPT !.timer = TRUE, !.version = o.next, !.next = @ + 1]
    BY <1>3, <1>8 DEF LetGo
  <2>3. CASE ribbon' = [o EXCEPT !.hand = NoHand]
    BY <1>2, <1>3, <2>1, <2>3, EditKeeps DEF Ribbons
  <2>4. CASE ribbon' = [[o EXCEPT !.hand = NoHand] EXCEPT !.timer = TRUE, !.version = o.next, !.next = @ + 1]
    BY <1>2, <1>3, <2>1, <2>4, EditKeeps DEF Ribbons
  <2> QED BY <2>2, <2>3, <2>4
<1>9. CASE PointerCancel
  <2>1. PICK q : ribbon' = [o EXCEPT !.hand = NoHand, !.list = q]
    BY <1>3, <1>9 DEF PointerCancel
  <2>2. UNCHANGED <<chain, kept>>
    BY <1>9 DEF PointerCancel
  <2> QED BY <1>2, <1>3, <2>1, <2>2, EditKeeps DEF Ribbons
<1>10. CASE SectionsTimer
  <2>1. chain' = QueueSave(chain, ribbon) /\ kept' = kept /\ ribbon' = [o EXCEPT !.timer = FALSE]
    BY <1>3, <1>10 DEF SectionsTimer
  <2>2. ribbon'.track = ribbon.track /\ ribbon'.stale = ribbon.stale /\ ribbon'.version = ribbon.version
    BY <1>3, <2>1 DEF Ribbons
  <2>3. PICK d : d = chain' /\ d = QueueSave(chain, ribbon)
    BY <2>1
  <2>4. SavesInv'
    BY <2>1, <2>2, <2>3, QueueKeeps DEF SavesInv, ServerIsBehind, ChainIsOrdered, RibbonIsAhead
  <2> QED BY <1>2, <2>1, <2>4
<1>11. ASSUME NEW id, DeleteSection(id) \/ ToggleLock(id) \/ Rename(id) PROVE SavesInv' /\ Forward
  BY <1>2, <1>4, <1>11, EditKeeps DEF DeleteSection, ToggleLock, Rename
<1>12. ASSUME NEW id, NEW edge, Grip(id, edge) PROVE SavesInv' /\ Forward
  <2>1. PICK h : ribbon' = [o EXCEPT !.hand = h]
    BY <1>3, <1>12 DEF Grip
  <2>2. UNCHANGED <<chain, kept>>
    BY <1>12 DEF Grip
  <2> QED BY <1>2, <1>3, <2>1, <2>2, EditKeeps DEF Ribbons
<1>13. ASSUME NEW by, Pull(by) PROVE SavesInv' /\ Forward
  <2>1. PICK q : ribbon' = [o EXCEPT !.list = q]
    BY <1>3, <1>13 DEF Pull
  <2>2. UNCHANGED <<chain, kept>>
    BY <1>13 DEF Pull
  <2> QED BY <1>2, <1>3, <2>1, <2>2, EditKeeps DEF Ribbons
<1>14. ASSUME NEW i \in DOMAIN chain, SaveLands(i) PROVE SavesInv' /\ Forward
  BY <1>14, LeavesKeep DEF SaveLands, SendSave
<1>15. ASSUME NEW i \in DOMAIN chain, SaveFails(i) PROVE SavesInv' /\ Forward
  BY <1>15, LeavesKeep DEF SaveFails, SendSave
<1>16. ASSUME NEW t \in Songs, AskTrack(t) PROVE SavesInv' /\ Forward
  BY <1>2, <1>16 DEF AskTrack, SavesInv, ServerIsBehind, ChainIsOrdered, RibbonIsAhead
<1>17. ASSUME NEW a \in coming, OpenOther(a) PROVE SavesInv' /\ Forward
  <2>1. UNCHANGED <<chain, kept>> /\ ribbon' = [OpenedNow(a.track, a.stored, chain) EXCEPT !.timer = ribbon.timer]
    BY <1>17 DEF OpenOther
  <2>2. a.track \in Songs /\ StoredOK(a.stored, script.does, ribbon.next)
    BY SavesTypes
  <2>3. PICK r : r = OpenedNow(a.track, a.stored, chain)
    OBVIOUS
  <2>4. /\ r \in Ribbons /\ r.track = a.track /\ r.version = a.stored.version
        /\ r.stale = (a.stored.version # kept[a.track].version \/ \E i \in DOMAIN chain : chain[i].track = a.track)
    BY ONLY SectionsInv, <2>2, <2>3, NextTrack
  <2>5. ribbon' = [r EXCEPT !.timer = ribbon.timer]
    BY <2>1, <2>3
  <2>6. ribbon'.track = r.track /\ ribbon'.version = r.version /\ ribbon'.stale = r.stale
    BY <2>4, <2>5 DEF Ribbons
  <2> QED BY <1>2, <2>1, <2>2, <2>4, <2>6, OpensKeep
<1>18. ASSUME NEW t \in Songs, LeaveAndOpen(t) PROVE SavesInv' /\ Forward
  <2>1. /\ kept' = kept /\ ribbon' = OpenedNow(t, kept[t], chain) /\ t # ribbon.track
        /\ chain' = IF ribbon.timer THEN QueueSave(chain, ribbon) ELSE chain
    BY <1>18 DEF LeaveAndOpen
  <2>2. StoredOK(kept[t], script.does, ribbon.next)
    BY DEF SectionsInv, KeptOK
  <2>3. /\ ribbon'.track = t /\ ribbon'.version = kept[t].version
        /\ ribbon'.stale = (kept[t].version # kept[t].version \/ \E i \in DOMAIN chain : chain[i].track = t)
    BY <2>1, <2>2, NextTrack
  <2>4. CASE chain' = chain
    BY <1>2, <2>1, <2>3, <2>4, OpensKeep
  <2>5. CASE chain' = QueueSave(chain, ribbon)
    <3>1. PICK d : d = chain' /\ d = QueueSave(chain, ribbon)
      BY <2>5
    <3>2. ServerIsBehind' /\ ChainIsOrdered'
      BY <2>1, <3>1, QueueKeeps DEF ServerIsBehind, ChainIsOrdered
    <3>3. PICK n : n = Len(chain) /\ n \in Nat /\ DOMAIN chain = 1..n /\ DOMAIN d = 1..(n + 1)
                   /\ (\A i \in 1..n : d[i] = chain[i])
                   /\ d[n + 1] = [track |-> ribbon.track,
                                  stored |-> Stored(ribbon.list, ribbon.version, ribbon.stale)]
      BY <3>1, QueuedParts
    <3>4. \A i \in 1..(n + 1) : i \in 1..n \/ i = n + 1
      BY <3>3
    <3>5. \A i \in 1..(n + 1) : d[i].track = t => i \in 1..n
      BY <2>1, <3>3, <3>4
    <3>6. kept[t].version <= kept[t].version
      BY SavesTypes
    <3>7. RibbonIsAhead'
      BY <2>1, <2>3, <3>1, <3>3, <3>5, <3>6 DEF RibbonIsAhead
    <3> QED BY <1>2, <2>1, <3>2, <3>7 DEF SavesInv
  <2> QED BY <2>1, <2>4, <2>5
<1> QED BY <1>1, <1>5, <1>6, <1>7, <1>8, <1>9, <1>10, <1>11, <1>12, <1>13, <1>14, <1>15, <1>16, <1>17, <1>18
     DEF SectionsNext

(* However edits, saves, failures and switches of track follow each other, *)
(* the server's list of a track goes back to an earlier edit only for a    *)
(* list that was stale when it was opened (sections.js, the chain of       *)
(* _queueSaveSnapshot; catalog.js, loadTrackIntoStudio).                   *)
THEOREM OnlyStaleSavesGoBack == SectionsSpec => OnlyStaleListsGoBack
<1>1. SectionsInv /\ SavesInv /\ [SectionsNext]_sectionVars =>
        SavesInv' /\ [\A t \in Songs : kept'[t].version < kept[t].version => kept'[t].stale]_sectionVars
  BY SavesStep
<1> QED BY <1>1, SavesStart, SectionsStart, SectionsStep, PTL DEF SectionsSpec, OnlyStaleListsGoBack

-----------------------------------------------------------------------------
(***************************************************************************)
(* The beat grid, for any tracks, any length of them, any beats an         *)
(* analysis finds in order and any scene: beats and bar marks stay in      *)
(* order.  GridInv says it of the editor, of every snapshot it can go back *)
(* or forward to, of what is on its way to the server, kept there and read *)
(* from it again; one lemma per edit says that it makes a sound grid of a  *)
(* sound grid, and the ripple's takes most of the way: a distance with     *)
(* room for a gap between any two beats is spread over them in whole       *)
(* numbers with a gap between any two.                                     *)
(***************************************************************************)

(* A distance with room for a gap between any two of n beats is spread     *)
(* over them with a gap between any two.                                   *)
LEMMA ProductsGrow == \A n \in Nat, p, q \in Int : p <= q => n * p <= n * q
OBVIOUS

LEMMA Quotient ==
    ASSUME NEW x \in Int, NEW n \in Nat \ {0}
    PROVE  x \div n \in Int /\ n * (x \div n) <= x /\ x < n * (x \div n) + n
OBVIOUS

LEMMA QuotientSteps ==
    ASSUME NEW x \in Int, NEW y \in Int, NEW n \in Nat \ {0}, y >= x + n
    PROVE  y \div n >= x \div n + 1
<1>1. PICK q \in Int : q = x \div n /\ n * q <= x /\ x < n * q + n
  BY Quotient
<1>2. PICK p \in Int : p = y \div n /\ n * p <= y /\ y < n * p + n
  BY Quotient
<1>3. CASE p <= q
  <2>1. PICK a \in Int, b \in Int : a = n * p /\ b = n * q
    OBVIOUS
  <2>2. a <= b
    BY <1>3, <2>1, ProductsGrow
  <2> QED BY <1>1, <1>2, <2>1, <2>2
<1> QED BY <1>1, <1>2, <1>3

LEMMA SpreadSteps ==
    ASSUME NEW n \in Nat \ {0}, NEW d \in Nat, d >= n
    PROVE  /\ \A j \in Int : (d * j) \div n \in Int
           /\ (d * 0) \div n = 0 /\ (d * n) \div n = d
           /\ \A i, j \in Int : i < j => (d * i) \div n + 1 <= (d * j) \div n
<1>1. \A j \in Int : d * j \in Int /\ (d * j) \div n \in Int
  OBVIOUS
<1>2. (d * 0) \div n = 0
  OBVIOUS
<1>3. (d * n) \div n = d
  <2>1. PICK x \in Int : x = d * n
    OBVIOUS
  <2>2. PICK q \in Int : q = x \div n /\ n * q <= x /\ x < n * q + n
    BY <2>1, Quotient
  <2>3. n * d = x
    BY <2>1
  <2>4. CASE q < d
    <3>1. n * (q + 1) <= n * d
      BY <2>4, ProductsGrow
    <3>2. n * (q + 1) = n * q + n
      OBVIOUS
    <3> QED BY <2>2, <2>3, <3>1, <3>2
  <2>5. CASE q > d
    <3>1. n * (d + 1) <= n * q
      BY <2>5, ProductsGrow
    <3>2. n * (d + 1) = n * d + n
      OBVIOUS
    <3> QED BY <2>2, <2>3, <3>1, <3>2
  <2> QED BY <2>1, <2>2, <2>4, <2>5
<1>4. ASSUME NEW i \in Int, NEW j \in Int, i < j PROVE (d * i) \div n + 1 <= (d * j) \div n
  <2>1. d * (i + 1) <= d * j
    BY <1>4, ProductsGrow
  <2>2. d * (i + 1) = d * i + d
    OBVIOUS
  <2>3. PICK x \in Int, y \in Int : x = d * i /\ y = d * j
    OBVIOUS
  <2>4. y >= x + n
    BY <2>1, <2>2, <2>3
  <2> QED BY <2>3, <2>4, QuotientSteps
<1> QED BY <1>1, <1>2, <1>3, <1>4

-----------------------------------------------------------------------------
(* What the editor keeps: beats in order, bar marks in order on them, and  *)
(* anchors among them; and what of it is sent to and kept by the server.   *)

GridBeats == [at : 0..Duration, mine : BOOLEAN]
Marks == [beat : Int, len : Nat]
Contents == {c \in [beats : Seq(0..Duration), bars : Seq(Marks)] : Len(c.beats) >= 1 /\ Sound(c)}
Snaps == {s \in [beats : Seq(GridBeats), bars : Seq(Marks), anchors : SUBSET Nat] :
            Len(s.beats) >= 1 /\ s.anchors \subseteq 1..Len(s.beats) /\ Sound(Content(s))}
Editors == {g \in [track : GridTracks, beats : Seq(GridBeats), bars : Seq(Marks), anchors : SUBSET Nat,
                   undo : Seq(Snaps), redo : Seq(Snaps), dirty : BOOLEAN, timer : BOOLEAN, drag : Nat] :
              Snapshot(g) \in Snaps}

(* What makes beats, marks and anchors a snapshot.                         *)
Rising(beats) == \A i, j \in DOMAIN beats : i < j => beats[i].at < beats[j].at

GridFits(beats, bars, anchors) ==
    /\ Len(beats) >= 1 /\ anchors \subseteq 1..Len(beats)
    /\ Rising(beats) /\ MarksInOrder(bars, Len(beats))

LEMMA SnapIs ==
    ASSUME NEW beats \in Seq(GridBeats), NEW bars \in Seq(Marks), NEW anchors,
           NEW s, s = [beats |-> beats, bars |-> bars, anchors |-> anchors]
    PROVE  /\ s \in Snaps <=> GridFits(beats, bars, anchors)
           /\ s \in Snaps => Content(s) \in Contents
<1>1. PICK n \in Nat : n = Len(beats) /\ DOMAIN beats = 1..n
  OBVIOUS
<1>2. PICK times : times = BeatTimes(beats)
  OBVIOUS
<1>3. DOMAIN times = 1..n /\ \A i \in 1..n : times[i] = beats[i].at
  BY <1>1, <1>2 DEF BeatTimes
<1>4. \A i \in 1..n : times[i] \in 0..Duration
  <2>1. \A i \in 1..n : beats[i] \in GridBeats
    BY <1>1
  <2> QED BY <1>3, <2>1 DEF GridBeats
<1>5. times \in Seq(0..Duration) /\ Len(times) = n
  <2>1. times = [i \in 1..n |-> beats[i].at]
    BY <1>1, <1>2 DEF BeatTimes
  <2> QED BY <1>1, <1>3, <1>4, <2>1
<1>6. PICK c : c = Content(s)
  OBVIOUS
<1>7. c = [beats |-> times, bars |-> bars]
  BY <1>2, <1>6 DEF Content
<1>8. c.beats = times /\ c.bars = bars
  BY <1>7
<1>9. c \in [beats : Seq(0..Duration), bars : Seq(Marks)]
  BY <1>5, <1>7
<1>10. InOrder(times) <=> Rising(beats)
  BY <1>1, <1>3 DEF InOrder, Rising
<1>11. Sound(c) <=> Rising(beats) /\ MarksInOrder(bars, Len(beats))
  BY <1>1, <1>5, <1>8, <1>10 DEF Sound
<1>12. anchors \subseteq 1..Len(beats) => s \in [beats : Seq(GridBeats), bars : Seq(Marks), anchors : SUBSET Nat]
  BY <1>1
<1>13. s \in Snaps <=> /\ s \in [beats : Seq(GridBeats), bars : Seq(Marks), anchors : SUBSET Nat]
                      /\ Len(beats) >= 1 /\ anchors \subseteq 1..Len(beats) /\ Sound(c)
  BY <1>6 DEF Snaps
<1> QED BY <1>1, <1>5, <1>6, <1>8, <1>9, <1>11, <1>12, <1>13 DEF Contents, GridFits

-----------------------------------------------------------------------------
(* The bar marks.                                                          *)

MarksRise(bars) == \A i, j \in DOMAIN bars : i < j => bars[i].beat <= bars[j].beat

LEMMA OnBeatsIs ==
    ASSUME NEW bars \in Seq(Marks), MarksRise(bars), NEW n \in Nat
    PROVE  OnBeats(bars, n) \in Seq(Marks) /\ MarksInOrder(OnBeats(bars, n), n)
<1> DEFINE S == {b \in ToSet(bars) : b.beat \in 1..n}
           R == {p \in Marks \X Marks : p[1].beat <= p[2].beat}
<1>1. \A i \in DOMAIN bars : bars[i] \in Marks
  OBVIOUS
<1>2. \A i, j \in DOMAIN bars : i < j => <<bars[i], bars[j]>> \in R
  BY <1>1 DEF MarksRise
<1>3. PICK r : r = OnBeats(bars, n)
  OBVIOUS
<1>4. r = Filter(bars, S)
  BY <1>3 DEF OnBeats
<1>5. \A b : b \in S => b.beat \in 1..n
  OBVIOUS
<1>6. \A a, b : <<a, b>> \in R => a.beat <= b.beat
  OBVIOUS
<1> HIDE DEF S, R
<1>7. /\ r \in Seq(Marks)
      /\ \A i \in DOMAIN r : r[i] \in S
      /\ \A i, j \in DOMAIN r : i < j => <<r[i], r[j]>> \in R
  BY <1>2, <1>4, FilterIs
<1>8. MarksInOrder(r, n)
  <2>1. \A i \in DOMAIN r : r[i].beat \in 1..n
    BY <1>5, <1>7
  <2>2. \A i, j \in DOMAIN r : i < j => r[i].beat <= r[j].beat
    BY <1>6, <1>7
  <2> QED BY <2>1, <2>2 DEF MarksInOrder
<1> QED BY <1>3, <1>7, <1>8

(* Beats put in or taken away move the marks behind them.                  *)
LEMMA ShiftBarsIs ==
    ASSUME NEW bars \in Seq(Marks), MarksRise(bars), NEW at \in Nat, NEW delta \in {1, -1}, NEW n \in Nat
    PROVE  ShiftBars(bars, at, delta, n) \in Seq(Marks) /\ MarksInOrder(ShiftBars(bars, at, delta, n), n)
<1>1. PICK N \in Nat : N = Len(bars) /\ DOMAIN bars = 1..N
  OBVIOUS
<1>2. PICK moved : moved = [i \in DOMAIN bars |-> IF bars[i].beat >= at THEN [bars[i] EXCEPT !.beat = @ + delta]
                                                 ELSE bars[i]]
  OBVIOUS
<1>3. ASSUME NEW i \in 1..N
      PROVE  /\ bars[i].beat \in Int /\ moved[i] \in Marks
             /\ moved[i].beat = IF bars[i].beat >= at THEN bars[i].beat + delta ELSE bars[i].beat
  <2>1. PICK b \in Marks : b = bars[i]
    BY <1>1
  <2>2. moved[i] = IF b.beat >= at THEN [b EXCEPT !.beat = @ + delta] ELSE b
    BY <1>1, <1>2, <2>1
  <2>3. b.beat \in Int /\ b.beat + delta \in Int
    BY DEF Marks
  <2>4. [b EXCEPT !.beat = @ + delta] = [beat |-> b.beat + delta, len |-> b.len]
    BY DEF Marks
  <2> QED BY <2>1, <2>2, <2>3, <2>4 DEF Marks
<1>4. moved \in Seq(Marks) /\ DOMAIN moved = 1..N
  BY <1>1, <1>2, <1>3
<1>5. MarksRise(moved)
  <2> SUFFICES ASSUME NEW i \in 1..N, NEW j \in 1..N, i < j PROVE moved[i].beat <= moved[j].beat
    BY <1>4 DEF MarksRise
  <2>1. bars[i].beat <= bars[j].beat /\ bars[i].beat \in Int /\ bars[j].beat \in Int
    BY <1>1, <1>3 DEF MarksRise
  <2> QED BY SMTT(60), <1>3, <2>1
<1> QED BY <1>2, <1>4, <1>5, OnBeatsIs DEF ShiftBars

-----------------------------------------------------------------------------
(* Editors.                                                                *)

LEMMA EditorIs ==
    ASSUME NEW g \in Editors
    PROVE  /\ g.track \in GridTracks /\ g.beats \in Seq(GridBeats) /\ g.bars \in Seq(Marks)
           /\ g.undo \in Seq(Snaps) /\ g.redo \in Seq(Snaps)
           /\ g.dirty \in BOOLEAN /\ g.timer \in BOOLEAN /\ g.drag \in Nat
           /\ GridFits(g.beats, g.bars, g.anchors) /\ Snapshot(g) \in Snaps /\ Content(g) \in Contents
<1>1. /\ g.track \in GridTracks /\ g.beats \in Seq(GridBeats) /\ g.bars \in Seq(Marks)
      /\ g.undo \in Seq(Snaps) /\ g.redo \in Seq(Snaps)
      /\ g.dirty \in BOOLEAN /\ g.timer \in BOOLEAN /\ g.drag \in Nat
  BY DEF Editors
<1>2. PICK s : s = [beats |-> g.beats, bars |-> g.bars, anchors |-> g.anchors]
  OBVIOUS
<1>3. s = Snapshot(g) /\ s \in Snaps
  BY <1>2 DEF Snapshot, Editors
<1>4. Content(s) = Content(g)
  BY <1>2 DEF Content
<1> QED BY <1>1, <1>2, <1>3, <1>4, SnapIs

LEMMA EditorFrom ==
    ASSUME NEW track \in GridTracks, NEW beats \in Seq(GridBeats), NEW bars \in Seq(Marks), NEW anchors,
           GridFits(beats, bars, anchors), NEW undo \in Seq(Snaps), NEW redo \in Seq(Snaps),
           NEW dirty \in BOOLEAN, NEW timer \in BOOLEAN, NEW drag \in Nat,
           NEW h, h = [track |-> track, beats |-> beats, bars |-> bars, anchors |-> anchors, undo |-> undo,
                       redo |-> redo, dirty |-> dirty, timer |-> timer, drag |-> drag]
    PROVE  h \in Editors
<1>1. PICK s : s = [beats |-> beats, bars |-> bars, anchors |-> anchors]
  OBVIOUS
<1>2. s \in Snaps
  BY <1>1, SnapIs
<1>3. s = Snapshot(h)
  BY <1>1 DEF Snapshot
<1>4. anchors \in SUBSET Nat
  BY DEF GridFits
<1> QED BY <1>2, <1>3, <1>4 DEF Editors

(* Undo remembers one more, and may forget the oldest.                     *)
LEMMA RememberIs ==
    ASSUME NEW q \in Seq(Snaps), NEW s \in Snaps
    PROVE  Remember(q, s) \in Seq(Snaps)
<1>1. PICK r \in Seq(Snaps) : r = Append(q, s) /\ r # <<>>
  BY AppendProperties
<1>2. Tail(r) \in Seq(Snaps)
  BY <1>1
<1> QED BY <1>1, <1>2 DEF Remember

(* An edit: what was goes to undo, and is going to be saved.               *)
LEMMA EditedIs ==
    ASSUME NEW g \in Editors, NEW beats \in Seq(GridBeats), NEW bars \in Seq(Marks), NEW anchors,
           GridFits(beats, bars, anchors),
           NEW h, h = Commit([PushUndo(g) EXCEPT !.beats = beats, !.bars = bars, !.anchors = anchors])
    PROVE  h \in Editors
<1>1. PICK u \in Seq(Snaps) : u = Remember(g.undo, Snapshot(g))
  <2>1. g.undo \in Seq(Snaps) /\ Snapshot(g) \in Snaps
    BY EditorIs
  <2>2. Remember(g.undo, Snapshot(g)) \in Seq(Snaps)
    BY <2>1, RememberIs
  <2> QED BY <2>2
<1>2. PICK r \in Seq(Snaps) : r = <<>>
  BY EmptySeq
<1>3. h = [track |-> g.track, beats |-> beats, bars |-> bars, anchors |-> anchors, undo |-> u,
           redo |-> r, dirty |-> TRUE, timer |-> TRUE, drag |-> g.drag]
  BY <1>1, <1>2 DEF Commit, PushUndo, Editors
<1> QED BY <1>3, EditorIs, EditorFrom

(* An element put in its place, or taken out of it.                        *)
LEMMA Inserted ==
    ASSUME NEW S, NEW q \in Seq(S), NEW i \in 1 .. (Len(q) + 1), NEW e \in S
    PROVE  \A r : r = InsertAt(q, i, e) =>
              /\ r \in Seq(S) /\ Len(r) = Len(q) + 1 /\ DOMAIN r = 1..(Len(q) + 1)
              /\ \A k \in 1..(Len(q) + 1) : r[k] = IF k < i THEN q[k] ELSE IF k = i THEN e ELSE q[k - 1]
<1> DEFINE r == InsertAt(q, i, e)
<1>1. /\ r \in Seq(S) /\ Len(r) = Len(q) + 1 /\ r[i] = e
      /\ \A k \in 1 .. (i - 1) : r[k] = q[k]
      /\ \A k \in i .. Len(q) : r[k + 1] = q[k]
  BY InsertAtShape
<1> HIDE DEF r
<1>2. PICK n \in Nat : n = Len(q)
  OBVIOUS
<1>3. ASSUME NEW k \in 1..(n + 1) PROVE r[k] = IF k < i THEN q[k] ELSE IF k = i THEN e ELSE q[k - 1]
  <2>1. CASE k < i
    BY <1>1, <1>2, <2>1
  <2>2. CASE k = i
    BY <1>1, <2>2
  <2>3. CASE k > i
    <3>1. PICK j \in i..n : j = k - 1 /\ k = j + 1
      BY <2>3
    <3> QED BY <1>1, <1>2, <2>3, <3>1
  <2> QED BY <2>1, <2>2, <2>3
<1>4. DOMAIN r = 1..(n + 1)
  BY <1>1, <1>2
<1>5. /\ r \in Seq(S) /\ Len(r) = Len(q) + 1 /\ DOMAIN r = 1..(Len(q) + 1)
      /\ \A k \in 1..(Len(q) + 1) : r[k] = IF k < i THEN q[k] ELSE IF k = i THEN e ELSE q[k - 1]
  BY <1>1, <1>2, <1>3, <1>4
<1> QED BY <1>5 DEF r

LEMMA TakenOut ==
    ASSUME NEW S, NEW q \in Seq(S), NEW i \in DOMAIN q
    PROVE  LET n == Len(q)
               r == RemoveAt(q, i)
           IN /\ r \in Seq(S) /\ Len(r) = n - 1 /\ DOMAIN r = 1..(n - 1)
              /\ \A k \in 1..(n - 1) : r[k] = IF k < i THEN q[k] ELSE q[k + 1]
<1> DEFINE r == RemoveAt(q, i)
<1>1. /\ r \in Seq(S) /\ Len(r) = Len(q) - 1
      /\ \A k \in 1 .. (Len(q) - 1) : r[k] = IF k < i THEN q[k] ELSE q[k + 1]
  BY RemoveAtShape
<1> HIDE DEF r
<1>2. DOMAIN r = 1..(Len(q) - 1)
  BY <1>1
<1> QED BY <1>1, <1>2 DEF r

(* A beat put in.                                                          *)
LEMMA InsertBeatIs ==
    ASSUME NEW g \in Editors, NEW t \in 0..Duration
    PROVE  InsertBeat(g, t) \in Editors
<1>1. PICK q \in Seq(GridBeats) : q = g.beats
  BY EditorIs
<1>2. PICK n \in Nat : n = Len(q) /\ DOMAIN q = 1..n
  OBVIOUS
<1>3. \A k \in 1..n : q[k] \in GridBeats /\ q[k].at \in Int
  <2>1. \A k \in 1..n : q[k] \in GridBeats
    BY <1>2
  <2> QED BY <2>1, GridAssumption DEF GridBeats
<1>4. Rising(q) /\ g.anchors \subseteq 1..n /\ g.bars \in Seq(Marks) /\ MarksInOrder(g.bars, n) /\ n >= 1
  BY <1>1, <1>2, EditorIs DEF GridFits
<1>5. SUFFICES ASSUME \A k \in 1..n : q[k].at # t PROVE InsertBeat(g, t) \in Editors
  <2>1. CASE \E k \in DOMAIN q : q[k].at = t
    BY <1>1, <2>1 DEF InsertBeat
  <2> QED BY <1>2, <1>5, <2>1
<1>6. PICK S \in SUBSET (1..n) : S = {k \in DOMAIN q : q[k].at < t}
  BY <1>2
<1>7. PICK m \in 0..n : S = 1..m /\ Cardinality(S) = m
  <2>1. ASSUME NEW i \in S, NEW k \in 1..n, k < i PROVE k \in S
    <3>1. q[k].at < q[i].at /\ q[i].at < t
      BY <1>2, <1>4, <1>6, <2>1 DEF Rising
    <3> QED BY <1>2, <1>3, <1>6, <3>1
  <2> QED BY <2>1, FirstOnes
<1>8. PICK i \in 1..(n + 1) : i = m + 1
  OBVIOUS
<1>9. \A k \in 1..n : IF k < i THEN q[k].at < t ELSE t < q[k].at
  <2>1. \A k \in 1..n : k < i <=> k \in S
    BY <1>7, <1>8
  <2> QED BY <1>2, <1>3, <1>5, <1>6, <2>1
<1>10. PICK b \in GridBeats : b = Beat(t, TRUE) /\ b.at = t
  <2>1. PICK b : b = Beat(t, TRUE)
    OBVIOUS
  <2>2. b \in GridBeats /\ b.at = t
    BY <2>1 DEF Beat, GridBeats
  <2> QED BY <2>1, <2>2
<1>11. PICK r : r = InsertAt(q, i, b)
  OBVIOUS
<1>12. /\ r \in Seq(GridBeats) /\ Len(r) = n + 1 /\ DOMAIN r = 1..(n + 1)
       /\ \A k \in 1..(n + 1) : r[k] = IF k < i THEN q[k] ELSE IF k = i THEN b ELSE q[k - 1]
  <2>1. n = Len(q) /\ i \in 1..(Len(q) + 1)
    BY <1>2
  <2>2. /\ r \in Seq(GridBeats) /\ Len(r) = Len(q) + 1 /\ DOMAIN r = 1..(Len(q) + 1)
        /\ \A k \in 1..(Len(q) + 1) : r[k] = IF k < i THEN q[k] ELSE IF k = i THEN b ELSE q[k - 1]
    <3>1. PICK T : T = GridBeats
      OBVIOUS
    <3>2. q \in Seq(T) /\ b \in T /\ i \in 1..(Len(q) + 1)
      BY <2>1, <3>1
    <3>3. PICK h : h = InsertAt(q, i, b)
      OBVIOUS
    <3>4. /\ h \in Seq(T) /\ Len(h) = Len(q) + 1 /\ DOMAIN h = 1..(Len(q) + 1)
          /\ \A k \in 1..(Len(q) + 1) : h[k] = IF k < i THEN q[k] ELSE IF k = i THEN b ELSE q[k - 1]
      BY <3>2, <3>3, Inserted
    <3> QED BY <1>11, <3>1, <3>3, <3>4
  <2> QED BY <2>1, <2>2
<1>13. Rising(r)
  <2> SUFFICES ASSUME NEW a \in 1..(n + 1), NEW c \in 1..(n + 1), a < c PROVE r[a].at < r[c].at
    BY <1>12 DEF Rising
  <2>1. /\ r[a] = IF a < i THEN q[a] ELSE IF a = i THEN b ELSE q[a - 1]
        /\ r[c] = IF c < i THEN q[c] ELSE IF c = i THEN b ELSE q[c - 1]
    BY <1>12
  <2>2. PICK x, y : x = a - 1 /\ y = c - 1
    OBVIOUS
  <2>3. CASE c = i
    <3>1. a \in 1..n /\ r[a] = q[a] /\ r[c] = b
      BY <2>1, <2>3
    <3> QED BY <1>9, <1>10, <2>3, <3>1
  <2>4. CASE a = i
    <3>1. y \in 1..n /\ r[c] = q[y] /\ r[a] = b /\ ~(y < i)
      BY <2>1, <2>2, <2>4
    <3> QED BY <1>9, <1>10, <3>1
  <2>5. CASE a # i /\ c # i
    <3>1. CASE c < i
      <4>1. a \in 1..n /\ c \in 1..n /\ r[a] = q[a] /\ r[c] = q[c]
        BY <2>1, <3>1
      <4> QED BY <1>2, <1>4, <4>1 DEF Rising
    <3>2. CASE a < i /\ i < c
      <4>1. a \in 1..n /\ y \in 1..n /\ a < y /\ r[a] = q[a] /\ r[c] = q[y]
        BY <2>1, <2>2, <3>2
      <4> QED BY <1>2, <1>4, <4>1 DEF Rising
    <3>3. CASE i < a
      <4>1. x \in 1..n /\ y \in 1..n /\ x < y /\ r[a] = q[x] /\ r[c] = q[y]
        BY <2>1, <2>2, <3>3
      <4> QED BY <1>2, <1>4, <4>1 DEF Rising
    <3> QED BY <2>5, <3>1, <3>2, <3>3
  <2> QED BY <2>3, <2>4, <2>5
<1>14. PICK marks \in Seq(Marks) : marks = ShiftBars(g.bars, i, 1, n + 1) /\ MarksInOrder(marks, n + 1)
  <2>1. MarksRise(g.bars)
    BY <1>4 DEF MarksInOrder, MarksRise
  <2>2. i \in Nat /\ n + 1 \in Nat /\ 1 \in {1, -1}
    OBVIOUS
  <2> QED BY <1>4, <2>1, <2>2, ShiftBarsIs
<1>15. PICK as : as = ShiftAnchors(g.anchors, i, 1) \cup {i}
  OBVIOUS
<1>16. as \subseteq 1..(n + 1)
  BY <1>4, <1>15 DEF ShiftAnchors
<1>17. InsertBeat(g, t) = Commit([PushUndo(g) EXCEPT !.beats = r, !.bars = marks, !.anchors = as])
  <2>1. ~(\E k \in DOMAIN g.beats : g.beats[k].at = t)
    BY <1>1, <1>2, <1>5
  <2>2. 1 + Cardinality({k \in DOMAIN g.beats : g.beats[k].at < t}) = i /\ Len(g.beats) = n
    BY <1>1, <1>2, <1>6, <1>7, <1>8
  <2>3. PushUndo(g).beats = q /\ PushUndo(g).bars = g.bars /\ PushUndo(g).anchors = g.anchors
    BY <1>1 DEF PushUndo, Editors
  <2> QED BY <1>10, <1>11, <1>14, <1>15, <2>1, <2>2, <2>3 DEF InsertBeat
<1>18. GridFits(r, marks, as)
  <2>1. Len(r) = n + 1 /\ n + 1 >= 1
    BY <1>12
  <2> QED BY <1>13, <1>14, <1>16, <2>1 DEF GridFits
<1> QED BY <1>12, <1>17, <1>18, EditedIs

(* A beat taken out.                                                       *)
LEMMA DeleteBeatIs ==
    ASSUME NEW g \in Editors, NEW i \in DOMAIN g.beats
    PROVE  DeleteBeat(g, i) \in Editors
<1>1. PICK q \in Seq(GridBeats) : q = g.beats
  BY EditorIs
<1>2. PICK n \in Nat : n = Len(q) /\ DOMAIN q = 1..n
  OBVIOUS
<1>3. SUFFICES ASSUME n > 2 PROVE DeleteBeat(g, i) \in Editors
  BY <1>1, <1>2 DEF DeleteBeat
<1>4. Rising(q) /\ g.anchors \subseteq 1..n /\ g.bars \in Seq(Marks) /\ MarksInOrder(g.bars, n)
  BY <1>1, <1>2, EditorIs DEF GridFits
<1>5. PICK r : r = RemoveAt(q, i)
  OBVIOUS
<1>6. PICK l \in Nat : l = n - 1 /\ l >= 1
  BY <1>3
<1>7. /\ r \in Seq(GridBeats) /\ Len(r) = l /\ DOMAIN r = 1..l
      /\ \A k \in 1..l : r[k] = IF k < i THEN q[k] ELSE q[k + 1]
  BY <1>1, <1>2, <1>5, <1>6, TakenOut
<1>8. Rising(r)
  <2> SUFFICES ASSUME NEW a \in 1..l, NEW c \in 1..l, a < c PROVE r[a].at < r[c].at
    BY <1>7 DEF Rising
  <2>1. PICK x \in 1..n, y \in 1..n : x < y /\ r[a] = q[x] /\ r[c] = q[y]
    <3>1. (r[a] = IF a < i THEN q[a] ELSE q[a + 1]) /\ (r[c] = IF c < i THEN q[c] ELSE q[c + 1])
      BY <1>7
    <3>2. PICK u \in 1..n, v \in 1..n : u = a + 1 /\ v = c + 1
      BY <1>6
    <3>3. a \in 1..n /\ c \in 1..n
      BY <1>6
    <3>0. i \in 1..n
      BY <1>1, <1>2
    <3>4. CASE c < i
      <4>1. r[a] = q[a] /\ r[c] = q[c]
        BY <3>0, <3>1, <3>4
      <4> QED BY <3>3, <4>1
    <3>5. CASE a < i /\ ~(c < i)
      <4>1. r[a] = q[a] /\ r[c] = q[v] /\ a < v
        BY <3>1, <3>2, <3>5
      <4> QED BY <3>3, <4>1
    <3>6. CASE ~(a < i)
      <4>1. r[a] = q[u] /\ r[c] = q[v] /\ u < v
        BY <3>0, <3>1, <3>2, <3>6
      <4> QED BY <4>1
    <3> QED BY <3>4, <3>5, <3>6
  <2> QED BY <1>2, <1>4, <2>1 DEF Rising
<1>9. PICK marks \in Seq(Marks) : marks = ShiftBars(g.bars, i, -1, l) /\ MarksInOrder(marks, l)
  <2>1. MarksRise(g.bars)
    BY <1>4 DEF MarksInOrder, MarksRise
  <2>2. i \in Nat
    BY <1>1, <1>2
  <2> QED BY <1>4, <2>1, <2>2, ShiftBarsIs
<1>10. PICK as : as = ShiftAnchors(g.anchors, i, -1) \ {i}
  OBVIOUS
<1>11. as \subseteq 1..l
  <2>1. i \in 1..n
    BY <1>1, <1>2
  <2> QED BY <1>4, <1>6, <1>10, <2>1 DEF ShiftAnchors
<1>12. DeleteBeat(g, i) = Commit([PushUndo(g) EXCEPT !.beats = r, !.bars = marks, !.anchors = as])
  <2>1. PushUndo(g).beats = q /\ PushUndo(g).bars = g.bars /\ PushUndo(g).anchors = g.anchors
    BY <1>1 DEF PushUndo, Editors
  <2>2. ~(Len(g.beats) <= 2) /\ Len(g.beats) - 1 = l
    BY <1>1, <1>2, <1>3, <1>6
  <2> QED BY <1>5, <1>9, <1>10, <2>1, <2>2 DEF DeleteBeat
<1>13. GridFits(r, marks, as)
  BY <1>6, <1>7, <1>8, <1>9, <1>11 DEF GridFits
<1> QED BY <1>7, <1>12, <1>13, EditedIs

-----------------------------------------------------------------------------
(* Bar marks put in, taken out and changed.                                *)

LEMMA MarksBefore ==
    ASSUME NEW bars \in Seq(Marks), NEW n \in Nat, MarksInOrder(bars, n), NEW i \in Nat
    PROVE  \E m \in 0..Len(bars) : MarksUpTo(bars, i) = 1..m /\ Cardinality(MarksUpTo(bars, i)) = m
<1>1. PICK N \in Nat : N = Len(bars) /\ DOMAIN bars = 1..N
  OBVIOUS
<1>2. PICK S \in SUBSET (1..N) : S = MarksUpTo(bars, i)
  BY <1>1 DEF MarksUpTo
<1>3. ASSUME NEW a \in S, NEW k \in 1..N, k < a PROVE k \in S
  <2>1. bars[k].beat <= bars[a].beat /\ bars[a].beat <= i /\ bars[k].beat \in 1..n /\ bars[a].beat \in 1..n
    BY <1>1, <1>2, <1>3 DEF MarksInOrder, MarksUpTo
  <2> QED BY <1>1, <1>2, <2>1 DEF MarksUpTo
<1> QED BY ZenonT(40), <1>1, <1>2, <1>3, FirstOnes

LEMMA BarLengthIs ==
    ASSUME NEW bars \in Seq(Marks), NEW n \in Nat, MarksInOrder(bars, n), NEW i \in Nat
    PROVE  BarLengthAt(bars, i) \in Nat
<1>1. PICK m \in 0..Len(bars) : MarksUpTo(bars, i) = 1..m
  BY MarksBefore
<1>2. CASE m = 0
  <2>1. MarksUpTo(bars, i) = {}
    BY <1>1, <1>2
  <2> QED BY <2>1 DEF BarLengthAt
<1>3. CASE m # 0
  <2>1. m \in 1..m /\ \A j \in 1..m : j <= m
    BY <1>3
  <2>2. PICK k : k = CHOOSE z \in MarksUpTo(bars, i) : \A j \in MarksUpTo(bars, i) : j <= z
    OBVIOUS
  <2>3. k \in MarksUpTo(bars, i)
    BY <1>1, <2>1, <2>2
  <2>4. bars[k] \in Marks
    BY <2>3 DEF MarksUpTo
  <2> QED BY <2>2, <2>3, <2>4 DEF BarLengthAt, Marks
<1> QED BY <1>2, <1>3

(* r is the marks with b put in at place p.                                *)
PutIn(r, bars, N, p, b) ==
    /\ r \in Seq(Marks) /\ DOMAIN r = 1 .. (N + 1)
    /\ \A k \in 1 .. (N + 1) : r[k] = IF k < p THEN bars[k] ELSE IF k = p THEN b ELSE bars[k - 1]

LEMMA MarkPutIn ==
    ASSUME NEW bars \in Seq(Marks), NEW N \in Nat, N = Len(bars), NEW p \in 1 .. (N + 1), NEW b \in Marks,
           NEW r, r = InsertAt(bars, p, b)
    PROVE  PutIn(r, bars, N, p, b)
<1>1. PICK T : T = Marks
  OBVIOUS
<1>2. bars \in Seq(T) /\ b \in T /\ p \in 1 .. (Len(bars) + 1)
  BY <1>1
<1>3. /\ r \in Seq(T) /\ DOMAIN r = 1 .. (Len(bars) + 1)
      /\ \A k \in 1 .. (Len(bars) + 1) : r[k] = IF k < p THEN bars[k] ELSE IF k = p THEN b ELSE bars[k - 1]
  BY SMTT(40), <1>2, Inserted
<1> QED BY <1>1, <1>3 DEF PutIn

LEMMA AddMarkIs ==
    ASSUME NEW bars \in Seq(Marks), NEW n \in Nat, MarksInOrder(bars, n), NEW i \in 1..n, NEW len \in Nat
    PROVE  AddMark(bars, i, len) \in Seq(Marks) /\ MarksInOrder(AddMark(bars, i, len), n)
<1>1. PICK N \in Nat : N = Len(bars) /\ DOMAIN bars = 1..N
  OBVIOUS
<1>2. PICK m \in 0..N : MarksUpTo(bars, i) = 1..m /\ Cardinality(MarksUpTo(bars, i)) = m
  <2>1. i \in Nat
    OBVIOUS
  <2>2. PICK m \in 0..Len(bars) : MarksUpTo(bars, i) = 1..m /\ Cardinality(MarksUpTo(bars, i)) = m
    BY <2>1, MarksBefore
  <2> QED BY <1>1, <2>2
<1>3. PICK p \in 1..(N + 1) : p = m + 1
  OBVIOUS
<1>4. PICK b : b = [beat |-> i, len |-> len]
  OBVIOUS
<1>5. b \in Marks /\ b.beat = i
  BY <1>4 DEF Marks
<1>6. PICK r : r = InsertAt(bars, p, b)
  OBVIOUS
<1>7. r = AddMark(bars, i, len)
  <2>1. 1 + m = p
    BY <1>3
  <2> QED BY <1>2, <1>4, <1>6, <2>1 DEF AddMark
<1>8. /\ r \in Seq(Marks) /\ DOMAIN r = 1..(N + 1)
      /\ \A k \in 1..(N + 1) : r[k] = IF k < p THEN bars[k] ELSE IF k = p THEN b ELSE bars[k - 1]
  <2>1. N = Len(bars)
    BY <1>1
  <2>2. PutIn(r, bars, N, p, b)
    BY <1>5, <1>6, <2>1, MarkPutIn
  <2> QED BY <2>2 DEF PutIn
<1>9. \A k \in 1..N : bars[k].beat \in 1..n /\ (k < p <=> bars[k].beat <= i)
  <2>1. \A k \in 1..N : k \in 1..m <=> bars[k].beat <= i
    BY <1>1, <1>2 DEF MarksUpTo
  <2> QED BY <1>1, <1>3, <2>1 DEF MarksInOrder
<1>10. \A a, c \in 1..N : a < c => bars[a].beat <= bars[c].beat
  BY <1>1 DEF MarksInOrder
<1>11. ASSUME NEW k \in 1..(N + 1)
       PROVE  \/ k < p /\ k \in 1..N /\ r[k] = bars[k]
              \/ k = p /\ r[k] = b
              \/ k > p /\ k - 1 \in 1..N /\ ~(k - 1 < p) /\ r[k] = bars[k - 1]
  <2>1. r[k] = IF k < p THEN bars[k] ELSE IF k = p THEN b ELSE bars[k - 1]
    BY <1>8
  <2> QED BY <2>1
<1>12. \A k \in 1..(N + 1) : r[k].beat \in 1..n
  BY <1>5, <1>9, <1>11
<1>13. ASSUME NEW a \in 1..(N + 1), NEW c \in 1..(N + 1), a < c PROVE r[a].beat <= r[c].beat
  <2>1. PICK x, y : x = a - 1 /\ y = c - 1 /\ x < y
    BY <1>13
  <2>2. \/ a < p /\ a \in 1..N /\ r[a] = bars[a]
        \/ a = p /\ r[a] = b
        \/ a > p /\ x \in 1..N /\ ~(x < p) /\ r[a] = bars[x]
    BY <1>11, <2>1
  <2>3. \/ c < p /\ c \in 1..N /\ r[c] = bars[c]
        \/ c = p /\ r[c] = b
        \/ c > p /\ y \in 1..N /\ ~(y < p) /\ r[c] = bars[y]
    BY <1>11, <2>1
  <2>4. CASE a < p
    <3>1. a \in 1..N /\ r[a] = bars[a] /\ bars[a].beat <= i /\ bars[a].beat \in 1..n
      BY <1>9, <2>2, <2>4
    <3>2. CASE c < p
      BY <1>10, <1>13, <2>3, <3>1, <3>2
    <3>3. CASE c = p
      BY <1>5, <2>3, <3>1, <3>3
    <3>4. CASE c > p
      <4>1. y \in 1..N /\ r[c] = bars[y] /\ ~(bars[y].beat <= i) /\ bars[y].beat \in 1..n
        BY <1>9, <2>3, <3>4
      <4> QED BY SMTT(40), <3>1, <4>1
    <3> QED BY <3>2, <3>3, <3>4
  <2>5. CASE a = p
    <3>1. y \in 1..N /\ r[c] = bars[y] /\ ~(bars[y].beat <= i) /\ bars[y].beat \in 1..n
      BY <1>9, <1>13, <2>3, <2>5
    <3> QED BY <1>5, <2>2, <2>5, <3>1
  <2>6. CASE a > p
    <3>1. x \in 1..N /\ y \in 1..N /\ r[a] = bars[x] /\ r[c] = bars[y]
      BY <1>13, <2>2, <2>3, <2>6
    <3> QED BY <1>10, <2>1, <3>1
  <2> QED BY <2>4, <2>5, <2>6
<1>14. MarksInOrder(r, n)
  BY <1>8, <1>12, <1>13 DEF MarksInOrder
<1> QED BY <1>7, <1>8, <1>14

(* Other bar marks, the beats left alone.                                  *)
LEMMA MarkedIs ==
    ASSUME NEW g \in Editors, NEW bars \in Seq(Marks), MarksInOrder(bars, Len(g.beats)),
           NEW h, h = Commit([PushUndo(g) EXCEPT !.bars = bars])
    PROVE  h \in Editors
<1>1. PICK q \in Seq(GridBeats) : q = g.beats
  BY EditorIs
<1>2. PICK as : as = g.anchors
  OBVIOUS
<1>3. h = Commit([PushUndo(g) EXCEPT !.beats = q, !.bars = bars, !.anchors = as])
  BY <1>1, <1>2 DEF PushUndo, Editors
<1>4. GridFits(q, bars, as)
  BY <1>1, <1>2, EditorIs DEF GridFits
<1> QED BY <1>3, <1>4, EditedIs

LEMMA FirstMark ==
    ASSUME NEW S \in SUBSET Nat, S # {}
    PROVE  (CHOOSE k \in S : \A j \in S : k <= j) \in S
BY LeastOf

LEMMA ToggleBarIs ==
    ASSUME NEW g \in Editors, NEW i \in DOMAIN g.beats
    PROVE  ToggleBar(g, i) \in Editors
<1>1. PICK n \in Nat : n = Len(g.beats) /\ DOMAIN g.beats = 1..n
  BY EditorIs
<1>2. PICK bars \in Seq(Marks) : bars = g.bars /\ MarksInOrder(bars, n)
  BY <1>1, EditorIs DEF GridFits
<1>3. PushUndo(g).bars = bars
  BY <1>2 DEF PushUndo, Editors
<1>4. PICK N \in Nat : N = Len(bars) /\ DOMAIN bars = 1..N
  OBVIOUS
<1>5. PICK marks \in SUBSET (1..N) : marks = {k \in DOMAIN bars : bars[k].beat = i}
  BY <1>4
<1>6. CASE marks = {}
  <2>1. PICK r : r = AddMark(bars, i, BarLengthAt(bars, i))
    OBVIOUS
  <2>2. r \in Seq(Marks) /\ MarksInOrder(r, n)
    <3>1. BarLengthAt(bars, i) \in Nat
      BY <1>1, <1>2, BarLengthIs
    <3> QED BY <1>1, <1>2, <2>1, <3>1, AddMarkIs
  <2>3. ToggleBar(g, i) = Commit([PushUndo(g) EXCEPT !.bars = r])
    BY <1>2, <1>3, <1>5, <1>6, <2>1 DEF ToggleBar
  <2> QED BY <1>1, <2>2, <2>3, MarkedIs
<1>7. CASE marks # {}
  <2>1. PICK k \in 1..N : k = CHOOSE z \in marks : \A j \in marks : z <= j
    <3>1. marks \in SUBSET Nat
      OBVIOUS
    <3>2. (CHOOSE z \in marks : \A j \in marks : z <= j) \in marks
      BY <1>7, <3>1, FirstMark
    <3> QED BY <3>2
  <2>2. PICK r : r = RemoveAt(bars, k)
    OBVIOUS
  <2>3. /\ r \in Seq(Marks) /\ DOMAIN r = 1..(N - 1)
        /\ \A a \in 1..(N - 1) : r[a] = IF a < k THEN bars[a] ELSE bars[a + 1]
    BY <1>4, <2>2, TakenOut
  <2>4. ASSUME NEW a \in 1..(N - 1), NEW c \in 1..(N - 1), a < c
        PROVE  \E x, y \in 1..N : x < y /\ r[a] = bars[x] /\ r[c] = bars[y]
    <3>1. (r[a] = IF a < k THEN bars[a] ELSE bars[a + 1]) /\ (r[c] = IF c < k THEN bars[c] ELSE bars[c + 1])
      BY <2>3
    <3>2. PICK u \in 1..N, v \in 1..N : u = a + 1 /\ v = c + 1
      OBVIOUS
    <3>3. a \in 1..N /\ c \in 1..N
      OBVIOUS
    <3>4. CASE c < k
      BY <2>4, <3>1, <3>3, <3>4
    <3>5. CASE a < k /\ ~(c < k)
      BY <3>1, <3>2, <3>3, <3>5
    <3>6. CASE ~(a < k)
      BY <2>4, <3>1, <3>2, <3>6
    <3> QED BY <3>4, <3>5, <3>6
  <2>5. ASSUME NEW a \in 1..(N - 1) PROVE \E x \in 1..N : r[a] = bars[x]
    <3>1. r[a] = IF a < k THEN bars[a] ELSE bars[a + 1]
      BY <2>3
    <3>2. a \in 1..N /\ a + 1 \in 1..N
      OBVIOUS
    <3> QED BY <3>1, <3>2
  <2>6. MarksInOrder(r, n)
    <3>1. \A a \in 1..(N - 1) : r[a].beat \in 1..n
      BY <1>2, <1>4, <2>5 DEF MarksInOrder
    <3>2. ASSUME NEW a \in 1..(N - 1), NEW c \in 1..(N - 1), a < c PROVE r[a].beat <= r[c].beat
      <4>1. PICK x \in 1..N, y \in 1..N : x < y /\ r[a] = bars[x] /\ r[c] = bars[y]
        BY <2>4, <3>2
      <4> QED BY <1>2, <1>4, <4>1 DEF MarksInOrder
    <3> QED BY <2>3, <3>1, <3>2 DEF MarksInOrder
  <2>7. ToggleBar(g, i) = Commit([PushUndo(g) EXCEPT !.bars = r])
    BY <1>2, <1>3, <1>5, <1>7, <2>1, <2>2 DEF ToggleBar
  <2> QED BY <1>1, <2>3, <2>6, <2>7, MarkedIs
<1> QED BY <1>6, <1>7

LEMMA SetBarLengthIs ==
    ASSUME NEW g \in Editors, NEW len \in Nat
    PROVE  SetBarLength(g, len) \in Editors
<1>1. PICK n \in Nat : n = Len(g.beats) /\ n >= 1
  BY EditorIs DEF GridFits
<1>2. PICK bars \in Seq(Marks) : bars = g.bars /\ MarksInOrder(bars, n)
  BY <1>1, EditorIs DEF GridFits
<1>3. PushUndo(g).bars = bars
  BY <1>2 DEF PushUndo, Editors
<1>4. PICK N \in Nat : N = Len(bars) /\ DOMAIN bars = 1..N
  OBVIOUS
<1>5. PICK marks \in SUBSET (1..N) : marks = MarksUpTo(bars, 1)
  BY <1>4 DEF MarksUpTo
<1>6. CASE marks = {}
  <2>1. PICK r : r = AddMark(bars, 1, len)
    OBVIOUS
  <2>2. r \in Seq(Marks) /\ MarksInOrder(r, n)
    BY <1>1, <1>2, <2>1, AddMarkIs
  <2>3. SetBarLength(g, len) = Commit([PushUndo(g) EXCEPT !.bars = r])
    BY <1>2, <1>3, <1>5, <1>6, <2>1 DEF SetBarLength
  <2> QED BY <1>1, <2>2, <2>3, MarkedIs
<1>7. CASE marks # {}
  <2>1. PICK k \in 1..N : k = CHOOSE z \in marks : \A j \in marks : z <= j
    <3>1. marks \in SUBSET Nat
      OBVIOUS
    <3>2. (CHOOSE z \in marks : \A j \in marks : z <= j) \in marks
      BY <1>7, <3>1, FirstMark
    <3> QED BY <3>2
  <2>2. PICK r : r = [bars EXCEPT ![k].len = len]
    OBVIOUS
  <2>3. \A a \in 1..N : bars[a] \in Marks
    BY <1>4
  <2>4. \A a \in 1..N : r[a] \in Marks /\ r[a].beat = bars[a].beat
    BY <1>4, <2>2, <2>3 DEF Marks
  <2>5. r \in Seq(Marks) /\ DOMAIN r = 1..N
    <3>1. r = [a \in 1..N |-> r[a]]
      BY <1>4, <2>2
    <3> QED BY <2>4, <3>1
  <2>6. MarksInOrder(r, n)
    BY <1>2, <1>4, <2>4, <2>5 DEF MarksInOrder
  <2>7. SetBarLength(g, len) = Commit([PushUndo(g) EXCEPT !.bars = r])
    BY <1>2, <1>3, <1>5, <1>7, <2>1, <2>2 DEF SetBarLength
  <2> QED BY <1>1, <2>5, <2>6, <2>7, MarkedIs
<1> QED BY <1>6, <1>7

-----------------------------------------------------------------------------
(* Beats moved.                                                            *)

LEMMA BeatIs ==
    ASSUME NEW q \in Seq(GridBeats), NEW k \in DOMAIN q
    PROVE  q[k].at \in Nat /\ q[k].at <= Duration
<1>1. q[k] \in GridBeats
  OBVIOUS
<1> QED BY <1>1, GridAssumption DEF GridBeats

(* Each beat after the one before: each after all before.                  *)
LEMMA StepsRise ==
    ASSUME NEW q \in Seq(GridBeats), NEW n \in Nat, n = Len(q), \A k \in 1..n : k + 1 <= n => q[k].at < q[k + 1].at
    PROVE  Rising(q)
<1> DEFINE S == {d \in Nat : \A i \in 1..n : i + d + 1 <= n => q[i].at < q[i + d + 1].at}
<1>0. \A k \in 1..n : q[k].at \in Int
  BY BeatIs
<1>1. 0 \in S
  <2>1. \A i \in 1..n : i + 0 + 1 = i + 1
    OBVIOUS
  <2> QED BY <2>1
<1>2. \A d \in Nat : d \in S => d + 1 \in S
  <2> SUFFICES ASSUME NEW d \in Nat, d \in S PROVE d + 1 \in S
    OBVIOUS
  <2>1. ASSUME NEW i \in 1..n, i + (d + 1) + 1 <= n PROVE q[i].at < q[i + (d + 1) + 1].at
    <3>1. PICK k \in 1..n, l \in 1..n : k = i + d + 1 /\ l = k + 1 /\ l = i + (d + 1) + 1
      BY <2>1
    <3>2. q[i].at < q[k].at /\ q[k].at < q[l].at
      BY <3>1
    <3> QED BY <1>0, <3>1, <3>2
  <2> QED BY <2>1
<1> HIDE DEF S
<1>3. Nat \subseteq S
  BY <1>1, <1>2, Induction
<1>4. ASSUME NEW i \in 1..n, NEW j \in 1..n, i < j PROVE q[i].at < q[j].at
  <2>1. PICK d \in Nat : d = j - i - 1 /\ i + d + 1 = j
    BY <1>4
  <2>2. d \in S
    BY <1>3
  <2> QED BY <2>1, <2>2 DEF S
<1> QED BY <1>4 DEF Rising

(* Beats in order have room for the beats between them.                    *)
LEMMA RoomBetween ==
    ASSUME NEW q \in Seq(GridBeats), Rising(q), NEW n \in Nat, n = Len(q), NEW i \in 1..n, NEW j \in 1..n, i <= j
    PROVE  q[j].at - q[i].at >= j - i
<1> DEFINE S == {d \in Nat : i + d <= n => q[i + d].at >= q[i].at + d}
<1>0. \A k \in 1..n : q[k].at \in Int
  BY BeatIs
<1>1. 0 \in S
  <2>1. i + 0 = i
    OBVIOUS
  <2> QED BY <1>0, <2>1
<1>2. \A d \in Nat : d \in S => d + 1 \in S
  <2> SUFFICES ASSUME NEW d \in Nat, d \in S, i + (d + 1) <= n PROVE q[i + (d + 1)].at >= q[i].at + (d + 1)
    OBVIOUS
  <2>1. PICK k \in 1..n, l \in 1..n : k = i + d /\ l = i + (d + 1) /\ k < l
    OBVIOUS
  <2>2. q[k].at < q[l].at
    BY <2>1 DEF Rising
  <2>3. q[k].at >= q[i].at + d
    BY <2>1
  <2> QED BY <1>0, <2>1, <2>2, <2>3
<1> HIDE DEF S
<1>3. PICK d \in Nat : d = j - i /\ i + d = j
  OBVIOUS
<1>4. d \in S
  BY <1>1, <1>2, Induction
<1> QED BY <1>0, <1>3, <1>4 DEF S

LEMMA BetweenIs ==
    ASSUME NEW lo \in Int, NEW hi \in Int, NEW t \in Int, lo <= hi
    PROVE  Between(lo, hi, t) \in lo..hi
BY DEF Between

(* The beats moved, as many as they were.                                  *)
Dragged(g, i, beats) == [g EXCEPT !.beats = beats, !.anchors = @ \cup {i}]

LEMMA DraggedIs ==
    ASSUME NEW g \in Editors, NEW i \in DOMAIN g.beats, NEW beats \in Seq(GridBeats), Rising(beats),
           Len(beats) = Len(g.beats)
    PROVE  Dragged(g, i, beats) \in Editors
<1>1. PICK as : as = g.anchors \cup {i}
  OBVIOUS
<1>2. GridFits(g.beats, g.bars, g.anchors)
  BY EditorIs
<1>3. i \in 1..Len(g.beats)
  BY EditorIs
<1>4. GridFits(beats, g.bars, as)
  BY <1>1, <1>2, <1>3 DEF GridFits
<1>5. PICK h : h = Dragged(g, i, beats)
  OBVIOUS
<1>6. h = [track |-> g.track, beats |-> beats, bars |-> g.bars, anchors |-> as, undo |-> g.undo,
           redo |-> g.redo, dirty |-> g.dirty, timer |-> g.timer, drag |-> g.drag]
  BY <1>1, <1>5 DEF Editors, Dragged
<1>7. h \in Editors
  BY ZenonT(40), <1>4, <1>6, EditorIs, EditorFrom
<1> QED BY <1>5, <1>7

LEMMA NudgeIs ==
    ASSUME NEW g \in Editors, NEW i \in DOMAIN g.beats, NEW t \in 0..Duration
    PROVE  Nudge(g, i, t) \in Editors
<1>1. PICK q \in Seq(GridBeats) : q = g.beats
  BY EditorIs
<1>2. PICK n \in Nat : n = Len(q) /\ DOMAIN q = 1..n /\ i \in 1..n
  BY <1>1
<1>3. Rising(q)
  BY <1>1, EditorIs DEF GridFits
<1>4. \A k \in 1..n : q[k].at \in Nat /\ q[k].at <= Duration
  BY <1>2, BeatIs
<1>5. PICK lo : lo = IF i > 1 THEN q[i - 1].at + 1 ELSE 0
  OBVIOUS
<1>6. PICK hi : hi = IF i < n THEN q[i + 1].at - 1 ELSE Duration
  OBVIOUS
<1>7. lo \in Nat /\ lo <= q[i].at /\ \A k \in 1..n : k < i => q[k].at < lo
  <2>1. CASE i > 1
    <3>1. PICK j \in 1..n : j = i - 1 /\ j < i
      BY <1>2, <2>1
    <3>2. lo = q[j].at + 1 /\ q[j].at < q[i].at
      BY <1>2, <1>3, <1>5, <2>1, <3>1 DEF Rising
    <3>3. \A k \in 1..n : k < i => q[k].at <= q[j].at
      <4> SUFFICES ASSUME NEW k \in 1..n, k < i PROVE q[k].at <= q[j].at
        OBVIOUS
      <4>1. k = j \/ k < j
        BY <1>2, <3>1
      <4> QED BY SMTT(40), <1>2, <1>3, <1>4, <4>1 DEF Rising
    <3> QED BY <1>2, <1>4, <3>2, <3>3
  <2>2. CASE ~(i > 1)
    BY <1>2, <1>4, <1>5, <2>2
  <2> QED BY <2>1, <2>2
<1>8. hi \in Int /\ q[i].at <= hi /\ hi <= Duration /\ \A k \in 1..n : i < k => hi < q[k].at
  <2>1. CASE i < n
    <3>1. PICK j \in 1..n : j = i + 1 /\ i < j
      BY <1>2, <2>1
    <3>2. hi = q[j].at - 1 /\ q[i].at < q[j].at
      BY <1>2, <1>3, <1>6, <2>1, <3>1 DEF Rising
    <3>3. \A k \in 1..n : i < k => q[j].at <= q[k].at
      <4> SUFFICES ASSUME NEW k \in 1..n, i < k PROVE q[j].at <= q[k].at
        OBVIOUS
      <4>1. k = j \/ j < k
        BY <1>2, <3>1
      <4> QED BY SMTT(40), <1>2, <1>3, <1>4, <4>1 DEF Rising
    <3> QED BY <1>2, <1>4, <3>2, <3>3, GridAssumption
  <2>2. CASE ~(i < n)
    BY <1>2, <1>4, <1>6, <2>2, GridAssumption
  <2> QED BY <2>1, <2>2
<1>9. PICK v \in lo..hi : v = Between(lo, hi, t)
  <2>1. t \in Int /\ lo <= hi /\ lo \in Int
    BY <1>2, <1>4, <1>7, <1>8
  <2> QED BY <1>8, <2>1, BetweenIs
<1>10. PICK b : b = Beat(v, TRUE)
  OBVIOUS
<1>11. b \in GridBeats /\ b.at = v
  BY <1>7, <1>8, <1>9, <1>10, GridAssumption DEF Beat, GridBeats
<1>12. PICK r : r = [q EXCEPT ![i] = b]
  OBVIOUS
<1>13. r \in Seq(GridBeats) /\ Len(r) = n /\ DOMAIN r = 1..n /\ \A k \in 1..n : r[k] = IF k = i THEN b ELSE q[k]
  BY <1>2, <1>11, <1>12
<1>14. Rising(r)
  <2> SUFFICES ASSUME NEW a \in 1..n, NEW c \in 1..n, a < c PROVE r[a].at < r[c].at
    BY <1>13 DEF Rising
  <2>1. CASE a = i
    <3>1. r[a].at = v /\ r[c] = q[c]
      BY <1>11, <1>13, <2>1
    <3> QED BY <1>4, <1>7, <1>8, <1>9, <2>1, <3>1
  <2>2. CASE c = i
    <3>1. r[c].at = v /\ r[a] = q[a]
      BY <1>11, <1>13, <2>2
    <3> QED BY <1>4, <1>7, <1>8, <1>9, <2>2, <3>1
  <2>3. CASE a # i /\ c # i
    <3>1. r[a] = q[a] /\ r[c] = q[c]
      BY <1>13, <2>3
    <3> QED BY <1>2, <1>3, <3>1 DEF Rising
  <2> QED BY <2>1, <2>2, <2>3
<1>15. Nudge(g, i, t) = Dragged(g, i, r)
  BY <1>1, <1>2, <1>5, <1>6, <1>9, <1>10, <1>12 DEF Nudge, Dragged, Editors
<1> QED BY <1>1, <1>2, <1>13, <1>14, <1>15, DraggedIs

(* The anchors around a beat, or the ends.                                 *)
LEMMA SpanIs ==
    ASSUME NEW g \in Editors, NEW n \in Nat, n = Len(g.beats), NEW i \in 1..n
    PROVE  /\ SpanStart(g, i) \in 1..i /\ (SpanStart(g, i) = i => i = 1)
           /\ SpanEnd(g, i) \in i..n /\ (SpanEnd(g, i) = i => i = n)
<1>1. g.anchors \subseteq 1..n
  BY EditorIs DEF GridFits
<1>2. PICK A \in SUBSET (1..n) : A = {x \in g.anchors : x < i}
  BY <1>1
<1>3. PICK B \in SUBSET (1..n) : B = {x \in g.anchors : x > i}
  BY <1>1
<1>4. \E a \in {1} \cup A : \A x \in g.anchors : x < i => x <= a
  <2>1. CASE A = {}
    BY <1>2, <2>1
  <2>2. CASE A # {}
    <3>1. PICK a \in A : \A x \in A : x <= a
      BY <2>2, LastOf
    <3> QED BY <1>2, <3>1
  <2> QED BY <2>1, <2>2
<1>5. SpanStart(g, i) \in {1} \cup A
  BY <1>2, <1>4 DEF SpanStart
<1>6. \E b \in {n} \cup B : \A x \in g.anchors : x > i => b <= x
  <2>1. CASE B = {}
    BY <1>3, <2>1
  <2>2. CASE B # {}
    <3>1. PICK b \in B : \A x \in B : b <= x
      BY <2>2, LeastOf
    <3> QED BY <1>3, <3>1
  <2> QED BY <2>1, <2>2
<1>7. SpanEnd(g, i) \in {n} \cup B
  BY <1>3, <1>6 DEF SpanEnd
<1> QED BY <1>2, <1>3, <1>5, <1>7

(* f spreads the times from x to y evenly over the beats a to b.           *)
Evenly(f, a, b, x, y) == f = [k \in a..b |-> x + ((y - x) * (k - a)) \div (b - a)]

LEMMA EvenlyIs ==
    ASSUME NEW a \in Int, NEW b \in Int, a < b, NEW x \in Int, NEW y \in Int, y - x >= b - a,
           NEW f, Evenly(f, a, b, x, y)
    PROVE  /\ f[a] = x /\ f[b] = y
           /\ \A k \in a..b : f[k] \in x..y
           /\ \A k, l \in a..b : l = k + 1 => f[k] < f[l]
<1>0. PICK m \in Nat \ {0}, d \in Nat : m = b - a /\ d = y - x /\ d >= m /\ a + m = b /\ x + d = y
  OBVIOUS
<1>1. PICK s : s = [j \in Int |-> (d * j) \div m]
  OBVIOUS
<1>9. d >= m
  BY <1>0
<1>2. /\ \A j \in Int : s[j] \in Int
      /\ s[0] = 0 /\ s[m] = d
      /\ \A i, j \in Int : i < j => s[i] + 1 <= s[j]
  <2>1. \A j \in Int : s[j] = (d * j) \div m
    BY <1>1
  <2>2. \A j \in Int : s[j] \in Int
    <3>1. \A j \in Int : (d * j) \div m \in Int
      BY <1>9, SpreadSteps
    <3> QED BY Zenon, <2>1, <3>1
  <2>3. s[0] = 0
    <3>1. (d * 0) \div m = 0
      BY <1>9, SpreadSteps
    <3>2. 0 \in Int
      OBVIOUS
    <3> QED BY Zenon, <2>1, <3>1, <3>2
  <2>4. s[m] = d
    <3>1. (d * m) \div m = d
      BY <1>9, SpreadSteps
    <3>2. m \in Int
      OBVIOUS
    <3> QED BY Zenon, <2>1, <3>1, <3>2
  <2>5. ASSUME NEW i \in Int, NEW j \in Int, i < j PROVE s[i] + 1 <= s[j]
    <3>1. (d * i) \div m + 1 <= (d * j) \div m
      BY <2>5, <1>9, SpreadSteps
    <3> QED BY <2>1, <3>1
  <2> QED BY <2>2, <2>3, <2>4, <2>5
<1>3. \A k \in a..(a + m) : f[k] = x + s[k - a]
  <2>1. ASSUME NEW k \in a..b PROVE f[k] = x + s[k - a]
    <3>1. f[k] = x + ((y - x) * (k - a)) \div (b - a)
      BY DEF Evenly
    <3>2. k - a \in Int
      OBVIOUS
    <3> QED BY Zenon, <1>0, <1>1, <3>1, <3>2
  <2> QED BY <1>0, <2>1
<1>4. f[a] = x
  <2>1. a - a = 0 /\ a \in a..(a + m)
    OBVIOUS
  <2> QED BY <1>2, <1>3, <2>1
<1>5. f[a + m] = x + d
  <2>1. (a + m) - a = m /\ a + m \in a..(a + m)
    OBVIOUS
  <2> QED BY <1>2, <1>3, <2>1
<1>6. ASSUME NEW k \in a..(a + m) PROVE f[k] \in x..(x + d)
  <2>1. PICK j \in 0..m : j = k - a
    OBVIOUS
  <2>2. s[j] \in 0..d
    <3>1. j = 0 \/ 0 < j
      OBVIOUS
    <3>2. j = m \/ j < m
      OBVIOUS
    <3>3. s[j] >= 0
      BY <1>2, <3>1
    <3>4. s[j] <= d
      BY <1>2, <3>2
    <3> QED BY <1>2, <3>3, <3>4
  <2> QED BY <1>3, <2>1, <2>2
<1>7. ASSUME NEW k \in a..(a + m), NEW l \in a..(a + m), l = k + 1 PROVE f[k] < f[l]
  <2>1. PICK i \in Int, j \in Int : i = k - a /\ j = l - a /\ i < j
    BY <1>7
  <2>2. s[i] + 1 <= s[j] /\ s[i] \in Int /\ s[j] \in Int
    BY <1>2, <2>1
  <2>3. f[k] = x + s[i] /\ f[l] = x + s[j]
    BY <1>3, <2>1
  <2> QED BY <2>2, <2>3
<1> QED BY Zenon, <1>0, <1>4, <1>5, <1>6, <1>7

LEMMA BeatMade == ASSUME NEW t \in 0..Duration, NEW mine \in BOOLEAN PROVE Beat(t, mine) \in GridBeats
BY DEF Beat, GridBeats

(* The times of a ripple, piece by piece.                                  *)
LEMMA RippleIs ==
    ASSUME NEW g \in Editors, NEW i \in DOMAIN g.beats, NEW t \in 0..Duration
    PROVE  Ripple(g, i, t) \in Editors
<1>1. PICK q \in Seq(GridBeats) : q = g.beats
  BY EditorIs
<1>2. PICK n \in Nat : n = Len(q) /\ DOMAIN q = 1..n /\ i \in 1..n
  BY <1>1
<1>3. Rising(q)
  BY <1>1, EditorIs DEF GridFits
<1>4. \A k \in 1..n : q[k].at \in Nat /\ q[k].at <= Duration
  BY <1>2, BeatIs
<1>5. /\ SpanStart(g, i) \in 1..i /\ (SpanStart(g, i) = i => i = 1)
      /\ SpanEnd(g, i) \in i..n /\ (SpanEnd(g, i) = i => i = n)
  BY <1>1, <1>2, SpanIs
<1>6. PICK lo \in 1..i : lo = SpanStart(g, i) /\ (lo = i => i = 1)
  BY <1>5
<1>7. PICK hi \in i..n : hi = SpanEnd(g, i) /\ (hi = i => i = n)
  BY <1>5
<1>8. lo \in 1..n /\ hi \in 1..n /\ lo <= i /\ i <= hi /\ i - lo \in Nat /\ hi - i \in Nat
      /\ i \in Int /\ lo \in Int /\ hi \in Int
  BY <1>2
<1>9. PICK A \in Nat, B \in Nat : A = q[lo].at /\ B = q[hi].at /\ B <= Duration
  BY <1>4, <1>8
<1>10. B - A >= hi - lo
  <2>1. lo <= hi
    BY <1>8
  <2>2. q[hi].at - q[lo].at >= hi - lo
    BY <1>2, <1>3, <1>8, <2>1, RoomBetween
  <2> QED BY <1>9, <2>2
<1>11. PICK goal : goal = Between(A + (i - lo), B - (hi - i), t)
  OBVIOUS
<1>12. goal \in Int /\ A + (i - lo) <= goal /\ goal <= B - (hi - i)
  <2>1. PICK a \in Int, b \in Int : a = A + (i - lo) /\ b = B - (hi - i)
    BY <1>8
  <2>2. a <= b /\ t \in Int
    <3>1. t \in Int
      BY GridAssumption
    <3>2. PICK x \in Int, y \in Int, z \in Int : x = i /\ y = lo /\ z = hi
      BY <1>8
    <3>3. B - A >= z - y /\ a = A + (x - y) /\ b = B - (z - x)
      BY <1>10, <2>1, <3>2
    <3>4. a <= b
      BY <3>3
    <3> QED BY <3>1, <3>4
  <2>3. Between(a, b, t) \in a..b
    BY <2>2, BetweenIs
  <2>4. goal \in a..b
    BY <1>11, <2>1, <2>3
  <2> QED BY <2>1, <2>4
<1>13. goal \in 0..Duration
  <2>1. PICK D \in Nat : D = Duration
    BY GridAssumption
  <2>2. PICK l \in Nat, r \in Nat : l = i - lo /\ r = hi - i
    BY <1>8
  <2>3. A + l <= goal /\ goal <= B - r /\ B <= D
    BY <1>9, <1>12, <2>1, <2>2
  <2>4. goal \in Int /\ 0 <= goal /\ goal <= D
    BY <1>12, <2>3
  <2> QED BY <2>1, <2>4
<1>14. PICK f : Evenly(f, lo, i, A, goal)
  BY DEF Evenly
<1>15. PICK h : Evenly(h, i, hi, goal, B)
  BY DEF Evenly
<1>16. ASSUME lo < i
       PROVE  /\ f[lo] = A /\ f[i] = goal
              /\ \A k \in lo..i : f[k] \in A..goal
              /\ \A k, l \in lo..i : l = k + 1 => f[k] < f[l]
  <2>1. goal - A >= i - lo /\ lo \in Int /\ i \in Int /\ A \in Int /\ goal \in Int
    BY SMTT(40), <1>8, <1>12
  <2> QED BY <1>14, <1>16, <2>1, EvenlyIs
<1>17. ASSUME i < hi
       PROVE  /\ h[i] = goal /\ h[hi] = B
              /\ \A k \in i..hi : h[k] \in goal..B
              /\ \A k, l \in i..hi : l = k + 1 => h[k] < h[l]
  <2>1. B - goal >= hi - i /\ hi \in Int /\ i \in Int /\ B \in Int /\ goal \in Int
    BY SMTT(40), <1>8, <1>12
  <2> QED BY <1>15, <1>17, <2>1, EvenlyIs
<1> DEFINE Placed(k) == IF k = i THEN Beat(goal, TRUE)
                        ELSE IF lo < k /\ k < i THEN Beat(f[k], FALSE)
                        ELSE IF i < k /\ k < hi THEN Beat(h[k], FALSE)
                        ELSE q[k]
<1>18. PICK r : r = [k \in 1..n |-> Placed(k)]
  OBVIOUS
<1>19. Ripple(g, i, t) = Dragged(g, i, r)
  <2>1. ASSUME NEW k \in 1..n
        PROVE  Placed(k) =
                 IF k = i THEN Beat(goal, TRUE)
                 ELSE IF lo < k /\ k < hi
                      THEN Beat(IF lo < k /\ k < i THEN A + ((goal - A) * (k - lo)) \div (i - lo)
                                ELSE goal + ((B - goal) * (k - i)) \div (hi - i), FALSE)
                 ELSE q[k]
    <3>1. CASE k = i
      BY <3>1
    <3>2. CASE lo < k /\ k < i
      <4>1. k \in lo..i /\ k # i /\ k < hi
        BY <1>8, <3>2
      <4>2. f[k] = A + ((goal - A) * (k - lo)) \div (i - lo)
        BY <1>14, <4>1 DEF Evenly
      <4> QED BY Zenon, <3>2, <4>1, <4>2
    <3>3. CASE i < k /\ k < hi
      <4>1. k \in i..hi /\ k # i /\ ~(k < i) /\ lo < k
        BY <1>8, <3>3
      <4>2. h[k] = goal + ((B - goal) * (k - i)) \div (hi - i)
        BY <1>15, <4>1 DEF Evenly
      <4> QED BY Zenon, <3>3, <4>1, <4>2
    <3>4. CASE k # i /\ ~(lo < k /\ k < i) /\ ~(i < k /\ k < hi)
      <4>1. ~(lo < k /\ k < hi)
        BY <1>8, <3>4
      <4> QED BY Zenon, <3>4, <4>1
    <3> QED BY <3>1, <3>2, <3>3, <3>4
  <2>2. PICK R : R = [k \in 1..n |->
                 IF k = i THEN Beat(goal, TRUE)
                 ELSE IF lo < k /\ k < hi
                      THEN Beat(IF lo < k /\ k < i THEN A + ((goal - A) * (k - lo)) \div (i - lo)
                                ELSE goal + ((B - goal) * (k - i)) \div (hi - i), FALSE)
                 ELSE q[k]]
    OBVIOUS
  <2>3. r = R
    BY Zenon, <1>18, <2>1, <2>2
  <2>4. Ripple(g, i, t) = Dragged(g, i, R)
    BY Zenon, <1>1, <1>2, <1>6, <1>7, <1>9, <1>11, <2>2 DEF Ripple, Dragged
  <2> QED BY <2>3, <2>4
<1>20. /\ r \in Seq(GridBeats) /\ Len(r) = n
       /\ r[i].at = goal
       /\ \A k \in 1..n : lo < k /\ k < i => r[k].at = f[k]
       /\ \A k \in 1..n : i < k /\ k < hi => r[k].at = h[k]
       /\ \A k \in 1..n : k # i /\ (k <= lo \/ k >= hi) => r[k].at = q[k].at
  <2>1. ASSUME NEW k \in 1..n PROVE Placed(k) \in GridBeats
    <3>1. CASE k = i
      BY <1>13, <3>1 DEF Beat, GridBeats
    <3>2. CASE lo < k /\ k < i
      <4>1. lo < i /\ k \in lo..i /\ k # i
        BY <1>8, <3>2
      <4>2. f[k] \in A..goal
        BY <1>16, <4>1
      <4>3. f[k] \in 0..Duration
        BY <1>13, <4>2, GridAssumption
      <4>4. Placed(k) = Beat(f[k], FALSE)
        BY Zenon, <3>2, <4>1
      <4> QED BY <4>3, <4>4, BeatMade
    <3>3. CASE i < k /\ k < hi
      <4>1. i < hi /\ k \in i..hi /\ k # i /\ ~(k < i)
        BY <1>8, <3>3
      <4>2. h[k] \in goal..B
        BY <1>17, <4>1
      <4>3. h[k] \in 0..Duration
        BY SMTT(40), <1>9, <1>13, <4>2, GridAssumption
      <4>4. Placed(k) = Beat(h[k], FALSE)
        BY Zenon, <3>3, <4>1
      <4> QED BY <4>3, <4>4, BeatMade
    <3>4. CASE k # i /\ ~(lo < k /\ k < i) /\ ~(i < k /\ k < hi)
      <4>1. q[k] \in GridBeats
        BY <1>2
      <4> QED BY <3>4, <4>1
    <3> QED BY <3>1, <3>2, <3>3, <3>4
  <2> HIDE DEF Placed
  <2>2. r \in Seq(GridBeats) /\ Len(r) = n
    BY <1>2, <1>18, <2>1
  <2>3. \A k \in 1..n : r[k] = Placed(k)
    BY <1>18
  <2>4. r[i].at = goal
    <3>1. r[i] = Beat(goal, TRUE)
      BY <1>2, <2>3 DEF Placed
    <3> QED BY <3>1 DEF Beat
  <2>5. ASSUME NEW k \in 1..n, lo < k /\ k < i PROVE r[k].at = f[k]
    <3>1. r[k] = Beat(f[k], FALSE)
      <4>1. k # i
        BY <1>8, <2>5
      <4> QED BY Zenon, <2>3, <2>5, <4>1 DEF Placed
    <3> QED BY <3>1 DEF Beat
  <2>6. ASSUME NEW k \in 1..n, i < k /\ k < hi PROVE r[k].at = h[k]
    <3>1. r[k] = Beat(h[k], FALSE)
      <4>1. k # i /\ ~(k < i)
        BY <1>8, <2>6
      <4> QED BY Zenon, <2>3, <2>6, <4>1 DEF Placed
    <3> QED BY <3>1 DEF Beat
  <2>7. ASSUME NEW k \in 1..n, k # i /\ (k <= lo \/ k >= hi) PROVE r[k].at = q[k].at
    <3>1. r[k] = q[k]
      <4>1. k # i /\ ~(lo < k /\ k < i) /\ ~(i < k /\ k < hi)
        BY <1>8, <2>7
      <4> QED BY Zenon, <2>3, <4>1 DEF Placed
    <3> QED BY <3>1
  <2> QED BY <2>2, <2>4, <2>5, <2>6, <2>7
<1> HIDE DEF Placed
<1>21. Rising(r)
  <2>1. ASSUME lo < i PROVE \A k \in lo..i : r[k].at = f[k]
    <3>1. \A k \in lo..i : k = lo \/ k = i \/ (lo < k /\ k < i)
      BY <1>8
    <3>2. r[lo].at = f[lo]
      BY <1>8, <1>9, <1>16, <1>20, <2>1
    <3>3. r[i].at = f[i]
      BY <1>16, <1>20, <2>1
    <3> QED BY <1>8, <1>20, <3>1, <3>2, <3>3
  <2>2. ASSUME i < hi PROVE \A k \in i..hi : r[k].at = h[k]
    <3>1. \A k \in i..hi : k = i \/ k = hi \/ (i < k /\ k < hi)
      BY <1>8
    <3>2. r[hi].at = h[hi]
      BY <1>8, <1>9, <1>17, <1>20, <2>2
    <3>3. r[i].at = h[i]
      BY <1>17, <1>20, <2>2
    <3> QED BY <1>8, <1>20, <3>1, <3>2, <3>3
  <2>3. ASSUME NEW k \in 1..n, k + 1 <= n PROVE r[k].at < r[k + 1].at
    <3>1. PICK l \in 1..n : l = k + 1 /\ k < l
      BY <2>3
    <3>2. q[k].at < q[l].at
      BY <1>2, <1>3, <3>1 DEF Rising
    <3>3. CASE l <= lo
      <4>1. lo < i /\ k # i /\ l # i /\ k <= lo
        BY <1>6, <1>8, <3>1, <3>3
      <4> QED BY <1>20, <3>1, <3>2, <3>3, <4>1
    <3>4. CASE lo <= k /\ l <= i
      <4>1. lo < i /\ k \in lo..i /\ l \in lo..i
        BY <1>8, <3>1, <3>4
      <4> QED BY <1>16, <2>1, <3>1, <4>1
    <3>5. CASE i <= k /\ l <= hi
      <4>1. i < hi /\ k \in i..hi /\ l \in i..hi
        BY <1>8, <3>1, <3>5
      <4> QED BY <1>17, <2>2, <3>1, <4>1
    <3>6. CASE hi <= k
      <4>1. k # i /\ l # i /\ l >= hi
        BY <1>7, <1>8, <3>1, <3>6
      <4> QED BY <1>20, <3>1, <3>2, <3>6, <4>1
    <3> QED BY <1>8, <3>1, <3>3, <3>4, <3>5, <3>6
  <2> QED BY <1>20, <2>3, StepsRise
<1> QED BY <1>1, <1>2, <1>19, <1>20, <1>21, DraggedIs

(* A snapshot by its parts.                                                *)
LEMMA SnapParts ==
    ASSUME NEW s \in Snaps
    PROVE  /\ s.beats \in Seq(GridBeats) /\ s.bars \in Seq(Marks) /\ GridFits(s.beats, s.bars, s.anchors)
           /\ Content(s) \in Contents
<1>1. /\ s.beats \in Seq(GridBeats) /\ s.bars \in Seq(Marks)
      /\ s = [beats |-> s.beats, bars |-> s.bars, anchors |-> s.anchors]
  BY DEF Snaps
<1> QED BY <1>1, SnapIs

LEMMA LastSnap ==
    ASSUME NEW q \in Seq(Snaps), q # <<>>
    PROVE  Front(q) \in Seq(Snaps) /\ Last(q) \in Snaps
<1>1. Len(q) \in 1..Len(q)
  BY EmptySeq
<1>2. Last(q) \in Snaps
  BY <1>1 DEF Last
<1>3. PICK n \in Nat : n = Len(q) - 1
  BY <1>1
<1>4. \A k \in 1..n : k \in 1..Len(q) /\ q[k] \in Snaps
  BY <1>3
<1>5. SubSeq(q, 1, n) \in Seq(Snaps)
  BY <1>3, <1>4, SubSeqProperties
<1> QED BY <1>2, <1>3, <1>5 DEF Front

(* Only the undo stack, the redo stack or a flag changed.                  *)
LEMMA SameGrid ==
    ASSUME NEW g \in Editors, NEW undo \in Seq(Snaps), NEW redo \in Seq(Snaps),
           NEW dirty \in BOOLEAN, NEW timer \in BOOLEAN, NEW drag \in Nat,
           NEW h, h = [track |-> g.track, beats |-> g.beats, bars |-> g.bars, anchors |-> g.anchors, undo |-> undo,
                       redo |-> redo, dirty |-> dirty, timer |-> timer, drag |-> drag]
    PROVE  h \in Editors
BY ZenonT(40), EditorIs, EditorFrom

LEMMA PushIs ==
    ASSUME NEW g \in Editors
    PROVE  /\ PushUndo(g) \in Editors
           /\ Append(g.undo, Snapshot(g)) \in Seq(Snaps) /\ Append(g.redo, Snapshot(g)) \in Seq(Snaps)
<1>1. g.undo \in Seq(Snaps) /\ g.redo \in Seq(Snaps) /\ Snapshot(g) \in Snaps
  BY EditorIs
<1>2. Append(g.undo, Snapshot(g)) \in Seq(Snaps) /\ Append(g.redo, Snapshot(g)) \in Seq(Snaps)
  BY <1>1, AppendProperties
<1>3. PICK u \in Seq(Snaps) : u = Remember(g.undo, Snapshot(g))
  BY <1>1, RememberIs
<1>4. PICK r \in Seq(Snaps) : r = <<>>
  BY EmptySeq
<1>5. PICK h : h = PushUndo(g)
  OBVIOUS
<1>6. h = [track |-> g.track, beats |-> g.beats, bars |-> g.bars, anchors |-> g.anchors, undo |-> u,
           redo |-> r, dirty |-> g.dirty, timer |-> g.timer, drag |-> g.drag]
  BY <1>3, <1>4, <1>5 DEF PushUndo, Editors
<1>7. h \in Editors
  BY <1>6, EditorIs, SameGrid
<1> QED BY <1>2, <1>5, <1>7

(* What was undone or done again is what was once there.                   *)
LEMMA UndoneIs ==
    ASSUME NEW g \in Editors
    PROVE  Undone(g) \in Editors
<1>1. CASE g.undo = <<>>
  BY <1>1 DEF Undone
<1>2. CASE g.undo # <<>>
  <2>1. PICK u \in Seq(Snaps), s \in Snaps : u = Front(g.undo) /\ s = Last(g.undo)
    BY <1>2, EditorIs, LastSnap
  <2>2. PICK r \in Seq(Snaps) : r = Append(g.redo, Snapshot(g))
    BY PushIs
  <2>3. PICK h : h = Undone(g)
    OBVIOUS
  <2>4. h = [track |-> g.track, beats |-> s.beats, bars |-> s.bars, anchors |-> s.anchors, undo |-> u,
             redo |-> r, dirty |-> TRUE, timer |-> TRUE, drag |-> g.drag]
    BY <1>2, <2>1, <2>2, <2>3 DEF Undone, Restored, Commit, Editors
  <2>5. h \in Editors
    BY <2>4, EditorIs, SnapParts, EditorFrom
  <2> QED BY <2>3, <2>5
<1> QED BY <1>1, <1>2

LEMMA RedoneIs ==
    ASSUME NEW g \in Editors
    PROVE  Redone(g) \in Editors
<1>1. CASE g.redo = <<>>
  BY <1>1 DEF Redone
<1>2. CASE g.redo # <<>>
  <2>1. PICK r \in Seq(Snaps), s \in Snaps : r = Front(g.redo) /\ s = Last(g.redo)
    BY <1>2, EditorIs, LastSnap
  <2>2. PICK u \in Seq(Snaps) : u = Append(g.undo, Snapshot(g))
    BY PushIs
  <2>3. PICK h : h = Redone(g)
    OBVIOUS
  <2>4. h = [track |-> g.track, beats |-> s.beats, bars |-> s.bars, anchors |-> s.anchors, undo |-> u,
             redo |-> r, dirty |-> TRUE, timer |-> TRUE, drag |-> g.drag]
    BY <1>2, <2>1, <2>2, <2>3 DEF Redone, Restored, Commit, Editors
  <2>5. h \in Editors
    BY <2>4, EditorIs, SnapParts, EditorFrom
  <2> QED BY <2>3, <2>5
<1> QED BY <1>1, <1>2

(* What the server keeps, opened.                                          *)
LEMMA FoundIs ==
    ASSUME NEW c \in Contents
    PROVE  Found(c.beats) \in Seq(GridBeats) /\ c.bars \in Seq(Marks) /\ GridFits(Found(c.beats), c.bars, {})
<1>1. PICK times \in Seq(0..Duration) : times = c.beats
  BY DEF Contents
<1>2. PICK n \in Nat : n = Len(times) /\ DOMAIN times = 1..n /\ n >= 1
  BY <1>1 DEF Contents
<1>3. PICK q : q = Found(times)
  OBVIOUS
<1>4. q = [i \in 1..n |-> Beat(times[i], FALSE)]
  BY <1>2, <1>3 DEF Found
<1>5. \A i \in 1..n : times[i] \in 0..Duration /\ Beat(times[i], FALSE) \in GridBeats
  <2>1. \A i \in 1..n : times[i] \in 0..Duration
    BY <1>2, ElementOfSeq
  <2> QED BY <2>1, BeatMade
<1>6. q \in Seq(GridBeats) /\ Len(q) = n /\ DOMAIN q = 1..n
  <2>1. DOMAIN q = 1..n
    BY <1>4
  <2>2. \A i \in 1..n : q[i] \in GridBeats
    BY <1>4, <1>5
  <2>3. q \in [1..n -> GridBeats]
    BY <1>4, <2>2
  <2> QED BY <1>2, <2>1, <2>3
<1>7. \A i \in 1..n : q[i].at = times[i]
  BY <1>4 DEF Beat
<1>8. InOrder(times) /\ MarksInOrder(c.bars, n) /\ c.bars \in Seq(Marks)
  BY <1>1, <1>2 DEF Contents, Sound
<1>9. Rising(q)
  BY <1>2, <1>6, <1>7, <1>8 DEF Rising, InOrder
<1> QED BY <1>1, <1>2, <1>3, <1>6, <1>8, <1>9 DEF GridFits

LEMMA OpenedIs ==
    ASSUME NEW t \in GridTracks, NEW c \in Contents
    PROVE  Opened(t, c) \in Editors
<1>1. PICK e \in Seq(Snaps) : e = <<>>
  BY EmptySeq
<1>2. PICK h : h = Opened(t, c)
  OBVIOUS
<1>3. h = [track |-> t, beats |-> Found(c.beats), bars |-> c.bars, anchors |-> {}, undo |-> e,
           redo |-> e, dirty |-> FALSE, timer |-> FALSE, drag |-> 0]
  BY <1>1, <1>2 DEF Opened, Closed
<1>4. h \in Editors
  BY <1>3, FoundIs, EditorFrom
<1> QED BY <1>2, <1>4

LEMMA DetectedIs == Detected \in Contents
<1>1. Pulse \in Seq(0..Duration) /\ Len(Pulse) >= 1 /\ InOrder(Pulse)
  BY GridAssumption, EmptySeq
<1>2. PICK m : m = [beat |-> 1, len |-> 2]
  OBVIOUS
<1>3. m \in Marks /\ m.beat = 1
  BY <1>2 DEF Marks
<1>4. <<m>> \in Seq(Marks) /\ DOMAIN <<m>> = {1} /\ <<m>>[1] = m
  BY <1>3
<1>5. MarksInOrder(<<m>>, Len(Pulse))
  BY <1>1, <1>3, <1>4 DEF MarksInOrder
<1>6. PICK c : c = [beats |-> Pulse, bars |-> <<m>>]
  OBVIOUS
<1>7. Sound(c)
  BY <1>1, <1>5, <1>6 DEF Sound
<1>8. c \in Contents
  BY <1>1, <1>4, <1>6, <1>7 DEF Contents
<1> QED BY <1>2, <1>6, <1>8 DEF Detected

Patches == [track : GridTracks, content : Contents]
ResetRuns == [at : {"delete", "get", "answer"}, track : GridTracks, content : Contents]

(* The editor and its snapshots are sound, and so is what is sent to the   *)
(* server, kept there and on its way back.                                 *)
GridInv ==
    /\ grid \in Editors /\ saves \in Seq(Patches) /\ resets \in Seq(ResetRuns)
    /\ saved \in [GridTracks -> Contents]

LEMMA GridStarts == GridInit => GridInv
<1> SUFFICES ASSUME GridInit PROVE GridInv
  OBVIOUS
<1>1. saved \in [GridTracks -> Contents]
  BY DetectedIs DEF GridInit
<1>2. grid \in Editors
  BY DetectedIs, OpenedIs DEF GridInit
<1>3. saves \in Seq(Patches) /\ resets \in Seq(ResetRuns)
  BY EmptySeq DEF GridInit
<1> QED BY <1>1, <1>2, <1>3 DEF GridInv

(* A save of the editor, when there is one.                                *)
LEMMA SaveIs ==
    ASSUME NEW g \in Editors
    PROVE  SaveOf(g) \in Seq(Patches) /\ FlushOf(g) \in Seq(Patches)
<1>1. PICK c \in Contents : c = Content(g)
  BY EditorIs
<1>2. PICK p : p = [track |-> g.track, content |-> c]
  OBVIOUS
<1>3. p \in Patches
  BY <1>2, EditorIs DEF Patches
<1>4. <<p>> \in Seq(Patches) /\ <<>> \in Seq(Patches)
  BY <1>3, EmptySeq
<1> QED BY <1>1, <1>2, <1>4 DEF SaveOf, FlushOf

LEMMA FlagsIs ==
    ASSUME NEW g \in Editors
    PROVE  /\ \A i \in Nat : [g EXCEPT !.drag = i] \in Editors
           /\ [g EXCEPT !.timer = FALSE] \in Editors
           /\ [g EXCEPT !.dirty = FALSE] \in Editors
           /\ [g EXCEPT !.drag = 0, !.timer = FALSE] \in Editors
           /\ Commit(g) \in Editors
<1>1. ASSUME NEW i \in Nat PROVE [g EXCEPT !.drag = i] \in Editors
  <2>1. PICK h : h = [g EXCEPT !.drag = i]
    OBVIOUS
  <2>2. h = [track |-> g.track, beats |-> g.beats, bars |-> g.bars, anchors |-> g.anchors, undo |-> g.undo,
             redo |-> g.redo, dirty |-> g.dirty, timer |-> g.timer, drag |-> i]
    BY <2>1 DEF Editors
  <2>3. h \in Editors
    BY <2>2, EditorIs, SameGrid
  <2> QED BY <2>1, <2>3
<1>2. [g EXCEPT !.timer = FALSE] \in Editors
  <2>1. PICK h : h = [g EXCEPT !.timer = FALSE]
    OBVIOUS
  <2>2. h = [track |-> g.track, beats |-> g.beats, bars |-> g.bars, anchors |-> g.anchors, undo |-> g.undo,
             redo |-> g.redo, dirty |-> g.dirty, timer |-> FALSE, drag |-> g.drag]
    BY <2>1 DEF Editors
  <2>3. h \in Editors
    BY <2>2, EditorIs, SameGrid
  <2> QED BY <2>1, <2>3
<1>3. [g EXCEPT !.dirty = FALSE] \in Editors
  <2>1. PICK h : h = [g EXCEPT !.dirty = FALSE]
    OBVIOUS
  <2>2. h = [track |-> g.track, beats |-> g.beats, bars |-> g.bars, anchors |-> g.anchors, undo |-> g.undo,
             redo |-> g.redo, dirty |-> FALSE, timer |-> g.timer, drag |-> g.drag]
    BY <2>1 DEF Editors
  <2>3. h \in Editors
    BY <2>2, EditorIs, SameGrid
  <2> QED BY <2>1, <2>3
<1>4. [g EXCEPT !.drag = 0, !.timer = FALSE] \in Editors
  <2>1. PICK h : h = [g EXCEPT !.drag = 0, !.timer = FALSE]
    OBVIOUS
  <2>2. h = [track |-> g.track, beats |-> g.beats, bars |-> g.bars, anchors |-> g.anchors, undo |-> g.undo,
             redo |-> g.redo, dirty |-> g.dirty, timer |-> FALSE, drag |-> 0]
    BY <2>1 DEF Editors
  <2>3. h \in Editors
    BY <2>2, EditorIs, SameGrid
  <2> QED BY <2>1, <2>3
<1>5. Commit(g) \in Editors
  <2>1. PICK h : h = Commit(g)
    OBVIOUS
  <2>2. h = [track |-> g.track, beats |-> g.beats, bars |-> g.bars, anchors |-> g.anchors, undo |-> g.undo,
             redo |-> g.redo, dirty |-> TRUE, timer |-> TRUE, drag |-> g.drag]
    BY <2>1 DEF Commit, Editors
  <2>3. h \in Editors
    BY <2>2, EditorIs, SameGrid
  <2> QED BY <2>1, <2>3
<1> QED BY <1>1, <1>2, <1>3, <1>4, <1>5

(* A reset puts in what the server answered, and can be undone.            *)
LEMMA ResetIs ==
    ASSUME NEW g \in Editors, NEW c \in Contents
    PROVE  [PushUndo(g) EXCEPT !.beats = Found(c.beats), !.bars = c.bars, !.anchors = {}, !.dirty = FALSE]
             \in Editors
<1>1. PICK p \in Editors : p = PushUndo(g)
  BY PushIs
<1>2. PICK q, m : q = Found(c.beats) /\ m = c.bars
  OBVIOUS
<1>3. q \in Seq(GridBeats) /\ m \in Seq(Marks) /\ GridFits(q, m, {})
  BY <1>2, FoundIs
<1>4. PICK h : h = [p EXCEPT !.beats = q, !.bars = m, !.anchors = {}, !.dirty = FALSE]
  OBVIOUS
<1>5. h = [track |-> p.track, beats |-> q, bars |-> m, anchors |-> {}, undo |-> p.undo,
           redo |-> p.redo, dirty |-> FALSE, timer |-> p.timer, drag |-> p.drag]
  BY <1>4 DEF Editors
<1>6. h \in Editors
  BY <1>3, <1>5, EditorIs, EditorFrom
<1> QED BY <1>1, <1>2, <1>4, <1>6

(* The gestures that edit the grid.                                        *)
LEMMA EditsKeep ==
    ASSUME GridInv, NEW what, NEW g \in Editors, Edits(what, g)
    PROVE  GridInv'
BY DEF GridInv, Edits

LEMMA GridSteps == GridInv /\ [GridNext]_gridVars => GridInv'
<1> SUFFICES ASSUME GridInv, [GridNext]_gridVars PROVE GridInv'
  OBVIOUS
<1>0. /\ grid \in Editors /\ saves \in Seq(Patches) /\ resets \in Seq(ResetRuns)
      /\ saved \in [GridTracks -> Contents]
      /\ grid.track \in GridTracks /\ DOMAIN grid.beats \subseteq Nat
  BY EditorIs DEF GridInv
<1>1. CASE UNCHANGED gridVars
  BY <1>1 DEF gridVars, GridInv
<1>2. ASSUME NEW t \in PointerTimes, Insert(t) PROVE GridInv'
  <2>1. InsertBeat(grid, t) \in Editors
    BY <1>0, GridAssumption, InsertBeatIs
  <2> QED BY <1>2, <2>1, EditsKeep DEF Insert
<1>3. ASSUME NEW t \in PointerTimes, Drag(t) PROVE GridInv'
  <2>1. t \in 0..Duration /\ grid.drag \in DOMAIN grid.beats
    BY <1>3, GridAssumption DEF Drag
  <2>2. Ripple(grid, grid.drag, t) \in Editors
    BY <1>0, <2>1, RippleIs
  <2>3. Nudge(grid, grid.drag, t) \in Editors
    BY <1>0, <2>1, NudgeIs
  <2> QED BY <1>0, <1>3, <2>2, <2>3 DEF Drag, GridInv
<1>4. ASSUME NEW i \in DOMAIN grid.beats, Delete(i) PROVE GridInv'
  <2>1. DeleteBeat(grid, i) \in Editors
    BY <1>0, DeleteBeatIs
  <2> QED BY <1>4, <2>1, EditsKeep DEF Delete
<1>5. ASSUME NEW i \in DOMAIN grid.beats, Toggle(i) PROVE GridInv'
  <2>1. ToggleBar(grid, i) \in Editors
    BY <1>0, ToggleBarIs
  <2> QED BY <1>5, <2>1, EditsKeep DEF Toggle
<1>6. ASSUME NEW i \in DOMAIN grid.beats, Grab(i) PROVE GridInv'
  <2>1. PICK p \in Editors : p = PushUndo(grid)
    BY <1>0, PushIs
  <2>2. [p EXCEPT !.drag = i] \in Editors
    BY <1>0, FlagsIs
  <2> QED BY <1>6, <2>1, <2>2, EditsKeep DEF Grab
<1>7. ASSUME NEW n \in {1, 3}, BarLength(n) PROVE GridInv'
  <2>1. SetBarLength(grid, n) \in Editors
    BY <1>0, SetBarLengthIs
  <2> QED BY <1>7, <2>1, EditsKeep DEF BarLength
<1>8. CASE Undo
  BY <1>0, <1>8, UndoneIs, EditsKeep DEF Undo
<1>9. CASE Redo
  BY <1>0, <1>9, RedoneIs, EditsKeep DEF Redo
<1>10. CASE Drop
  <2>1. PICK p \in Editors : p = [grid EXCEPT !.drag = 0]
    BY <1>0, FlagsIs
  <2>2. Commit(p) \in Editors
    BY FlagsIs
  <2> QED BY <1>0, <1>10, <2>1, <2>2 DEF Drop, GridInv
<1>11. CASE SaveTimer
  <2>1. saves \o SaveOf(grid) \in Seq(Patches)
    BY <1>0, SaveIs, ConcatProperties
  <2>2. [grid EXCEPT !.timer = FALSE] \in Editors
    BY <1>0, FlagsIs
  <2> QED BY <1>0, <1>11, <2>1, <2>2 DEF SaveTimer, GridInv
<1>12. CASE CloseEditor
  <2>1. saves \o FlushOf(grid) \in Seq(Patches)
    BY <1>0, SaveIs, ConcatProperties
  <2>2. [grid EXCEPT !.drag = 0, !.timer = FALSE] \in Editors
    BY <1>0, FlagsIs
  <2> QED BY <1>0, <1>12, <2>1, <2>2 DEF CloseEditor, GridInv
<1>13. CASE ResetGrid
  <2>1. PICK c \in Contents : c = Detected
    BY DetectedIs
  <2>2. PICK e : e = [at |-> "delete", track |-> grid.track, content |-> c]
    OBVIOUS
  <2>3. e \in ResetRuns
    BY <1>0, <2>2 DEF ResetRuns
  <2>4. Append(resets, e) \in Seq(ResetRuns)
    BY <1>0, <2>3, AppendProperties
  <2> QED BY <1>0, <1>13, <2>1, <2>2, <2>4 DEF ResetGrid, GridInv
<1>14. ASSUME NEW t \in GridTracks, SwitchTrack(t) PROVE GridInv'
  <2>1. saves \o FlushOf(grid) \in Seq(Patches)
    BY <1>0, SaveIs, ConcatProperties
  <2>2. Opened(t, saved[t]) \in Editors
    BY <1>0, OpenedIs
  <2> QED BY <1>0, <1>14, <2>1, <2>2 DEF SwitchTrack, GridInv
<1>15. ASSUME NEW i \in DOMAIN saves, SaveAnswered(i) PROVE GridInv'
  <2>1. RemoveAt(saves, i) \in Seq(Patches)
    BY <1>0, RemoveAtShape
  <2>2. saves[i] \in Patches
    BY <1>0
  <2>3. PICK c \in Contents, t \in GridTracks : c = saves[i].content /\ t = saves[i].track
    BY <2>2 DEF Patches
  <2>4. [saved EXCEPT ![t] = c] \in [GridTracks -> Contents]
    BY <1>0
  <2>5. [grid EXCEPT !.dirty = FALSE] \in Editors
    BY <1>0, FlagsIs
  <2> QED BY <1>0, <1>15, <2>1, <2>3, <2>4, <2>5 DEF SaveAnswered, GridInv
<1>16. ASSUME NEW i \in DOMAIN saves, SaveLost(i) PROVE GridInv'
  <2>1. RemoveAt(saves, i) \in Seq(Patches)
    BY <1>0, RemoveAtShape
  <2> QED BY <1>0, <1>16, <2>1 DEF SaveLost, GridInv
<1>17. ASSUME NEW i \in DOMAIN resets, ResetDeletes(i) PROVE GridInv'
  <2>1. PICK e \in ResetRuns : e = resets[i]
    BY <1>0
  <2>2. PICK f : f = [e EXCEPT !.at = "get", !.track = grid.track]
    OBVIOUS
  <2>3. f \in ResetRuns
    BY <1>0, <2>2 DEF ResetRuns
  <2>4. [resets EXCEPT ![i] = f] \in Seq(ResetRuns)
    BY <1>0, <2>3
  <2>5. resets' = [resets EXCEPT ![i] = f]
    BY <1>17, <2>1, <2>2 DEF ResetDeletes
  <2>6. PICK c \in Contents, t \in GridTracks : c = Detected /\ t = resets[i].track
    BY <2>1, DetectedIs DEF ResetRuns
  <2>7. [saved EXCEPT ![t] = c] \in [GridTracks -> Contents]
    BY <1>0
  <2> QED BY <1>0, <1>17, <2>4, <2>5, <2>6, <2>7 DEF ResetDeletes, GridInv
<1>18. ASSUME NEW i \in DOMAIN resets, ResetReads(i) PROVE GridInv'
  <2>1. PICK e \in ResetRuns : e = resets[i]
    BY <1>0
  <2>2. PICK c \in Contents : c = saved[e.track]
    BY <1>0 DEF ResetRuns
  <2>3. PICK f : f = [e EXCEPT !.at = "answer", !.content = c]
    OBVIOUS
  <2>4. f \in ResetRuns
    BY <2>3 DEF ResetRuns
  <2>5. [resets EXCEPT ![i] = f] \in Seq(ResetRuns)
    BY <1>0, <2>4
  <2>6. resets' = [resets EXCEPT ![i] = f]
    BY <1>18, <2>1, <2>2, <2>3 DEF ResetReads
  <2> QED BY <1>0, <1>18, <2>5, <2>6 DEF ResetReads, GridInv
<1>19. ASSUME NEW i \in DOMAIN resets, ResetApplies(i) PROVE GridInv'
  <2>1. RemoveAt(resets, i) \in Seq(ResetRuns)
    BY <1>0, RemoveAtShape
  <2>2. resets[i] \in ResetRuns
    BY <1>0
  <2>3. PICK c \in Contents : c = resets[i].content
    BY <2>2 DEF ResetRuns
  <2>4. [PushUndo(grid) EXCEPT !.beats = Found(c.beats), !.bars = c.bars, !.anchors = {}, !.dirty = FALSE]
          \in Editors
    BY <1>0, ResetIs
  <2> QED BY <1>0, <1>19, <2>1, <2>3, <2>4 DEF ResetApplies, GridInv
<1>20. CASE GridNext
  BY <1>2, <1>3, <1>4, <1>5, <1>6, <1>7, <1>8, <1>9, <1>10, <1>11, <1>12, <1>13, <1>14, <1>15, <1>16,
     <1>17, <1>18, <1>19, <1>20 DEF GridNext
<1> QED BY <1>1, <1>20

(* Whatever is dragged, rippled, inserted, deleted, undone, done again or  *)
(* reset, with a beat in hand or not: the beats of the grid, of every      *)
(* snapshot and of what the server keeps stay strictly in order within the *)
(* track, and the bar marks in order on beats that exist (beatgrid.js,     *)
(* _moveBeat, insertBeat, deleteBeat, _shiftBars and resetBeatGrid).       *)
THEOREM GridStaysInOrder == GridSpec => [](GridTypeOK /\ GridIsInOrder)
<1>1. GridInv => GridTypeOK /\ GridIsInOrder
  <2> SUFFICES ASSUME GridInv PROVE GridTypeOK /\ GridIsInOrder
    OBVIOUS
  <2>0. /\ grid \in Editors /\ saves \in Seq(Patches) /\ resets \in Seq(ResetRuns)
        /\ saved \in [GridTracks -> Contents]
    BY DEF GridInv
  <2>1. GridTypeOK
    <3>1. /\ grid.track \in GridTracks /\ grid.drag \in Nat /\ grid.dirty \in BOOLEAN /\ grid.timer \in BOOLEAN
          /\ grid.anchors \in SUBSET Nat /\ grid.beats \in Seq(GridBeats)
      BY <2>0, EditorIs DEF Editors
    <3>2. BeatsOK(grid.beats)
      <4>1. \A i \in DOMAIN grid.beats : grid.beats[i] \in GridBeats
        BY <3>1
      <4> QED BY <4>1 DEF BeatsOK, GridBeats
    <3>3. \A i \in DOMAIN saves : saves[i].track \in GridTracks
      <4>1. \A i \in DOMAIN saves : saves[i] \in Patches
        BY <2>0
      <4> QED BY <4>1 DEF Patches
    <3>4. \A i \in DOMAIN resets : resets[i].at \in {"delete", "get", "answer"}
      <4>1. \A i \in DOMAIN resets : resets[i] \in ResetRuns
        BY <2>0
      <4> QED BY <4>1 DEF ResetRuns
    <3> QED BY <3>1, <3>2, <3>3, <3>4 DEF GridTypeOK
  <2>2. GridIsInOrder
    <3>1. Sound(Content(grid))
      BY <2>0, EditorIs DEF Contents
    <3>2. \A t \in GridTracks : Sound(saved[t])
      BY <2>0 DEF Contents
    <3>3. ASSUME NEW q \in Seq(Snaps), NEW i \in DOMAIN q PROVE Sound(Content(q[i]))
      <4>1. q[i] \in Snaps
        BY <3>3
      <4> QED BY <4>1, SnapParts DEF Contents
    <3>4. grid.undo \in Seq(Snaps) /\ grid.redo \in Seq(Snaps)
      BY <2>0, EditorIs
    <3> QED BY <3>1, <3>2, <3>3, <3>4 DEF GridIsInOrder
  <2> QED BY <2>1, <2>2
<1> QED BY <1>1, GridStarts, GridSteps, PTL DEF GridSpec

-----------------------------------------------------------------------------
(* Timing the lines of the lyrics (LyricsTiming).                          *)

TimedLines == {q \in Seq(Int) : Ascending(q)}
Lrcs == {q \in Seq(Nat) : Ascending(q)}

(* Lines in order are the same once they are sorted.                       *)
LEMMA EarliestIs ==
    ASSUME NEW q \in TimedLines PROVE EarliestFirst(q) = q
<1>1. PICK n \in Nat : n = Len(q) /\ DOMAIN q = 1..n
  BY DEF TimedLines
<1>2. /\ \A i \in 1..n : q[i] \in Int
      /\ \A i, j \in 1..n : i <= j => q[i] <= q[j]
  BY <1>1 DEF TimedLines, Ascending
<1> DEFINE Right(p) == /\ \A i \in 1..n : \E j \in 1..n : p[j] = i
                       /\ \A i, j \in 1..n : i < j => q[p[i]] <= q[p[j]]
           order == CHOOSE p \in [1..n -> 1..n] : Right(p)
<1>3. EarliestFirst(q) = [i \in 1..n |-> q[order[i]]]
  BY <1>1 DEF EarliestFirst
<1>4. \E p \in [1..n -> 1..n] : Right(p)
  <2> DEFINE id == [i \in 1..n |-> i]
  <2>1. id \in [1..n -> 1..n] /\ \A i \in 1..n : id[i] = i
    OBVIOUS
  <2> HIDE DEF id
  <2>2. \A i \in 1..n : \E j \in 1..n : id[j] = i
    BY <2>1
  <2>3. \A i, j \in 1..n : i < j => q[id[i]] <= q[id[j]]
    BY <1>2, <2>1
  <2> QED BY <2>1, <2>2, <2>3
<1>5. order \in [1..n -> 1..n] /\ Right(order)
  BY <1>4
<1>6. /\ \A i \in 1..n : order[i] \in 1..n /\ q[order[i]] \in Int
      /\ \A i, j \in 1..n : i <= j => q[order[i]] <= q[order[j]]
  <2>1. \A i, j \in 1..n : i < j => q[order[i]] <= q[order[j]]
    BY <1>5
  <2>2. order \in [1..n -> 1..n]
    BY <1>5
  <2> HIDE DEF order, Right
  <2>3. \A i \in 1..n : order[i] \in 1..n /\ q[order[i]] \in Int
    BY <1>2, <2>2
  <2>4. \A i, j \in 1..n : i <= j => i = j \/ i < j
    OBVIOUS
  <2> QED BY <2>1, <2>3, <2>4
<1> DEFINE back == [i \in 1..n |-> CHOOSE j \in 1..n : order[j] = i]
<1>7. \A i \in 1..n : back[i] \in 1..n /\ order[back[i]] = i
  BY <1>5
<1> HIDE DEF Right, order, back
<1>8. ASSUME NEW i \in 1..n PROVE q[order[i]] = q[i]
  <2>0. q[order[i]] \in Int /\ q[i] \in Int
    BY <1>2, <1>6
  <2>1. ASSUME q[order[i]] > q[i] PROVE FALSE
    <3> DEFINE f == [w \in 1..i |-> back[w]]
    <3>1. ASSUME NEW w \in 1..i PROVE back[w] \in 1..(i - 1)
      <4>1. w \in 1..n /\ q[w] <= q[i] /\ q[w] \in Int /\ back[w] \in 1..n /\ order[back[w]] = w
        BY <1>2, <1>7
      <4>2. ~(i <= back[w])
        BY <1>6, <2>0, <2>1, <4>1
      <4> QED BY <4>1, <4>2
    <3>2. f \in [1..i -> 1..(i - 1)]
      BY <3>1
    <3>3. /\ IsFiniteSet(1..i)
          /\ IsFiniteSet(1..(i - 1)) /\ Cardinality(1..(i - 1)) < Cardinality(1..i)
      <4>1. IsFiniteSet(1..i) /\ Cardinality(1..i) = i
        BY FS_Interval
      <4>2. IsFiniteSet(1..(i - 1)) /\ Cardinality(1..(i - 1)) = i - 1
        BY FS_Interval
      <4> QED BY <4>1, <4>2
    <3> HIDE DEF f
    <3>4. PICK x \in 1..i, y \in 1..i : x # y /\ f[x] = f[y]
      BY <3>2, <3>3, FS_PigeonHole, Zenon
    <3>5. back[x] = back[y] /\ x \in 1..n /\ y \in 1..n
      BY <3>4 DEF f
    <3> QED BY <1>7, <3>4, <3>5
  <2>2. ASSUME q[order[i]] < q[i] PROVE FALSE
    <3> DEFINE f == [w \in i..n |-> back[w]]
    <3>1. ASSUME NEW w \in i..n PROVE back[w] \in (i + 1)..n
      <4>1. w \in 1..n /\ q[i] <= q[w] /\ q[w] \in Int /\ back[w] \in 1..n /\ order[back[w]] = w
        BY <1>2, <1>7
      <4>2. ~(back[w] <= i)
        BY <1>6, <2>0, <2>2, <4>1
      <4> QED BY <4>1, <4>2
    <3>2. f \in [i..n -> (i + 1)..n]
      BY <3>1
    <3>3. /\ IsFiniteSet(i..n)
          /\ IsFiniteSet((i + 1)..n) /\ Cardinality((i + 1)..n) < Cardinality(i..n)
      <4>1. IsFiniteSet(i..n) /\ Cardinality(i..n) = n - i + 1
        BY FS_Interval
      <4>2. IsFiniteSet((i + 1)..n) /\ Cardinality((i + 1)..n) = n - i
        BY FS_Interval
      <4> QED BY <4>1, <4>2
    <3> HIDE DEF f
    <3>4. PICK x \in i..n, y \in i..n : x # y /\ f[x] = f[y]
      BY <3>2, <3>3, FS_PigeonHole, Zenon
    <3>5. back[x] = back[y] /\ x \in 1..n /\ y \in 1..n
      BY <3>4 DEF f
    <3> QED BY <1>7, <3>4, <3>5
  <2> QED BY <2>0, <2>1, <2>2
<1>9. [i \in 1..n |-> q[order[i]]] = [i \in 1..n |-> q[i]]
  BY <1>8
<1>10. q = [i \in 1..n |-> q[i]]
  BY <1>1 DEF TimedLines
<1> QED BY <1>3, <1>9, <1>10

(* What is sent of lines in order: the lines, those before zero at zero.   *)
LEMMA SavedIs ==
    ASSUME NEW q \in TimedLines
    PROVE  SavedLrc(q) \in Lrcs
<1> DEFINE r == [i \in DOMAIN q |-> Larger(0, q[i])]
<1>1. PICK n \in Nat : n = Len(q) /\ DOMAIN q = 1..n
  BY DEF TimedLines
<1>2. \A i \in 1..n : q[i] \in Int /\ r[i] \in Nat /\ r[i] = IF q[i] < 0 THEN 0 ELSE q[i]
  BY <1>1 DEF TimedLines, Larger
<1>3. DOMAIN r = 1..n /\ r \in [1..n -> Nat]
  BY <1>1, <1>2
<1>4. \A i, j \in 1..n : i < j => r[i] <= r[j]
  BY SMTT(60), <1>1, <1>2 DEF TimedLines, Ascending
<1>5. r \in Seq(Nat)
  BY <1>3
<1>6. SavedLrc(q) = EarliestFirst(r)
  BY DEF SavedLrc
<1> HIDE DEF r
<1>7. r \in Seq(Int) /\ Ascending(r)
  BY <1>3, <1>4, <1>5 DEF Ascending
<1>8. EarliestFirst(r) = r
  BY <1>7, EarliestIs DEF TimedLines
<1> QED BY <1>5, <1>6, <1>7, <1>8 DEF Lrcs

LEMMA SavedAgain ==
    ASSUME NEW q \in Lrcs PROVE q \in TimedLines /\ SavedLrc(q) = q
<1>1. PICK n \in Nat : n = Len(q) /\ DOMAIN q = 1..n
  BY DEF Lrcs
<1>2. q \in TimedLines
  BY DEF Lrcs, TimedLines
<1>3. \A i \in 1..n : Larger(0, q[i]) = q[i]
  BY <1>1 DEF Lrcs, Larger
<1>4. [i \in DOMAIN q |-> Larger(0, q[i])] = [i \in 1..n |-> q[i]]
  BY <1>1, <1>3
<1>5. q = [i \in 1..n |-> q[i]]
  BY <1>1 DEF Lrcs
<1>6. SavedLrc(q) = EarliestFirst(q)
  BY <1>4, <1>5 DEF SavedLrc
<1> QED BY <1>2, <1>6, EarliestIs

-----------------------------------------------------------------------------
(* Lines pushed ahead of the one set are in order.                         *)
LEMMA PushedIs ==
    ASSUME NEW n \in Nat, NEW q \in [1..n -> Int], NEW i \in 1..n
    PROVE  LET r == Pushed(q, i)
           IN /\ r \in [1..n -> Int] /\ \A j \in 1..i : r[j] = q[j]
              /\ \A j, k \in i..n : j < k => r[j] <= r[k]
<1> DEFINE next == [p \in Nat \X Int |->
                      IF i + p[1] \in 1..n THEN Larger(q[i + p[1]], p[2] + MIN_GAP) ELSE p[2]]
           it == CHOOSE after : after = [k \in 0..(Len(q) - i) |->
                   IF k = 0 THEN q[i] ELSE Larger(q[i + k], after[k - 1] + MIN_GAP)]
<1>1. Len(q) = n /\ DOMAIN q = 1..n
  OBVIOUS
<1>2. PICK N \in Nat : N = n - i
  OBVIOUS
<1>3. Pushed(q, i) = [j \in 1..n |-> IF j > i THEN it[j - i] ELSE q[j]]
  BY <1>1 DEF Pushed
<1>4. next \in [Nat \X Int -> Int]
  BY DEF Larger, MIN_GAP
<1>5. \A k \in 1..N, p \in Int : next[<<k, p>>] = Larger(q[i + k], p + MIN_GAP)
  BY <1>2
<1> HIDE DEF next
<1>6. PICK f \in [0..N -> Int] : Recurs(f, N, q[i], next)
  BY <1>4, Recursion
<1>7. \A k \in 0..N : k # 0 => k \in 1..N /\ k - 1 \in 0..N
  OBVIOUS
<1>8. f = [k \in 0..N |-> IF k = 0 THEN q[i] ELSE Larger(q[i + k], f[k - 1] + MIN_GAP)]
  <2>1. \A k \in 0..N : k # 0 => next[<<k, f[k - 1]>>] = Larger(q[i + k], f[k - 1] + MIN_GAP)
    BY <1>5, <1>7
  <2> QED BY <1>6, <2>1 DEF Recurs
<1>9. it = [k \in 0..N |-> IF k = 0 THEN q[i] ELSE Larger(q[i + k], it[k - 1] + MIN_GAP)]
  BY <1>1, <1>2, <1>8
<1> HIDE DEF it
<1>10. it[0] = q[i] /\ \A k \in 1..N : it[k] = Larger(q[i + k], it[k - 1] + MIN_GAP)
  BY <1>9
<1> DEFINE Fine(k) == \A m \in 0..k : it[m] \in Int /\ it[m] <= it[k]
           D == {k \in Nat : k <= N => Fine(k)}
<1>11. 0 \in D
  BY <1>10
<1>12. ASSUME NEW k \in Nat, k \in D PROVE k + 1 \in D
  <2> SUFFICES ASSUME k + 1 <= N PROVE Fine(k + 1)
    OBVIOUS
  <2>1. Fine(k) /\ it[k] \in Int
    BY <1>12
  <2>2. k + 1 \in 1..N /\ (k + 1) - 1 = k /\ i + (k + 1) \in 1..n
    BY <1>2
  <2>3. it[k + 1] = Larger(q[i + (k + 1)], it[k] + MIN_GAP) /\ q[i + (k + 1)] \in Int
    BY <1>10, <2>2
  <2>4. it[k + 1] \in Int /\ it[k] <= it[k + 1]
    BY SMTT(40), <2>1, <2>3 DEF Larger, MIN_GAP
  <2>5. \A m \in 0..(k + 1) : m \in 0..k \/ m = k + 1
    OBVIOUS
  <2> QED BY SMTT(60), <2>1, <2>4, <2>5
<1> HIDE DEF D
<1>13. Nat \subseteq D
  BY <1>11, <1>12, Induction
<1>14. \A k \in 0..N : it[k] \in Int /\ \A m \in 0..k : it[m] <= it[k]
  BY <1>13 DEF D
<1> HIDE DEF Fine
<1> DEFINE r == Pushed(q, i)
<1>15. \A j \in i..n : j - i \in 0..N /\ r[j] = it[j - i]
  BY <1>2, <1>3, <1>10
<1>16. \A j \in 1..i : r[j] = q[j]
  BY <1>3
<1>17. r \in [1..n -> Int]
  <2>1. \A j \in 1..n : r[j] \in Int
    <3>1. \A j \in 1..n : q[j] \in Int /\ (j \in 1..i \/ j \in i..n)
      OBVIOUS
    <3> QED BY <1>14, <1>15, <1>16, <3>1
  <2> QED BY <1>3, <2>1
<1>18. ASSUME NEW j \in i..n, NEW k \in i..n, j < k PROVE r[j] <= r[k]
  <2>1. j - i \in 0..(k - i) /\ k - i \in 0..N
    BY <1>2, <1>18
  <2> QED BY <1>14, <1>15, <2>1
<1> QED BY <1>16, <1>17, <1>18

(* The lines before the one set are pulled to before it, none below zero.  *)
LEMMA PulledBackIs ==
    ASSUME NEW n \in Nat, NEW q \in [1..n -> Int], NEW i \in 1..n, q[i] >= 0,
           \A j, k \in 1..(i - 1) : j < k => q[j] <= q[k]
    PROVE  LET r == PulledBack(q, i)
           IN /\ r \in [1..n -> Int] /\ \A j \in i..n : r[j] = q[j]
              /\ \A j, k \in 1..i : j < k => r[j] <= r[k]
<1> DEFINE X == [at : Int, room : BOOLEAN]
           pull(k, p) == IF p.room \/ q[i - k] <= p.at - MIN_GAP
                         THEN [at |-> q[i - k], room |-> TRUE]
                         ELSE [at |-> Larger(0, p.at - MIN_GAP), room |-> FALSE]
           next == [p \in Nat \X X |-> IF i - p[1] \in 1..n THEN pull(p[1], p[2]) ELSE p[2]]
           first == [at |-> q[i], room |-> FALSE]
           it == CHOOSE before : before = [k \in 0..(i - 1) |->
                   IF k = 0 THEN first
                   ELSE IF before[k - 1].room \/ q[i - k] <= before[k - 1].at - MIN_GAP
                        THEN [at |-> q[i - k], room |-> TRUE]
                        ELSE [at |-> Larger(0, before[k - 1].at - MIN_GAP), room |-> FALSE]]
<1>1. DOMAIN q = 1..n
  OBVIOUS
<1>2. PICK N \in Nat : N = i - 1
  OBVIOUS
<1>3. PulledBack(q, i) = [j \in 1..n |-> IF j < i THEN it[i - j].at ELSE q[j]]
  BY <1>1 DEF PulledBack
<1>4. ASSUME NEW k \in Nat, NEW p \in X, i - k \in 1..n PROVE pull(k, p) \in X
  <2>1. q[i - k] \in Int /\ Larger(0, p.at - MIN_GAP) \in Int
    BY <1>4 DEF Larger, MIN_GAP
  <2> QED BY <2>1
<1>5. next \in [Nat \X X -> X]
  <2> HIDE DEF pull, X
  <2>1. \A p \in Nat \X X : next[p] = IF i - p[1] \in 1..n THEN pull(p[1], p[2]) ELSE p[2]
    OBVIOUS
  <2>2. \A p \in Nat \X X : p[1] \in Nat /\ p[2] \in X
    OBVIOUS
  <2>3. \A p \in Nat \X X : next[p] \in X
    BY <1>4, <2>1, <2>2
  <2> QED BY <2>3
<1>6. \A k \in 1..N, p \in X : next[<<k, p>>] = pull(k, p)
  <2> HIDE DEF pull, X
  <2>1. \A k \in 1..N : k \in Nat /\ i - k \in 1..n
    BY <1>2
  <2> QED BY <2>1
<1>7. first \in X
  OBVIOUS
<1> HIDE DEF next
<1>8. PICK f \in [0..N -> X] : Recurs(f, N, first, next)
  BY <1>5, <1>7, Recursion
<1>9. \A k \in 0..N : k # 0 => k \in 1..N /\ k - 1 \in 0..N
  OBVIOUS
<1>10. f = [k \in 0..N |-> IF k = 0 THEN first ELSE pull(k, f[k - 1])]
  <2>1. \A k \in 0..N : k # 0 => next[<<k, f[k - 1]>>] = pull(k, f[k - 1])
    BY <1>6, <1>9
  <2> HIDE DEF pull, first
  <2> QED BY <1>8, <2>1 DEF Recurs
<1>11. it = [k \in 0..N |-> IF k = 0 THEN first ELSE pull(k, it[k - 1])]
  BY <1>2, <1>10
<1> HIDE DEF it
<1>12. it[0] = first /\ \A k \in 1..N : it[k] = pull(k, it[k - 1])
  <2> HIDE DEF pull, first
  <2> QED BY <1>9, <1>11
<1> DEFINE Fine(k) == /\ it[k] \in X
                      /\ ~it[k].room => it[k].at >= 0
                      /\ it[k].room => k # 0 /\ it[k].at = q[i - k]
                      /\ \A m \in 0..k : it[m].at \in Int /\ it[k].at <= it[m].at
           D == {k \in Nat : k <= N => Fine(k)}
<1>13. 0 \in D
  <2>1. it[0].at = q[i] /\ it[0].room = FALSE /\ it[0] \in X /\ q[i] \in Int
    BY <1>7, <1>12
  <2>2. \A m \in 0..0 : m = 0
    OBVIOUS
  <2>3. \A m \in 0..0 : it[m].at \in Int /\ it[0].at <= it[m].at
    BY <2>1, <2>2
  <2>4. Fine(0)
    BY <2>1, <2>3
  <2> HIDE DEF Fine
  <2> QED BY <2>4
<1>14. ASSUME NEW k \in Nat, k \in D PROVE k + 1 \in D
  <2> SUFFICES ASSUME k + 1 <= N PROVE Fine(k + 1)
    OBVIOUS
  <2>0. Fine(k)
    <3> HIDE DEF Fine
    <3> QED BY <1>14
  <2>b. \A m \in 0..k : it[m].at \in Int /\ it[k].at <= it[m].at
    BY <2>0
  <2>c. (~it[k].room => it[k].at >= 0) /\ (it[k].room => k # 0 /\ it[k].at = q[i - k])
    BY <2>0
  <2>1. it[k].at \in Int /\ it[k].room \in BOOLEAN
    BY <2>0
  <2>d. ASSUME NEW v \in Int, v <= it[k].at PROVE \A m \in 0..k : it[m].at \in Int /\ v <= it[m].at
    <3> SUFFICES ASSUME NEW m \in 0..k PROVE it[m].at \in Int /\ v <= it[m].at
      OBVIOUS
    <3> HIDE DEF Fine, pull, first, X, D
    <3>1. it[m].at \in Int /\ it[k].at <= it[m].at
      BY <2>b
    <3> QED BY <2>1, <2>d, <3>1
  <2>2. k + 1 \in 1..N /\ (k + 1) - 1 = k /\ i - (k + 1) \in 1..(i - 1) /\ i - (k + 1) \in 1..n
    BY <1>2
  <2>3. it[k + 1] = pull(k + 1, it[k]) /\ q[i - (k + 1)] \in Int
    BY <1>12, <2>2
  <2>a. ASSUME NEW v \in Int, NEW b \in BOOLEAN, it[k + 1] = [at |-> v, room |-> b],
               ~b => v >= 0, b => v = q[i - (k + 1)], \A m \in 0..k : it[m].at \in Int /\ v <= it[m].at
        PROVE  Fine(k + 1)
    <3>1. it[k + 1] \in X /\ it[k + 1].at = v /\ it[k + 1].room = b
      BY <2>a
    <3>2. \A m \in 0..(k + 1) : m \in 0..k \/ m = k + 1
      OBVIOUS
    <3>3. \A m \in 0..(k + 1) : it[m].at \in Int /\ it[k + 1].at <= it[m].at
      BY <2>a, <3>1, <3>2
    <3> QED BY <2>a, <3>1, <3>3
  <2> HIDE DEF Fine
  <2>4. CASE it[k].room
    <3>1. k # 0 /\ it[k].at = q[i - k]
      BY <2>c, <2>4
    <3>2. i - k \in 1..(i - 1) /\ i - (k + 1) < i - k
      BY <1>2, <2>2, <3>1
    <3>3. q[i - (k + 1)] <= it[k].at
      BY <2>2, <3>1, <3>2
    <3>4. it[k + 1] = [at |-> q[i - (k + 1)], room |-> TRUE]
      BY <2>3, <2>4
    <3>5. \A m \in 0..k : it[m].at \in Int /\ q[i - (k + 1)] <= it[m].at
      BY <2>d, <2>3, <3>3
    <3> QED BY <2>a, <2>3, <3>4, <3>5
  <2>5. CASE ~it[k].room /\ q[i - (k + 1)] <= it[k].at - MIN_GAP
    <3>1. it[k + 1] = [at |-> q[i - (k + 1)], room |-> TRUE]
      BY <2>3, <2>5
    <3>2. q[i - (k + 1)] <= it[k].at
      BY SMTT(40), <2>1, <2>3, <2>5 DEF MIN_GAP
    <3>3. \A m \in 0..k : it[m].at \in Int /\ q[i - (k + 1)] <= it[m].at
      BY <2>d, <2>3, <3>2
    <3> QED BY <2>a, <2>3, <3>1, <3>3
  <2>6. CASE ~it[k].room /\ ~(q[i - (k + 1)] <= it[k].at - MIN_GAP)
    <3>1. it[k + 1] = [at |-> Larger(0, it[k].at - MIN_GAP), room |-> FALSE]
      BY <2>3, <2>6
    <3>2. it[k].at >= 0
      BY <2>c, <2>6
    <3>3. PICK v \in Int : v = Larger(0, it[k].at - MIN_GAP) /\ v >= 0 /\ v <= it[k].at
      BY <2>1, <3>2 DEF Larger, MIN_GAP
    <3>4. \A m \in 0..k : it[m].at \in Int /\ v <= it[m].at
      BY <2>d, <3>3
    <3> QED BY <2>a, <3>1, <3>3, <3>4
  <2> QED BY <2>4, <2>5, <2>6
<1> HIDE DEF D, pull, first
<1>15. Nat \subseteq D
  BY <1>13, <1>14, Induction
<1>16. \A k \in 0..N : it[k].at \in Int /\ \A m \in 0..k : it[k].at <= it[m].at
  <2> SUFFICES ASSUME NEW k \in 0..N PROVE it[k].at \in Int /\ \A m \in 0..k : it[k].at <= it[m].at
    OBVIOUS
  <2>1. k \in Nat /\ k <= N /\ k \in 0..k
    OBVIOUS
  <2>2. Fine(k)
    <3> HIDE DEF Fine
    <3> QED BY <1>15, <2>1 DEF D
  <2>3. \A m \in 0..k : it[m].at \in Int /\ it[k].at <= it[m].at
    BY <2>2
  <2> HIDE DEF Fine
  <2> QED BY <2>1, <2>3
<1>17. it[0].at = q[i]
  BY <1>12 DEF first
<1> HIDE DEF Fine
<1> DEFINE r == PulledBack(q, i)
<1>18. \A j \in 1..i : i - j \in 0..N /\ r[j] = it[i - j].at
  BY <1>2, <1>3, <1>17
<1>19. \A j \in i..n : r[j] = q[j]
  BY <1>3
<1>20. r \in [1..n -> Int]
  <2>0. \A j \in 1..n : q[j] \in Int /\ (j \in 1..i \/ j \in i..n)
    OBVIOUS
  <2>1. \A j \in 1..n : r[j] \in Int
    BY <1>16, <1>18, <1>19, <2>0
  <2> QED BY <1>3, <2>1
<1>21. ASSUME NEW j \in 1..i, NEW k \in 1..i, j < k PROVE r[j] <= r[k]
  <2>1. i - k \in 0..(i - j) /\ i - j \in 0..N
    BY <1>2, <1>21
  <2> QED BY <1>16, <1>18, <2>1
<1> QED BY <1>19, <1>20, <1>21

(* Whatever line is set, and however the others give way, the lines are in *)
(* order.                                                                  *)
LEMMA ApplyTimeIs ==
    ASSUME NEW q \in TimedLines, NEW i \in Nat, NEW time \in Int, NEW mode, NEW fixed
    PROVE  ApplyTime(q, i, time, mode, fixed) \in TimedLines
<1> DEFINE t == WithinTrack(time)
<1>1. PICK n \in Nat : DOMAIN q = 1..n /\ Len(q) = n /\ q \in [1..n -> Int]
  BY DEF TimedLines
<1>2. \A j, k \in 1..n : j < k => q[j] <= q[k]
  BY <1>1 DEF TimedLines, Ascending
<1>3. t \in Nat
  BY TimingAssumption DEF WithinTrack, Smaller, Larger
<1>4. ASSUME NEW r \in [1..n -> Int], \A j, k \in 1..n : j < k => r[j] <= r[k] PROVE r \in TimedLines
  <2>1. r \in Seq(Int) /\ DOMAIN r = 1..n
    OBVIOUS
  <2> QED BY <1>4, <2>1 DEF TimedLines, Ascending
<1> HIDE DEF t
<1>5. CASE i \notin DOMAIN q
  BY <1>5 DEF ApplyTime
<1>6. CASE i \in DOMAIN q /\ mode = "clamp"
  <2> DEFINE lo == IF i > 1 THEN q[i - 1] + MIN_GAP ELSE 0
             hi == IF i < Len(q) THEN q[i + 1] - MIN_GAP ELSE TrackEnd
             v == IF lo > hi THEN q[i] ELSE Larger(lo, Smaller(hi, t))
             r == [q EXCEPT ![i] = v]
  <2>1. ApplyTime(q, i, time, mode, fixed) = r
    BY <1>6 DEF ApplyTime, Clamped, t
  <2>2. i \in 1..n /\ q[i] \in Int
    BY <1>1, <1>6
  <2>3. i > 1 => i - 1 \in 1..n /\ q[i - 1] \in Int /\ lo = q[i - 1] + 1 /\ q[i - 1] <= q[i]
    BY <1>1, <1>2, <2>2 DEF MIN_GAP
  <2>4. i < n => i + 1 \in 1..n /\ q[i + 1] \in Int /\ hi = q[i + 1] - 1 /\ q[i] <= q[i + 1]
    BY <1>1, <1>2, <2>2 DEF MIN_GAP
  <2>5. lo \in Int /\ hi \in Int
    BY <1>1, <2>2, <2>3, <2>4, TimingAssumption
  <2> HIDE DEF lo, hi
  <2>6. /\ v \in Int
        /\ v = q[i] \/ (lo <= v /\ v <= hi)
    BY <1>3, <2>2, <2>5 DEF Larger, Smaller
  <2> HIDE DEF v
  <2>7. /\ i > 1 => q[i - 1] <= v
        /\ i < n => v <= q[i + 1]
    BY <2>2, <2>3, <2>4, <2>5, <2>6
  <2>8. r \in [1..n -> Int] /\ r[i] = v /\ \A j \in 1..n : j # i => r[j] = q[j]
    BY <1>1, <2>2, <2>6
  <2> HIDE DEF r
  <2>9. \A j \in 1..n : /\ j < i => i > 1 /\ q[j] \in Int /\ q[j] <= q[i - 1]
                        /\ i < j => i < n /\ q[j] \in Int /\ q[i + 1] <= q[j]
    <3>1. \A j \in 1..n : /\ j < i => j = i - 1 \/ j < i - 1
                          /\ i < j => j = i + 1 \/ i + 1 < j
      BY <2>2
    <3>2. \A j \in 1..n : q[j] \in Int
      BY <1>1
    <3> QED BY <1>2, <2>2, <2>3, <2>4, <3>1, <3>2
  <2>10. ASSUME NEW j \in 1..n, NEW k \in 1..n, j < k PROVE r[j] <= r[k]
    <3>1. CASE j = i
      BY <2>4, <2>6, <2>7, <2>8, <2>9, <2>10, <3>1
    <3>2. CASE k = i
      BY <2>3, <2>6, <2>7, <2>8, <2>9, <2>10, <3>2
    <3>3. CASE j # i /\ k # i
      BY <1>2, <2>8, <2>10, <3>3
    <3> QED BY <3>1, <3>2, <3>3
  <2> QED BY <1>4, <2>1, <2>8, <2>10
<1>7. CASE i \in DOMAIN q /\ mode # "clamp"
  <2> DEFINE p == IF mode = "ripple" THEN Carried(q, i, t, fixed) ELSE [q EXCEPT ![i] = t]
             s == Pushed(p, i)
             r == PulledBack(s, i)
  <2>1. i \in 1..n
    BY <1>1, <1>7
  <2>2. ApplyTime(q, i, time, mode, fixed) = r
    BY <1>7 DEF ApplyTime, t
  <2>3. p \in [1..n -> Int] /\ p[i] = t /\ \A j \in 1..(i - 1) : p[j] = q[j]
    <3>1. CASE mode = "ripple"
      <4>1. p = [j \in 1..n |->
                  IF j = i THEN t
                  ELSE IF j > i /\ (i + 1)..j \cap fixed = {} THEN WithinTrack(q[j] + t - q[i])
                  ELSE q[j]]
        BY <1>1, <3>1 DEF Carried
      <4>2. \A j \in 1..n : q[j] \in Int /\ WithinTrack(q[j] + t - q[i]) \in Int
        BY <1>1, <1>3, <2>1, TimingAssumption DEF WithinTrack, Smaller, Larger
      <4>3. p \in [1..n -> Int]
        <5> HIDE DEF p
        <5>1. \A j \in 1..n : p[j] \in Int
          BY <1>3, <4>1, <4>2
        <5> QED BY <4>1, <5>1
      <4>4. p[i] = t /\ \A j \in 1..(i - 1) : j \in 1..n /\ j # i /\ ~(j > i) /\ p[j] = q[j]
        <5> HIDE DEF p
        <5>1. \A j \in 1..(i - 1) : j \in 1..n /\ j # i /\ ~(j > i)
          BY <2>1
        <5> QED BY <2>1, <4>1, <5>1
      <4> QED BY <4>3, <4>4
    <3>2. CASE mode # "ripple"
      BY <1>1, <1>3, <2>1, <3>2
    <3> QED BY <3>1, <3>2
  <2> HIDE DEF p
  <2>4. /\ s \in [1..n -> Int] /\ \A j \in 1..i : s[j] = p[j]
        /\ \A j, k \in i..n : j < k => s[j] <= s[k]
    BY <2>1, <2>3, PushedIs
  <2> HIDE DEF s
  <2>5. s[i] >= 0 /\ \A j, k \in 1..(i - 1) : j < k => s[j] <= s[k]
    <3>1. s[i] = t
      BY <2>1, <2>3, <2>4
    <3>2. \A j \in 1..(i - 1) : j \in 1..n /\ s[j] = q[j]
      BY <2>1, <2>3, <2>4
    <3> QED BY <1>2, <1>3, <3>1, <3>2
  <2>6. /\ r \in [1..n -> Int] /\ \A j \in i..n : r[j] = s[j]
        /\ \A j, k \in 1..i : j < k => r[j] <= r[k]
    BY <2>1, <2>4, <2>5, PulledBackIs
  <2> HIDE DEF r
  <2>7. ASSUME NEW j \in 1..n, NEW k \in 1..n, j < k PROVE r[j] <= r[k]
    <3>1. CASE k \in 1..i
      BY <2>6, <2>7, <3>1
    <3>2. CASE j \in i..n
      BY <2>4, <2>6, <2>7, <3>2
    <3>3. CASE j < i /\ i < k
      <4>1. j \in 1..i /\ i \in 1..i /\ i \in i..n /\ k \in i..n
        BY <2>1, <3>3
      <4>2. r[j] <= r[i] /\ r[i] = s[i] /\ s[i] <= s[k] /\ r[k] = s[k]
        BY <2>4, <2>6, <3>3, <4>1
      <4>3. r[j] \in Int /\ r[i] \in Int /\ r[k] \in Int
        BY <2>1, <2>6
      <4> QED BY <4>2, <4>3
    <3> QED BY <2>1, <3>1, <3>2, <3>3
  <2> QED BY <1>4, <2>2, <2>6, <2>7
<1> QED BY <1>5, <1>6, <1>7
-----------------------------------------------------------------------------
(* The session of Sync lines.                                              *)

TimingKinds == {"user", "aligned", "offset"}
LineSets == SUBSET Nat
SyncSnaps == [lines : TimedLines, cursor : Nat \ {0}, touched : LineSets, kind : TimingKinds]
Histories == Seq(SyncSnaps)
SyncSessions == [lines : TimedLines, cursor : Nat \ {0}, touched : LineSets, kind : TimingKinds,
                 ripple : BOOLEAN, undo : Histories, redo : Histories]

LEMMA SessionParts ==
    ASSUME NEW s \in SyncSessions
    PROVE  /\ s = [lines |-> s.lines, cursor |-> s.cursor, touched |-> s.touched, kind |-> s.kind,
                   ripple |-> s.ripple, undo |-> s.undo, redo |-> s.redo]
           /\ s.lines \in TimedLines /\ s.cursor \in Nat \ {0} /\ s.touched \in LineSets
           /\ s.kind \in TimingKinds /\ s.ripple \in BOOLEAN
           /\ s.undo \in Histories /\ s.redo \in Histories
BY DEF SyncSessions

LEMMA SessionFrom ==
    \A lines \in TimedLines, cursor \in Nat \ {0}, touched \in LineSets, kind \in TimingKinds,
       ripple \in BOOLEAN, undo \in Histories, redo \in Histories :
        [lines |-> lines, cursor |-> cursor, touched |-> touched, kind |-> kind,
         ripple |-> ripple, undo |-> undo, redo |-> redo] \in SyncSessions
BY DEF SyncSessions

LEMMA LineSetIs == {} \in LineSets /\ \A s \in LineSets, i \in Nat : s \cup {i} \in LineSets
BY DEF LineSets

(* A step of the history.                                                  *)
LEMMA SnapshotIs ==
    ASSUME NEW s \in SyncSessions
    PROVE  /\ TimingSnapshot(s) \in SyncSnaps
           /\ \A q \in Histories : Append(q, TimingSnapshot(s)) \in Histories
<1>1. PICK x : x = TimingSnapshot(s)
  OBVIOUS
<1>2. x \in SyncSnaps
  BY <1>1, SessionParts DEF TimingSnapshot, SyncSnaps
<1>3. \A q \in Histories : Append(q, x) \in Histories
  BY <1>2 DEF Histories
<1> QED BY <1>1, <1>2, <1>3

LEMMA LastOfHistory ==
    ASSUME NEW q \in Histories, q # <<>>
    PROVE  Front(q) \in Histories /\ Last(q) \in SyncSnaps
<1>1. PICK n \in Nat : n = Len(q) /\ n # 0 /\ DOMAIN q = 1..n
  BY EmptySeq DEF Histories
<1>2. q[n] \in SyncSnaps /\ \A i \in 1..(n - 1) : i \in 1..n /\ q[i] \in SyncSnaps
  BY <1>1 DEF Histories
<1>3. SubSeq(q, 1, n - 1) \in Histories
  BY <1>1, <1>2, SubSeqProperties DEF Histories
<1> QED BY <1>1, <1>2, <1>3 DEF Front, Last

(* The state before a change is kept, the oldest making room.              *)
LEMMA RememberedIs ==
    ASSUME NEW s \in SyncSessions, NEW r \in {Remembered(s), Record(s)}
    PROVE  /\ r \in SyncSessions
           /\ r.lines = s.lines /\ r.cursor = s.cursor /\ r.touched = s.touched /\ r.kind = s.kind
<1>1. PICK u \in Histories : u = Append(s.undo, TimingSnapshot(s)) /\ u # <<>>
  <2>1. Append(s.undo, TimingSnapshot(s)) \in Histories
    BY SnapshotIs, SessionParts
  <2>2. \A x \in SyncSnaps : Append(s.undo, x) # <<>>
    BY SessionParts DEF Histories
  <2> QED BY <2>1, <2>2, SnapshotIs
<1>2. PICK a : a = Remembered(s)
  OBVIOUS
<1>3. PICK e \in Histories : e = <<>>
  BY EmptySeq DEF Histories
<1>4. a = [lines |-> s.lines, cursor |-> s.cursor, touched |-> s.touched, kind |-> s.kind,
           ripple |-> s.ripple, undo |-> u, redo |-> e]
  <2>1. s = [lines |-> s.lines, cursor |-> s.cursor, touched |-> s.touched, kind |-> s.kind,
             ripple |-> s.ripple, undo |-> s.undo, redo |-> s.redo]
    BY SessionParts
  <2>2. a = [s EXCEPT !.undo = u, !.redo = e]
    BY <1>1, <1>2, <1>3 DEF Remembered
  <2> QED BY <2>1, <2>2
<1>5. /\ a \in SyncSessions /\ a.undo = u /\ a.redo = e /\ a.ripple = s.ripple
      /\ a.lines = s.lines /\ a.cursor = s.cursor /\ a.touched = s.touched /\ a.kind = s.kind
  BY <1>4, SessionParts, SessionFrom
<1>6. CASE r = a
  BY <1>5, <1>6
<1>7. CASE r = [a EXCEPT !.undo = Tail(@)]
  <2>1. PICK v \in Histories : v = Tail(u)
    BY <1>1, HeadTailProperties DEF Histories
  <2>2. r = [lines |-> s.lines, cursor |-> s.cursor, touched |-> s.touched, kind |-> s.kind,
             ripple |-> s.ripple, undo |-> v, redo |-> e]
    BY <1>4, <1>7, <2>1
  <2> QED BY <2>2, SessionParts, SessionFrom
<1>8. r = a \/ r = [a EXCEPT !.undo = Tail(@)]
  BY <1>2 DEF Record
<1> QED BY <1>6, <1>7, <1>8

(* A line is set.                                                          *)
LEMMA SetTimeIs ==
    ASSUME NEW s \in SyncSessions, NEW i \in Nat, NEW time \in Int, NEW mode
    PROVE  SetTime(s, i, time, mode) \in SyncSessions
<1>1. PICK lines \in TimedLines : lines = ApplyTime(s.lines, i, time, mode, s.touched)
  BY SessionParts, ApplyTimeIs
<1>2. PICK r \in SyncSessions : r = Record(s) /\ r.touched = s.touched
  BY RememberedIs
<1>3. PICK h : h = [r EXCEPT !.lines = lines, !.touched = @ \cup {i}, !.kind = "user"]
  OBVIOUS
<1>4. SetTime(s, i, time, mode) = IF lines = s.lines THEN s ELSE h
  BY <1>1, <1>2, <1>3 DEF SetTime
<1>5. PICK touched \in LineSets : touched = r.touched \cup {i}
  BY SessionParts, LineSetIs
<1>6. h = [lines |-> lines, cursor |-> r.cursor, touched |-> touched, kind |-> "user",
           ripple |-> r.ripple, undo |-> r.undo, redo |-> r.redo]
  <2>1. r = [lines |-> r.lines, cursor |-> r.cursor, touched |-> r.touched, kind |-> r.kind,
             ripple |-> r.ripple, undo |-> r.undo, redo |-> r.redo]
    BY SessionParts
  <2>2. h = [r EXCEPT !.lines = lines, !.touched = touched, !.kind = "user"]
    BY <1>3, <1>5
  <2> QED BY <2>1, <2>2
<1>7. "user" \in TimingKinds
  BY DEF TimingKinds
<1>8. h \in SyncSessions
  BY <1>6, <1>7, SessionParts, SessionFrom
<1> QED BY <1>4, <1>8

LEMMA TappedIs ==
    ASSUME NEW s \in SyncSessions, NEW time \in Int
    PROVE  Tapped(s, time) \in SyncSessions
<1>1. PICK set \in SyncSessions : set = SetTime(s, s.cursor, time, IF s.ripple THEN "ripple" ELSE "push")
  BY SessionParts, SetTimeIs
<1>2. PICK m \in SyncSessions : m = Remembered(s) /\ m.touched = s.touched
  BY RememberedIs
<1>3. PICK touched \in LineSets : touched = m.touched \cup {s.cursor}
  BY SessionParts, LineSetIs
<1>4. PICK h : h = [m EXCEPT !.touched = @ \cup {s.cursor}]
  OBVIOUS
<1>5. h = [lines |-> m.lines, cursor |-> m.cursor, touched |-> touched, kind |-> m.kind,
           ripple |-> m.ripple, undo |-> m.undo, redo |-> m.redo]
  <2>1. m = [lines |-> m.lines, cursor |-> m.cursor, touched |-> m.touched, kind |-> m.kind,
             ripple |-> m.ripple, undo |-> m.undo, redo |-> m.redo]
    BY SessionParts
  <2>2. h = [m EXCEPT !.touched = touched]
    BY <1>3, <1>4
  <2> QED BY <2>1, <2>2
<1>6. h \in SyncSessions
  BY <1>5, SessionParts, SessionFrom
<1>7. PICK b \in SyncSessions : b = IF set = s THEN h ELSE set
  BY <1>6
<1>8. PICK r : r = [b EXCEPT !.cursor = @ + 1, !.kind = "user"]
  OBVIOUS
<1>9. Tapped(s, time) = r
  BY <1>1, <1>2, <1>4, <1>7, <1>8 DEF Tapped
<1>10. PICK c \in Nat \ {0} : c = b.cursor + 1
  BY SessionParts
<1>11. r = [lines |-> b.lines, cursor |-> c, touched |-> b.touched, kind |-> "user",
            ripple |-> b.ripple, undo |-> b.undo, redo |-> b.redo]
  <2>1. b = [lines |-> b.lines, cursor |-> b.cursor, touched |-> b.touched, kind |-> b.kind,
            ripple |-> b.ripple, undo |-> b.undo, redo |-> b.redo]
    BY SessionParts
  <2> QED BY <1>8, <1>10, <2>1
<1>12. "user" \in TimingKinds
  BY DEF TimingKinds
<1> QED BY <1>9, <1>11, <1>12, SessionParts, SessionFrom

LEMMA ReplacedIs ==
    ASSUME NEW s \in SyncSessions, NEW lines \in TimedLines, NEW kind \in TimingKinds
    PROVE  /\ Replaced(s, lines, kind) \in SyncSessions
           /\ Replaced(s, lines, kind).lines = lines /\ Replaced(s, lines, kind).kind = kind
<1>1. PICK r \in SyncSessions : r = Record(s)
  BY RememberedIs
<1>2. PICK c \in Nat \ {0} : c = Smaller(r.cursor, Len(lines) + 1)
  <2>1. Len(lines) \in Nat
    BY DEF TimedLines
  <2> QED BY <2>1, SessionParts DEF Smaller
<1>3. PICK h : h = Replaced(s, lines, kind)
  OBVIOUS
<1>4. h = [lines |-> lines, cursor |-> c, touched |-> {}, kind |-> kind,
           ripple |-> r.ripple, undo |-> r.undo, redo |-> r.redo]
  <2>1. r = [lines |-> r.lines, cursor |-> r.cursor, touched |-> r.touched, kind |-> r.kind,
            ripple |-> r.ripple, undo |-> r.undo, redo |-> r.redo]
    BY SessionParts
  <2>2. h = [r EXCEPT !.lines = lines, !.touched = {}, !.kind = kind, !.cursor = c]
    BY <1>1, <1>2, <1>3 DEF Replaced
  <2> QED BY <2>1, <2>2
<1>5. h \in SyncSessions /\ h.lines = lines /\ h.kind = kind
  <2>1. {} \in LineSets /\ r.ripple \in BOOLEAN /\ r.undo \in Histories /\ r.redo \in Histories
    BY SessionParts, LineSetIs
  <2> QED BY <1>4, <2>1, SessionFrom
<1> QED BY <1>3, <1>5

(* What is undone or done again was once there.                            *)
LEMMA HistoryIs ==
    ASSUME NEW s \in SyncSessions
    PROVE  /\ s.undo # <<>> => TimingUndone(s) \in SyncSessions
           /\ s.redo # <<>> => TimingRedone(s) \in SyncSessions
<1>1. ASSUME s.undo # <<>> PROVE TimingUndone(s) \in SyncSessions
  <2>1. PICK u \in Histories, x \in SyncSnaps : u = Front(s.undo) /\ x = Last(s.undo)
    BY <1>1, SessionParts, LastOfHistory
  <2>2. PICK r \in Histories : r = Append(s.redo, TimingSnapshot(s))
    BY SessionParts, SnapshotIs
  <2>3. PICK h : h = TimingUndone(s)
    OBVIOUS
  <2>4. h = [lines |-> x.lines, cursor |-> x.cursor, touched |-> x.touched, kind |-> x.kind,
             ripple |-> s.ripple, undo |-> u, redo |-> r]
    <3>1. s = [lines |-> s.lines, cursor |-> s.cursor, touched |-> s.touched, kind |-> s.kind,
                  ripple |-> s.ripple, undo |-> s.undo, redo |-> s.redo]
      BY SessionParts
    <3>2. h = [[s EXCEPT !.lines = x.lines, !.cursor = x.cursor, !.touched = x.touched, !.kind = x.kind]
                  EXCEPT !.undo = u, !.redo = r]
      BY <2>1, <2>2, <2>3 DEF TimingUndone, TimingRestored
    <3> QED BY <3>1, <3>2
  <2>5. /\ x.lines \in TimedLines /\ x.cursor \in Nat \ {0} /\ x.touched \in LineSets
        /\ x.kind \in TimingKinds
    BY DEF SyncSnaps
  <2>6. s.ripple \in BOOLEAN
    BY SessionParts
  <2> QED BY <2>3, <2>4, <2>5, <2>6, SessionFrom
<1>2. ASSUME s.redo # <<>> PROVE TimingRedone(s) \in SyncSessions
  <2>1. PICK r \in Histories, x \in SyncSnaps : r = Front(s.redo) /\ x = Last(s.redo)
    BY <1>2, SessionParts, LastOfHistory
  <2>2. PICK u \in Histories : u = Append(s.undo, TimingSnapshot(s))
    BY SessionParts, SnapshotIs
  <2>3. PICK h : h = TimingRedone(s)
    OBVIOUS
  <2>4. h = [lines |-> x.lines, cursor |-> x.cursor, touched |-> x.touched, kind |-> x.kind,
             ripple |-> s.ripple, undo |-> u, redo |-> r]
    <3>1. s = [lines |-> s.lines, cursor |-> s.cursor, touched |-> s.touched, kind |-> s.kind,
                  ripple |-> s.ripple, undo |-> s.undo, redo |-> s.redo]
      BY SessionParts
    <3>2. h = [[s EXCEPT !.lines = x.lines, !.cursor = x.cursor, !.touched = x.touched, !.kind = x.kind]
                  EXCEPT !.undo = u, !.redo = r]
      BY <2>1, <2>2, <2>3 DEF TimingRedone, TimingRestored
    <3> QED BY <3>1, <3>2
  <2>5. /\ x.lines \in TimedLines /\ x.cursor \in Nat \ {0} /\ x.touched \in LineSets
        /\ x.kind \in TimingKinds
    BY DEF SyncSnaps
  <2>6. s.ripple \in BOOLEAN
    BY SessionParts
  <2> QED BY <2>3, <2>4, <2>5, <2>6, SessionFrom
<1> QED BY <1>1, <1>2
-----------------------------------------------------------------------------
(* The tab, and the timing on its way to the server.                       *)

TimingEntries == [user : Lrcs, aligned : Lrcs, offset : Int,
                  fitting : {"idle", "running", "done", "unsure", "failed"}]
Kepts == [Verses -> TimingEntries]
UserWaits == {NoUserSave} \cup [timing : Lrcs]
Slates == [track : Verses, of : Verses, offsetOf : Verses, lines : TimedLines, kind : TimingKinds,
           entry : TimingEntries, align : BOOLEAN, busy : BOOLEAN, asking : BOOLEAN,
           wait : UserWaits, offsetWait : Int, retimeToken : Nat, alignToken : Nat]
SyncLanes == [times : TimedLines, drag : Nat]
UserTimings == [track : Verses, timing : Lrcs]
UserChains == Seq(UserTimings)
OffsetTimings == [track : Verses, offset : Int]
RetimeRuns == [track : Verses, token : Nat, stage : {"post", "poll", "read"}]
DetectRuns == [track : Verses, token : Nat]
TimingActs == SUBSET {"sync", "open", "select", "tap", "here", "nudge", "drag", "undo", "ripple",
                      "reset", "align", "detect", "retime"}
TimingSceneSet == [acts : TimingActs, gestures : Int, base : Lrcs, aligned : Lrcs, fit : Lrcs, detected : Int]

(* What is shown is the open track's, and the page's copy of the user's    *)
(* timing is of the lines shown.                                           *)
SlateFits(p) ==
    /\ p.of = p.track /\ p.offsetOf = p.track
    /\ p.entry.user = IF p.kind = "user" THEN SavedLrc(p.lines) ELSE NoTiming

SessionFits(p, s, l) ==
    IF s = NoSession THEN l.drag = 0
    ELSE /\ s \in SyncSessions /\ p.lines = s.lines /\ p.kind = s.kind /\ ~p.align
         /\ l.drag = 0 => l.times = s.lines

(* What the server was last meant to keep of the user's: what it keeps, or *)
(* what was lost.                                                          *)
Meant == [t \in Verses |-> IF lostTiming[t] = NoUserSave THEN keptTiming[t].user
                           ELSE lostTiming[t].timing]

(* The timing given last: not yet sent, or the last one sent, or meant to  *)
(* be kept.  Of another track only the first save of the chain can be.     *)
GivenLast(p, out, m) ==
    IF p.wait # NoUserSave THEN p.wait.timing
    ELSE IF out # <<>> /\ out[Len(out)].track = p.track THEN out[Len(out)].timing
    ELSE m[p.track]
UserFits(p, out, m) ==
    /\ p.entry.user = GivenLast(p, out, m)
    /\ \A i \in DOMAIN out : i > 1 => out[i].track = p.track

TimingInv ==
    /\ timingScene \in TimingSceneSet /\ slate \in Slates /\ lane \in SyncLanes
    /\ keptTiming \in Kepts /\ lostTiming \in [Verses -> UserWaits] /\ userSaves \in UserChains
    /\ offsetSaves \subseteq OffsetTimings /\ retimes \subseteq RetimeRuns /\ detects \subseteq DetectRuns
    /\ SlateFits(slate) /\ SessionFits(slate, session, lane) /\ UserFits(slate, userSaves, Meant)

LEMMA NoTimingIs == NoTiming \in Lrcs /\ NoTiming \in TimedLines
<1>1. <<>> \in Seq(Nat) /\ <<>> \in Seq(Int) /\ DOMAIN <<>> = {}
  BY EmptySeq
<1> QED BY <1>1 DEF NoTiming, Lrcs, TimedLines, Ascending

LEMMA NotNoSession == \A s \in SyncSessions : s # NoSession
<1> SUFFICES ASSUME NEW s \in SyncSessions, s = NoSession PROVE FALSE
  OBVIOUS
<1>1. DOMAIN s = {"lines"}
  BY DEF NoSession
<1>2. "cursor" \in DOMAIN s
  BY DEF SyncSessions
<1> QED BY <1>1, <1>2

LEMMA WaitIs ==
    ASSUME NEW q \in Lrcs
    PROVE  [timing |-> q] \in UserWaits /\ [timing |-> q] # NoUserSave
<1>1. q # <<-1>>
  <2> SUFFICES ASSUME q = <<-1>> PROVE FALSE
    OBVIOUS
  <2>1. 1 \in DOMAIN q /\ q[1] = -1
    OBVIOUS
  <2>2. q[1] \in Nat
    BY <2>1 DEF Lrcs
  <2> QED BY <2>1, <2>2
<1> QED BY <1>1 DEF UserWaits, NoUserSave

(* Lines moved as a whole.                                                 *)
LEMMA ShiftIs ==
    ASSUME NEW q \in Lrcs, NEW d \in Int PROVE ShiftLines(q, d) \in TimedLines
<1>1. PICK n \in Nat : n = Len(q) /\ DOMAIN q = 1..n
  BY DEF Lrcs
<1>2. \A i \in 1..n : q[i] \in Int /\ q[i] + d \in Int
  BY <1>1 DEF Lrcs
<1>3. PICK r : r = [i \in 1..n |-> q[i] + d]
  OBVIOUS
<1>4. r \in Seq(Int) /\ DOMAIN r = 1..n
  BY <1>2, <1>3
<1>5. \A i, j \in 1..n : i < j => r[i] <= r[j]
  <2>1. \A i, j \in 1..n : i < j => q[i] <= q[j]
    BY <1>1 DEF Lrcs, Ascending
  <2> QED BY <1>2, <1>3, <2>1
<1>6. ShiftLines(q, d) = r
  BY <1>1, <1>3 DEF ShiftLines
<1> QED BY <1>4, <1>5, <1>6 DEF TimedLines, Ascending

(* The timing that is chosen of what is known of a track.                  *)
LEMMA TimingOfIs ==
    ASSUME NEW entry \in TimingEntries, NEW base \in Lrcs
    PROVE  LET r == TimingOf(entry, base)
           IN /\ r.lines \in TimedLines /\ r.kind \in TimingKinds
              /\ entry.user = IF r.kind = "user" THEN SavedLrc(r.lines) ELSE NoTiming
<1>1. entry.user \in Lrcs /\ entry.aligned \in Lrcs /\ entry.offset \in Int
  BY DEF TimingEntries
<1>2. CASE entry.user # NoTiming
  <2>1. entry.user \in TimedLines /\ SavedLrc(entry.user) = entry.user
    BY <1>1, SavedAgain
  <2> QED BY <1>2, <2>1 DEF TimingOf, TimingKinds
<1>3. CASE entry.user = NoTiming /\ entry.aligned # NoTiming
  <2>1. entry.aligned \in TimedLines
    BY <1>1, SavedAgain
  <2> QED BY <1>3, <2>1 DEF TimingOf, TimingKinds
<1>4. CASE entry.user = NoTiming /\ entry.aligned = NoTiming
  <2>1. ShiftLines(base, entry.offset) \in TimedLines
    BY <1>1, ShiftIs
  <2> QED BY <1>4, <2>1 DEF TimingOf, TimingKinds
<1> QED BY <1>2, <1>3, <1>4

(* What waits is sent: the timing given last is still the same.            *)
LEMMA FlushIs ==
    ASSUME NEW p \in Slates, NEW out \in UserChains, NEW k, UserFits(p, out, k),
           NEW r \in Slates, r.track = p.track, r.entry.user = p.entry.user,
           r.wait = p.wait \/ r.wait = NoUserSave
    PROVE  FlushUser(p, out) \in UserChains /\ UserFits(r, FlushUser(p, out), k)
<1>1. CASE p.wait = NoUserSave
  BY <1>1 DEF FlushUser, UserFits, GivenLast
<1>2. CASE p.wait # NoUserSave
  <2>1. PICK x : x = [track |-> p.track, timing |-> p.wait.timing]
    OBVIOUS
  <2>2. p.track \in Verses /\ p.wait \in [timing : Lrcs]
    BY <1>2 DEF Slates, UserWaits
  <2>3. x \in UserTimings /\ x.track = p.track /\ x.timing = p.wait.timing
    BY <2>1, <2>2 DEF UserTimings
  <2>4. PICK n \in Nat : n = Len(out) /\ DOMAIN out = 1..n
    BY DEF UserChains
  <2>5. PICK q : q = Append(out, x)
    OBVIOUS
  <2>6. /\ q \in UserChains /\ q # <<>> /\ Len(q) = n + 1 /\ DOMAIN q = 1..(n + 1) /\ q[n + 1] = x
        /\ \A i \in 1..n : q[i] = out[i]
    BY <2>3, <2>4, <2>5 DEF UserChains
  <2>7. FlushUser(p, out) = q
    BY <1>2, <2>1, <2>5 DEF FlushUser
  <2>8. p.entry.user = p.wait.timing /\ \A i \in 1..n : i > 1 => out[i].track = p.track
    BY <1>2, <2>4 DEF UserFits, GivenLast
  <2>9. \A i \in DOMAIN q : i > 1 => q[i].track = r.track
    BY <2>3, <2>4, <2>6, <2>8
  <2>10. GivenLast(r, q, k) = p.wait.timing
    BY <1>2, <2>3, <2>6 DEF GivenLast
  <2> QED BY <2>6, <2>7, <2>8, <2>9, <2>10 DEF UserFits
<1> QED BY <1>1, <1>2

(* Nothing of the user's landed or was lost.                               *)
LEMMA MeantStays ==
    ASSUME lostTiming' = lostTiming,
           keptTiming' = keptTiming \/ \A t \in Verses : keptTiming'[t].user = keptTiming[t].user
    PROVE  Meant' = Meant
<1>1. \A t \in Verses : keptTiming'[t].user = keptTiming[t].user
  OBVIOUS
<1> QED BY <1>1 DEF Meant

(* A change of the session is shown and given.                             *)
LEMMA SyncChangedIs ==
    ASSUME NEW s \in SyncSessions, slate \in Slates, SlateFits(slate),
           UserFits(slate, userSaves, Meant)
    PROVE  LET p == SyncChanged(s)
           IN /\ p \in Slates /\ p.lines = s.lines /\ p.kind = s.kind /\ p.align = slate.align
              /\ p.track = slate.track
              /\ SlateFits(p) /\ UserFits(p, userSaves, Meant)
<1>1. PICK user \in Lrcs : user = IF s.kind = "user" THEN SavedLrc(s.lines) ELSE NoTiming
  BY SessionParts, SavedIs, NoTimingIs
<1>2. PICK wait \in UserWaits :
         wait = IF s.kind = "user" THEN [timing |-> SavedLrc(s.lines)]
                ELSE IF slate.entry.user # NoTiming THEN [timing |-> NoTiming] ELSE slate.wait
  <2>1. slate.wait \in UserWaits
    BY DEF Slates
  <2>2. [timing |-> NoTiming] \in UserWaits
    BY WaitIs, NoTimingIs
  <2>3. [timing |-> SavedLrc(s.lines)] \in UserWaits
    BY WaitIs, SavedIs, SessionParts
  <2> QED BY <2>1, <2>2, <2>3
<1>3. PICK e \in TimingEntries : e = [slate.entry EXCEPT !.user = user]
  BY DEF Slates, TimingEntries
<1>4. e.user = user
  <2>1. slate.entry \in TimingEntries
    BY DEF Slates
  <2> QED BY <1>3, <2>1 DEF TimingEntries
<1>5. PICK p : p = SyncChanged(s)
  OBVIOUS
<1>6. p = [slate EXCEPT !.lines = s.lines, !.kind = s.kind, !.wait = wait, !.entry = e]
  BY <1>1, <1>2, <1>3, <1>5 DEF SyncChanged, Slates
<1>7. s.lines \in TimedLines /\ s.kind \in TimingKinds
  BY SessionParts
<1>8. /\ p \in Slates /\ p.lines = s.lines /\ p.kind = s.kind /\ p.align = slate.align
      /\ p.track = slate.track /\ p.of = slate.of /\ p.offsetOf = slate.offsetOf
      /\ p.wait = wait /\ p.entry = e
  BY <1>6, <1>7 DEF Slates
<1>9. SlateFits(p)
  BY <1>1, <1>4, <1>8 DEF SlateFits
<1>10. GivenLast(p, userSaves, Meant) = user
  <2>1. CASE s.kind = "user"
    <3>1. wait = [timing |-> user] /\ wait # NoUserSave
      BY <1>1, <1>2, <2>1, WaitIs
    <3> QED BY <1>8, <3>1 DEF GivenLast
  <2>2. CASE s.kind # "user" /\ slate.entry.user # NoTiming
    <3>1. wait = [timing |-> user] /\ wait # NoUserSave
      BY <1>1, <1>2, <2>2, WaitIs
    <3> QED BY <1>8, <3>1 DEF GivenLast
  <2>3. CASE s.kind # "user" /\ slate.entry.user = NoTiming
    <3>1. wait = slate.wait /\ user = slate.entry.user
      BY <1>1, <1>2, <2>3
    <3> QED BY <1>8, <3>1 DEF GivenLast, UserFits
  <2> QED BY <2>1, <2>2, <2>3
<1>11. UserFits(p, userSaves, Meant)
  BY <1>4, <1>8, <1>10 DEF UserFits
<1> QED BY <1>5, <1>8, <1>9, <1>11
-----------------------------------------------------------------------------
(* The steps.                                                              *)

LEMMA SceneIs == \A s \in TimingScenes : s \in TimingSceneSet
BY TimingAssumption DEF Parsed, Lrcs, TimingSceneSet, TimingActs

LEMMA SceneStays ==
    ASSUME timingScene \in TimingSceneSet, Gestured \/ UNCHANGED timingScene
    PROVE  timingScene' \in TimingSceneSet
BY DEF Gestured, TimingSceneSet

LEMMA SlateParts ==
    ASSUME NEW p \in Slates
    PROVE  /\ p = [track |-> p.track, of |-> p.of, offsetOf |-> p.offsetOf, lines |-> p.lines,
                   kind |-> p.kind, entry |-> p.entry, align |-> p.align, busy |-> p.busy,
                   asking |-> p.asking, wait |-> p.wait, offsetWait |-> p.offsetWait,
                   retimeToken |-> p.retimeToken, alignToken |-> p.alignToken]
           /\ p.track \in Verses /\ p.lines \in TimedLines /\ p.kind \in TimingKinds
           /\ p.entry \in TimingEntries /\ p.wait \in UserWaits /\ p.offsetWait \in Int
           /\ p.retimeToken \in Nat /\ p.alignToken \in Nat
BY DEF Slates

LEMMA TimingStarts == TimingInit => TimingInv
<1> SUFFICES ASSUME TimingInit PROVE TimingInv
  OBVIOUS
<1>1. timingScene \in TimingSceneSet /\ timingScene.aligned \in Lrcs /\ timingScene.base \in Lrcs
  BY SceneIs DEF TimingInit, TimingSceneSet
<1>2. PICK t \in Verses : t = CHOOSE v \in Verses : TRUE
  BY TimingAssumption
<1>3. PICK e \in TimingEntries : /\ e = [user |-> NoTiming, aligned |-> timingScene.aligned,
                                         offset |-> 0, fitting |-> "idle"]
                                 /\ e.user = NoTiming
  <2>1. PICK a \in Lrcs, n \in Lrcs : a = timingScene.aligned /\ n = NoTiming
    BY <1>1, NoTimingIs
  <2>2. PICK e : e = [user |-> n, aligned |-> a, offset |-> 0, fitting |-> "idle"]
    OBVIOUS
  <2>3. e \in TimingEntries /\ e.user = n
    BY <2>2 DEF TimingEntries
  <2> QED BY <2>1, <2>2, <2>3
<1>4. keptTiming = [v \in Verses |-> e] /\ keptTiming \in Kepts /\ keptTiming[t] = e
  BY <1>2, <1>3 DEF TimingInit, Kepts
<1>5. PICK g : /\ g = TimingOf(e, timingScene.base)
               /\ g.lines \in TimedLines /\ g.kind \in TimingKinds
               /\ e.user = IF g.kind = "user" THEN SavedLrc(g.lines) ELSE NoTiming
  BY <1>1, TimingOfIs
<1>6. slate = [track |-> t, of |-> t, offsetOf |-> t, lines |-> g.lines, kind |-> g.kind,
               entry |-> e, align |-> FALSE, busy |-> FALSE, asking |-> FALSE,
               wait |-> NoUserSave, offsetWait |-> NoOffset, retimeToken |-> 0, alignToken |-> 0]
  BY <1>2, <1>4, <1>5 DEF TimingInit
<1>7. NoUserSave \in UserWaits /\ NoOffset \in Int
  BY TimingAssumption DEF UserWaits, NoOffset
<1>8. slate \in Slates /\ SlateFits(slate)
  BY <1>5, <1>6, <1>7 DEF Slates, SlateFits
<1>9. session = NoSession /\ lane \in SyncLanes /\ SessionFits(slate, session, lane)
  BY NoTimingIs DEF TimingInit, SyncLanes, NoLane, SessionFits
<1>10. userSaves = <<>> /\ userSaves \in UserChains /\ DOMAIN userSaves = {}
  BY EmptySeq DEF TimingInit, UserChains
<1>11. lostTiming \in [Verses -> UserWaits] /\ Meant[t] = e.user
  BY <1>2, <1>4, <1>7 DEF TimingInit, Meant
<1>12. UserFits(slate, userSaves, Meant)
  BY <1>3, <1>6, <1>10, <1>11 DEF UserFits, GivenLast
<1> QED BY <1>1, <1>4, <1>8, <1>9, <1>10, <1>11, <1>12 DEF TimingInv, TimingInit

(* The slate changes in what neither the session nor the saves look at.    *)
TimedAlike(p, r) ==
    /\ r \in Slates /\ r.track = p.track /\ r.of = p.of /\ r.offsetOf = p.offsetOf
    /\ r.lines = p.lines /\ r.kind = p.kind /\ r.entry = p.entry

LEMMA AlikeKeeps ==
    ASSUME NEW p \in Slates, NEW r, TimedAlike(p, r), SlateFits(p)
    PROVE  /\ SlateFits(r)
           /\ \A s, l : SessionFits(p, s, l) /\ (r.align = p.align \/ s = NoSession) => SessionFits(r, s, l)
           /\ \A out, k : UserFits(p, out, k) /\ r.wait = p.wait => UserFits(r, out, k)
<1>1. SlateFits(r)
  BY DEF SlateFits, TimedAlike
<1>2. ASSUME NEW s, NEW l, SessionFits(p, s, l), r.align = p.align \/ s = NoSession PROVE SessionFits(r, s, l)
  BY <1>2 DEF SessionFits, TimedAlike
<1>3. ASSUME NEW out, NEW k, UserFits(p, out, k), r.wait = p.wait PROVE UserFits(r, out, k)
  BY <1>3 DEF UserFits, GivenLast, TimedAlike
<1> QED BY <1>1, <1>2, <1>3

LEMMA OpenVerseKeeps ==
    ASSUME TimingInv, NEW t \in Verses, OpenVerse(t) PROVE TimingInv'
<1>1. timingScene \in TimingSceneSet /\ timingScene' \in TimingSceneSet /\ timingScene.base \in Lrcs
  BY SceneStays DEF OpenVerse, TimingInv, TimingSceneSet
<1>2. PICK e \in TimingEntries : e = keptTiming[t]
  BY DEF TimingInv, Kepts
<1>3. PICK g : /\ g = TimingOf(e, timingScene.base)
               /\ g.lines \in TimedLines /\ g.kind \in TimingKinds
               /\ e.user = IF g.kind = "user" THEN SavedLrc(g.lines) ELSE NoTiming
  BY <1>1, TimingOfIs
<1>4. NoUserSave \in UserWaits /\ NoOffset \in Int
  BY TimingAssumption DEF UserWaits, NoOffset
<1>5. PICK p : p = slate'
  OBVIOUS
<1>6. p = [slate EXCEPT !.track = t, !.of = t, !.offsetOf = t, !.entry = e, !.lines = g.lines,
              !.kind = g.kind, !.align = FALSE, !.busy = FALSE, !.asking = FALSE,
              !.wait = NoUserSave, !.offsetWait = NoOffset,
              !.retimeToken = @ + (IF session = NoSession THEN 0 ELSE 1), !.alignToken = @ + 1]
  BY <1>2, <1>3, <1>5 DEF OpenVerse, ShowTiming
<1>7. /\ p \in Slates /\ p.track = t /\ p.of = t /\ p.offsetOf = t /\ p.entry = e /\ p.lines = g.lines
      /\ p.kind = g.kind /\ p.wait = NoUserSave
  <2>1. slate \in Slates
    BY DEF TimingInv
  <2>2. PICK rt \in Nat, at \in Nat : /\ rt = slate.retimeToken + (IF session = NoSession THEN 0 ELSE 1)
                                     /\ at = slate.alignToken + 1
    BY <2>1, SlateParts
  <2>3. p = [track |-> t, of |-> t, offsetOf |-> t, lines |-> g.lines, kind |-> g.kind,
             entry |-> e, align |-> FALSE, busy |-> FALSE, asking |-> FALSE,
             wait |-> NoUserSave, offsetWait |-> NoOffset, retimeToken |-> rt, alignToken |-> at]
    <3>1. PICK q : q = slate
      OBVIOUS
    <3>2. q = [track |-> q.track, of |-> q.of, offsetOf |-> q.offsetOf, lines |-> q.lines,
               kind |-> q.kind, entry |-> q.entry, align |-> q.align, busy |-> q.busy,
               asking |-> q.asking, wait |-> q.wait, offsetWait |-> q.offsetWait,
               retimeToken |-> q.retimeToken, alignToken |-> q.alignToken]
      BY <2>1, <3>1, SlateParts
    <3>3. p = [q EXCEPT !.track = t, !.of = t, !.offsetOf = t, !.entry = e, !.lines = g.lines,
                  !.kind = g.kind, !.align = FALSE, !.busy = FALSE, !.asking = FALSE,
                  !.wait = NoUserSave, !.offsetWait = NoOffset, !.retimeToken = rt, !.alignToken = at]
      BY <1>6, <2>2, <3>1
    <3> QED BY <3>2, <3>3
  <2>4. PICK lines \in TimedLines, kind \in TimingKinds, w \in UserWaits, o \in Int, f \in BOOLEAN :
           lines = g.lines /\ kind = g.kind /\ w = NoUserSave /\ o = NoOffset /\ f = FALSE
    BY <1>3, <1>4
  <2>5. p = [track |-> t, of |-> t, offsetOf |-> t, lines |-> lines, kind |-> kind,
             entry |-> e, align |-> f, busy |-> f, asking |-> f,
             wait |-> w, offsetWait |-> o, retimeToken |-> rt, alignToken |-> at]
    BY <2>3, <2>4
  <2>6. /\ p \in Slates /\ p.track = t /\ p.of = t /\ p.offsetOf = t /\ p.entry = e /\ p.lines = lines
        /\ p.kind = kind /\ p.wait = w
    BY <2>5 DEF Slates
  <2> QED BY <2>4, <2>6
<1>8. SlateFits(p)
  BY <1>3, <1>7 DEF SlateFits
<1>9. lane' \in SyncLanes /\ SessionFits(p, session', lane')
  BY NoTimingIs DEF OpenVerse, SyncLanes, NoLane, SessionFits
<1>10. PICK out : out = userSaves'
  OBVIOUS
<1>11. PICK m : m = Meant'
  OBVIOUS
<1>12. lostTiming' \in [Verses -> UserWaits] /\ m[t] = e.user
  <2>1. keptTiming' = keptTiming /\ lostTiming' = [lostTiming EXCEPT ![t] = NoUserSave]
    BY DEF OpenVerse
  <2>2. lostTiming' \in [Verses -> UserWaits] /\ lostTiming'[t] = NoUserSave
    BY <1>4, <2>1 DEF TimingInv
  <2> QED BY <1>2, <1>11, <2>1, <2>2 DEF Meant
<1>13. out \in UserChains /\ UserFits(p, out, m)
  <2>1. CASE slate.wait = NoUserSave
    <3>1. out = <<>> /\ DOMAIN out = {}
      BY <1>10, <2>1, EmptySeq DEF OpenVerse, FlushUser
    <3>2. out \in UserChains
      BY <3>1, EmptySeq DEF UserChains
    <3> QED BY <1>12, <1>7, <3>1, <3>2 DEF UserFits, GivenLast
  <2>2. CASE slate.wait # NoUserSave
    <3>1. slate.track \in Verses /\ slate.wait \in [timing : Lrcs]
      BY <2>2 DEF TimingInv, Slates, UserWaits
    <3>2. PICK x \in UserTimings : x = [track |-> slate.track, timing |-> slate.wait.timing] /\ x.track # t
      <4>1. PICK v \in Verses, w \in Lrcs : v = slate.track /\ w = slate.wait.timing
        BY <3>1
      <4>2. PICK x : x = [track |-> v, timing |-> w]
        OBVIOUS
      <4>3. x \in UserTimings /\ x.track = v
        BY <4>2 DEF UserTimings
      <4> QED BY <4>1, <4>2, <4>3 DEF OpenVerse
    <3>3. out = <<x>>
      BY <1>10, <2>2, <3>2, EmptySeq DEF OpenVerse, FlushUser
    <3>4. out \in UserChains /\ Len(out) = 1 /\ out[1] = x /\ DOMAIN out = 1..1
      BY <3>3 DEF UserChains
    <3>5. GivenLast(p, out, m) = e.user
      BY <1>12, <1>7, <3>2, <3>4 DEF GivenLast
    <3>6. \A i \in DOMAIN out : i > 1 => FALSE
      BY <3>4
    <3> QED BY <1>7, <3>4, <3>5, <3>6 DEF UserFits
  <2> QED BY <2>1, <2>2
<1>14. offsetSaves' \subseteq OffsetTimings
  BY DEF OpenVerse, FlushOffset, TimingInv, OffsetTimings, Slates
<1>15. keptTiming' = keptTiming /\ retimes' = retimes /\ detects' = detects
  BY DEF OpenVerse
<1> QED BY <1>1, <1>5, <1>7, <1>8, <1>9, <1>10, <1>11, <1>12, <1>13, <1>14, <1>15 DEF TimingInv

LEMMA OpenSyncKeeps ==
    ASSUME TimingInv, OpenSync PROVE TimingInv'
<1>1. PICK p : p = slate' /\ p = [slate EXCEPT !.align = FALSE, !.busy = FALSE]
  BY DEF OpenSync
<1>2. TimedAlike(slate, p) /\ p.wait = slate.wait /\ p.align = FALSE
  BY <1>1 DEF TimedAlike, TimingInv, Slates
<1>3. SlateFits(p) /\ UserFits(p, userSaves, Meant)
  BY <1>2, AlikeKeeps DEF TimingInv
<1>4. PICK s : s = session'
  OBVIOUS
<1>5. s = [lines |-> slate.lines, cursor |-> 1, touched |-> {}, kind |-> slate.kind,
           ripple |-> slate.kind = "offset", undo |-> <<>>, redo |-> <<>>]
  BY <1>4 DEF OpenSync, NewSession
<1>6. <<>> \in Histories /\ slate.lines \in TimedLines /\ slate.kind \in TimingKinds
  BY EmptySeq DEF Histories, TimingInv, Slates
<1>7. PICK b \in BOOLEAN : b = (slate.kind = "offset")
  OBVIOUS
<1>8. s \in SyncSessions /\ s.lines = slate.lines /\ s.kind = slate.kind
  <2>1. PICK h \in Histories, f \in LineSets : h = <<>> /\ f = {}
    BY <1>6, LineSetIs
  <2>2. s = [lines |-> slate.lines, cursor |-> 1, touched |-> f, kind |-> slate.kind,
             ripple |-> b, undo |-> h, redo |-> h]
    BY <1>5, <1>7, <2>1
  <2>3. 1 \in Nat \ {0}
    OBVIOUS
  <2> QED BY <1>6, <2>2, <2>3, SessionFrom
<1>9. lane' \in SyncLanes /\ lane'.times = slate.lines
  BY <1>6 DEF OpenSync, SyncLanes
<1>10. SessionFits(p, s, lane')
  BY <1>2, <1>8, <1>9, NotNoSession DEF SessionFits, TimedAlike
<1>11. timingScene' \in TimingSceneSet
  BY SceneStays DEF OpenSync, TimingInv
<1>12. Meant' = Meant
  BY MeantStays DEF OpenSync
<1> QED BY <1>1, <1>2, <1>3, <1>4, <1>9, <1>10, <1>11, <1>12 DEF TimingInv, OpenSync, TimedAlike

(* Sync lines is left: its timing is on its way.                           *)
LEMMA CloseKeeps ==
    ASSUME TimingInv, CloseSyncLines \/ OpenAlign PROVE TimingInv'
<1>1. PICK p : p = slate'
  OBVIOUS
<1>2. TimedAlike(slate, p) /\ (p.wait = slate.wait \/ p.wait = NoUserSave)
  <2>1. PICK q \in Slates, w \in UserWaits, n \in Nat :
           q = slate /\ w = NoUserSave /\ n = slate.retimeToken + 1
    BY SlateParts DEF UserWaits, TimingInv
  <2>2. CASE CloseSyncLines
    <3>1. p = [q EXCEPT !.wait = w, !.retimeToken = n]
      BY <1>1, <2>1, <2>2 DEF CloseSyncLines, SyncClosed
    <3>2. TimedAlike(q, p) /\ p.wait = w
      BY <3>1 DEF TimedAlike, Slates
    <3> QED BY <2>1, <3>2
  <2>3. CASE OpenAlign /\ session = NoSession
    <3>1. p = [q EXCEPT !.align = TRUE, !.asking = FALSE]
      BY <1>1, <2>1, <2>3 DEF OpenAlign
    <3>2. TimedAlike(q, p) /\ p.wait = q.wait
      BY <3>1 DEF TimedAlike, Slates
    <3> QED BY <2>1, <3>2
  <2>4. CASE OpenAlign /\ session # NoSession
    <3>1. p = [[q EXCEPT !.wait = w, !.retimeToken = n] EXCEPT !.align = TRUE, !.asking = FALSE]
      BY <1>1, <2>1, <2>4 DEF OpenAlign, SyncClosed
    <3>2. TimedAlike(q, p) /\ p.wait = w
      BY <3>1 DEF TimedAlike, Slates
    <3> QED BY <2>1, <3>2
  <2> QED BY <2>2, <2>3, <2>4
<1>3. PICK out : out = userSaves' /\ out = FlushUser(slate, userSaves)
  BY DEF CloseSyncLines, OpenAlign
<1>4. out \in UserChains /\ UserFits(p, out, Meant)
  BY <1>2, <1>3, FlushIs DEF TimingInv, TimedAlike
<1>5. SlateFits(p)
  BY <1>2, AlikeKeeps DEF TimingInv
<1>6. lane' \in SyncLanes /\ session' = NoSession /\ SessionFits(p, session', lane')
  BY NoTimingIs DEF CloseSyncLines, OpenAlign, SyncLanes, NoLane, SessionFits
<1>7. timingScene' \in TimingSceneSet
  BY SceneStays DEF CloseSyncLines, OpenAlign, TimingInv
<1>8. UNCHANGED <<keptTiming, lostTiming, Meant, offsetSaves, retimes, detects>>
  BY MeantStays DEF CloseSyncLines, OpenAlign
<1> QED BY <1>1, <1>2, <1>3, <1>4, <1>5, <1>6, <1>7, <1>8 DEF TimingInv, TimedAlike

(* What the session is while there is one.                                 *)
LEMMA SessionIs ==
    ASSUME TimingInv, session # NoSession
    PROVE  /\ session \in SyncSessions /\ slate.lines = session.lines /\ slate.kind = session.kind
           /\ ~slate.align
           /\ \E n \in Nat : n = Len(session.lines) /\ DOMAIN session.lines = 1..n
                           /\ \A i \in 1..n : session.lines[i] \in Int
<1>1. session \in SyncSessions
  BY DEF TimingInv, SessionFits
<1>2. session.lines \in TimedLines
  BY <1>1, SessionParts
<1> QED BY <1>1, <1>2 DEF TimingInv, SessionFits, TimedLines

(* A change is of the lines shown, drawn and timed alike.                  *)
LEMMA ChangesKeep ==
    ASSUME TimingInv, TimingEdits, NEW s \in SyncSessions, Changes(s)
    PROVE  TimingInv'
<1>1. session # NoSession /\ ~slate.align
  BY SessionIs DEF TimingEdits
<1>2. PICK p \in Slates :
         /\ p = SyncChanged(s) /\ p.lines = s.lines /\ p.kind = s.kind /\ p.align = slate.align
         /\ SlateFits(p) /\ UserFits(p, userSaves, Meant)
  BY SyncChangedIs DEF TimingInv
<1>3. PICK l : l = [lane EXCEPT !.times = s.lines]
  OBVIOUS
<1>4. l \in SyncLanes /\ l.times = s.lines
  BY <1>3, SessionParts DEF TimingInv, SyncLanes
<1>5. SessionFits(p, s, l)
  BY <1>1, <1>2, <1>4, NotNoSession DEF SessionFits
<1>6. slate' = p /\ session' = s /\ lane' = l
  BY <1>2, <1>3 DEF Changes
<1>7. timingScene' \in TimingSceneSet
  BY SceneStays DEF TimingEdits, TimingInv
<1>8. UNCHANGED <<keptTiming, lostTiming, Meant, userSaves, offsetSaves, retimes, detects>>
  BY MeantStays DEF TimingEdits
<1> QED BY <1>2, <1>4, <1>5, <1>6, <1>7, <1>8 DEF TimingInv

LEMMA LineEditKeeps ==
    ASSUME TimingInv, NEW time \in 0..TrackEnd, NEW step \in {-1, 1},
           TapNow(time) \/ LineToPlayhead(time) \/ NudgeLine(step) \/ UndoSync \/ RedoSync
    PROVE  TimingInv'
<1>1. TimingEdits /\ session # NoSession
  BY DEF TapNow, LineToPlayhead, NudgeLine, UndoSync, RedoSync, TimingEdits
<1>2. session \in SyncSessions /\ time \in Int
  BY <1>1, SessionIs, TimingAssumption
<1>3. session.cursor \in Nat
  BY <1>2, SessionParts
<1>4. CASE TapNow(time)
  <2>1. Tapped(session, time) \in SyncSessions
    BY <1>2, TappedIs
  <2> QED BY <1>1, <1>4, <2>1, ChangesKeep DEF TapNow
<1>5. CASE LineToPlayhead(time)
  <2>1. SetTime(session, session.cursor, time, "push") \in SyncSessions
    BY <1>2, <1>3, SetTimeIs
  <2> QED BY <1>1, <1>5, <2>1, ChangesKeep DEF LineToPlayhead
<1>6. CASE NudgeLine(step)
  <2>1. ~AllSet(session)
    BY <1>6 DEF NudgeLine
  <2>2. session.lines[session.cursor] \in Int
    <3>1. PICK n \in Nat : n = Len(session.lines) /\ \A i \in 1..n : session.lines[i] \in Int
      BY <1>1, SessionIs
    <3>2. session.cursor \in 1..n
      BY <1>2, <2>1, <3>1, SessionParts DEF AllSet
    <3> QED BY <3>1, <3>2
  <2>3. PICK at \in Int : at = session.lines[session.cursor] + step
    BY <2>2
  <2>4. SetTime(session, session.cursor, at, MoveMode) \in SyncSessions
    BY <1>2, <1>3, SetTimeIs
  <2> QED BY <1>1, <1>6, <2>3, <2>4, ChangesKeep DEF NudgeLine
<1>7. CASE UndoSync
  BY <1>1, <1>2, <1>7, HistoryIs, ChangesKeep DEF UndoSync
<1>8. CASE RedoSync
  BY <1>1, <1>2, <1>8, HistoryIs, ChangesKeep DEF RedoSync
<1> QED BY <1>4, <1>5, <1>6, <1>7, <1>8

LEMMA ResetKeeps ==
    ASSUME TimingInv, ResetToDetected \/ ResetToOriginal
    PROVE  TimingInv'
<1>1. TimingEdits /\ session \in SyncSessions
  BY SessionIs DEF ResetToDetected, ResetToOriginal, TimingEdits
<1>2. timingScene.base \in Lrcs
  BY DEF TimingInv, TimingSceneSet
<1>3. CASE ResetToDetected
  <2>1. PICK e : e = [slate.entry EXCEPT !.user = NoTiming]
    OBVIOUS
  <2>2. slate.entry \in TimingEntries
    BY SlateParts DEF TimingInv
  <2>3. e \in TimingEntries
    <3>1. PICK q \in TimingEntries, n \in Lrcs : q = slate.entry /\ n = NoTiming
      BY <2>2, NoTimingIs
    <3>2. e = [q EXCEPT !.user = n]
      BY <2>1, <3>1
    <3> QED BY <3>2 DEF TimingEntries
  <2>4. PICK g : g = TimingOf(e, timingScene.base) /\ g.lines \in TimedLines /\ g.kind \in TimingKinds
    BY <1>2, <2>3, TimingOfIs
  <2>5. Replaced(session, g.lines, g.kind) \in SyncSessions
    BY <1>1, <2>4, ReplacedIs
  <2>6. Changes(Replaced(session, g.lines, g.kind))
    BY <1>3, <2>1, <2>4 DEF ResetToDetected
  <2> QED BY <1>1, <2>5, <2>6, ChangesKeep
<1>4. CASE ResetToOriginal
  <2>1. timingScene.base \in TimedLines /\ "user" \in TimingKinds
    BY <1>2, SavedAgain DEF TimingKinds
  <2>2. Replaced(session, timingScene.base, "user") \in SyncSessions
    BY <1>1, <2>1, ReplacedIs
  <2> QED BY <1>1, <1>4, <2>2, ChangesKeep DEF ResetToOriginal
<1> QED BY <1>3, <1>4

(* A line is chosen, or its marker held.                                   *)
LEMMA ChosenKeeps ==
    ASSUME TimingInv, NEW i, ToggleRipple \/ (i \in DOMAIN slate.lines /\ (SelectLine(i) \/ GrabMark(i)))
    PROVE  TimingInv'
<1>1. /\ TimingEdits /\ session \in SyncSessions /\ slate' = slate
      /\ ToggleRipple \/ i \in Nat \ {0}
  <2>1. TimingEdits /\ session # NoSession /\ slate' = slate
    BY DEF SelectLine, GrabMark, ToggleRipple, TimingEdits
  <2>2. PICK n \in Nat : DOMAIN slate.lines = 1..n
    BY <2>1, SessionIs
  <2> QED BY <2>1, <2>2, SessionIs
<1>2. PICK s : s = session'
  OBVIOUS
<1>3. s \in SyncSessions /\ s.lines = session.lines /\ s.kind = session.kind
  <2>1. (i \in Nat \ {0} /\ s = [session EXCEPT !.cursor = i]) \/ s = [session EXCEPT !.ripple = ~@]
    BY <1>1, <1>2 DEF SelectLine, GrabMark, ToggleRipple
  <2>2. PICK b \in BOOLEAN : b = ~session.ripple
    OBVIOUS
  <2>3. (i \in Nat \ {0} /\ s = [session EXCEPT !.cursor = i]) \/ s = [session EXCEPT !.ripple = b]
    BY <2>1, <2>2
  <2> QED BY <1>1, <2>3 DEF SyncSessions
<1>4. PICK l : l = lane'
  OBVIOUS
<1>5. l \in SyncLanes /\ (l = lane \/ l.drag # 0)
  <2>1. l = lane \/ (i \in Nat \ {0} /\ l = [lane EXCEPT !.drag = i])
    BY <1>1, <1>4 DEF SelectLine, GrabMark, ToggleRipple
  <2> QED BY <1>1, <2>1 DEF TimingInv, SyncLanes
<1>6. SessionFits(slate, s, l)
  BY <1>1, <1>3, <1>5, NotNoSession DEF SessionFits, TimingInv
<1>7. timingScene' \in TimingSceneSet
  BY <1>1, SceneStays DEF TimingEdits, TimingInv
<1>8. UNCHANGED <<keptTiming, lostTiming, Meant, userSaves, offsetSaves, retimes, detects>>
  BY <1>1, MeantStays DEF TimingEdits
<1> QED BY <1>1, <1>2, <1>4, <1>5, <1>6, <1>7, <1>8 DEF TimingInv

(* A marker moved and let go, or taken away.                               *)
LEMMA DragKeeps ==
    ASSUME TimingInv, NEW time \in 0..TrackEnd, DragMark(time) \/ DropMark(time) \/ CancelDrag
    PROVE  TimingInv'
<1>1. /\ session # NoSession /\ session \in SyncSessions /\ lane.drag \in Nat /\ lane.drag # 0
      /\ time \in Int /\ ~slate.align /\ session.lines \in TimedLines
      /\ slate.lines = session.lines /\ slate.kind = session.kind
  <2>1. lane.drag # 0
    BY DEF DragMark, DropMark, CancelDrag
  <2>2. session # NoSession
    BY <2>1 DEF TimingInv, SessionFits
  <2> QED BY <2>1, <2>2, SessionIs, SessionParts, TimingAssumption DEF TimingInv, SyncLanes
<1>2. UNCHANGED <<keptTiming, lostTiming, Meant, userSaves, offsetSaves, retimes, detects, timingScene>>
  BY MeantStays DEF DragMark, DropMark, CancelDrag
<1>3. PICK l : l = lane'
  OBVIOUS
<1>4. CASE DragMark(time)
  <2>1. PICK lines \in TimedLines :
           lines = ApplyTime(session.lines, lane.drag, time, MoveMode, session.touched)
    BY <1>1, ApplyTimeIs
  <2>2. l \in SyncLanes /\ l.drag = lane.drag
    BY <1>3, <1>4, <2>1 DEF DragMark, TimingInv, SyncLanes
  <2>3. slate' = slate /\ session' = session
    BY <1>4 DEF DragMark
  <2>4. SessionFits(slate, session, l)
    BY <1>1, <2>2 DEF SessionFits
  <2> QED BY <1>2, <1>3, <2>2, <2>3, <2>4 DEF TimingInv
<1>5. CASE CancelDrag
  <2>1. l \in SyncLanes /\ l.times = session.lines
    BY <1>1, <1>3, <1>5 DEF CancelDrag, SyncLanes
  <2>2. slate' = slate /\ session' = session
    BY <1>5 DEF CancelDrag
  <2>3. SessionFits(slate, session, l)
    BY <1>1, <2>1 DEF SessionFits
  <2> QED BY <1>2, <1>3, <2>1, <2>2, <2>3 DEF TimingInv
<1>6. CASE DropMark(time)
  <2>1. PICK s \in SyncSessions : s = SetTime(session, lane.drag, time, MoveMode)
    BY <1>1, SetTimeIs
  <2>2. PICK p : p = IF s = session THEN slate ELSE SyncChanged(s)
    OBVIOUS
  <2>3. session' = s /\ slate' = p /\ l = [times |-> s.lines, drag |-> 0]
    BY <1>3, <1>6, <2>1, <2>2 DEF DropMark
  <2>4. /\ p \in Slates /\ p.lines = s.lines /\ p.kind = s.kind /\ p.align = slate.align
        /\ SlateFits(p) /\ UserFits(p, userSaves, Meant)
    <3>1. CASE s = session
      BY <1>1, <2>2, <3>1 DEF TimingInv
    <3>2. CASE s # session
      BY <2>2, <3>2, SyncChangedIs DEF TimingInv
    <3> QED BY <3>1, <3>2
  <2>5. l \in SyncLanes /\ l.times = s.lines
    BY <2>3, SessionParts DEF SyncLanes
  <2>6. SessionFits(p, s, l)
    BY <1>1, <2>4, <2>5, NotNoSession DEF SessionFits
  <2> QED BY <1>2, <1>3, <2>3, <2>4, <2>5, <2>6 DEF TimingInv
<1> QED BY <1>4, <1>5, <1>6

(* What waits is sent, the offset with it.                                 *)
LEMMA SendKeeps ==
    ASSUME TimingInv, UserSaveDelayOver \/ OffsetDelayOver PROVE TimingInv'
<1>1. PICK p : p = slate'
  OBVIOUS
<1>2. TimedAlike(slate, p) /\ p.wait = NoUserSave /\ p.align = slate.align
  <2>1. PICK q \in Slates, w \in UserWaits, o \in Int : q = slate /\ w = NoUserSave /\ o = NoOffset
    BY TimingAssumption DEF UserWaits, NoOffset, TimingInv
  <2>2. p = [q EXCEPT !.wait = w] \/ p = [q EXCEPT !.offsetWait = o, !.wait = w]
    BY <1>1, <2>1 DEF UserSaveDelayOver, OffsetDelayOver
  <2>3. TimedAlike(q, p) /\ p.wait = w /\ p.align = q.align
    BY <2>2 DEF TimedAlike, Slates
  <2> QED BY <2>1, <2>3
<1>3. PICK out : out = userSaves' /\ out = FlushUser(slate, userSaves)
  BY DEF UserSaveDelayOver, OffsetDelayOver
<1>4. out \in UserChains /\ UserFits(p, out, Meant)
  BY <1>2, <1>3, FlushIs DEF TimingInv, TimedAlike
<1>5. SlateFits(p) /\ SessionFits(p, session, lane)
  BY <1>2, AlikeKeeps DEF TimingInv
<1>6. offsetSaves' \subseteq OffsetTimings
  <2>1. slate.track \in Verses /\ slate.offsetWait \in Int
    BY SlateParts DEF TimingInv
  <2> QED BY <2>1 DEF UserSaveDelayOver, OffsetDelayOver, FlushOffset, TimingInv, OffsetTimings
<1>7. UNCHANGED <<session, lane, keptTiming, retimes, detects, timingScene>> \/ Gestured
  BY DEF UserSaveDelayOver, OffsetDelayOver
<1>8. UNCHANGED <<session, lane, keptTiming, lostTiming, Meant, retimes, detects>>
  BY MeantStays DEF UserSaveDelayOver, OffsetDelayOver
<1>9. timingScene' \in TimingSceneSet
  BY <1>7, SceneStays DEF TimingInv
<1> QED BY <1>1, <1>2, <1>3, <1>4, <1>5, <1>6, <1>8, <1>9 DEF TimingInv, TimedAlike

(* The first save of the chain lands, or is lost: the last one is still    *)
(* the last.                                                               *)
LEMMA TimingLandsKeeps ==
    ASSUME TimingInv, UserTimingLands PROVE TimingInv'
<1>1. PICK q \in UserChains : q = userSaves /\ q # <<>>
  BY DEF TimingInv, UserTimingLands
<1>2. PICK n \in Nat : n = Len(q) /\ n # 0 /\ DOMAIN q = 1..n
  BY <1>1, EmptySeq DEF UserChains
<1>3. PICK out : out = Tail(q)
  OBVIOUS
<1>4. /\ out \in UserChains /\ Len(out) = n - 1 /\ DOMAIN out = 1..(n - 1)
      /\ \A i \in 1..(n - 1) : out[i] = q[i + 1]
  BY <1>1, <1>2, <1>3, HeadTailProperties DEF UserChains
<1>5. PICK x \in UserTimings : x = q[1] /\ x = Head(q)
  BY <1>1, <1>2, HeadTailProperties DEF UserChains
<1>6. x.track \in Verses /\ x.timing \in Lrcs
  BY DEF UserTimings
<1>7. PICK e \in TimingEntries : e = [keptTiming[x.track] EXCEPT !.user = x.timing] /\ e.user = x.timing
  <2>1. PICK f \in TimingEntries : f = keptTiming[x.track]
    BY <1>6 DEF TimingInv, Kepts
  <2>2. PICK e : e = [f EXCEPT !.user = x.timing]
    OBVIOUS
  <2>3. e \in TimingEntries /\ e.user = x.timing
    BY <1>6, <2>2 DEF TimingEntries
  <2> QED BY <2>1, <2>2, <2>3
<1>8. PICK m, M : m = Meant /\ M = Meant'
  OBVIOUS
<1>9. PICK w \in UserWaits : w = [timing |-> x.timing] /\ w # NoUserSave /\ w.timing = x.timing
  BY <1>6, WaitIs
<1>10. /\ keptTiming' \in Kepts /\ lostTiming' \in [Verses -> UserWaits]
       /\ M[x.track] = x.timing /\ \A t \in Verses : t # x.track => M[t] = m[t]
  <2>1. CASE /\ keptTiming' = [keptTiming EXCEPT ![x.track] = e]
             /\ lostTiming' = [lostTiming EXCEPT ![x.track] = NoUserSave]
    <3>1. /\ keptTiming' \in Kepts /\ keptTiming'[x.track] = e
          /\ \A t \in Verses : t # x.track => keptTiming'[t] = keptTiming[t]
      BY <1>6, <2>1 DEF TimingInv, Kepts
    <3>2. /\ lostTiming' \in [Verses -> UserWaits] /\ lostTiming'[x.track] = NoUserSave
          /\ \A t \in Verses : t # x.track => lostTiming'[t] = lostTiming[t]
      BY <1>6, <2>1 DEF TimingInv, UserWaits
    <3> QED BY <1>6, <1>7, <1>8, <3>1, <3>2 DEF Meant
  <2>2. CASE keptTiming' = keptTiming /\ lostTiming' = [lostTiming EXCEPT ![x.track] = w]
    <3>1. /\ lostTiming' \in [Verses -> UserWaits] /\ lostTiming'[x.track] = w
          /\ \A t \in Verses : t # x.track => lostTiming'[t] = lostTiming[t]
      BY <1>6, <2>2 DEF TimingInv
    <3> QED BY <1>6, <1>8, <1>9, <2>2, <3>1 DEF Meant, TimingInv
  <2> QED BY <1>1, <1>5, <1>7, <1>9, <2>1, <2>2 DEF UserTimingLands
<1>11. /\ slate.entry.user = GivenLast(slate, q, m)
       /\ \A i \in 1..n : i > 1 => q[i].track = slate.track
  BY <1>1, <1>2, <1>8 DEF TimingInv, UserFits
<1>12. slate.track \in Verses
  BY SlateParts DEF TimingInv
<1>13. GivenLast(slate, out, M) = GivenLast(slate, q, m)
  <2>1. CASE slate.wait # NoUserSave
    BY <2>1 DEF GivenLast
  <2>2. CASE slate.wait = NoUserSave /\ n = 1
    <3>1. out = <<>>
      BY <1>4, <2>2, EmptySeq DEF UserChains
    <3>2. GivenLast(slate, out, M) = M[slate.track]
      BY <2>2, <3>1 DEF GivenLast
    <3>3. GivenLast(slate, q, m) = IF x.track = slate.track THEN x.timing ELSE m[slate.track]
      BY <1>1, <1>2, <1>5, <2>2 DEF GivenLast
    <3> QED BY <1>10, <1>12, <3>2, <3>3
  <2>3. CASE slate.wait = NoUserSave /\ n > 1
    <3>1. out # <<>> /\ out[Len(out)] = q[n] /\ q[n].track = slate.track
      BY <1>2, <1>4, <1>11, <2>3, EmptySeq
    <3> QED BY <1>1, <1>2, <2>3, <3>1 DEF GivenLast
  <2> QED BY <1>2, <2>1, <2>2, <2>3
<1>14. \A i \in DOMAIN out : i > 1 => out[i].track = slate.track
  <2> SUFFICES ASSUME NEW i \in 1..(n - 1), i > 1
               PROVE  out[i].track = slate.track
    BY <1>4
  <2>1. i + 1 \in 1..n /\ i + 1 > 1
    BY <1>2
  <2> QED BY <1>4, <1>11, <2>1
<1>15. UserFits(slate, out, M)
  BY <1>11, <1>13, <1>14 DEF UserFits
<1>16. userSaves' = out
  BY <1>1, <1>3 DEF UserTimingLands
<1>17. UNCHANGED <<slate, session, lane, offsetSaves, retimes, detects, timingScene>>
  BY DEF UserTimingLands
<1> QED BY <1>4, <1>8, <1>10, <1>15, <1>16, <1>17 DEF TimingInv

(* The server's part of the lyrics changes: an offset, or a fit.           *)
LEMMA ServerIs ==
    ASSUME TimingInv, NEW t \in Verses, NEW k, NEW e \in TimingEntries,
           k = [keptTiming EXCEPT ![t] = e], e.user = keptTiming[t].user
    PROVE  k \in Kepts /\ \A v \in Verses : k[v].user = keptTiming[v].user
BY DEF TimingInv, Kepts

LEMMA OffsetKept ==
    ASSUME TimingInv, NEW t \in Verses, NEW o \in Int
    PROVE  LET k == [keptTiming EXCEPT ![t].offset = o]
           IN k \in Kepts /\ \A v \in Verses : k[v].user = keptTiming[v].user
<1>1. PICK f \in TimingEntries : f = keptTiming[t]
  BY DEF TimingInv, Kepts
<1>2. PICK e : e = [f EXCEPT !.offset = o]
  OBVIOUS
<1>3. e \in TimingEntries /\ e.user = f.user
  BY <1>2 DEF TimingEntries
<1>4. PICK k : k = [keptTiming EXCEPT ![t].offset = o]
  OBVIOUS
<1>5. k = [keptTiming EXCEPT ![t] = e] /\ e.user = keptTiming[t].user
  BY <1>1, <1>2, <1>3, <1>4
<1>6. k \in Kepts /\ \A v \in Verses : k[v].user = keptTiming[v].user
  BY <1>3, <1>5, ServerIs
<1> QED BY <1>4, <1>6

LEMMA OffsetLandsKeeps ==
    ASSUME TimingInv, NEW save \in offsetSaves, OffsetLandsOf(save) PROVE TimingInv'
<1>1. save.track \in Verses /\ save.offset \in Int
  BY DEF TimingInv, OffsetTimings
<1>2. keptTiming' \in Kepts /\ \A v \in Verses : keptTiming'[v].user = keptTiming[v].user
  <2>1. CASE keptTiming' = keptTiming
    BY <2>1 DEF TimingInv
  <2>2. CASE keptTiming' = [keptTiming EXCEPT ![save.track].offset = save.offset]
    BY <1>1, <2>2, OffsetKept
  <2> QED BY <2>1, <2>2 DEF OffsetLandsOf
<1>3. UNCHANGED <<slate, session, lane, lostTiming, Meant, userSaves, retimes, detects, timingScene>>
      /\ offsetSaves' \subseteq offsetSaves
  BY <1>2, MeantStays DEF OffsetLandsOf
<1> QED BY <1>2, <1>3 DEF TimingInv

LEMMA FitKeeps ==
    ASSUME TimingInv, NEW t \in Verses, NEW outcome \in {"done", "unsure", "failed"},
           ServerFits(t, outcome)
    PROVE  TimingInv'
<1>1. PICK f \in TimingEntries : f = keptTiming[t]
  BY DEF TimingInv, Kepts
<1>2. PICK a \in Lrcs : a = IF outcome = "done" THEN timingScene.fit ELSE f.aligned
  BY DEF TimingInv, TimingSceneSet, TimingEntries
<1>3. PICK e : e = [f EXCEPT !.fitting = outcome, !.aligned = a]
  OBVIOUS
<1>4. e \in TimingEntries /\ e.user = f.user
  BY <1>3 DEF TimingEntries
<1>5. PICK k : k = keptTiming'
  OBVIOUS
<1>6. k = [keptTiming EXCEPT ![t] = e]
  BY <1>1, <1>2, <1>3, <1>5 DEF ServerFits, TimingInv, Kepts
<1>7. k \in Kepts /\ \A v \in Verses : k[v].user = keptTiming[v].user
  BY <1>1, <1>4, <1>6, ServerIs
<1>8. UNCHANGED <<slate, session, lane, lostTiming, Meant, userSaves, offsetSaves, retimes, detects, timingScene>>
  BY <1>5, <1>7, MeantStays DEF ServerFits
<1> QED BY <1>5, <1>7, <1>8 DEF TimingInv
-----------------------------------------------------------------------------
(* The offset of the lyrics' own timing.                                   *)

LEMMA OffsetIs ==
    ASSUME TimingInv, slate.align, NEW o \in Int, NEW save \in BOOLEAN,
           NEW p, p = AppliedOffset(o, slate.track, save)
    PROVE  /\ p \in Slates /\ SlateFits(p) /\ SessionFits(p, session, lane)
           /\ UserFits(p, userSaves, Meant) /\ p.track = slate.track
<1>1. PICK q \in Slates : q = slate
  BY DEF TimingInv
<1>2. PICK e : e = [q.entry EXCEPT !.offset = o]
  OBVIOUS
<1>3. e \in TimingEntries /\ e.user = q.entry.user
  <2>1. q.entry \in TimingEntries
    BY SlateParts
  <2> QED BY <1>2, <2>1 DEF TimingEntries
<1>4. PICK lines \in TimedLines : /\ lines = IF slate.kind = "offset" THEN ShiftLines(timingScene.base, o) ELSE q.lines
                                  /\ q.kind # "offset" => lines = q.lines
  <2>1. ShiftLines(timingScene.base, o) \in TimedLines
    BY ShiftIs DEF TimingInv, TimingSceneSet
  <2> QED BY <1>1, <2>1, SlateParts
<1>5. PICK w \in Int : w = IF save THEN o ELSE q.offsetWait
  BY SlateParts
<1>6. p = [q EXCEPT !.entry = e, !.offsetOf = q.track, !.lines = lines, !.offsetWait = w]
  BY <1>1, <1>2, <1>4, <1>5 DEF AppliedOffset, Slates
<1>7. /\ p \in Slates /\ p.track = q.track /\ p.of = q.of /\ p.offsetOf = q.track /\ p.lines = lines
      /\ p.kind = q.kind /\ p.entry = e /\ p.wait = q.wait /\ p.align = q.align
  BY <1>3, <1>6 DEF Slates
<1>8. SlateFits(p)
  BY <1>1, <1>3, <1>4, <1>7 DEF TimingInv, SlateFits
<1>9. session = NoSession
  BY DEF TimingInv, SessionFits
<1>10. SessionFits(p, session, lane)
  BY <1>9 DEF TimingInv, SessionFits
<1>11. UserFits(p, userSaves, Meant)
  BY <1>1, <1>3, <1>7 DEF TimingInv, UserFits, GivenLast
<1> QED BY <1>1, <1>7, <1>8, <1>10, <1>11

LEMMA ApplyOffsetKeeps ==
    ASSUME TimingInv, NEW o \in {-1, 0, 1}, ApplyOffset(o) PROVE TimingInv'
<1>1. PICK p : p = slate' /\ p = AppliedOffset(o, slate.track, TRUE)
  BY DEF ApplyOffset
<1>2. /\ p \in Slates /\ SlateFits(p) /\ SessionFits(p, session, lane)
      /\ UserFits(p, userSaves, Meant)
  <2>1. o \in Int /\ slate.align /\ TRUE \in BOOLEAN
    BY DEF ApplyOffset
  <2> QED BY <1>1, <2>1, OffsetIs
<1>3. timingScene' \in TimingSceneSet
  BY SceneStays DEF ApplyOffset, TimingInv
<1>4. UNCHANGED <<session, lane, keptTiming, lostTiming, Meant, userSaves, offsetSaves, retimes, detects>>
  BY MeantStays DEF ApplyOffset
<1> QED BY <1>1, <1>2, <1>3, <1>4 DEF TimingInv

(* Asked for, or the panel closed: what is shown stays.                    *)
LEMMA AskKeeps ==
    ASSUME TimingInv, CloseAlign \/ AutoDetect \/ RetimeFromVocals PROVE TimingInv'
<1>1. PICK p : p = slate'
  OBVIOUS
<1>2. PICK q \in Slates, o \in Int, rt \in Nat, at \in Nat :
         q = slate /\ o = NoOffset /\ rt = slate.retimeToken + 1 /\ at = slate.alignToken + 1
  BY TimingAssumption, SlateParts DEF NoOffset, TimingInv
<1>3. \/ p = [q EXCEPT !.align = FALSE] /\ q.align
      \/ p = [q EXCEPT !.offsetWait = o, !.alignToken = at, !.asking = TRUE]
      \/ p = [q EXCEPT !.busy = TRUE, !.retimeToken = rt]
  BY <1>1, <1>2 DEF CloseAlign, AutoDetect, RetimeFromVocals
<1>4. TimedAlike(q, p) /\ p.wait = q.wait /\ (p.align = q.align \/ q.align)
  BY ZenonT(40), <1>3 DEF TimedAlike, Slates
<1>5. p.align = slate.align \/ session = NoSession
  BY <1>2, <1>4 DEF TimingInv, SessionFits
<1>6. SlateFits(p) /\ SessionFits(p, session, lane) /\ UserFits(p, userSaves, Meant)
  BY <1>2, <1>4, <1>5, AlikeKeeps DEF TimingInv
<1>7. q.track \in Verses
  BY SlateParts
<1>8. retimes' \subseteq RetimeRuns
  <2>1. PICK x : x = [track |-> q.track, token |-> rt, stage |-> "post"]
    OBVIOUS
  <2>2. x \in RetimeRuns
    BY <1>7, <2>1 DEF RetimeRuns
  <2>3. retimes' = retimes \/ retimes' = retimes \cup {x}
    BY <1>2, <2>1 DEF CloseAlign, AutoDetect, RetimeFromVocals
  <2> QED BY <2>2, <2>3 DEF TimingInv
<1>9. detects' \subseteq DetectRuns
  <2>1. PICK x : x = [track |-> q.track, token |-> at]
    OBVIOUS
  <2>2. x \in DetectRuns
    BY <1>7, <2>1 DEF DetectRuns
  <2>3. detects' = detects \/ detects' = detects \cup {x}
    BY <1>2, <2>1 DEF CloseAlign, AutoDetect, RetimeFromVocals
  <2> QED BY <2>2, <2>3 DEF TimingInv
<1>10. offsetSaves' \subseteq OffsetTimings
  <2>1. slate.track \in Verses /\ slate.offsetWait \in Int
    BY SlateParts DEF TimingInv
  <2> QED BY <2>1 DEF CloseAlign, AutoDetect, RetimeFromVocals, FlushOffset, TimingInv, OffsetTimings
<1>11. timingScene' \in TimingSceneSet
  BY SceneStays DEF CloseAlign, AutoDetect, RetimeFromVocals, TimingInv
<1>12. UNCHANGED <<session, lane, keptTiming, lostTiming, Meant, userSaves>>
  BY MeantStays DEF CloseAlign, AutoDetect, RetimeFromVocals
<1> QED BY <1>1, <1>4, <1>6, <1>8, <1>9, <1>10, <1>11, <1>12 DEF TimingInv, TimedAlike

(* An offset the server is sure of, shown if it was asked for here.        *)
LEMMA DetectedKeeps ==
    ASSUME TimingInv, NEW d \in detects, NEW sure \in BOOLEAN, TimingDetected(d, sure)
    PROVE  TimingInv'
<1>1. d.track \in Verses /\ timingScene.detected \in Int
  BY DEF TimingInv, DetectRuns, TimingSceneSet
<1>2. PICK k : k = keptTiming'
  OBVIOUS
<1>3. k \in Kepts /\ \A v \in Verses : k[v].user = keptTiming[v].user
  <2>1. CASE sure
    <3>1. k = [keptTiming EXCEPT ![d.track].offset = timingScene.detected]
      BY <1>2, <2>1 DEF TimingDetected
    <3>2. PICK f \in TimingEntries, o \in Int : f = keptTiming[d.track] /\ o = timingScene.detected
      BY <1>1 DEF TimingInv, Kepts
    <3>3. PICK e : e = [f EXCEPT !.offset = o]
      OBVIOUS
    <3>4. e \in TimingEntries /\ e.user = f.user
      BY <3>3 DEF TimingEntries
    <3>5. k = [keptTiming EXCEPT ![d.track] = e]
      BY <3>1, <3>2, <3>3
    <3>6. k \in Kepts /\ \A v \in Verses : k[v].user = keptTiming[v].user
      BY <1>1, <3>2, <3>4, <3>5 DEF TimingInv, Kepts
    <3> QED BY <3>6
  <2>2. CASE ~sure
    BY <1>2, <2>2 DEF TimingDetected, TimingInv
  <2> QED BY <2>1, <2>2
<1>4. PICK p : p = slate'
  OBVIOUS
<1>5. /\ p \in Slates /\ SlateFits(p) /\ SessionFits(p, session, lane)
      /\ UserFits(p, userSaves, Meant)
  <2>1. CASE p = slate
    BY <2>1 DEF TimingInv
  <2>2. CASE slate.align /\ p = [slate EXCEPT !.asking = FALSE]
    <3>1. PICK q \in Slates : q = slate
      BY DEF TimingInv
    <3>2. TimedAlike(q, p) /\ p.wait = q.wait /\ p.align = q.align
      BY <2>2, <3>1 DEF TimedAlike, Slates
    <3> QED BY <3>1, <3>2, AlikeKeeps DEF TimingInv, TimedAlike
  <2>3. CASE /\ slate.align
             /\ p = [AppliedOffset(timingScene.detected, slate.track, FALSE) EXCEPT !.asking = FALSE]
    <3>1. PICK q : q = AppliedOffset(timingScene.detected, slate.track, FALSE)
      OBVIOUS
    <3>2. FALSE \in BOOLEAN
      OBVIOUS
    <3>3. /\ q \in Slates /\ SlateFits(q) /\ SessionFits(q, session, lane)
          /\ UserFits(q, userSaves, Meant)
      BY <1>1, <2>3, <3>1, <3>2, OffsetIs
    <3>4. p = [q EXCEPT !.asking = FALSE]
      BY <2>3, <3>1
    <3>5. TimedAlike(q, p) /\ p.wait = q.wait /\ p.align = q.align
      BY <3>3, <3>4 DEF TimedAlike, Slates
    <3> QED BY <3>3, <3>5, AlikeKeeps DEF TimedAlike
  <2>4. \/ p = slate
        \/ slate.align /\ p = [slate EXCEPT !.asking = FALSE]
        \/ /\ slate.align
           /\ p = [AppliedOffset(timingScene.detected, slate.track, FALSE) EXCEPT !.asking = FALSE]
    BY <1>4 DEF TimingDetected
  <2> QED BY <2>1, <2>2, <2>3, <2>4
<1>6. lostTiming' = lostTiming /\ Meant' = Meant
  BY <1>2, <1>3, MeantStays DEF TimingDetected
<1>7. detects' \subseteq DetectRuns
  BY DEF TimingDetected, TimingInv
<1>8. UNCHANGED <<session, lane, userSaves, offsetSaves, retimes, timingScene>>
  BY DEF TimingDetected
<1> QED BY <1>2, <1>3, <1>4, <1>5, <1>6, <1>7, <1>8 DEF TimingInv
-----------------------------------------------------------------------------
(* Re-time from vocals.                                                    *)

LEMMA EndsIs ==
    ASSUME TimingInv, NEW r, EndsRun(r)
    PROVE  /\ retimes' \subseteq RetimeRuns /\ slate' \in Slates /\ session' = session /\ lane' = lane
           /\ SlateFits(slate') /\ SessionFits(slate', session, lane)
           /\ UserFits(slate', userSaves, Meant)
<1>1. PICK p : p = slate'
  OBVIOUS
<1>2. PICK q \in Slates : q = slate
  BY DEF TimingInv
<1>3. p = q \/ p = [q EXCEPT !.busy = FALSE]
  BY <1>1, <1>2 DEF EndsRun
<1>4. TimedAlike(q, p) /\ p.wait = q.wait /\ p.align = q.align
  BY <1>3 DEF TimedAlike, Slates
<1>5. SlateFits(p) /\ SessionFits(p, session, lane) /\ UserFits(p, userSaves, Meant)
  BY <1>2, <1>4, AlikeKeeps DEF TimingInv
<1> QED BY <1>1, <1>4, <1>5 DEF EndsRun, TimingInv, TimedAlike

LEMMA PollKeeps ==
    ASSUME TimingInv, NEW r \in retimes, RetimePosted(r) \/ RetimeAnswers(r) PROVE TimingInv'
<1>1. UNCHANGED <<lostTiming, userSaves, offsetSaves, detects, timingScene>>
  BY DEF RetimePosted, RetimeAnswers
<1>2. CASE EndsRun(r) /\ keptTiming' = keptTiming
  <2>1. Meant' = Meant
    BY <1>1, <1>2, MeantStays
  <2> QED BY <1>1, <1>2, <2>1, EndsIs DEF TimingInv
<1>3. CASE ~(EndsRun(r) /\ keptTiming' = keptTiming)
  <2>1. r \in RetimeRuns /\ r.track \in Verses
    BY DEF TimingInv, RetimeRuns
  <2>2. retimes' \subseteq RetimeRuns
    <3>1. PICK x : x = [r EXCEPT !.stage = "poll"]
      OBVIOUS
    <3>2. PICK y : y = [r EXCEPT !.stage = "read"]
      OBVIOUS
    <3>3. x \in RetimeRuns /\ y \in RetimeRuns
      BY <2>1, <3>1, <3>2 DEF RetimeRuns
    <3>4. retimes' = (retimes \ {r}) \cup {x} \/ retimes' = (retimes \ {r}) \cup {y}
      BY <1>3, <3>1, <3>2 DEF RetimePosted, RetimeAnswers
    <3> QED BY <3>3, <3>4 DEF TimingInv
  <2>3. PICK k : k = keptTiming'
    OBVIOUS
  <2>4. k \in Kepts /\ \A v \in Verses : k[v].user = keptTiming[v].user
    <3>1. CASE k = keptTiming
      BY <3>1 DEF TimingInv
    <3>2. CASE k = [keptTiming EXCEPT ![r.track].fitting = "running"]
      <4>1. PICK f \in TimingEntries : f = keptTiming[r.track]
        BY <2>1 DEF TimingInv, Kepts
      <4>2. PICK e : e = [f EXCEPT !.fitting = "running"]
        OBVIOUS
      <4>3. e \in TimingEntries /\ e.user = f.user
        BY <4>2 DEF TimingEntries
      <4>4. k = [keptTiming EXCEPT ![r.track] = e]
        BY <3>2, <4>1, <4>2
      <4> QED BY <2>1, <4>1, <4>3, <4>4, ServerIs
    <3> QED BY <1>3, <2>3, <3>1, <3>2 DEF RetimePosted, RetimeAnswers
  <2>5. UNCHANGED <<slate, session, lane>>
    BY <1>3 DEF RetimePosted, RetimeAnswers
  <2>6. Meant' = Meant
    BY <1>1, <2>3, <2>4, MeantStays
  <2> QED BY <1>1, <2>2, <2>3, <2>4, <2>5, <2>6 DEF TimingInv
<1> QED BY <1>2, <1>3

(* The fit is shown on the track it was asked for, and the user's own      *)
(* timing is let go.                                                       *)
LEMMA ReadKeeps ==
    ASSUME TimingInv, NEW r \in retimes, RetimeRead(r) PROVE TimingInv'
<1>1. UNCHANGED <<keptTiming, lostTiming, Meant, userSaves, offsetSaves, detects, timingScene>>
  BY MeantStays DEF RetimeRead
<1>2. CASE ~Live(r) \/ keptTiming[r.track].aligned = NoTiming
  <2>1. EndsRun(r)
    BY <1>2 DEF RetimeRead
  <2> QED BY <1>1, <2>1, EndsIs DEF TimingInv
<1>3. CASE Live(r) /\ keptTiming[r.track].aligned # NoTiming
  <2>1. /\ session # NoSession /\ session \in SyncSessions /\ ~slate.align
        /\ r.track = slate.track /\ r.track \in Verses
    BY <1>3, SessionIs, SlateParts DEF Live, TimingInv
  <2>2. PICK a \in Lrcs : a = keptTiming[r.track].aligned
    BY <2>1 DEF TimingInv, Kepts, TimingEntries
  <2>3. a \in TimedLines /\ "aligned" \in TimingKinds
    BY SavedAgain DEF TimingKinds
  <2>4. PICK s \in SyncSessions : s = Replaced(session, a, "aligned") /\ s.lines = a /\ s.kind = "aligned"
    BY <2>1, <2>3, ReplacedIs
  <2>5. PICK q \in Slates :
           /\ q = SyncChanged(s) /\ q.lines = s.lines /\ q.kind = s.kind /\ q.align = slate.align
           /\ q.track = slate.track /\ SlateFits(q) /\ UserFits(q, userSaves, Meant)
    BY SyncChangedIs DEF TimingInv
  <2>6. PICK p : p = slate'
    OBVIOUS
  <2>7. p = [q EXCEPT !.entry.aligned = a, !.of = r.track, !.busy = FALSE]
    BY <1>3, <2>2, <2>4, <2>5, <2>6 DEF RetimeRead
  <2>8. PICK e : e = [q.entry EXCEPT !.aligned = a]
    OBVIOUS
  <2>9. e \in TimingEntries /\ e.user = q.entry.user
    <3>1. q.entry \in TimingEntries
      BY SlateParts
    <3> QED BY <2>8, <3>1 DEF TimingEntries
  <2>10. p = [q EXCEPT !.entry = e, !.of = r.track, !.busy = FALSE]
    BY <2>7, <2>8 DEF Slates
  <2>11. /\ p \in Slates /\ p.track = q.track /\ p.of = r.track /\ p.offsetOf = q.offsetOf
         /\ p.lines = q.lines /\ p.kind = q.kind /\ p.entry = e /\ p.wait = q.wait /\ p.align = q.align
    BY <2>1, <2>9, <2>10 DEF Slates
  <2>12. SlateFits(p)
    BY <2>1, <2>5, <2>9, <2>11 DEF SlateFits
  <2>13. UserFits(p, userSaves, Meant)
    BY <2>5, <2>9, <2>11 DEF UserFits, GivenLast
  <2>14. PICK l : l = [lane EXCEPT !.times = a]
    OBVIOUS
  <2>15. l \in SyncLanes /\ l.times = a
    BY <2>3, <2>14 DEF TimingInv, SyncLanes
  <2>16. session' = s /\ lane' = l /\ retimes' \subseteq retimes
    BY <1>3, <2>2, <2>4, <2>14 DEF RetimeRead
  <2>17. SessionFits(p, s, l)
    BY <2>1, <2>4, <2>5, <2>11, <2>15, NotNoSession DEF SessionFits
  <2> QED BY <1>1, <2>6, <2>11, <2>12, <2>13, <2>15, <2>16, <2>17 DEF TimingInv
<1> QED BY <1>2, <1>3
-----------------------------------------------------------------------------
LEMMA TimingStep == TimingInv /\ [TimingNext]_timingVars => TimingInv'
<1> SUFFICES ASSUME TimingInv, [TimingNext]_timingVars PROVE TimingInv'
  OBVIOUS
<1>1. 0 \in 0..TrackEnd /\ 1 \in {-1, 1}
  BY TimingAssumption
<1>2. ASSUME NEW t \in Verses, OpenVerse(t) PROVE TimingInv'
  BY <1>2, OpenVerseKeeps
<1>3. CASE OpenSync
  BY <1>3, OpenSyncKeeps
<1>4. CASE CloseSyncLines \/ OpenAlign
  BY <1>4, CloseKeeps
<1>5. CASE CancelDrag
  BY <1>1, <1>5, DragKeeps
<1>6. CASE UndoSync \/ RedoSync
  BY <1>1, <1>6, LineEditKeeps
<1>7. CASE ToggleRipple
  BY <1>7, ChosenKeeps
<1>8. CASE ResetToDetected \/ ResetToOriginal
  BY <1>8, ResetKeeps
<1>9. CASE UserSaveDelayOver \/ OffsetDelayOver
  BY <1>9, SendKeeps
<1>10. CASE UserTimingLands
  BY <1>10, TimingLandsKeeps
<1>11. CASE CloseAlign \/ AutoDetect \/ RetimeFromVocals
  BY <1>11, AskKeeps
<1>12. ASSUME NEW i \in DOMAIN slate.lines, SelectLine(i) \/ GrabMark(i) PROVE TimingInv'
  BY <1>12, ChosenKeeps
<1>13. ASSUME NEW time \in 0..TrackEnd, TapNow(time) \/ LineToPlayhead(time) PROVE TimingInv'
  BY <1>1, <1>13, LineEditKeeps
<1>14. ASSUME NEW time \in 0..TrackEnd, DragMark(time) \/ DropMark(time) PROVE TimingInv'
  BY <1>14, DragKeeps
<1>15. ASSUME NEW step \in {-1, 1}, NudgeLine(step) PROVE TimingInv'
  BY <1>1, <1>15, LineEditKeeps
<1>16. ASSUME NEW o \in {-1, 0, 1}, ApplyOffset(o) PROVE TimingInv'
  BY <1>16, ApplyOffsetKeeps
<1>17. ASSUME NEW save \in offsetSaves, OffsetLandsOf(save) PROVE TimingInv'
  BY <1>17, OffsetLandsKeeps
<1>18. ASSUME NEW d \in detects, NEW sure \in BOOLEAN, TimingDetected(d, sure) PROVE TimingInv'
  BY <1>18, DetectedKeeps
<1>19. ASSUME NEW r \in retimes, RetimePosted(r) \/ RetimeAnswers(r) PROVE TimingInv'
  BY <1>19, PollKeeps
<1>20. ASSUME NEW r \in retimes, RetimeRead(r) PROVE TimingInv'
  BY <1>20, ReadKeeps
<1>21. ASSUME NEW t \in Verses, NEW outcome \in {"done", "unsure", "failed"}, ServerFits(t, outcome)
       PROVE  TimingInv'
  BY <1>21, FitKeeps
<1>22. CASE UNCHANGED timingVars
  <2>1. Meant' = Meant
    BY <1>22, MeantStays DEF timingVars
  <2> QED BY <1>22, <2>1 DEF timingVars, TimingInv
<1> QED BY <1>2, <1>3, <1>4, <1>5, <1>6, <1>7, <1>8, <1>9, <1>10, <1>11, <1>12, <1>13, <1>14, <1>15,
           <1>16, <1>17, <1>18, <1>19, <1>20, <1>21, <1>22 DEF TimingNext

LEMMA TimingInvGives == TimingInv => LyricsKeepTime
<1> SUFFICES ASSUME TimingInv PROVE LyricsKeepTime
  OBVIOUS
<1>1. LinesNeverCross
  BY SlateParts DEF TimingInv, TimedLines, SyncLanes, LinesNeverCross
<1>2. OneTiming
  BY DEF TimingInv, SessionFits, OneTiming
<1>3. UserTimingIsKept
  <2> DEFINE shown == IF session.kind = "user" THEN SavedLrc(session.lines) ELSE NoTiming
  <2> SUFFICES ASSUME session # NoSession, slate.wait = NoUserSave, userSaves = <<>>
               PROVE  keptTiming[slate.track].user = shown \/ lostTiming[slate.track] = [timing |-> shown]
    BY DEF UserTimingIsKept
  <2>1. slate.lines = session.lines /\ slate.kind = session.kind
    BY SessionIs
  <2>2. slate.entry.user = Meant[slate.track]
    BY DEF TimingInv, UserFits, GivenLast
  <2>3. slate.entry.user = shown
    BY <2>1 DEF TimingInv, SlateFits
  <2> HIDE DEF shown
  <2>4. PICK v \in Verses, w \in UserWaits : v = slate.track /\ w = lostTiming[v]
    BY SlateParts DEF TimingInv
  <2>5. shown = IF w = NoUserSave THEN keptTiming[v].user ELSE w.timing
    BY <2>2, <2>3, <2>4 DEF Meant
  <2>6. w # NoUserSave => w = [timing |-> w.timing]
    BY DEF UserWaits
  <2> QED BY <2>4, <2>5, <2>6
<1>4. FitsAreTheTracks
  BY DEF TimingInv, SlateFits, FitsAreTheTracks
<1> QED BY <1>1, <1>2, <1>3, <1>4 DEF LyricsKeepTime

(* However many tracks, lines and gestures: lines never cross, the panel,  *)
(* the tab and the lane show one timing, the server comes to keep the      *)
(* user's unless its last save failed, and fits are shown on their own     *)
(* track only (lyricsSync.js, lyrics.js).                                  *)
THEOREM LyricsStayInTime == TimingSpec => []LyricsKeepTime
<1>1. TimingSpec => []TimingInv
  BY TimingStarts, TimingStep, PTL DEF TimingSpec
<1> QED BY <1>1, TimingInvGives, PTL
=============================================================================
