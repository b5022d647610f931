--------------------------- MODULE StandaloneProofs ---------------------------
(***************************************************************************)
(* Theorems about the ring of the last lines, the health monitor, the job  *)
(* wizard, the global search and the nodes view, for any capacities and    *)
(* batches, any answers of the cluster, any configuration, any objects and *)
(* nodes, and any bounds.                                                  *)
(***************************************************************************)
EXTENDS Standalone, SequenceTheorems, FiniteSetTheorems, WellFoundedInduction, TLAPS

-----------------------------------------------------------------------------
(***************************************************************************)
(* The ring.                                                               *)
(***************************************************************************)

\* Slot i of a ring of c slots, for i from 0 to twice that.
Slot(c, i) == IF i < c THEN i ELSE i - c

\* What the proofs need to know of a ring b of c slots: head is size slots after tail,
\* and a ring that is not full has its oldest line in slot 0.
IsRing(b, c) ==
  /\ b.data \in [0 .. c - 1 -> Line \cup {NoLine}]
  /\ b.tail \in 0 .. c - 1 /\ b.size \in 0 .. c
  /\ b.size < c => b.tail = 0
  /\ b.head = Slot(c, b.tail + b.size)

\* Line j of those in the ring, from the oldest.
LineOf(b, c, j) == b.data[Slot(c, b.tail + j - 1)]

Ring0 == [data |-> data, head |-> head, tail |-> tail, size |-> size]

RingInv ==
  /\ capacity \in Nat \ {0} /\ totalLines \in Nat
  /\ \E b : b = Ring0 /\ IsRing(b, capacity)

\* A set of numbers that has 0 and with each number the next has all numbers.
LEMMA NatInductionBySet ==
  ASSUME NEW S, NEW n \in Nat, 0 \in S, \A i \in 0 .. n - 1 : i \in S => i + 1 \in S
  PROVE  0 .. n \subseteq S
<1> DEFINE T == {i \in 0 .. n : i \notin S}
           R == OpToRel(<, Nat)
<1> SUFFICES ASSUME T # {}
             PROVE  FALSE
  OBVIOUS
<1>1. IsWellFoundedOn(R, Nat)
  BY NatLessThanWellFounded
<1>2. R = {p \in Nat \X Nat : p[1] < p[2]}
  BY DEF OpToRel
<1> HIDE DEF R
<1>3. PICK m \in T : \A i \in T : ~(<<i, m>> \in R)
  <2>1. T \subseteq Nat /\ T # {}
    OBVIOUS
  <2> HIDE DEF T
  <2> QED
    BY <1>1, <2>1, WFMin
<1>4. m \in Nat /\ m # 0 /\ m - 1 \in 0 .. n - 1
  OBVIOUS
<1>5. m - 1 \notin S
  BY <1>4
<1>6. <<m - 1, m>> \in R
  BY <1>2, <1>4
<1> QED
  BY <1>3, <1>4, <1>5, <1>6

\* The remainders that the ring takes.
LEMMA SlotIsRemainder ==
  ASSUME NEW c \in Nat \ {0}, NEW i \in 0 .. 2 * c - 1
  PROVE  i % c = Slot(c, i) /\ Slot(c, i) \in 0 .. c - 1
<1>1. CASE i < c
  <2>1. i \in 0 .. c - 1
    BY <1>1
  <2>2. \A d \in Nat \ {0} : \A x \in 0 .. d - 1 : x % d = x
    OBVIOUS
  <2> QED
    BY <1>1, <2>1, <2>2 DEF Slot
<1>2. CASE ~(i < c)
  <2>1. i \in c .. 2 * c - 1
    BY <1>2
  <2>2. \A d \in Nat \ {0} : \A x \in d .. 2 * d - 1 : x % d = x - d
    OBVIOUS
  <2> QED
    BY <1>2, <2>1, <2>2 DEF Slot
<1> QED
  BY <1>1, <1>2

\* One more line, in place of the oldest if the ring is full.
LEMMA AppendSingleLemma ==
  ASSUME RingInv, NEW b, IsRing(b, capacity), NEW line \in Line,
         NEW after, after = Ring!AppendSingle(b, line)
  PROVE  /\ IsRing(after, capacity)
         /\ after.size = IF b.size = capacity THEN b.size ELSE b.size + 1
         /\ \A j \in 1 .. after.size :
              LineOf(after, capacity, j) =
                IF j = after.size THEN line
                ELSE LineOf(b, capacity, IF b.size = capacity THEN j + 1 ELSE j)
<1> DEFINE c == capacity
<1>1. /\ c \in Nat \ {0}
      /\ b.data \in [0 .. c - 1 -> Line \cup {NoLine}]
      /\ b.tail \in 0 .. c - 1 /\ b.size \in 0 .. c
      /\ b.size < c => b.tail = 0
      /\ b.head = Slot(c, b.tail + b.size) /\ b.head \in 0 .. c - 1
  <2>1. c \in Nat \ {0}
    BY DEF RingInv
  <2>2. /\ b.tail \in 0 .. c - 1 /\ b.size \in 0 .. c
        /\ b.size < c => b.tail = 0
        /\ b.head = Slot(c, b.tail + b.size)
    BY DEF IsRing
  <2>3. b.head \in 0 .. c - 1
    BY <2>1, <2>2 DEF Slot
  <2> QED
    BY <2>1, <2>2, <2>3 DEF IsRing
<1>2. /\ after.data = [b.data EXCEPT ![b.head] = line]
      /\ after.head = (b.head + 1) % c
      /\ after.tail = IF b.size = c THEN (b.tail + 1) % c ELSE b.tail
      /\ after.size = IF b.size = c THEN b.size ELSE b.size + 1
  BY DEF Ring!AppendSingle
<1> HIDE DEF c
<1>3. /\ (b.head + 1) % c = Slot(c, b.head + 1)
      /\ (b.tail + 1) % c = Slot(c, b.tail + 1)
  <2>1. b.head + 1 \in 0 .. 2 * c - 1 /\ b.tail + 1 \in 0 .. 2 * c - 1
    BY <1>1
  <2> QED
    BY <1>1, <2>1, SlotIsRemainder
<1>4. /\ after.tail \in 0 .. c - 1 /\ after.size \in 0 .. c
      /\ after.size < c => after.tail = 0
      /\ after.head = Slot(c, after.tail + after.size)
  <2>1. CASE b.size = c
    BY <1>1, <1>2, <1>3, <2>1 DEF Slot
  <2>2. CASE b.size # c
    <3>1. b.tail = 0 /\ b.size < c /\ b.head = b.size
      BY <1>1, <2>2 DEF Slot
    <3>2. after.tail = 0 /\ after.size = b.size + 1 /\ after.head = Slot(c, b.size + 1)
      BY <1>2, <1>3, <2>2, <3>1
    <3>3. b.size + 1 \in 0 .. c
      BY <1>1, <3>1
    <3> QED
      BY <1>1, <3>2, <3>3 DEF Slot
  <2> QED
    BY <2>1, <2>2
<1>5. after.data \in [0 .. c - 1 -> Line \cup {NoLine}]
  BY <1>1, <1>2
<1>6. /\ after.data[b.head] = line
      /\ \A i \in 0 .. c - 1 : i # b.head => after.data[i] = b.data[i]
  BY <1>1, <1>2
<1>7. ASSUME NEW j \in 1 .. after.size
      PROVE  LineOf(after, c, j) =
               IF j = after.size THEN line ELSE LineOf(b, c, IF b.size = c THEN j + 1 ELSE j)
  <2>1. CASE b.size = c
    <3>1. Slot(c, after.tail + j - 1) = Slot(c, b.tail + j)
      <4>1. after.tail = Slot(c, b.tail + 1) /\ j \in 1 .. c
        BY <1>2, <1>3, <2>1
      <4>2. b.tail \in 0 .. c - 1 /\ c \in Nat
        BY <1>1
      <4> QED
        BY <4>1, <4>2 DEF Slot
    <3>2. CASE j = after.size
      <4>1. Slot(c, b.tail + j) = b.head
        BY <1>1, <1>2, <2>1, <3>2 DEF Slot
      <4> QED
        BY <1>6, <3>1, <3>2, <4>1 DEF LineOf
    <3>3. CASE j # after.size
      <4>1. Slot(c, b.tail + j) # b.head /\ Slot(c, b.tail + j) \in 0 .. c - 1
        BY <1>1, <1>2, <2>1, <3>3 DEF Slot
      <4>2. b.tail + (j + 1) - 1 = b.tail + j
        BY <1>1
      <4> QED
        BY <1>6, <2>1, <3>1, <3>3, <4>1, <4>2 DEF LineOf
    <3> QED
      BY <3>2, <3>3
  <2>2. CASE b.size # c
    <3>1. b.tail = 0 /\ after.tail = 0 /\ b.head = b.size /\ after.size = b.size + 1 /\ b.size < c
      BY <1>1, <1>2, <2>2 DEF Slot
    <3>2. Slot(c, 0 + j - 1) = j - 1 /\ j - 1 \in 0 .. c - 1 /\ (j - 1 = b.head <=> j = after.size)
      BY <1>1, <3>1 DEF Slot
    <3> QED
      BY <1>6, <2>2, <3>1, <3>2 DEF LineOf
  <2> QED
    BY <2>1, <2>2
<1> QED
  BY <1>2, <1>4, <1>5, <1>7 DEF IsRing, c

\* The rings that a call of AppendString goes through.
Appending(b, n, lines, g) ==
  g = [i \in 0 .. n |-> IF i = 0 THEN b ELSE Ring!AppendSingle(g[i - 1], lines[i])]

\* What a call of AppendString goes through, line by line, is well defined.
LEMMA AppendingIsDefined ==
  ASSUME NEW b, NEW n \in Nat, NEW lines
  PROVE  \E g : Appending(b, n, lines, g)
<1> DEFINE S == {m \in 0 .. n : \E g :
                   g = [i \in 0 .. m |->
                          IF i = 0 THEN b ELSE Ring!AppendSingle(g[i - 1], lines[i])]}
<1>1. 0 \in S
  <2> DEFINE g == [i \in 0 .. 0 |-> b]
  <2>1. g = [i \in 0 .. 0 |-> IF i = 0 THEN b ELSE Ring!AppendSingle(g[i - 1], lines[i])]
    OBVIOUS
  <2> HIDE DEF g
  <2> QED
    BY <2>1
<1>2. ASSUME NEW m \in 0 .. n - 1, m \in S
      PROVE  m + 1 \in S
  <2>1. PICK g : g = [i \in 0 .. m |->
                        IF i = 0 THEN b ELSE Ring!AppendSingle(g[i - 1], lines[i])]
    BY <1>2
  <2> DEFINE next == Ring!AppendSingle(g[m], lines[m + 1])
             h == [i \in 0 .. m + 1 |-> IF i = m + 1 THEN next ELSE g[i]]
             F(i) == IF i = 0 THEN b ELSE Ring!AppendSingle(h[i - 1], lines[i])
  <2>2. \A i \in 0 .. m : h[i] = g[i]
    OBVIOUS
  <2>3. h[m + 1] = next
    OBVIOUS
  <2>4. DOMAIN h = 0 .. m + 1 /\ h = [i \in 0 .. m + 1 |-> h[i]]
    OBVIOUS
  <2> HIDE DEF h
  <2>5. ASSUME NEW i \in 0 .. m + 1
        PROVE  h[i] = F(i)
    <3>1. CASE i = 0
      BY <2>1, <2>2, <3>1
    <3>2. CASE i \in 1 .. m
      <4>1. i - 1 \in 0 .. m /\ i \in 0 .. m /\ i # 0
        BY <3>2
      <4>2. h[i - 1] = g[i - 1] /\ h[i] = g[i]
        BY <2>2, <4>1
      <4>3. g[i] = Ring!AppendSingle(g[i - 1], lines[i])
        BY <2>1, <4>1
      <4> QED
        BY <4>1, <4>2, <4>3
    <3>3. CASE i = m + 1
      <4>1. i # 0 /\ i - 1 = m /\ m \in 0 .. m
        BY <3>3
      <4>2. h[i - 1] = g[m]
        BY <2>2, <4>1
      <4> QED
        BY <2>3, <3>3, <4>1, <4>2
    <3> QED
      BY <3>1, <3>2, <3>3
  <2>6. h = [i \in 0 .. m + 1 |-> F(i)]
    <3> HIDE DEF F
    <3> QED
      BY <2>4, <2>5
  <2>7. m + 1 \in 0 .. n
    OBVIOUS
  <2> QED
    BY <2>6, <2>7
<1> HIDE DEF S
<1>3. n \in S
  BY <1>1, <1>2, NatInductionBySet
<1> QED
  BY <1>3 DEF S, Appending

\* Line k of those that are there and those of a batch after them.
Joined(b, c, batch, k) == IF k <= b.size THEN LineOf(b, c, k) ELSE batch[k - b.size]

\* Ring a has the last of these after i lines of the batch.
After(b, c, batch, i, a) ==
  /\ IsRing(a, c)
  /\ a.size = IF b.size + i <= c THEN b.size + i ELSE c
  /\ \A j \in 1 .. a.size : LineOf(a, c, j) = Joined(b, c, batch, b.size + i - a.size + j)

\* Where a line that stays moves to: the numbers before and after one more is added.
LEMMA SurvivorLemma ==
  ASSUME NEW s \in Nat, NEW c \in Nat \ {0}, NEW i \in Nat, NEW before, NEW after,
         before = IF s + i <= c THEN s + i ELSE c,
         after = IF before = c THEN before ELSE before + 1,
         NEW j \in 1 .. after, j # after
  PROVE  LET k == IF before = c THEN j + 1 ELSE j
         IN k \in 1 .. before /\ s + i - before + k = s + (i + 1) - after + j
<1>1. before \in Nat /\ before <= c
  OBVIOUS
<1>2. CASE before = c
  BY <1>1, <1>2
<1>3. CASE before # c
  BY <1>1, <1>3
<1> QED
  BY <1>2, <1>3

\* A call of AppendString leaves the last of the lines that are there and the new ones.
LEMMA AppendStringLemma ==
  ASSUME RingInv, NEW batch \in Seq(Line), Ring!AppendString(batch)
  PROVE  \E b, a : /\ b = Ring0 /\ IsRing(b, capacity)
                   /\ a = Ring0' /\ After(b, capacity, batch, Len(batch), a)
<1> DEFINE c == capacity
           n == Len(batch)
<1>1. PICK b : b = Ring0 /\ IsRing(b, c)
  BY DEF RingInv
<1>2. n \in Nat /\ \A i \in 1 .. n : batch[i] \in Line
  BY LenProperties, ElementOfSeq
<1>3. c \in Nat \ {0} /\ b.size \in 0 .. c
  BY <1>1 DEF RingInv, IsRing
<1>4. PICK g : /\ g = [i \in 0 .. n |-> IF i = 0 THEN b ELSE Ring!AppendSingle(g[i - 1], batch[i])]
               /\ Ring0' = [data |-> g[n].data, head |-> g[n].head, tail |-> g[n].tail,
                            size |-> g[n].size]
  <2> DEFINE w == CHOOSE g : g = [i \in 0 .. n |-> IF i = 0 THEN b
                                             ELSE Ring!AppendSingle(g[i - 1], batch[i])]
  <2>1. Appending(b, n, batch, w)
    <3>1. n \in Nat
      BY <1>2
    <3>2. \E g : Appending(b, n, batch, g)
      <4> HIDE DEF n
      <4> QED
        BY <3>1, AppendingIsDefined
    <3>3. w = CHOOSE g : Appending(b, n, batch, g)
      BY DEF Appending
    <3> HIDE DEF w
    <3> QED
      BY <3>2, <3>3
  <2>2. data' = w[n].data /\ head' = w[n].head /\ tail' = w[n].tail /\ size' = w[n].size
    BY <1>1 DEF Ring!AppendString, Ring0
  <2> HIDE DEF w
  <2> QED
    BY <2>1, <2>2 DEF Ring0, Appending
<1> DEFINE S == {i \in 0 .. n : After(b, c, batch, i, g[i])}
<1>5. 0 \in S
  <2>1. g[0] = b /\ 0 \in 0 .. n
    BY <1>2, <1>4
  <2>2. After(b, c, batch, 0, b)
    BY <1>1, <1>3 DEF After, Joined
  <2> QED
    BY <2>1, <2>2
<1>6. ASSUME NEW i \in 0 .. n - 1, i \in S
      PROVE  i + 1 \in S
  <2>1. /\ i \in Nat /\ i \in 0 .. n
        /\ i + 1 \in 1 .. n /\ i + 1 \in 0 .. n /\ i + 1 # 0 /\ (i + 1) - 1 = i
    BY <1>2
  <2>2. g[i + 1] = Ring!AppendSingle(g[i], batch[i + 1])
    BY <1>4, <2>1
  <2>3. After(b, c, batch, i, g[i])
    BY <1>6
  <2>4. batch[i + 1] \in Line
    BY <1>2, <2>1
  <2> HIDE DEF c, n, S
  <2> DEFINE old == g[i]
             new == g[i + 1]
             line == batch[i + 1]
  <2>5. /\ IsRing(new, c)
        /\ new.size = IF old.size = c THEN old.size ELSE old.size + 1
        /\ \A j \in 1 .. new.size :
             LineOf(new, c, j) =
               IF j = new.size THEN line
               ELSE LineOf(old, c, IF old.size = c THEN j + 1 ELSE j)
    BY <2>2, <2>3, <2>4, AppendSingleLemma DEF After, c
  <2>6. /\ old.size = IF b.size + i <= c THEN b.size + i ELSE c
        /\ \A j \in 1 .. old.size :
             LineOf(old, c, j) = Joined(b, c, batch, b.size + i - old.size + j)
    BY <2>3 DEF After
  <2> HIDE DEF old, new
  <2>7. new.size = IF b.size + (i + 1) <= c THEN b.size + (i + 1) ELSE c
    BY <1>3, <2>1, <2>5, <2>6
  <2>8. ASSUME NEW j \in 1 .. new.size
        PROVE  LineOf(new, c, j) = Joined(b, c, batch, b.size + (i + 1) - new.size + j)
    <3>1. CASE j = new.size
      <4>1. b.size + (i + 1) - new.size + j = b.size + (i + 1) /\ ~(b.size + (i + 1) <= b.size)
            /\ b.size + (i + 1) - b.size = i + 1
        BY <1>3, <2>1, <2>7, <3>1
      <4>2. Joined(b, c, batch, b.size + (i + 1)) = batch[i + 1]
        <5>1. PICK k : k = b.size + (i + 1)
          OBVIOUS
        <5>2. ~(k <= b.size) /\ k - b.size = i + 1
          BY <1>3, <2>1, <4>1, <5>1
        <5>3. Joined(b, c, batch, k) = batch[i + 1]
          BY <5>2 DEF Joined
        <5> QED
          BY <5>1, <5>3
      <4>3. LineOf(new, c, j) = line
        BY <2>5, <3>1
      <4> QED
        BY <4>1, <4>2, <4>3
    <3>2. CASE j # new.size
      <4> DEFINE k == IF old.size = c THEN j + 1 ELSE j
      <4>1. k \in 1 .. old.size /\ b.size + i - old.size + k = b.size + (i + 1) - new.size + j
        <5>1. PICK s, was, is : s = b.size /\ was = old.size /\ is = new.size
          OBVIOUS
        <5>2. /\ s \in Nat /\ c \in Nat \ {0} /\ i \in Nat /\ j \in 1 .. is /\ j # is
              /\ was = IF s + i <= c THEN s + i ELSE c
              /\ is = IF was = c THEN was ELSE was + 1
          <6>1. s \in Nat /\ c \in Nat \ {0} /\ i \in Nat
            BY <1>3, <2>1, <5>1
          <6>2. j \in 1 .. is /\ j # is
            BY <3>2, <5>1
          <6>3. was = IF s + i <= c THEN s + i ELSE c
            BY <2>6, <5>1
          <6>4. is = IF was = c THEN was ELSE was + 1
            BY <2>5, <5>1
          <6> QED
            BY <6>1, <6>2, <6>3, <6>4
        <5>3. LET m == IF was = c THEN j + 1 ELSE j
              IN m \in 1 .. was /\ s + i - was + m = s + (i + 1) - is + j
          BY <5>2, SurvivorLemma
        <5> QED
          BY <5>1, <5>3
      <4>2. LineOf(new, c, j) = LineOf(old, c, k)
        BY <2>5, <3>2
      <4> HIDE DEF k
      <4> QED
        BY <2>6, <4>1, <4>2
    <3> QED
      BY <3>1, <3>2
  <2>9. After(b, c, batch, i + 1, new)
    BY <2>5, <2>7, <2>8 DEF After
  <2> QED
    BY <2>1, <2>9 DEF S, n, new
<1>7. After(b, c, batch, n, g[n])
  <2>1. n \in Nat
    BY <1>2
  <2> HIDE DEF S, n
  <2>2. 0 .. n \subseteq S
    BY <1>5, <1>6, <2>1, NatInductionBySet
  <2> QED
    BY <2>1, <2>2 DEF S
<1>8. PICK a : a = Ring0'
  OBVIOUS
<1>9. a.data = g[n].data /\ a.head = g[n].head /\ a.tail = g[n].tail /\ a.size = g[n].size
  BY <1>4, <1>8
<1>10. After(b, c, batch, n, a)
  BY <1>7, <1>9 DEF After, IsRing, LineOf
<1> QED
  BY <1>1, <1>8, <1>10

\* Go's slices are sequences.
LEMMA SliceLemma ==
  ASSUME NEW d, NEW S, NEW lo \in Int, NEW hi \in Int, lo <= hi,
         \A i \in lo .. hi - 1 : d[i] \in S,
         NEW s, s = [i \in 1 .. hi - lo |-> d[lo + i - 1]]
  PROVE  s \in Seq(S) /\ Len(s) = hi - lo /\ \A j \in 1 .. hi - lo : s[j] = d[lo + j - 1]
<1>1. hi - lo \in Nat
  OBVIOUS
<1>2. \A i \in 1 .. hi - lo : d[lo + i - 1] \in S
  <2> TAKE i \in 1 .. hi - lo
  <2>1. lo + i - 1 \in lo .. hi - 1
    OBVIOUS
  <2> QED
    BY <2>1
<1>3. PICK n \in Nat : n = hi - lo
  BY <1>1
<1>4. s = [i \in 1 .. n |-> s[i]] /\ \A i \in 1 .. n : s[i] \in S /\ s[i] = d[lo + i - 1]
  BY <1>2, <1>3
<1>5. s \in [1 .. n -> S]
  BY <1>4
<1>6. s \in Seq(S)
  BY <1>5, SeqDef
<1>7. Len(s) = n
  BY <1>5, <1>6, LenProperties
<1> QED
  BY <1>3, <1>4, <1>6, <1>7

\* Two slices that follow each other.
LEMMA TwoSlicesLemma ==
  ASSUME NEW d, NEW S, NEW lo \in Int, NEW mid \in Int, NEW hi \in Int, lo <= mid, 0 <= hi,
         \A i \in lo .. mid - 1 : d[i] \in S, \A i \in 0 .. hi - 1 : d[i] \in S,
         NEW s, s = [i \in 1 .. mid - lo |-> d[lo + i - 1]] \o [i \in 1 .. hi - 0 |-> d[0 + i - 1]]
  PROVE  /\ s \in Seq(S) /\ Len(s) = mid - lo + hi
         /\ \A j \in 1 .. mid - lo + hi :
              s[j] = IF j <= mid - lo THEN d[lo + j - 1] ELSE d[j - (mid - lo) - 1]
<1>1. PICK s1, s2 : /\ s1 = [i \in 1 .. mid - lo |-> d[lo + i - 1]]
                    /\ s2 = [i \in 1 .. hi - 0 |-> d[0 + i - 1]]
  OBVIOUS
<1>2. s1 \in Seq(S) /\ Len(s1) = mid - lo /\ \A j \in 1 .. mid - lo : s1[j] = d[lo + j - 1]
  BY <1>1, SliceLemma
<1>3. s2 \in Seq(S) /\ Len(s2) = hi - 0 /\ \A j \in 1 .. hi - 0 : s2[j] = d[0 + j - 1]
  BY <1>1, SliceLemma
<1>4. /\ s \in Seq(S) /\ Len(s) = Len(s1) + Len(s2)
      /\ \A j \in 1 .. Len(s1) + Len(s2) : s[j] = IF j <= Len(s1) THEN s1[j] ELSE s2[j - Len(s1)]
  BY <1>1, <1>2, <1>3, ConcatProperties
<1>5. ASSUME NEW j \in 1 .. mid - lo + hi
      PROVE  s[j] = IF j <= mid - lo THEN d[lo + j - 1] ELSE d[j - (mid - lo) - 1]
  <2>1. CASE j <= mid - lo
    BY <1>2, <1>3, <1>4, <2>1
  <2>2. CASE ~(j <= mid - lo)
    <3>1. PICK m : m = j - (mid - lo)
      OBVIOUS
    <3>2. m \in 1 .. hi - 0 /\ 0 + m - 1 = m - 1
      BY <2>2, <3>1
    <3>3. s2[m] = d[m - 1]
      BY <1>3, <3>2
    <3>4. s[j] = s2[m]
      BY <1>2, <1>3, <1>4, <2>2, <3>1
    <3> QED
      BY <2>2, <3>1, <3>3, <3>4
  <2> QED
    BY <2>1, <2>2
<1> QED
  BY <1>2, <1>3, <1>4, <1>5

\* Sequence s has the lines of ring b.
HasLinesOf(s, b, c) ==
  /\ s \in Seq(Line \cup {NoLine}) /\ Len(s) = b.size
  /\ \A j \in 1 .. b.size : s[j] = LineOf(b, c, j)

\* GetLines returns those of the ring that is there.
Reads ==
  \E b, s : /\ b = Ring0 /\ IsRing(b, capacity)
            /\ s = Ring!GetLines /\ HasLinesOf(s, b, capacity)

\* GetLines returns the lines of the ring from the oldest, wherever it is broken.
LEMMA GetLinesLemma == RingInv => Reads
<1> SUFFICES ASSUME RingInv
             PROVE  Reads
  OBVIOUS
<1>1. PICK b : b = Ring0 /\ IsRing(b, capacity)
  BY DEF RingInv
<1>2. PICK c, d, h, t, n, s, L :
        /\ c = capacity /\ d = data /\ h = head /\ t = tail /\ n = size
        /\ s = Ring!GetLines /\ L = Line \cup {NoLine}
  OBVIOUS
<1>3. d = b.data /\ h = b.head /\ t = b.tail /\ n = b.size
  BY <1>1, <1>2 DEF Ring0
<1>4. /\ c \in Nat /\ c > 0 /\ t \in Int /\ 0 <= t /\ t < c /\ n \in Int /\ 0 <= n /\ n <= c
      /\ n < c => t = 0
      /\ h = Slot(c, t + n)
      /\ \A i \in 0 .. c - 1 : d[i] \in L
  BY <1>1, <1>2, <1>3 DEF RingInv, IsRing
<1>5. ASSUME s \in Seq(L), Len(s) = n, \A j \in 1 .. n : s[j] = d[Slot(c, t + j - 1)]
      PROVE  Reads
  BY <1>1, <1>2, <1>3, <1>5 DEF Reads, HasLinesOf, LineOf
<1>6. CASE n = 0
  <2>1. s = <<>>
    BY <1>2, <1>6 DEF Ring!GetLines
  <2> QED
    BY <1>5, <1>6, <2>1
<1>7. CASE n > 0 /\ n < c
  <2>1. PICK hi : hi = tail + size
    OBVIOUS
  <2>2. t = 0 /\ hi = n /\ hi - t = n /\ t <= hi /\ hi \in Int
    BY <1>2, <1>4, <1>7, <2>1
  <2>3. s = Ring!Slice(tail, hi)
    BY <1>2, <1>4, <1>7, <2>1 DEF Ring!GetLines
  <2>4. s = [i \in 1 .. hi - t |-> d[t + i - 1]]
    BY <1>2, <2>3 DEF Ring!Slice
  <2>5. \A i \in t .. hi - 1 : d[i] \in L
    BY <1>4, <1>7, <2>2
  <2>6. s \in Seq(L) /\ Len(s) = hi - t /\ \A j \in 1 .. hi - t : s[j] = d[t + j - 1]
    BY <1>4, <2>2, <2>4, <2>5, SliceLemma
  <2>7. ASSUME NEW j \in 1 .. n
        PROVE  s[j] = d[Slot(c, t + j - 1)]
    <3>1. Slot(c, t + j - 1) = t + j - 1
      BY <1>4, <1>7, <2>2 DEF Slot
    <3>2. s[j] = d[t + j - 1]
      BY <2>2, <2>6
    <3> QED
      BY <3>1, <3>2
  <2>8. s \in Seq(L) /\ Len(s) = n
    BY <2>2, <2>6
  <2> QED
    BY <1>5, <2>7, <2>8
<1>8. CASE n = c
  <2>1. h = t /\ ~(t < h \/ n < c) /\ n > 0 /\ n # 0
    BY <1>4, <1>8 DEF Slot
  <2>2. s = Ring!Slice(tail, capacity) \o Ring!Slice(0, head)
    BY <1>2, <2>1 DEF Ring!GetLines
  <2>3. /\ Ring!Slice(tail, capacity) = [i \in 1 .. c - t |-> d[t + i - 1]]
        /\ Ring!Slice(0, head) = [i \in 1 .. h - 0 |-> d[0 + i - 1]]
    BY <1>2 DEF Ring!Slice
  <2>4. s = [i \in 1 .. c - t |-> d[t + i - 1]] \o [i \in 1 .. h - 0 |-> d[0 + i - 1]]
    BY <2>2, <2>3
  <2>5. /\ t \in Int /\ c \in Int /\ h \in Int /\ t <= c /\ 0 <= h
        /\ \A i \in t .. c - 1 : d[i] \in L
        /\ \A i \in 0 .. h - 1 : d[i] \in L
        /\ c - t + h = n
    BY <1>4, <1>8, <2>1
  <2>6. /\ s \in Seq(L) /\ Len(s) = c - t + h
        /\ \A j \in 1 .. c - t + h :
             s[j] = IF j <= c - t THEN d[t + j - 1] ELSE d[j - (c - t) - 1]
    BY <2>4, <2>5, TwoSlicesLemma
  <2>7. ASSUME NEW j \in 1 .. n
        PROVE  s[j] = d[Slot(c, t + j - 1)]
    <3>1. Slot(c, t + j - 1) = IF j <= c - t THEN t + j - 1 ELSE j - (c - t) - 1
      BY <1>4, <1>8 DEF Slot
    <3> QED
      BY <2>5, <2>6, <3>1
  <2> QED
    BY <1>5, <2>5, <2>6, <2>7
<1> QED
  BY <1>4, <1>6, <1>7, <1>8

\* How many of a sequence are its n last.
Kept(s, n) == IF n < 0 THEN 0 ELSE IF Len(s) <= n THEN Len(s) ELSE n

\* The last lines of a sequence, n of them if it has so many.
LEMMA MostRecentLemma ==
  ASSUME NEW S, NEW s \in Seq(S), NEW n \in Int
  PROVE  /\ Ring!Log!MostRecent(s, n) \in Seq(S)
         /\ Len(Ring!Log!MostRecent(s, n)) = Kept(s, n)
         /\ \A j \in 1 .. Kept(s, n) :
              Ring!Log!MostRecent(s, n)[j] = s[Len(s) - Kept(s, n) + j]
<1>1. Len(s) \in Nat /\ \A i \in 1 .. Len(s) : s[i] \in S
  BY LenProperties, ElementOfSeq
<1>2. PICK k : k = Len(s)
  OBVIOUS
<1>3. PICK t : t = Ring!Log!MostRecent(s, n)
  OBVIOUS
<1> DEFINE m == IF n < 0 THEN 0 ELSE IF Len(s) <= n THEN Len(s) ELSE n
<1> SUFFICES t \in Seq(S) /\ Len(t) = m /\ \A j \in 1 .. m : t[j] = s[Len(s) - m + j]
  BY <1>3 DEF Kept
<1>4. t = IF k <= n THEN s ELSE SubSeq(s, k - n + 1, k)
  BY <1>2, <1>3 DEF Ring!Log!MostRecent
<1>5. CASE k <= n
  <2>1. m = k /\ t = s /\ \A j \in 1 .. m : k - m + j = j
    BY <1>1, <1>2, <1>4, <1>5
  <2> QED
    BY <1>2, <1>3, <2>1
<1>6. CASE ~(k <= n) /\ n >= 0
  <2>1. m = n /\ t = SubSeq(s, k - n + 1, k)
    BY <1>1, <1>2, <1>4, <1>6
  <2>2. PICK lo : lo = k - n + 1 /\ lo \in Int
    <3>1. k \in Int /\ k - n + 1 \in Int
      BY <1>1, <1>2
    <3> QED
      BY <3>1
  <2>3. k \in Int /\ \A i \in lo .. k : s[i] \in S
    BY <1>1, <1>2, <1>6, <2>2
  <2>4. /\ t \in Seq(S)
        /\ Len(t) = IF lo <= k THEN k - lo + 1 ELSE 0
        /\ \A i \in 1 .. k - lo + 1 : t[i] = s[lo + i - 1]
    BY <2>1, <2>2, <2>3, SubSeqProperties
  <2>5. k - lo + 1 = m /\ Len(t) = m /\ \A j \in 1 .. m : lo + j - 1 = k - m + j
    <3>1. k \in Nat /\ m = n /\ lo = k - n + 1 /\ n <= k /\ 0 <= n
      BY <1>1, <1>2, <1>6, <2>1, <2>2
    <3>2. k - lo + 1 = m /\ (lo <= k <=> m > 0)
      BY <3>1
    <3>3. Len(t) = m
      BY <2>4, <3>1, <3>2
    <3>4. ASSUME NEW j \in 1 .. m
          PROVE  lo + j - 1 = k - m + j
      <4>1. lo + j - 1 = k - n + j
        BY <1>6, <3>1
      <4> QED
        BY <3>1, <4>1
    <3> QED
      BY <3>2, <3>3, <3>4
  <2>6. \A j \in 1 .. m : t[j] = s[k - m + j]
    BY <2>4, <2>5
  <2> QED
    BY <1>2, <1>3, <2>4, <2>5, <2>6
<1>7. CASE ~(k <= n) /\ ~(n >= 0)
  <2>1. m = 0 /\ t = SubSeq(s, k - n + 1, k)
    BY <1>1, <1>2, <1>4, <1>7
  <2>2. t = <<>>
    <3>1. k \in Nat
      BY <1>1, <1>2
    <3>2. PICK lo : lo = k - n + 1
      OBVIOUS
    <3>3. lo \in Int /\ k \in Int /\ k < lo
      BY <1>7, <3>1, <3>2
    <3> QED
      BY <2>1, <3>2, <3>3, SubSeqEmpty
  <2>3. t \in Seq(S) /\ Len(t) = 0
    BY <2>2
  <2> QED
    BY <1>3, <2>1, <2>3
<1> QED
  BY <1>5, <1>6, <1>7

\* GetLastN returns the last of the lines GetLines returns.
LEMMA LastNLemma == RingInv => Ring!LastNAgrees
<1> SUFFICES ASSUME RingInv, NEW count \in -1 .. capacity + 1
             PROVE  Ring!GetLastN(count) = Ring!Log!MostRecent(Ring!GetLines, count)
  BY DEF Ring!LastNAgrees
<1>1. PICK b, lines : /\ b = Ring0 /\ IsRing(b, capacity)
                      /\ lines = Ring!GetLines /\ HasLinesOf(lines, b, capacity)
  BY GetLinesLemma DEF Reads
<1>2. PICK c, d, h, t, n, s, L, m :
        /\ c = capacity /\ d = data /\ h = head /\ t = tail /\ n = size
        /\ s = Ring!GetLastN(count) /\ L = Line \cup {NoLine}
        /\ m = IF count < 0 THEN 0 ELSE IF n <= count THEN n ELSE count
  OBVIOUS
<1>3. d = b.data /\ h = b.head /\ t = b.tail /\ n = b.size
  BY <1>1, <1>2 DEF Ring0
<1>4. /\ c \in Nat /\ c > 0 /\ t \in Int /\ 0 <= t /\ t < c /\ n \in Int /\ 0 <= n /\ n <= c
      /\ n < c => t = 0
      /\ h = Slot(c, t + n)
      /\ \A i \in 0 .. c - 1 : d[i] \in L
  BY <1>1, <1>2, <1>3 DEF RingInv, IsRing
<1>5. /\ lines \in Seq(L) /\ Len(lines) = n
      /\ \A j \in 1 .. n : lines[j] = d[Slot(c, t + j - 1)]
  BY <1>1, <1>2, <1>3 DEF HasLinesOf, LineOf
<1>6. count \in Int /\ m \in Nat /\ m <= n
  <2>1. capacity \in Int
    BY DEF RingInv
  <2>2. count \in Int
    BY <2>1
  <2> QED
    BY <1>2, <1>4, <2>2
<1>7. PICK recent : recent = Ring!Log!MostRecent(lines, count)
  OBVIOUS
<1>8. /\ recent \in Seq(L) /\ Len(recent) = m
      /\ \A j \in 1 .. m : recent[j] = lines[n - m + j]
  <2>1. m = Kept(lines, count)
    BY <1>2, <1>5 DEF Kept
  <2>2. lines \in Seq(L) /\ count \in Int
    BY <1>5, <1>6
  <2>3. /\ recent \in Seq(L) /\ Len(recent) = m
        /\ \A j \in 1 .. m : recent[j] = lines[Len(lines) - m + j]
    BY <1>7, <2>1, <2>2, MostRecentLemma
  <2> QED
    BY <1>5, <2>3
<1>9. ASSUME s \in Seq(L), Len(s) = m,
             \A j \in 1 .. m : s[j] = d[Slot(c, t + (n - m + j) - 1)]
      PROVE  s = recent
  <2>1. ASSUME NEW j \in 1 .. m
        PROVE  s[j] = recent[j]
    <3>1. PICK k : k = n - m + j
      OBVIOUS
    <3>2. k \in 1 .. n
      BY <1>4, <1>6, <3>1
    <3> QED
      BY <1>5, <1>8, <1>9, <3>1, <3>2
  <2> QED
    BY <1>8, <1>9, <2>1, SeqEqual
<1>10. CASE n = 0 \/ count <= 0
  <2>1. s = <<>>
    BY <1>2, <1>10 DEF Ring!GetLastN
  <2>2. m = 0
    BY <1>2, <1>4, <1>6, <1>10
  <2> QED
    BY <1>9, <2>1, <2>2, <1>1, <1>2, <1>7
<1>11. CASE n > 0 /\ count > 0
  <2>1. PICK start, mod : start = Slot(c, t + n - m) /\ mod = (t + n - m) % c
    OBVIOUS
  <2>2. start = mod /\ start \in Int /\ 0 <= start /\ start < c
    <3>1. PICK i : i = t + n - m
      OBVIOUS
    <3>2. i \in 0 .. 2 * c - 1 /\ c \in Nat \ {0}
      BY <1>4, <1>6, <3>1
    <3>3. i % c = Slot(c, i) /\ Slot(c, i) \in 0 .. c - 1
      BY <3>2, SlotIsRemainder
    <3> QED
      BY <1>4, <2>1, <3>1, <3>3
  <2>3. m > 0 /\ m = (IF count > n THEN n ELSE count)
    BY <1>2, <1>4, <1>6, <1>11
  <2>4. s = IF (start < h \/ (start >= t /\ n < c)) \/ c - start >= m
            THEN Ring!Slice(start, start + m)
            ELSE Ring!Slice(start, capacity) \o Ring!Slice(0, m - (c - start))
    <3>1. ~(n = 0 \/ count <= 0)
      BY <1>4, <1>6, <1>11
    <3> QED
      BY <1>2, <2>1, <2>2, <2>3, <3>1 DEF Ring!GetLastN
  <2>5. CASE (start < h \/ (start >= t /\ n < c)) \/ c - start >= m
    <3>1. PICK hi : hi = start + m
      OBVIOUS
    <3>2. hi \in Int /\ start <= hi /\ hi - start = m /\ hi <= c
      BY <1>4, <1>6, <2>1, <2>2, <2>3, <2>5, <3>1 DEF Slot
    <3>3. s = [i \in 1 .. hi - start |-> d[start + i - 1]]
      BY <1>2, <2>4, <2>5, <3>1 DEF Ring!Slice
    <3>4. \A i \in start .. hi - 1 : d[i] \in L
      BY <1>4, <2>2, <3>2
    <3>5. s \in Seq(L) /\ Len(s) = m /\ \A j \in 1 .. m : s[j] = d[start + j - 1]
      <4>1. /\ s \in Seq(L) /\ Len(s) = hi - start
            /\ \A j \in 1 .. hi - start : s[j] = d[start + j - 1]
        BY <2>2, <3>2, <3>3, <3>4, SliceLemma
      <4> QED
        BY <3>2, <4>1
    <3>6. ASSUME NEW j \in 1 .. m
          PROVE  s[j] = d[Slot(c, t + (n - m + j) - 1)]
      <4>1. Slot(c, t + (n - m + j) - 1) = start + j - 1
        BY <1>4, <1>6, <2>1, <2>2, <3>1, <3>2 DEF Slot
      <4> QED
        BY <3>5, <4>1
    <3> QED
      BY <1>1, <1>2, <1>7, <1>9, <3>5, <3>6
  <2>6. CASE ~((start < h \/ (start >= t /\ n < c)) \/ c - start >= m)
    <3>1. PICK rest : rest = m - (c - start)
      OBVIOUS
    <3>2. rest \in Int /\ 0 <= rest /\ rest <= c /\ c - start + rest = m
      BY <1>4, <1>6, <2>2, <2>6, <3>1
    <3>3. /\ Ring!Slice(start, capacity) = [i \in 1 .. c - start |-> d[start + i - 1]]
          /\ Ring!Slice(0, rest) = [i \in 1 .. rest - 0 |-> d[0 + i - 1]]
      BY <1>2 DEF Ring!Slice
    <3>4. s = [i \in 1 .. c - start |-> d[start + i - 1]] \o
              [i \in 1 .. rest - 0 |-> d[0 + i - 1]]
      BY <2>4, <2>6, <3>1, <3>3
    <3>5. /\ \A i \in start .. c - 1 : d[i] \in L
          /\ \A i \in 0 .. rest - 1 : d[i] \in L
          /\ start <= c /\ c \in Int
      BY <1>4, <2>2, <3>2
    <3>6. /\ s \in Seq(L) /\ Len(s) = c - start + rest
          /\ \A j \in 1 .. c - start + rest :
               s[j] = IF j <= c - start THEN d[start + j - 1] ELSE d[j - (c - start) - 1]
      BY <2>2, <3>2, <3>4, <3>5, TwoSlicesLemma
    <3>7. s \in Seq(L) /\ Len(s) = m
      BY <3>2, <3>6
    <3>8. ASSUME NEW j \in 1 .. m
          PROVE  s[j] = d[Slot(c, t + (n - m + j) - 1)]
      <4>1. Slot(c, t + (n - m + j) - 1) =
              IF j <= c - start THEN start + j - 1 ELSE j - (c - start) - 1
        BY <1>4, <1>6, <2>1, <2>2, <2>6 DEF Slot
      <4>2. s[j] = IF j <= c - start THEN d[start + j - 1] ELSE d[j - (c - start) - 1]
        BY <3>2, <3>6
      <4> QED
        BY <4>1, <4>2
    <3> QED
      BY <1>1, <1>2, <1>7, <1>9, <3>7, <3>8
  <2> QED
    BY <2>5, <2>6
<1> QED
  BY <1>4, <1>6, <1>10, <1>11

\* An append is one of the log: what the ring then holds are the last of its lines and
\* of those of the batch.
LEMMA RingAppends ==
  ASSUME RingInv, NEW batch \in Batch, Ring!AppendString(batch)
  PROVE  RingInv' /\ Ring!Log!AppendBatch(batch)
<1>1. batch \in Seq(Line)
  BY RingAssumption
<1>2. PICK b, a : /\ b = Ring0 /\ IsRing(b, capacity)
                  /\ a = Ring0' /\ After(b, capacity, batch, Len(batch), a)
  BY <1>1, AppendStringLemma
<1>3. capacity' = capacity /\ totalLines' = totalLines + Len(batch)
  BY DEF Ring!AppendString
<1>4. Len(batch) \in Nat /\ \A i \in 1 .. Len(batch) : batch[i] \in Line
  BY <1>1, LenProperties, ElementOfSeq
<1>5. RingInv'
  <2>1. IsRing(a, capacity')
    BY <1>2, <1>3 DEF After
  <2>2. capacity' \in Nat \ {0} /\ totalLines' \in Nat
    BY <1>3, <1>4 DEF RingInv
  <2> QED
    BY <1>2, <2>1, <2>2 DEF RingInv
<1>6. PICK lines : lines = Ring!GetLines /\ HasLinesOf(lines, b, capacity)
  BY <1>2, GetLinesLemma DEF Reads
<1>7. PICK next : next = Ring!GetLines' /\ HasLinesOf(next, a, capacity')
  <2>1. Reads'
    BY <1>5, GetLinesLemma, PTL
  <2> QED
    BY <1>2, <2>1 DEF Reads
<1>8. PICK L, n, c, all, m :
        /\ L = Line \cup {NoLine} /\ n = Len(batch) /\ c = capacity
        /\ all = lines \o batch /\ m = a.size
  OBVIOUS
<1>9. b.size \in Nat /\ n \in Nat /\ c \in Nat
  BY <1>2, <1>4, <1>8 DEF RingInv, IsRing
<1>10. /\ all \in Seq(L) /\ Len(all) = b.size + n
       /\ \A i \in 1 .. b.size + n : all[i] = IF i <= b.size THEN lines[i] ELSE batch[i - b.size]
  <2>1. lines \in Seq(L) /\ Len(lines) = b.size
    BY <1>6, <1>8 DEF HasLinesOf
  <2>2. batch \in Seq(L)
    <3>1. batch \in [1 .. Len(batch) -> L]
      BY <1>1, <1>8, LenProperties
    <3> QED
      BY <1>4, <3>1, SeqDef
  <2>3. /\ lines \o batch \in Seq(L) /\ Len(lines \o batch) = Len(lines) + Len(batch)
        /\ \A i \in 1 .. Len(lines) + Len(batch) :
             (lines \o batch)[i] = IF i <= Len(lines) THEN lines[i] ELSE batch[i - Len(lines)]
    BY <2>1, <2>2, ConcatProperties
  <2> QED
    BY <1>8, <2>1, <2>3
<1>11. PICK recent : recent = Ring!Log!MostRecent(all, c)
  OBVIOUS
<1>12. m = Kept(all, c) /\ m \in Nat /\ m <= b.size + n
  <2>1. m = IF b.size + n <= c THEN b.size + n ELSE c
    BY <1>2, <1>8 DEF After
  <2> QED
    BY <1>9, <1>10, <2>1 DEF Kept
<1>13. /\ recent \in Seq(L) /\ Len(recent) = m
       /\ \A j \in 1 .. m : recent[j] = all[b.size + n - m + j]
  <2>1. c \in Int /\ all \in Seq(L)
    BY <1>9, <1>10
  <2>2. Len(all) = b.size + n
    BY <1>10
  <2>3. /\ recent \in Seq(L) /\ Len(recent) = Kept(all, c)
        /\ \A j \in 1 .. Kept(all, c) : recent[j] = all[Len(all) - Kept(all, c) + j]
    BY <1>11, <2>1, MostRecentLemma
  <2> QED
    BY <1>9, <1>12, <2>2, <2>3
<1>14. /\ next \in Seq(L) /\ Len(next) = m
       /\ \A j \in 1 .. m : next[j] = Joined(b, c, batch, b.size + n - m + j)
  <2>1. /\ next \in Seq(L) /\ Len(next) = m
        /\ \A j \in 1 .. m : next[j] = LineOf(a, c, j)
    BY <1>3, <1>7, <1>8 DEF HasLinesOf
  <2>2. \A j \in 1 .. m : LineOf(a, c, j) = Joined(b, c, batch, b.size + n - m + j)
    BY <1>2, <1>8 DEF After
  <2> QED
    BY <2>1, <2>2
<1>15. ASSUME NEW j \in 1 .. m
       PROVE  next[j] = recent[j]
  <2>1. PICK i : i = b.size + n - m + j
    OBVIOUS
  <2>2. i \in 1 .. b.size + n
    BY <1>9, <1>12, <2>1
  <2>3. next[j] = Joined(b, c, batch, i) /\ recent[j] = all[i]
    BY <1>13, <1>14, <2>1
  <2>4. CASE i <= b.size
    <3>1. i \in 1 .. b.size
      BY <1>9, <2>2, <2>4
    <3>2. lines[i] = LineOf(b, c, i)
      BY <1>6, <1>8, <3>1 DEF HasLinesOf
    <3> QED
      BY <1>10, <2>2, <2>3, <2>4, <3>2 DEF Joined
  <2>5. CASE ~(i <= b.size)
    BY <1>10, <2>2, <2>3, <2>5 DEF Joined
  <2> QED
    BY <2>4, <2>5
<1>16. next = recent
  BY <1>13, <1>14, <1>15, SeqEqual
<1> QED
  BY <1>3, <1>5, <1>6, <1>7, <1>8, <1>11, <1>16 DEF Ring!Log!AppendBatch

\* Clear forgets the lines and keeps the slots.
LEMMA RingClears ==
  ASSUME RingInv, Ring!Clear
  PROVE  RingInv' /\ Ring!Log!Clear
<1>1. PICK b : b = Ring0 /\ IsRing(b, capacity)
  BY DEF RingInv
<1>2. /\ data' = data /\ head' = 0 /\ tail' = 0 /\ size' = 0
      /\ capacity' = capacity /\ totalLines' = totalLines
  BY DEF Ring!Clear
<1>3. PICK a : a = Ring0' /\ a = [data |-> b.data, head |-> 0, tail |-> 0, size |-> 0]
  BY <1>1, <1>2 DEF Ring0
<1>4. IsRing(a, capacity)
  <2>1. a.data = b.data /\ a.head = 0 /\ a.tail = 0 /\ a.size = 0
    BY <1>3
  <2>2. capacity \in Nat \ {0}
    BY DEF RingInv
  <2> QED
    BY <1>1, <2>1, <2>2 DEF IsRing, Slot
<1>5. Ring!GetLines' = <<>>
  BY <1>2 DEF Ring!GetLines
<1>6. RingInv'
  BY <1>2, <1>3, <1>4 DEF RingInv
<1> QED
  BY <1>2, <1>5, <1>6 DEF Ring!Log!Clear

\* A change of capacity keeps the last of the lines, in the order they have.
LEMMA RingResizes ==
  ASSUME RingInv, NEW n \in Capacities, Ring!Resize(n)
  PROVE  RingInv' /\ Ring!Log!Resize(Ring!CapacityFor(n))
<1>1. PICK b : b = Ring0 /\ IsRing(b, capacity)
  BY DEF RingInv
<1>2. PICK c, d, t, s, N, kept, L :
        /\ c = capacity /\ d = data /\ t = tail /\ s = size /\ N = Ring!CapacityFor(n)
        /\ kept = (IF s > N THEN N ELSE s) /\ L = Line \cup {NoLine}
  OBVIOUS
<1>3. PICK mods : mods = [i \in 0 .. N - 1 |-> (t + s - kept + i) % c]
  OBVIOUS
<1>4. /\ d = b.data /\ t = b.tail /\ s = b.size
      /\ c \in Nat \ {0} /\ t \in 0 .. c - 1 /\ s \in 0 .. c
      /\ s < c => t = 0
      /\ \A i \in 0 .. c - 1 : d[i] \in L
  BY <1>1, <1>2 DEF Ring0, RingInv, IsRing
<1>5. N \in Nat \ {0}
  BY <1>2, RingAssumption DEF Ring!CapacityFor
<1>6. kept \in 0 .. N /\ kept <= s
  BY <1>2, <1>4, <1>5
<1>7. PICK e : e = [i \in 0 .. N - 1 |-> IF i < kept THEN d[mods[i]] ELSE NoLine]
  OBVIOUS
<1>8. /\ data' = e /\ head' = kept % N /\ tail' = 0 /\ size' = kept
      /\ capacity' = N /\ totalLines' = totalLines
  <2>1. /\ head' = kept % N /\ tail' = 0 /\ size' = kept
        /\ capacity' = N /\ totalLines' = totalLines
    BY <1>2 DEF Ring!Resize
  <2>2. data' = [i \in 0 .. N - 1 |->
                   IF i < kept THEN d[(t + s - kept + i) % c] ELSE NoLine]
    BY <1>2 DEF Ring!Resize
  <2> QED
    BY <1>3, <1>7, <2>1, <2>2
<1>9. kept % N = Slot(N, kept) /\ Slot(N, kept) \in 0 .. N - 1
  <2>1. kept \in 0 .. 2 * N - 1
    BY <1>5, <1>6
  <2> QED
    BY <1>5, <2>1, SlotIsRemainder
<1>10. ASSUME NEW i \in 0 .. N - 1, i < kept
       PROVE  e[i] = d[Slot(c, t + s - kept + i)] /\ Slot(c, t + s - kept + i) \in 0 .. c - 1
  <2>1. PICK k : k = t + s - kept + i
    OBVIOUS
  <2>2. k \in 0 .. 2 * c - 1
    BY <1>4, <1>5, <1>6, <1>10, <2>1
  <2>3. k % c = Slot(c, k) /\ Slot(c, k) \in 0 .. c - 1
    BY <1>4, <2>2, SlotIsRemainder
  <2>4. mods[i] = k % c
    BY <1>3, <2>1
  <2> QED
    BY <1>7, <1>10, <2>1, <2>3, <2>4
<1>11. PICK a : a = Ring0' /\ a = [data |-> e, head |-> kept % N, tail |-> 0, size |-> kept]
  BY <1>8 DEF Ring0
<1>12. a.data = e /\ a.head = Slot(N, kept) /\ a.tail = 0 /\ a.size = kept
  BY <1>9, <1>11
<1>13. IsRing(a, N)
  <2>1. e \in [0 .. N - 1 -> L]
    <3>1. \A i \in 0 .. N - 1 : e[i] \in L
      <4> TAKE i \in 0 .. N - 1
      <4>1. CASE i < kept
        BY <1>4, <1>10, <4>1
      <4>2. CASE ~(i < kept)
        BY <1>2, <1>7, <4>2
      <4> QED
        BY <4>1, <4>2
    <3> QED
      BY <1>7, <3>1
  <2>2. 0 + kept = kept /\ 0 \in 0 .. N - 1
    BY <1>5, <1>6
  <2> QED
    BY <1>2, <1>6, <1>12, <2>1, <2>2 DEF IsRing
<1>14. RingInv'
  BY <1>5, <1>8, <1>11, <1>13 DEF RingInv
<1>15. PICK lines : lines = Ring!GetLines /\ HasLinesOf(lines, b, capacity)
  BY <1>1, GetLinesLemma DEF Reads
<1>16. PICK next : next = Ring!GetLines' /\ HasLinesOf(next, a, capacity')
  <2>1. Reads'
    BY <1>14, GetLinesLemma, PTL
  <2> QED
    BY <1>11, <2>1 DEF Reads
<1>17. PICK recent : recent = Ring!Log!MostRecent(lines, N)
  OBVIOUS
<1>18. lines \in Seq(L) /\ Len(lines) = s /\ \A j \in 1 .. s : lines[j] = d[Slot(c, t + j - 1)]
  BY <1>2, <1>4, <1>15 DEF HasLinesOf, LineOf
<1>19. kept = Kept(lines, N)
  BY <1>2, <1>4, <1>5, <1>18 DEF Kept
<1>20. /\ recent \in Seq(L) /\ Len(recent) = kept
       /\ \A j \in 1 .. kept : recent[j] = lines[s - kept + j]
  <2>1. N \in Int /\ lines \in Seq(L)
    BY <1>5, <1>18
  <2>2. /\ recent \in Seq(L) /\ Len(recent) = kept
        /\ \A j \in 1 .. kept : recent[j] = lines[Len(lines) - kept + j]
    BY <1>17, <1>19, <2>1, MostRecentLemma
  <2> QED
    BY <1>18, <2>2
<1>21. /\ next \in Seq(L) /\ Len(next) = kept
       /\ \A j \in 1 .. kept : next[j] = e[Slot(N, 0 + j - 1)]
  BY <1>2, <1>8, <1>12, <1>16 DEF HasLinesOf, LineOf
<1>22. ASSUME NEW j \in 1 .. kept
       PROVE  next[j] = recent[j]
  <2>1. PICK i, k : i = j - 1 /\ k = s - kept + j
    OBVIOUS
  <2>2. i \in 0 .. N - 1 /\ i < kept /\ Slot(N, 0 + j - 1) = i /\ k \in 1 .. s
        /\ t + s - kept + i = t + k - 1
    BY <1>4, <1>5, <1>6, <2>1 DEF Slot
  <2>3. e[i] = d[Slot(c, t + k - 1)]
    BY <1>10, <2>2
  <2>4. lines[k] = d[Slot(c, t + k - 1)]
    BY <1>18, <2>2
  <2> QED
    BY <1>20, <1>21, <2>1, <2>2, <2>3, <2>4
<1>23. next = recent
  BY <1>20, <1>21, <1>22, SeqEqual
<1> QED
  BY <1>2, <1>8, <1>14, <1>15, <1>16, <1>17, <1>23 DEF Ring!Log!Resize

\* A ring that has just been made is empty, and of a capacity a log may have.
LEMMA RingStarts == Init => RingInv /\ Ring!Log!Init
<1> SUFFICES ASSUME Init
             PROVE  RingInv /\ Ring!Log!Init
  OBVIOUS
<1>1. PICK n \in Capacities :
        /\ capacity = Ring!CapacityFor(n) /\ data = Ring!Blank(Ring!CapacityFor(n))
        /\ head = 0 /\ tail = 0 /\ size = 0 /\ totalLines = 0
  BY DEF Init, Ring!Init
<1>2. capacity \in Nat \ {0}
  BY <1>1, RingAssumption DEF Ring!CapacityFor
<1>3. PICK b : b = Ring0 /\ b = [data |-> data, head |-> 0, tail |-> 0, size |-> 0]
  BY <1>1 DEF Ring0
<1>4. IsRing(b, capacity)
  <2>1. b.data = data /\ b.head = 0 /\ b.tail = 0 /\ b.size = 0
    BY <1>3
  <2>2. data \in [0 .. capacity - 1 -> Line \cup {NoLine}]
    BY <1>1 DEF Ring!Blank
  <2> QED
    BY <1>2, <2>1, <2>2 DEF IsRing, Slot
<1>5. Ring!GetLines = <<>>
  BY <1>1 DEF Ring!GetLines
<1>6. RingInv
  BY <1>1, <1>2, <1>3, <1>4 DEF RingInv
<1> QED
  BY <1>1, <1>5, <1>6 DEF Ring!Log!Init

\* A step of the ring is a step of the log, and the other components leave it alone.
LEMMA RingSteps ==
  ASSUME RingInv, [Next]_vars
  PROVE  RingInv' /\ [Ring!Log!Next]_(Ring!Log!logVars)
<1>1. CASE RingStep
  <2>1. CASE \E lines \in Batch : Ring!AppendString(lines)
    BY <2>1, RingAppends DEF Ring!Log!Next
  <2>2. CASE Ring!Clear
    BY <2>2, RingClears DEF Ring!Log!Next
  <2>3. CASE \E n \in Capacities : Ring!Resize(n)
    BY <2>3, RingResizes DEF Ring!Log!Next
  <2> QED
    BY <1>1, <2>1, <2>2, <2>3 DEF RingStep, Ring!Next
<1>2. CASE WizardStep \/ NodesStep \/ SearchStep \/ HealthStep \/ UNCHANGED vars
  <2>1. UNCHANGED <<data, head, tail, size, capacity, totalLines>>
    BY <1>2 DEF WizardStep, NodesStep, SearchStep, HealthStep, vars, ringVars
  <2>2. RingInv'
    BY <2>1 DEF RingInv, Ring0
  <2>3. UNCHANGED Ring!Log!logVars
    BY <2>1 DEF Ring!Log!logVars, Ring!GetLines, Ring!Slice
  <2> QED
    BY <2>2, <2>3
<1> QED
  BY <1>1, <1>2 DEF Next

\* The ring implements the bounded log: GetLines is the last lines appended, as many as
\* fit, whatever appends, clears and changes of capacity went before, and GetLastN the
\* last of those.
THEOREM RingKeepsMostRecent == Spec => KeepsMostRecent
<1>1. Init => RingInv /\ Ring!Log!Init
  BY RingStarts
<1>2. RingInv /\ [Next]_vars => RingInv' /\ [Ring!Log!Next]_(Ring!Log!logVars)
  BY RingSteps
<1>3. RingInv => Ring!LastNAgrees
  BY LastNLemma
<1> QED
  BY <1>1, <1>2, <1>3, PTL DEF Spec, KeepsMostRecent, Ring!KeepsMostRecent, Ring!Log!Spec

-----------------------------------------------------------------------------

Alert ==
  [severity: Health!Bad, acknowledged: BOOLEAN, resolved: BOOLEAN, resolvedAt: Int]

\* What the proofs need to know of the types: alerts are functions into records, and no
\* check is of a second to come.
HealthTypes ==
  /\ now \in Nat
  /\ alerts \in [DOMAIN alerts -> Alert]
  /\ checks = [k \in DOMAIN checks |-> checks[k]]
  /\ \A k \in DOMAIN checks : checks[k].at \in Nat /\ checks[k].at <= now

\* No two active alerts say the same.
NoneRepeated ==
  \A a, b \in DOMAIN alerts :
    ~alerts[a].resolved /\ ~alerts[b].resolved /\ a[1] = b[1]
      /\ alerts[a].severity = alerts[b].severity => a = b

\* Alert id is for what check k has found, unless the user has resolved it before.
IsFor(id, k) ==
  /\ id \in DOMAIN alerts
  /\ id[1] = k /\ alerts[id].severity = checks[k].status
  /\ alerts[id].resolved => alerts[id].resolvedAt >= checks[k].at

\* Every check that has found something bad has its alert, or that is gone with its age.
EachHasItsAlert ==
  \A k \in DOMAIN checks : checks[k].status \in Health!Bad =>
    (\E id : IsFor(id, k)) \/ checks[k].at < now - ClearAge

HealthInv == HealthTypes /\ NoneRepeated /\ EachHasItsAlert

\* An alert that has been added: one more, which is active, unless there is one like
\* it; the others are as they were.
LEMMA AlertAdded ==
  ASSUME HealthTypes, NEW k, NEW s \in Health!Bad, alerts' = Health!AddAlert(k, s), now' = now
  PROVE  /\ alerts' \in [DOMAIN alerts' -> Alert]
         /\ \E id \in DOMAIN alerts' :
              id[1] = k /\ alerts'[id].severity = s /\ ~alerts'[id].resolved
         /\ \A id \in DOMAIN alerts : id[1] # k => id \in DOMAIN alerts' /\ alerts'[id] = alerts[id]
         /\ NoneRepeated => NoneRepeated'
<1> DEFINE new == <<k, now>>
           alert == [severity |-> s, acknowledged |-> FALSE, resolved |-> FALSE, resolvedAt |-> 0]
<1>1. CASE Health!FindSimilarAlert(k, s) # {}
  <2>1. alerts' = alerts
    BY <1>1 DEF Health!AddAlert
  <2>2. PICK id \in DOMAIN alerts :
          ~alerts[id].resolved /\ id[1] = k /\ alerts[id].severity = s
    BY <1>1 DEF Health!FindSimilarAlert, Health!Active
  <2> QED
    BY <2>1, <2>2 DEF HealthTypes, NoneRepeated
<1>2. CASE Health!FindSimilarAlert(k, s) = {}
  <2>1. alerts' = [id \in DOMAIN alerts \cup {new} |-> IF id = new THEN alert ELSE alerts[id]]
    BY <1>2 DEF Health!AddAlert, Health!Put
  <2>2. /\ alert \in Alert /\ alert.severity = s /\ ~alert.resolved
        /\ new[1] = k
    BY DEF Alert
  <2> HIDE DEF new, alert
  <2>3. alerts' \in [DOMAIN alerts' -> Alert] /\ DOMAIN alerts' = DOMAIN alerts \cup {new}
    BY <2>1, <2>2 DEF HealthTypes
  <2>4. alerts'[new] = alert /\ \A id \in DOMAIN alerts : id # new => alerts'[id] = alerts[id]
    BY <2>1
  <2>5. \A id \in DOMAIN alerts :
          ~alerts[id].resolved /\ id[1] = k => alerts[id].severity # s
    BY <1>2 DEF Health!FindSimilarAlert, Health!Active
  <2>6. NoneRepeated => NoneRepeated'
    <3> SUFFICES ASSUME NoneRepeated, NEW a \in DOMAIN alerts', NEW b \in DOMAIN alerts',
                        ~alerts'[a].resolved, ~alerts'[b].resolved, a[1] = b[1],
                        alerts'[a].severity = alerts'[b].severity
                 PROVE  a = b
      BY DEF NoneRepeated
    <3>1. CASE a # new /\ b # new
      BY <2>3, <2>4, <3>1 DEF NoneRepeated
    <3>2. CASE a # new /\ b = new
      BY <2>2, <2>3, <2>4, <2>5, <3>2
    <3>3. CASE a = new /\ b # new
      BY <2>2, <2>3, <2>4, <2>5, <3>3
    <3> QED
      BY <3>1, <3>2, <3>3
  <2> QED
    BY <2>2, <2>3, <2>4, <2>6
<1> QED
  BY <1>1, <1>2

\* A check that has found something bad raises an alert, under the lock or not.
LEMMA CheckReturnsStep ==
  ASSUME HealthInv, NEW name, NEW answer, Health!CheckReturns(name, answer)
  PROVE  HealthInv'
<1> USE DEF HealthInv
<1> DEFINE status == Health!CheckStatus(name, answer)
           check == [status |-> status, at |-> now]
<1>1. /\ checks' = [k \in DOMAIN checks \cup {name} |-> IF k = name THEN check ELSE checks[k]]
      /\ alerts' = IF status \in Health!Bad THEN Health!AddAlert(name, status) ELSE alerts
      /\ now' = now
  BY DEF Health!CheckReturns, Health!Put
<1>2. check.status = status /\ check.at = now
  OBVIOUS
<1> HIDE DEF status, check
<1>3. /\ DOMAIN checks' = DOMAIN checks \cup {name}
      /\ checks'[name] = check
      /\ \A k \in DOMAIN checks : k # name => checks'[k] = checks[k]
  BY <1>1
<1>4. /\ alerts' \in [DOMAIN alerts' -> Alert] /\ NoneRepeated'
      /\ \A id \in DOMAIN alerts : id[1] # name => id \in DOMAIN alerts' /\ alerts'[id] = alerts[id]
      /\ status \in Health!Bad =>
           \E id \in DOMAIN alerts' :
             id[1] = name /\ alerts'[id].severity = status /\ ~alerts'[id].resolved
  <2>1. CASE status \in Health!Bad
    BY <1>1, <2>1, AlertAdded
  <2>2. CASE status \notin Health!Bad
    BY <1>1, <2>2 DEF HealthTypes, NoneRepeated
  <2> QED
    BY <2>1, <2>2
<1>5. HealthTypes'
  <2>1. checks' = [k \in DOMAIN checks' |-> checks'[k]]
    BY <1>1
  <2>2. \A k \in DOMAIN checks' : checks'[k].at \in Nat /\ checks'[k].at <= now
    BY <1>2, <1>3 DEF HealthTypes
  <2> QED
    BY <1>1, <1>4, <2>1, <2>2 DEF HealthTypes
<1>6. EachHasItsAlert'
  <2> SUFFICES ASSUME NEW k \in DOMAIN checks', checks'[k].status \in Health!Bad
               PROVE  (\E id : IsFor(id, k)') \/ checks'[k].at < now - ClearAge
    BY <1>1 DEF EachHasItsAlert
  <2>1. CASE k = name
    <3>1. PICK id \in DOMAIN alerts' :
            id[1] = name /\ alerts'[id].severity = status /\ ~alerts'[id].resolved
      BY <1>2, <1>3, <1>4, <2>1
    <3>2. IsFor(id, k)'
      BY <1>2, <1>3, <2>1, <3>1 DEF IsFor
    <3> QED
      BY <3>2
  <2>2. CASE k # name
    <3>1. k \in DOMAIN checks /\ checks'[k] = checks[k]
      BY <1>3, <2>2
    <3>2. \A id : IsFor(id, k) => IsFor(id, k)'
      BY <1>4, <2>2, <3>1 DEF IsFor
    <3> QED
      BY <3>1, <3>2 DEF EachHasItsAlert
  <2> QED
    BY <2>1, <2>2
<1> QED
  BY <1>4, <1>5, <1>6

\* Steps after which the same alerts are active or fewer, with what they are for, and
\* what was resolved is resolved no earlier, or gone with its age.
LEMMA AlertsChange ==
  ASSUME HealthInv, UNCHANGED <<checks, now>>,
         alerts' \in [DOMAIN alerts' -> Alert],
         \A id \in DOMAIN alerts' :
           /\ id \in DOMAIN alerts /\ alerts'[id].severity = alerts[id].severity
           /\ alerts[id].resolved => alerts'[id].resolved
           /\ alerts'[id].resolved => alerts'[id].resolvedAt = now \/ alerts'[id] = alerts[id],
         \A id \in DOMAIN alerts \ DOMAIN alerts' :
           alerts[id].resolved /\ alerts[id].resolvedAt < now - ClearAge
  PROVE  HealthInv'
<1> USE DEF HealthInv
<1>1. HealthTypes'
  BY DEF HealthTypes
<1>2. NoneRepeated'
  BY DEF NoneRepeated
<1>3. EachHasItsAlert'
  <2> SUFFICES ASSUME NEW k \in DOMAIN checks, checks[k].status \in Health!Bad
               PROVE  (\E id : IsFor(id, k)') \/ checks[k].at < now - ClearAge
    BY DEF EachHasItsAlert
  <2>1. checks[k].at \in Nat /\ checks[k].at <= now /\ now \in Nat /\ ClearAge \in Nat
    BY ClearAgeAssumption DEF HealthTypes
  <2>2. ASSUME NEW id, IsFor(id, k)
        PROVE  IsFor(id, k)' \/ checks[k].at < now - ClearAge
    <3>1. CASE id \in DOMAIN alerts'
      BY <2>1, <2>2, <3>1 DEF IsFor
    <3>2. CASE id \notin DOMAIN alerts'
      <4>1. alerts[id].resolvedAt \in Int
        BY <2>2 DEF IsFor, HealthTypes, Alert
      <4> QED
        BY <2>1, <2>2, <3>2, <4>1 DEF IsFor
    <3> QED
      BY <3>1, <3>2
  <2> QED
    BY <2>2 DEF EachHasItsAlert
<1> QED
  BY <1>1, <1>2, <1>3

\* The user acknowledges or resolves an alert, or clears the old ones.
LEMMA UserSteps ==
  ASSUME HealthInv,
         \/ \E id \in Health!Active : Health!AcknowledgeAlert(id) \/ Health!ResolveAlert(id)
         \/ Health!ClearResolvedAlerts
  PROVE  HealthInv'
<1>1. now \in Nat /\ alerts \in [DOMAIN alerts -> Alert] /\ UNCHANGED <<checks, now>>
  BY DEF HealthInv, HealthTypes, Health!AcknowledgeAlert, Health!ResolveAlert,
         Health!ClearResolvedAlerts
<1>2. CASE \E id \in Health!Active : Health!AcknowledgeAlert(id) \/ Health!ResolveAlert(id)
  <2>1. PICK id \in DOMAIN alerts : /\ ~alerts[id].resolved
                                    /\ Health!AcknowledgeAlert(id) \/ Health!ResolveAlert(id)
    BY <1>2 DEF Health!Active
  <2> DEFINE acknowledged == [alerts[id] EXCEPT !.acknowledged = TRUE]
             resolved == [alerts[id] EXCEPT !.resolved = TRUE, !.resolvedAt = now]
  <2>2. PICK r \in {acknowledged, resolved} : alerts' = [alerts EXCEPT ![id] = r]
    <3>1. CASE Health!AcknowledgeAlert(id)
      BY <3>1 DEF Health!AcknowledgeAlert
    <3>2. CASE Health!ResolveAlert(id)
      BY <3>2 DEF Health!ResolveAlert
    <3> QED
      BY <2>1, <3>1, <3>2
  <2>3. /\ r \in Alert /\ r.severity = alerts[id].severity
        /\ r.resolved => r.resolvedAt = now
    <3>1. alerts[id] \in Alert
      BY <1>1
    <3>2. CASE r = acknowledged
      BY <2>1, <3>1, <3>2 DEF Alert
    <3>3. CASE r = resolved
      <4>1. now \in Int
        BY <1>1
      <4> QED
        BY <3>1, <3>3, <4>1 DEF Alert
    <3> QED
      BY <3>2, <3>3
  <2> HIDE DEF acknowledged, resolved
  <2>4. /\ DOMAIN alerts' = DOMAIN alerts /\ alerts' \in [DOMAIN alerts' -> Alert]
        /\ alerts'[id] = r /\ \A a \in DOMAIN alerts : a # id => alerts'[a] = alerts[a]
    BY <1>1, <2>2, <2>3
  <2> QED
    BY <1>1, <2>1, <2>3, <2>4, AlertsChange
<1>3. CASE Health!ClearResolvedAlerts
  <2> DEFINE old == {id \in DOMAIN alerts : /\ alerts[id].resolved
                                            /\ alerts[id].resolvedAt < now - ClearAge}
  <2>1. alerts' = [id \in DOMAIN alerts \ old |-> alerts[id]]
    BY <1>3 DEF Health!ClearResolvedAlerts, Health!Restrict
  <2>2. /\ DOMAIN alerts' = DOMAIN alerts \ old /\ alerts' \in [DOMAIN alerts' -> Alert]
        /\ \A id \in DOMAIN alerts' : alerts'[id] = alerts[id]
    BY <1>1, <2>1
  <2> QED
    BY <1>1, <2>2, AlertsChange
<1> QED
  BY <1>2, <1>3

\* A second passes.
LEMMA SecondStep ==
  ASSUME HealthInv, Health!Second
  PROVE  HealthInv'
<1> USE DEF HealthInv
<1>1. now' = now + 1 /\ UNCHANGED <<checks, alerts>>
  BY DEF Health!Second
<1>2. now \in Nat /\ ClearAge \in Nat
  BY ClearAgeAssumption DEF HealthTypes
<1>3. HealthTypes'
  BY <1>1, <1>2 DEF HealthTypes
<1>4. NoneRepeated'
  BY <1>1 DEF NoneRepeated
<1>5. EachHasItsAlert'
  <2>1. \A id, k : IsFor(id, k) => IsFor(id, k)'
    BY <1>1 DEF IsFor
  <2>2. \A k \in DOMAIN checks : checks[k].at \in Nat
    BY DEF HealthTypes
  <2> QED
    BY <1>1, <1>2, <2>1, <2>2 DEF EachHasItsAlert
<1> QED
  BY <1>3, <1>4, <1>5

\* No two active alerts say the same, and every check that has found something bad has
\* an alert of that severity, unless the user has resolved it since, or it is gone with
\* its age.
THEOREM AlertsAgree == Spec => []AlertsFollowChecks
<1>1. Init => HealthInv
  BY DEF Init, Health!Init, HealthInv, HealthTypes, NoneRepeated, EachHasItsAlert
<1>2. HealthInv /\ [Next]_vars => HealthInv'
  <2> SUFFICES ASSUME HealthInv, [Next]_vars
               PROVE  HealthInv'
    OBVIOUS
  <2>1. ASSUME UNCHANGED <<checks, alerts, now>>
        PROVE  HealthInv'
    BY <2>1 DEF HealthInv, HealthTypes, NoneRepeated, EachHasItsAlert, IsFor
  <2>2. CASE HealthStep
    <3>1. CASE Health!Start \/ Health!Stop \/ \E l \in DOMAIN loops : Health!Tick(l)
      BY <2>1, <3>1 DEF Health!Start, Health!Stop, Health!Tick
    <3>2. CASE Health!Monitor
      <4>1. CASE (\E l \in DOMAIN loops : Health!BeginRound(l)) \/ Health!EndRound
        BY <2>1, <4>1 DEF Health!BeginRound, Health!EndRound
      <4> QED
        BY <3>2, <4>1, CheckReturnsStep DEF Health!Monitor
    <3>3. CASE Health!Draw
      BY <2>1, <3>3 DEF Health!Draw, Health!Refresh, Health!UpdateHealthOverview,
                        Health!UpdateAlerts, Health!UpdateHealthChecks
    <3> QED
      BY <2>2, <3>1, <3>2, <3>3, SecondStep, UserSteps DEF HealthStep, Health!HealthNext
  <2>3. CASE RingStep \/ WizardStep \/ NodesStep \/ SearchStep \/ UNCHANGED vars
    BY <2>1, <2>3 DEF RingStep, WizardStep, NodesStep, SearchStep, vars, healthVars
  <2> QED
    BY <2>2, <2>3 DEF Next
<1>3. HealthInv => AlertsFollowChecks
  <2> SUFFICES ASSUME HealthInv
               PROVE  AlertsFollowChecks
    OBVIOUS
  <2>1. \A a, b \in Health!Active :
          a[1] = b[1] /\ alerts[a].severity = alerts[b].severity => a = b
    BY DEF HealthInv, NoneRepeated, Health!Active
  <2>2. \A k \in DOMAIN checks : checks[k].status \in Health!Bad =>
          \/ \E id \in DOMAIN alerts :
               /\ id[1] = k /\ alerts[id].severity = checks[k].status
               /\ alerts[id].resolved => alerts[id].resolvedAt >= checks[k].at
          \/ checks[k].at < now - ClearAge
    BY DEF HealthInv, EachHasItsAlert, IsFor
  <2> QED
    BY <2>1, <2>2 DEF AlertsFollowChecks, Health!AlertsFollowChecks
<1> QED
  BY <1>1, <1>2, <1>3, PTL DEF Spec

-----------------------------------------------------------------------------

\* What the proofs need to know of the types: the form is a record, with a value for
\* each field, and what was accepted is a sequence.
IsForm(f) ==
  /\ f = [template |-> f.template, job |-> f.job, shown |-> f.shown, options |-> f.options,
          touched |-> f.touched, submits |-> f.submits, lost |-> f.lost]
  /\ f.job = [k \in Wizard!Field |-> f.job[k]]
  /\ f.lost \in Nat

WizardTypes ==
  /\ IsForm(form) /\ forms \in Nat
  /\ \E n \in Nat : accepted = [i \in 1 .. n |-> accepted[i]]
  /\ \A i \in DOMAIN accepted :
       accepted[i].number \in Nat /\ accepted[i].number <= forms /\ accepted[i].form.lost \in Nat

Open == page \in {"form", "preview", "error"}

\* What of the form that is open has been sent was sent before the last answer was lost.
SentIsLost ==
  Open => \A i \in DOMAIN accepted :
            accepted[i].number = forms => accepted[i].form.lost < form.lost

\* The layers of a form under which the user's own are.
Layers(f) ==
  <<f.template.values, Wizard!FromMap(FormDefaults), HardDefaults>>

\* A value no field shows is one that the configuration hides, or the address; and then
\* notification was not asked for unless by the user.
NothingUnseen(f) ==
  LET known == f.shown \cup Wizard!ExplicitlyHidden(f.template)
  IN /\ \A k \in Wizard!Field : f.job[k] # "" /\ k # "email" => k \in known
     /\ "email" \notin known /\ "emailNotify" \notin f.touched => f.job["emailNotify"] = ""

\* What the user has left alone has the value of the first layer that has one, or what
\* a dropdown begins with.
SaysAs(layers, options, job, touched) ==
  \A k \in Wizard!Field \ touched, n \in DOMAIN layers :
    LET value == layers[n][k]
        list == IF k \in Wizard!Dropdown THEN options[k] ELSE <<>>
    IN value # "" /\ (\A l \in 1 .. n - 1 : layers[l][k] = "") =>
         job[k] = IF list # <<>> /\ value \notin Wizard!Range(list) THEN list[1] ELSE value

AsLayersSay(f) == SaysAs(Layers(f), f.options, f.job, f.touched)

GoodForm(f) == IsForm(f) /\ NothingUnseen(f) /\ AsLayersSay(f)

FormIsGood == Open => \E f : f = form /\ GoodForm(f)

\* What has been accepted came of a form that was good then.
SentWasGood ==
  \A i \in DOMAIN accepted : \E f :
    accepted[i].form = f /\ GoodForm(f) /\ accepted[i].request = Wizard!Request(f.job)

WizardInv ==
  WizardTypes /\ SentIsLost /\ Wizard!OneJobPerAnswer /\ FormIsGood /\ SentWasGood

\* A sequence, whatever it is of.
LEMMA AcceptedSequence ==
  ASSUME WizardTypes
  PROVE  /\ Len(accepted) \in Nat /\ DOMAIN accepted = 1 .. Len(accepted)
         /\ accepted = [i \in 1 .. Len(accepted) |-> accepted[i]]
<1>1. PICK n \in Nat : accepted = [i \in 1 .. n |-> accepted[i]]
  BY DEF WizardTypes
<1>2. accepted \in Seq({accepted[i] : i \in 1 .. n})
  <2> DEFINE S == {accepted[i] : i \in 1 .. n}
  <2>1. \A i \in 1 .. n : accepted[i] \in S
    OBVIOUS
  <2> HIDE DEF S
  <2>2. accepted \in [1 .. n -> S]
    BY <1>1, <2>1
  <2>3. accepted \in Seq(S)
    BY <2>2, SeqDef
  <2> QED
    BY <2>3 DEF S
<1>3. Len(accepted) \in Nat /\ DOMAIN accepted = 1 .. Len(accepted)
  BY <1>2, LenProperties
<1>4. accepted = [i \in DOMAIN accepted |-> accepted[i]]
  BY <1>1
<1> QED
  BY <1>3, <1>4

\* What one more makes of it.
LEMMA AcceptedAppended ==
  ASSUME WizardTypes, NEW e, accepted' = Append(accepted, e)
  PROVE  /\ accepted' = [i \in 1 .. Len(accepted) + 1 |-> accepted'[i]]
         /\ DOMAIN accepted' = 1 .. Len(accepted) + 1
         /\ \A i \in DOMAIN accepted : accepted'[i] = accepted[i]
         /\ accepted'[Len(accepted) + 1] = e
<1>1. /\ Len(accepted) \in Nat /\ DOMAIN accepted = 1 .. Len(accepted)
      /\ accepted = [i \in 1 .. Len(accepted) |-> accepted[i]]
  BY AcceptedSequence
<1> DEFINE S == {accepted[i] : i \in 1 .. Len(accepted)} \cup {e}
<1>2. e \in S /\ \A i \in 1 .. Len(accepted) : accepted[i] \in S
  OBVIOUS
<1> HIDE DEF S
<1>3. accepted \in [1 .. Len(accepted) -> S]
  BY <1>1, <1>2
<1>4. accepted \in Seq(S)
  BY <1>1, <1>3, SeqDef
<1>5. /\ Append(accepted, e) \in Seq(S) /\ Len(Append(accepted, e)) = Len(accepted) + 1
      /\ \A i \in 1 .. Len(accepted) : Append(accepted, e)[i] = accepted[i]
      /\ Append(accepted, e)[Len(accepted) + 1] = e
  BY <1>2, <1>4, AppendProperties
<1>6. accepted' \in [1 .. Len(accepted) + 1 -> S]
  BY <1>5, LenProperties, SeqDef
<1> QED
  BY <1>1, <1>5, <1>6

\* What no field has touched or sent is as it was.
LEMMA FormCloses ==
  ASSUME WizardInv, UNCHANGED <<accepted, forms>>, form' = Wizard!NoForm, ~Open'
  PROVE  WizardInv'
<1> USE DEF WizardInv
<1>1. IsForm(Wizard!NoForm)
  BY DEF IsForm, Wizard!NoForm, Wizard!NoTemplate
<1>2. WizardTypes'
  BY <1>1 DEF WizardTypes, IsForm
<1>3. SentIsLost' /\ FormIsGood'
  BY DEF SentIsLost, FormIsGood
<1>4. Wizard!OneJobPerAnswer'
  BY DEF Wizard!OneJobPerAnswer
<1>5. SentWasGood'
  BY DEF SentWasGood
<1> QED
  BY <1>2, <1>3, <1>4, <1>5

\* Another page comes to the front.
LEMMA PageChanges ==
  ASSUME WizardInv, UNCHANGED <<form, accepted, forms>>, Open' => Open
  PROVE  WizardInv'
<1> USE DEF WizardInv
<1>1. WizardTypes'
  BY DEF WizardTypes, IsForm
<1>2. SentIsLost' /\ FormIsGood'
  BY DEF SentIsLost, FormIsGood
<1>3. Wizard!OneJobPerAnswer' /\ SentWasGood'
  BY DEF Wizard!OneJobPerAnswer, SentWasGood
<1> QED
  BY <1>1, <1>2, <1>3

\* The layers of a new form, from the top.
LEMMA PresetIsFirstLayer ==
  ASSUME NEW t, NEW user, NEW k \in Wizard!Field
  PROVE  LET value == Wizard!Preset(t, user)[k]
             preset == Wizard!FromMap(FormDefaults)[k]
         IN /\ t.values[k] # "" => value = t.values[k]
            /\ t.values[k] = "" /\ preset # "" => value = preset
            /\ t.values[k] = "" /\ preset = "" /\ HardDefaults[k] # "" => value = HardDefaults[k]
<1> DEFINE preset == Wizard!FromMap(FormDefaults)
           lower == Wizard!Overlay(HardDefaults, preset)
           middle == Wizard!Overlay(lower, t.values)
           own == Wizard!OfUser(user)
<1>1. Wizard!Preset(t, user) = Wizard!Overlay(own, middle)
  BY DEF Wizard!Preset
<1> HIDE DEF preset, own
<1>2. lower[k] = IF preset[k] # "" THEN preset[k] ELSE HardDefaults[k]
  BY DEF Wizard!Overlay, Wizard!Unset
<1> HIDE DEF lower
<1>3. middle[k] = IF t.values[k] # "" THEN t.values[k] ELSE lower[k]
  BY DEF Wizard!Overlay, Wizard!Unset
<1> HIDE DEF middle
<1>4. Wizard!Overlay(own, middle)[k] = IF middle[k] # "" THEN middle[k] ELSE own[k]
  BY DEF Wizard!Overlay, Wizard!Unset
<1> QED
  BY <1>1, <1>2, <1>3, <1>4 DEF preset

\* A form is made of its layers, and shows what they say.
LEMMA ShowJobFormStep ==
  ASSUME WizardInv, NEW t, Wizard!ShowJobForm(t)
  PROVE  WizardInv'
<1> USE DEF WizardInv
<1>1. PICK offers \in Offers, user \in UserRecords :
        LET values == Wizard!Preset(t, user)
            visible == Wizard!Shown(values, t)
            lists == [k \in Wizard!Dropdown |->
                        IF k \in visible THEN Wizard!OptionsOf(k, offers[k]) ELSE <<>>]
        IN form' = [Wizard!NoForm EXCEPT
             !.template = t, !.shown = visible, !.options = lists,
             !.job = [k \in Wizard!Field |->
                        IF k \in Wizard!Dropdown THEN Wizard!Chosen(lists[k], values[k])
                                                 ELSE values[k]]]
  BY DEF Wizard!ShowJobForm
<1> DEFINE values == Wizard!Preset(t, user)
           visible == Wizard!Shown(values, t)
           lists == [k \in Wizard!Dropdown |->
                       IF k \in visible THEN Wizard!OptionsOf(k, offers[k]) ELSE <<>>]
           job == [k \in Wizard!Field |->
                     IF k \in Wizard!Dropdown THEN Wizard!Chosen(lists[k], values[k])
                                              ELSE values[k]]
<1>2. form' = [Wizard!NoForm EXCEPT !.template = t, !.shown = visible, !.options = lists,
                                    !.job = job]
  BY <1>1
<1>3. page' = "form" /\ forms' = forms + 1 /\ accepted' = accepted
  BY DEF Wizard!ShowJobForm
<1>4. job = [k \in Wizard!Field |-> job[k]]
  OBVIOUS
<1>5. /\ \A k \in Wizard!Field \ Wizard!Dropdown : job[k] = values[k]
      /\ \A k \in Wizard!Dropdown :
           job[k] = IF lists[k] = <<>> \/ values[k] \in Wizard!Range(lists[k])
                    THEN values[k] ELSE lists[k][1]
  BY DEF Wizard!Chosen, Wizard!Dropdown, Wizard!Field, Wizard!Usual
<1>6. \A k \in Wizard!Field \ visible :
        \/ k \in Wizard!ExplicitlyHidden(t)
        \/ k \in Wizard!Advanced /\ values[k] = ""
        \/ k = "email" /\ values["emailNotify"] = ""
  BY DEF Wizard!Shown, Wizard!IsFieldHidden, Wizard!Unset
<1> HIDE DEF values, visible, lists, job
<1>7. PICK new : new = form'
  OBVIOUS
<1>8. /\ new.template = t /\ new.shown = visible /\ new.options = lists
      /\ new.job = job /\ new.touched = {} /\ new.lost = 0
      /\ IsForm(new)
  BY <1>2, <1>4, <1>7 DEF Wizard!NoForm, IsForm
<1>9. WizardTypes'
  BY <1>3, <1>7, <1>8 DEF WizardTypes, IsForm
<1>10. SentIsLost'
  BY <1>3 DEF SentIsLost, WizardTypes
<1>11. Wizard!OneJobPerAnswer' /\ SentWasGood'
  BY <1>3 DEF Wizard!OneJobPerAnswer, SentWasGood
<1>12. NothingUnseen(new)
  <2>1. \A k \in Wizard!Advanced \cup {"emailNotify"} : k \in Wizard!Field \ Wizard!Dropdown
    BY DEF Wizard!Field, Wizard!Advanced, Wizard!Usual, Wizard!Dropdown
  <2>2. "email" \in Wizard!Field \ Wizard!Advanced
    BY DEF Wizard!Field, Wizard!Advanced, Wizard!Usual
  <2> QED
    BY <1>5, <1>6, <1>8, <2>1, <2>2 DEF NothingUnseen
<1>13. ASSUME NEW k \in Wizard!Field, NEW n \in DOMAIN Layers(new),
              Layers(new)[n][k] # "",
              \A l \in 1 .. n - 1 : Layers(new)[l][k] = ""
       PROVE  values[k] = Layers(new)[n][k]
  <2>1. Layers(new) = <<t.values, Wizard!FromMap(FormDefaults), HardDefaults>>
    BY <1>8 DEF Layers
  <2>2. n \in 1 .. 3
    BY <2>1
  <2>3. /\ t.values[k] # "" => values[k] = t.values[k]
        /\ t.values[k] = "" /\ Wizard!FromMap(FormDefaults)[k] # ""
             => values[k] = Wizard!FromMap(FormDefaults)[k]
        /\ t.values[k] = "" /\ Wizard!FromMap(FormDefaults)[k] = "" /\ HardDefaults[k] # ""
             => values[k] = HardDefaults[k]
    BY PresetIsFirstLayer DEF values
  <2>4. /\ Layers(new)[1] = t.values /\ Layers(new)[2] = Wizard!FromMap(FormDefaults)
        /\ Layers(new)[3] = HardDefaults
    BY <2>1
  <2>5. CASE n = 1
    BY <1>13, <2>3, <2>4, <2>5
  <2>6. CASE n = 2
    <3>1. 1 \in 1 .. n - 1
      BY <2>6
    <3> QED
      BY <1>13, <2>3, <2>4, <2>6, <3>1
  <2>7. CASE n = 3
    <3>1. 1 \in 1 .. n - 1 /\ 2 \in 1 .. n - 1
      BY <2>7
    <3> QED
      BY <1>13, <2>3, <2>4, <2>7, <3>1
  <2> QED
    BY <2>2, <2>5, <2>6, <2>7
<1>14. AsLayersSay(new)
  <2> SUFFICES ASSUME NEW k \in Wizard!Field, NEW n \in DOMAIN Layers(new),
                      Layers(new)[n][k] # "",
                      \A l \in 1 .. n - 1 : Layers(new)[l][k] = ""
               PROVE  LET list == IF k \in Wizard!Dropdown THEN lists[k] ELSE <<>>
                          value == Layers(new)[n][k]
                      IN job[k] = IF list # <<>> /\ value \notin Wizard!Range(list)
                                  THEN list[1] ELSE value
    BY <1>8 DEF AsLayersSay, SaysAs
  <2>1. values[k] = Layers(new)[n][k]
    BY <1>13
  <2>2. CASE k \in Wizard!Dropdown
    BY <1>5, <2>1, <2>2
  <2>3. CASE k \notin Wizard!Dropdown
    BY <1>5, <2>1, <2>3
  <2> QED
    BY <2>2, <2>3
<1>15. FormIsGood'
  BY <1>7, <1>8, <1>12, <1>14 DEF FormIsGood, GoodForm
<1> QED
  BY <1>9, <1>10, <1>11, <1>15

\* The user changes a field that is there.
LEMMA EditStep ==
  ASSUME WizardInv, NEW k, NEW v, Wizard!Edit(k, v)
  PROVE  WizardInv'
<1> USE DEF WizardInv
<1> DEFINE job == [form.job EXCEPT ![k] = v]
<1>1. /\ page = "form" /\ page' = page /\ k \in form.shown
      /\ form' = [form EXCEPT !.job = job, !.touched = form.touched \cup {k}]
      /\ UNCHANGED <<accepted, forms>>
  BY DEF Wizard!Edit
<1>2. PICK old : old = form /\ GoodForm(old)
  BY <1>1 DEF FormIsGood, Open
<1>3. PICK new : new = form'
  OBVIOUS
<1>4. /\ job = [f \in Wizard!Field |-> job[f]]
      /\ \A f \in Wizard!Field : f # k => job[f] = old.job[f]
  <2>1. old.job = [f \in Wizard!Field |-> old.job[f]]
    BY <1>2 DEF GoodForm, IsForm
  <2> QED
    BY <1>2, <2>1
<1> HIDE DEF job
<1>5. /\ new.template = old.template /\ new.shown = old.shown /\ new.options = old.options
      /\ new.job = job /\ new.lost = old.lost /\ new.touched = old.touched \cup {k}
      /\ IsForm(new)
  BY <1>1, <1>2, <1>3, <1>4 DEF GoodForm, IsForm
<1>6. WizardTypes'
  BY <1>1, <1>3, <1>5 DEF WizardTypes, IsForm
<1>7. SentIsLost'
  BY <1>1, <1>2, <1>3, <1>5 DEF SentIsLost, Open
<1>8. Wizard!OneJobPerAnswer' /\ SentWasGood'
  BY <1>1 DEF Wizard!OneJobPerAnswer, SentWasGood
<1>9. NothingUnseen(new)
  <2>1. "emailNotify" \in Wizard!Field
    BY DEF Wizard!Field, Wizard!Usual
  <2> QED
    BY <1>1, <1>2, <1>4, <1>5, <2>1 DEF GoodForm, NothingUnseen
<1>10. AsLayersSay(new)
  <2>1. Layers(new) = Layers(old)
    BY <1>5 DEF Layers
  <2> SUFFICES ASSUME NEW f \in Wizard!Field \ new.touched, NEW n \in DOMAIN Layers(new)
               PROVE  LET value == Layers(new)[n][f]
                          list == IF f \in Wizard!Dropdown THEN new.options[f] ELSE <<>>
                      IN value # "" /\ (\A l \in 1 .. n - 1 : Layers(new)[l][f] = "") =>
                           new.job[f] = IF list # <<>> /\ value \notin Wizard!Range(list)
                                        THEN list[1] ELSE value
    BY DEF AsLayersSay, SaysAs
  <2>2. f \in Wizard!Field \ old.touched /\ new.job[f] = old.job[f] /\ new.options = old.options
    BY <1>4, <1>5
  <2>3. AsLayersSay(old)
    BY <1>2 DEF GoodForm
  <2> QED
    BY <2>1, <2>2, <2>3 DEF AsLayersSay, SaysAs
<1>11. FormIsGood'
  BY <1>3, <1>5, <1>9, <1>10 DEF FormIsGood, GoodForm
<1> QED
  BY <1>6, <1>7, <1>8, <1>11

\* The cluster accepts what the form says, and the program learns of it or not.
LEMMA AcceptStep ==
  ASSUME WizardInv, page = "form", Wizard!Accept, forms' = forms
  PROVE  /\ Wizard!OneJobPerAnswer' /\ SentWasGood'
         /\ Len(accepted) + 1 \in Nat
         /\ accepted' = [i \in 1 .. Len(accepted) + 1 |-> accepted'[i]]
         /\ \A i \in DOMAIN accepted' :
              /\ accepted'[i].number \in Nat /\ accepted'[i].number <= forms
              /\ accepted'[i].form.lost \in Nat
              /\ accepted'[i].number = forms => accepted'[i].form.lost <= form.lost
<1> USE DEF WizardInv
<1> DEFINE n == Len(accepted)
           e == [number |-> forms, form |-> form, request |-> Wizard!Request(form.job)]
<1>1. accepted' = Append(accepted, e)
  BY DEF Wizard!Accept
<1>2. n \in Nat /\ DOMAIN accepted = 1 .. n
  BY AcceptedSequence
<1>3. e.number = forms /\ e.form = form /\ e.request = Wizard!Request(form.job)
  OBVIOUS
<1>4. forms \in Nat /\ form.lost \in Nat
  BY DEF WizardTypes, IsForm
<1> HIDE DEF e
<1>5. /\ accepted' = [i \in 1 .. n + 1 |-> accepted'[i]] /\ DOMAIN accepted' = 1 .. n + 1
      /\ \A i \in DOMAIN accepted : accepted'[i] = accepted[i]
      /\ accepted'[n + 1] = e
  BY <1>1, AcceptedAppended
<1> HIDE DEF n
<1>6. \A i \in DOMAIN accepted' : \/ i \in DOMAIN accepted /\ accepted'[i] = accepted[i]
                                  \/ i = n + 1 /\ accepted'[i] = e
  BY <1>2, <1>5
<1>7. \A i \in DOMAIN accepted : accepted[i].number = forms => accepted[i].form.lost < form.lost
  BY DEF SentIsLost, Open
<1>8. \A i \in DOMAIN accepted :
        accepted[i].number \in Nat /\ accepted[i].number <= forms /\ accepted[i].form.lost \in Nat
  BY DEF WizardTypes
<1>9. \A i \in DOMAIN accepted' :
        /\ accepted'[i].number \in Nat /\ accepted'[i].number <= forms
        /\ accepted'[i].form.lost \in Nat
        /\ accepted'[i].number = forms => accepted'[i].form.lost <= form.lost
  <2> SUFFICES ASSUME NEW i \in DOMAIN accepted'
               PROVE  /\ accepted'[i].number \in Nat /\ accepted'[i].number <= forms
                      /\ accepted'[i].form.lost \in Nat
                      /\ accepted'[i].number = forms => accepted'[i].form.lost <= form.lost
    OBVIOUS
  <2>1. CASE i \in DOMAIN accepted /\ accepted'[i] = accepted[i]
    BY <1>4, <1>7, <1>8, <2>1
  <2>2. CASE accepted'[i] = e
    BY <1>3, <1>4, <2>2
  <2> QED
    BY <1>6, <2>1, <2>2
<1>10. Wizard!OneJobPerAnswer'
  <2> SUFFICES ASSUME NEW i \in DOMAIN accepted', NEW j \in DOMAIN accepted',
                      i < j, accepted'[i].number = accepted'[j].number
               PROVE  accepted'[i].form.lost < accepted'[j].form.lost
    BY DEF Wizard!OneJobPerAnswer
  <2>1. i \in DOMAIN accepted /\ accepted'[i] = accepted[i]
    BY <1>2, <1>5, <1>6
  <2>2. CASE j \in DOMAIN accepted /\ accepted'[j] = accepted[j]
    BY <2>1, <2>2 DEF Wizard!OneJobPerAnswer
  <2>3. CASE accepted'[j] = e
    BY <1>3, <1>7, <2>1, <2>3
  <2> QED
    BY <1>6, <2>2, <2>3
<1>11. SentWasGood'
  <2>1. PICK f : f = form /\ GoodForm(f)
    BY DEF FormIsGood, Open
  <2>2. e.form = f /\ e.request = Wizard!Request(f.job)
    BY <1>3, <2>1
  <2> QED
    BY <1>6, <2>1, <2>2 DEF SentWasGood
<1> QED
  BY <1>2, <1>5, <1>9, <1>10, <1>11 DEF n

\* Submit.
LEMMA SubmitSteps ==
  ASSUME WizardInv, Wizard!Submit \/ Wizard!SubmitFails
  PROVE  WizardInv'
<1> USE DEF WizardInv
<1>1. page = "form" /\ forms' = forms
  BY DEF Wizard!Submit, Wizard!SubmitFails, Wizard!Sends
<1>2. IsForm(form) /\ form.lost \in Nat /\ forms \in Nat
  BY DEF WizardTypes, IsForm
<1>3. CASE Wizard!Submit
  <2>1. Wizard!Accept /\ page' = "success" /\ form' = Wizard!NoForm
    BY <1>3 DEF Wizard!Submit
  <2>2. IsForm(form')
    BY <2>1 DEF IsForm, Wizard!NoForm, Wizard!NoTemplate
  <2>3. WizardTypes'
    BY <1>1, <1>2, <2>1, <2>2, AcceptStep DEF WizardTypes
  <2>4. SentIsLost' /\ FormIsGood'
    BY <2>1 DEF SentIsLost, FormIsGood, Open
  <2> QED
    BY <1>1, <2>1, <2>3, <2>4, AcceptStep
<1>4. CASE Wizard!SubmitFails
  <2>1. /\ page' = "error"
        /\ \/ form' = [form EXCEPT !.submits = @ + 1] /\ accepted' = accepted
           \/ form' = [form EXCEPT !.submits = @ + 1, !.lost = @ + 1] /\ Wizard!Accept
    BY <1>4 DEF Wizard!SubmitFails
  <2>2. PICK old : old = form /\ GoodForm(old)
    BY <1>1 DEF FormIsGood, Open
  <2>3. PICK new : new = form'
    OBVIOUS
  <2>4. old = [template |-> old.template, job |-> old.job, shown |-> old.shown,
               options |-> old.options, touched |-> old.touched, submits |-> old.submits,
               lost |-> old.lost]
    BY <2>2 DEF GoodForm, IsForm
  <2>5. /\ new = [template |-> old.template, job |-> old.job, shown |-> old.shown,
                  options |-> old.options, touched |-> old.touched,
                  submits |-> old.submits + 1, lost |-> new.lost]
        /\ \/ new.lost = old.lost /\ accepted' = accepted
           \/ new.lost = old.lost + 1 /\ Wizard!Accept
    <3>1. CASE form' = [form EXCEPT !.submits = @ + 1] /\ accepted' = accepted
      <4>1. new = [template |-> old.template, job |-> old.job, shown |-> old.shown,
                   options |-> old.options, touched |-> old.touched,
                   submits |-> old.submits + 1, lost |-> old.lost]
        BY <2>2, <2>3, <2>4, <3>1
      <4> QED
        BY <3>1, <4>1
    <3>2. CASE form' = [form EXCEPT !.submits = @ + 1, !.lost = @ + 1] /\ Wizard!Accept
      <4>1. new = [template |-> old.template, job |-> old.job, shown |-> old.shown,
                   options |-> old.options, touched |-> old.touched,
                   submits |-> old.submits + 1, lost |-> old.lost + 1]
        BY <2>2, <2>3, <2>4, <3>2
      <4> QED
        BY <3>2, <4>1
    <3> QED
      BY <2>1, <3>1, <3>2
  <2>6. /\ new.template = old.template /\ new.job = old.job /\ new.shown = old.shown
        /\ new.options = old.options /\ new.touched = old.touched
    BY <2>5
  <2>7. IsForm(new) /\ new.lost \in Nat
    BY <1>2, <2>2, <2>5, <2>6 DEF IsForm, GoodForm
  <2>8. FormIsGood'
    <3>1. NothingUnseen(new)
      BY <2>2, <2>6 DEF GoodForm, NothingUnseen
    <3>2. AsLayersSay(new)
      <4>1. Layers(new) = Layers(old)
        BY <2>6 DEF Layers
      <4>2. AsLayersSay(old)
        BY <2>2 DEF GoodForm
      <4> QED
        BY <2>6, <4>1, <4>2, Zenon DEF AsLayersSay
    <3> QED
      BY <2>3, <2>7, <3>1, <3>2 DEF FormIsGood, GoodForm
  <2>9. CASE new.lost = old.lost /\ accepted' = accepted
    <3>1. WizardTypes'
      BY <1>1, <1>2, <2>3, <2>7, <2>9 DEF WizardTypes, IsForm
    <3>2. SentIsLost'
      BY <1>1, <2>2, <2>3, <2>9 DEF SentIsLost, Open
    <3>3. Wizard!OneJobPerAnswer' /\ SentWasGood'
      BY <2>9 DEF Wizard!OneJobPerAnswer, SentWasGood
    <3> QED
      BY <2>8, <3>1, <3>2, <3>3
  <2>10. CASE new.lost = old.lost + 1 /\ Wizard!Accept
    <3>1. WizardTypes'
      BY <1>1, <1>2, <2>3, <2>7, <2>10, AcceptStep DEF WizardTypes, IsForm
    <3>2. SentIsLost'
      <4>1. \A i \in DOMAIN accepted' : /\ accepted'[i].form.lost \in Nat
                                        /\ accepted'[i].number = forms => accepted'[i].form.lost <= form.lost
        BY <1>1, <2>10, AcceptStep
      <4> QED
        BY <1>1, <1>2, <2>2, <2>3, <2>10, <4>1 DEF SentIsLost
    <3> QED
      BY <1>1, <2>8, <2>10, <3>1, <3>2, AcceptStep
  <2> QED
    BY <2>5, <2>9, <2>10
<1> QED
  BY <1>3, <1>4

\* The wizard keeps its invariant.
LEMMA WizardInvariance == Spec => []WizardInv
<1>1. Init => WizardInv
  <2> SUFFICES ASSUME Init
               PROVE  WizardInv
    OBVIOUS
  <2>1. page = "closed" /\ form = Wizard!NoForm /\ accepted = <<>> /\ forms = 0
    BY DEF Init, Wizard!Init
  <2>2. accepted = [i \in 1 .. 0 |-> accepted[i]] /\ DOMAIN accepted = {}
    BY <2>1
  <2>3. IsForm(form)
    BY <2>1 DEF IsForm, Wizard!NoForm, Wizard!NoTemplate
  <2>4. WizardTypes
    BY <2>1, <2>2, <2>3 DEF WizardTypes
  <2> QED
    BY <2>1, <2>2, <2>4 DEF WizardInv, SentIsLost, FormIsGood, SentWasGood, Open,
                            Wizard!OneJobPerAnswer
<1>2. WizardInv /\ [Next]_vars => WizardInv'
  <2> SUFFICES ASSUME WizardInv, [Next]_vars
               PROVE  WizardInv'
    OBVIOUS
  <2>1. CASE WizardStep
    <3>1. CASE Wizard!Show \/ Wizard!CancelSelection \/ Wizard!Preview \/ Wizard!SubmitInvalid
      <4>1. UNCHANGED <<form, accepted, forms>> /\ (Open' => Open)
        BY <3>1 DEF Wizard!Show, Wizard!CancelSelection, Wizard!Preview, Wizard!SubmitInvalid, Open
      <4> QED
        BY <4>1, PageChanges
    <3>2. CASE Wizard!CloseFront
      <4>1. UNCHANGED <<form, accepted, forms>> /\ (Open' => Open)
        BY <3>2 DEF Wizard!CloseFront, Open
      <4> QED
        BY <4>1, PageChanges
    <3>3. CASE Wizard!CancelForm
      <4>1. UNCHANGED <<accepted, forms>> /\ form' = Wizard!NoForm /\ ~Open'
        BY <3>3 DEF Wizard!CancelForm, Open
      <4> QED
        BY <4>1, FormCloses
    <3> QED
      BY <2>1, <3>1, <3>2, <3>3, ShowJobFormStep, EditStep, SubmitSteps
      DEF WizardStep, Wizard!WizardNext
  <2>2. CASE RingStep \/ NodesStep \/ SearchStep \/ HealthStep \/ UNCHANGED vars
    <3>1. UNCHANGED <<page, form, accepted, forms>>
      BY <2>2 DEF RingStep, NodesStep, SearchStep, HealthStep, vars, wizardVars
    <3> QED
      BY <3>1, PageChanges DEF Open
  <2> QED
    BY <2>1, <2>2 DEF Next
<1> QED
  BY <1>1, <1>2, PTL DEF Spec

\* A form that was sent and answered is gone: a second job comes of it only when the
\* answer to the first was lost.
THEOREM OneFormOneJob == Spec => []OneJobPerAnswer
<1>1. WizardInv => OneJobPerAnswer
  BY DEF WizardInv, OneJobPerAnswer
<1> QED
  BY <1>1, WizardInvariance, PTL

\* Nothing is sent unseen, and what the user has left alone is what the first layer
\* says that has a value, or what a dropdown begins with.
THEOREM RequestsAreForms == Spec => []RequestIsForm
<1>1. ASSUME WizardInv, NEW i \in DOMAIN accepted, NEW k \in Wizard!Field,
             accepted[i].request[k] # ""
      PROVE  LET sent == accepted[i].form
             IN \/ k \in sent.shown \cup Wizard!ExplicitlyHidden(sent.template)
                \/ k = "email" /\ "emailNotify" \in sent.touched
  <2> DEFINE sent == accepted[i].form
             job == sent.job
             gpus == IF job["gres"] # "" THEN "" ELSE job["gpus"]
             email == IF job["emailNotify"] = "" THEN "" ELSE job["email"]
  <2>1. NothingUnseen(sent) /\ IsForm(sent) /\ accepted[i].request = Wizard!Request(job)
    BY <1>1 DEF WizardInv, SentWasGood, GoodForm
  <2>2. job = [f \in Wizard!Field |-> job[f]]
    BY <2>1 DEF IsForm
  <2>3. Wizard!Request(job) = [job EXCEPT !["gpus"] = gpus, !["email"] = email]
    BY DEF Wizard!Request, Wizard!Unset
  <2> HIDE DEF job
  <2>4. job[k] # "" /\ (k = "email" => job["emailNotify"] # "")
    BY <1>1, <2>1, <2>2, <2>3
  <2> QED
    BY <2>1, <2>4 DEF NothingUnseen, job
<1>2. WizardInv => RequestIsForm
  <2> SUFFICES ASSUME WizardInv, NEW i \in DOMAIN accepted
               PROVE  LET sent == accepted[i].form
                          layers == Layers(sent)
                      IN /\ \A f \in Wizard!Field : accepted[i].request[f] # "" =>
                              \/ f \in sent.shown \cup Wizard!ExplicitlyHidden(sent.template)
                              \/ f = "email" /\ "emailNotify" \in sent.touched
                         /\ AsLayersSay(sent)
    BY DEF RequestIsForm, Wizard!RequestIsForm, AsLayersSay, SaysAs, Layers, Wizard!Unset
  <2>1. AsLayersSay(accepted[i].form)
    BY DEF WizardInv, SentWasGood, GoodForm
  <2> QED
    BY <1>1, <2>1
<1> QED
  BY <1>2, WizardInvariance, PTL

-----------------------------------------------------------------------------
(***************************************************************************)
(* The global search.                                                      *)
(***************************************************************************)

\* What a sequence holds, and that it holds nothing twice.
Elements(f) == {f[i] : i \in DOMAIN f}
Distinct(f) == \A i, j \in DOMAIN f : i # j => f[i] # f[j]

\* A loop from m to n whose body is G goes through g.
Loop(S, start, m, n, G, g) ==
  /\ g \in [m .. n -> S] /\ g[m] = start
  /\ \A j \in m + 1 .. n : g[j] = G[<<g[j - 1], j>>]

\* What a loop goes through is defined.
LEMMA LoopIsDefined ==
  ASSUME NEW S, NEW start \in S, NEW m \in Nat, NEW n \in Nat, m <= n,
         NEW G \in [S \X (m + 1 .. n) -> S]
  PROVE  \E g : Loop(S, start, m, n, G, g)
<1> DEFINE Goes(g, p) == Loop(S, start, m, m + p, G, g)
           P == {p \in 0 .. n - m : \E g : Goes(g, p)}
<1>1. 0 \in P
  <2>1. PICK g : g = [j \in m .. m |-> start]
    OBVIOUS
  <2>2. g \in [m .. m -> S] /\ g[m] = start
    BY <2>1
  <2>3. m + 0 = m /\ m + 1 .. m = {} /\ 0 \in 0 .. n - m
    OBVIOUS
  <2>4. Goes(g, 0)
    BY <2>2, <2>3 DEF Loop
  <2> QED
    BY <2>3, <2>4
<1>2. ASSUME NEW p \in 0 .. (n - m) - 1, p \in P
      PROVE  p + 1 \in P
  <2>1. PICK g : Goes(g, p)
    BY <1>2
  <2>2. PICK last \in Int : last = m + p + 1
    OBVIOUS
  <2>3. last \in m + 1 .. n /\ last - 1 \in m .. m + p /\ m + (p + 1) = last
    BY <2>2
  <2>4. PICK x \in S : x = G[<<g[last - 1], last>>]
    BY <2>1, <2>3 DEF Loop
  <2> DEFINE h == [j \in m .. last |-> IF j = last THEN x ELSE g[j]]
  <2>5. h \in [m .. last -> S] /\ h[m] = start
    BY <2>1, <2>2 DEF Loop
  <2>6. ASSUME NEW j \in m + 1 .. last
        PROVE  h[j] = G[<<h[j - 1], j>>]
    <3>1. j - 1 \in m .. last /\ j - 1 # last /\ h[j - 1] = g[j - 1]
      BY <2>2
    <3>2. CASE j = last
      BY <2>4, <3>1, <3>2
    <3>3. CASE j # last
      <4>1. j \in m + 1 .. m + p /\ h[j] = g[j]
        BY <2>2, <3>3
      <4> QED
        BY <2>1, <3>1, <4>1 DEF Loop
    <3> QED
      BY <3>2, <3>3
  <2> HIDE DEF h
  <2>7. Goes(h, p + 1)
    BY <2>3, <2>5, <2>6 DEF Loop
  <2>8. p + 1 \in 0 .. n - m
    OBVIOUS
  <2> QED
    BY <2>7, <2>8
<1> HIDE DEF P
<1>3. n - m \in P
  <2>1. n - m \in Nat
    OBVIOUS
  <2>2. 0 .. n - m \subseteq P
    BY <1>1, <1>2, <2>1, NatInductionBySet
  <2> QED
    BY <2>1, <2>2
<1>4. m + (n - m) = n
  OBVIOUS
<1> QED
  BY <1>3, <1>4 DEF P

-----------------------------------------------------------------------------

\* The same results in another order.
SameResults(before, after) ==
  /\ Elements(after) = Elements(before)
  /\ Distinct(before) => Distinct(after)

\* The results up to i are in order, and none after them is better.
BestUpTo(found, i) ==
  \A a, b \in DOMAIN found : a <= i /\ a < b => found[a].score >= found[b].score

\* Results have scores.
Scored(R) == \A r \in R : r.score \in Nat

\* The results found in another order: the best as far as i - 1, and the best of those up
\* to j at i.
InnerOK(n, R, found, i, j, after) ==
  /\ after \in [1 .. n -> R] /\ SameResults(found, after)
  /\ BestUpTo(after, i - 1) /\ \A b \in i + 1 .. j : after[i].score >= after[b].score

\* Exchanging two results.
LEMMA ExchangeLemma ==
  ASSUME NEW n \in Nat, NEW R, Scored(R), NEW first, NEW i \in 1 .. n, NEW j \in i + 1 .. n,
         NEW found, InnerOK(n, R, first, i, j - 1, found)
  PROVE  InnerOK(n, R, first, i, j, Search!Exchange(found, i, j))
<1> PICK after : after = Search!Exchange(found, i, j)
  OBVIOUS
<1>0. /\ found \in [1 .. n -> R] /\ SameResults(first, found)
      /\ BestUpTo(found, i - 1) /\ \A b \in i + 1 .. j - 1 : found[i].score >= found[b].score
  BY DEF InnerOK
<1>1. i \in Int /\ j \in 1 .. n /\ i < j /\ j \in Int /\ DOMAIN found = 1 .. n
  BY <1>0
<1>2. \A a \in 1 .. n : found[a].score \in Nat
  BY <1>0 DEF Scored
<1>3. CASE found[j].score > found[i].score
  <2>1. after = [found EXCEPT ![i] = found[j], ![j] = found[i]]
    BY <1>3 DEF Search!Exchange
  <2>2. /\ after \in [1 .. n -> R] /\ after[i] = found[j] /\ after[j] = found[i]
        /\ \A a \in 1 .. n : a # i /\ a # j => after[a] = found[a]
    BY <1>0, <1>1, <2>1
  <2>3. DOMAIN after = 1 .. n
    BY <2>2
  <2>4. Elements(after) = Elements(found)
    BY <1>1, <2>2, <2>3 DEF Elements
  <2>5. Distinct(found) => Distinct(after)
    BY <1>1, <2>2, <2>3 DEF Distinct
  <2>6. ASSUME NEW a \in 1 .. n, NEW b \in 1 .. n, a <= i - 1, a < b
        PROVE  after[a].score >= after[b].score
    <3>1. a # i /\ a # j /\ a < i /\ a < j
      BY <1>1, <2>6
    <3>2. \A c \in 1 .. n : a < c => found[a].score >= found[c].score
      BY <1>0, <1>1, <2>6 DEF BestUpTo
    <3> QED
      BY <1>1, <2>2, <2>6, <3>1, <3>2
  <2>7. ASSUME NEW b \in i + 1 .. j
        PROVE  after[i].score >= after[b].score
    <3>1. b \in 1 .. n /\ b # i
      BY <1>1
    <3>2. CASE b = j
      BY <1>1, <1>2, <1>3, <2>2, <3>2
    <3>3. CASE b # j
      <4>1. b \in i + 1 .. j - 1
        BY <3>3
      <4>2. found[i].score >= found[b].score /\ after[b] = found[b]
        BY <1>0, <2>2, <3>1, <3>3, <4>1
      <4> QED
        BY <1>1, <1>2, <1>3, <2>2, <3>1, <4>2
    <3> QED
      BY <3>2, <3>3
  <2> QED
    BY <1>0, <2>2, <2>3, <2>4, <2>5, <2>6, <2>7 DEF InnerOK, SameResults, BestUpTo
<1>4. CASE ~(found[j].score > found[i].score)
  <2>1. after = found
    BY <1>4 DEF Search!Exchange
  <2>2. found[i].score >= found[j].score
    BY <1>1, <1>2, <1>4
  <2>3. \A b \in i + 1 .. j : b = j \/ b \in i + 1 .. j - 1
    OBVIOUS
  <2> QED
    BY <1>0, <2>1, <2>2, <2>3 DEF InnerOK
<1> QED
  BY <1>3, <1>4

\* The inner loop puts the best of the rest at i.
LEMMA BestAtLemma ==
  ASSUME NEW n \in Nat, NEW R, Scored(R),
         NEW found \in Seq(R), Len(found) = n, NEW i \in 1 .. n, BestUpTo(found, i - 1)
  PROVE  LET after == Search!BestAt(found, i)
         IN after \in [1 .. n -> R] /\ SameResults(found, after) /\ BestUpTo(after, i)
<1> DEFINE S == [1 .. n -> R]
           G == [p \in S \X (i + 1 .. n) |-> Search!Exchange(p[1], i, p[2])]
           F(g, j) == IF j = i THEN found ELSE Search!Exchange(g[j - 1], i, j)
<1>1. found \in S
  BY LenProperties
<1>2. ASSUME NEW x \in S, NEW j \in i + 1 .. n
      PROVE  Search!Exchange(x, i, j) \in S
  <2>1. i \in 1 .. n /\ j \in 1 .. n
    OBVIOUS
  <2> QED
    BY <2>1 DEF Search!Exchange
<1>3. G \in [S \X (i + 1 .. n) -> S] /\ \A x \in S, j \in i + 1 .. n :
        G[<<x, j>>] = Search!Exchange(x, i, j)
  BY <1>2
<1> HIDE DEF G
<1>4. PICK g : Loop(S, found, i, n, G, g)
  <2>1. i \in Nat /\ n \in Nat /\ i <= n
    OBVIOUS
  <2> HIDE DEF S
  <2> QED
    BY <1>1, <1>3, <2>1, LoopIsDefined
<1>5. \A j \in i + 1 .. n : g[j] = Search!Exchange(g[j - 1], i, j)
  <2>1. \A j \in i + 1 .. n : j - 1 \in i .. n
    OBVIOUS
  <2> HIDE DEF S
  <2> QED
    BY <1>3, <1>4, <2>1 DEF Loop
<1>6. g = [j \in i .. n |-> F(g, j)]
  <2>1. \A j \in i .. n : g[j] = F(g, j)
    <3>1. \A j \in i .. n : j = i \/ j \in i + 1 .. n
      OBVIOUS
    <3>2. \A j \in i + 1 .. n : j # i
      OBVIOUS
    <3> HIDE DEF S
    <3> QED
      BY <1>4, <1>5, <3>1, <3>2 DEF Loop
  <2> HIDE DEF F, S
  <2> QED
    BY <1>4, <2>1 DEF Loop
<1> DEFINE w == CHOOSE h : h = [j \in i .. n |-> F(h, j)]
<1>7. w = [j \in i .. n |-> F(w, j)] /\ Search!BestAt(found, i) = w[n]
  <2>1. w = [j \in i .. n |-> F(w, j)]
    <3> HIDE DEF F
    <3> QED
      BY <1>6
  <2>2. Search!BestAt(found, i) = w[n]
    BY DEF Search!BestAt
  <2> QED
    BY <2>1, <2>2
<1> HIDE DEF w
<1>8. w[i] = found /\ \A j \in i + 1 .. n : w[j] = Search!Exchange(w[j - 1], i, j)
  <2>1. \A j \in i .. n : w[j] = F(w, j)
    <3> HIDE DEF F
    <3> QED
      BY <1>7
  <2>2. \A j \in i + 1 .. n : j \in i .. n /\ j # i
    OBVIOUS
  <2>3. i \in i .. n
    OBVIOUS
  <2> QED
    BY <2>1, <2>2, <2>3
<1> DEFINE T == {p \in 0 .. n - i : InnerOK(n, R, found, i, i + p, w[i + p])}
<1>9. 0 \in T
  <2>1. i + 0 = i /\ i + 1 .. i = {} /\ 0 \in 0 .. n - i
    OBVIOUS
  <2>2. InnerOK(n, R, found, i, i, found)
    BY <1>1, <2>1 DEF InnerOK, SameResults
  <2> QED
    BY <1>8, <2>1, <2>2
<1>10. ASSUME NEW p \in 0 .. (n - i) - 1, p \in T
       PROVE  p + 1 \in T
  <2>1. PICK j \in Int : j = i + p + 1
    OBVIOUS
  <2>2. /\ j \in i + 1 .. n /\ j - 1 = i + p /\ i + (p + 1) = j /\ p + 1 \in 0 .. n - i
        /\ i \in 1 .. n
    BY <2>1
  <2>3. InnerOK(n, R, found, i, j - 1, w[j - 1])
    BY <1>10, <2>2
  <2>4. w[j] = Search!Exchange(w[j - 1], i, j)
    BY <1>8, <2>2
  <2>5. InnerOK(n, R, found, i, j, w[j])
    <3> HIDE DEF T
    <3> QED
      BY <2>2, <2>3, <2>4, ExchangeLemma
  <2> QED
    BY <2>2, <2>5
<1> HIDE DEF T
<1>11. n - i \in T
  <2>1. n - i \in Nat
    OBVIOUS
  <2>2. 0 .. n - i \subseteq T
    BY <1>9, <1>10, <2>1, NatInductionBySet
  <2> QED
    BY <2>1, <2>2
<1>12. PICK after : after = w[n] /\ InnerOK(n, R, found, i, n, after)
  <2>1. i + (n - i) = n
    OBVIOUS
  <2> QED
    BY <1>11, <2>1 DEF T
<1>13. BestUpTo(after, i)
  <2>1. DOMAIN after = 1 .. n
    BY <1>12 DEF InnerOK
  <2>2. ASSUME NEW a \in 1 .. n, NEW b \in 1 .. n, a <= i, a < b
        PROVE  after[a].score >= after[b].score
    <3>1. CASE a = i
      <4>1. b \in i + 1 .. n
        BY <2>2, <3>1
      <4> QED
        BY <1>12, <3>1, <4>1 DEF InnerOK
    <3>2. CASE a # i
      <4>1. a <= i - 1
        BY <2>2, <3>2
      <4> QED
        BY <1>12, <2>1, <2>2, <4>1 DEF InnerOK, BestUpTo
    <3> QED
      BY <3>1, <3>2
  <2> QED
    BY <2>1, <2>2 DEF BestUpTo
<1> QED
  BY <1>7, <1>12, <1>13 DEF InnerOK

\* The results found in another order, the best as far as i.
OuterOK(n, R, found, i, after) ==
  after \in [1 .. n -> R] /\ SameResults(found, after) /\ BestUpTo(after, i)

\* A turn of the outer loop.
LEMMA TurnLemma ==
  ASSUME NEW n \in Nat, NEW R, Scored(R), NEW first, NEW i \in 1 .. n, NEW found,
         OuterOK(n, R, first, i - 1, found)
  PROVE  OuterOK(n, R, first, i, Search!BestAt(found, i))
<1>1. /\ found \in [1 .. n -> R] /\ SameResults(first, found) /\ BestUpTo(found, i - 1)
  BY DEF OuterOK
<1>2. found \in Seq(R) /\ Len(found) = n
  BY <1>1, SeqDef, LenProperties
<1>3. PICK after : after = Search!BestAt(found, i)
  OBVIOUS
<1>4. after \in [1 .. n -> R] /\ SameResults(found, after) /\ BestUpTo(after, i)
  BY <1>1, <1>2, <1>3, BestAtLemma
<1> QED
  BY <1>1, <1>3, <1>4 DEF OuterOK, SameResults

\* Sorting keeps the results and puts the best first.
LEMMA SortLemma ==
  ASSUME NEW R, Scored(R), NEW found \in Seq(R)
  PROVE  LET best == Search!SortResultsByScore(found)
         IN best \in Seq(R) /\ SameResults(found, best) /\ BestUpTo(best, Len(best))
<1>1. PICK n \in Nat : n = Len(found) /\ found \in [1 .. n -> R]
  BY LenProperties
<1> DEFINE S == [1 .. n -> R]
           G == [p \in S \X (0 + 1 .. n) |->
                   IF Search!BestAt(p[1], p[2]) \in S THEN Search!BestAt(p[1], p[2]) ELSE p[1]]
           F(g, i) == IF i = 0 THEN found ELSE Search!BestAt(g[i - 1], i)
<1>2. /\ G \in [S \X (0 + 1 .. n) -> S]
      /\ \A x \in S, i \in 1 .. n :
           Search!BestAt(x, i) \in S => G[<<x, i>>] = Search!BestAt(x, i)
  <2> HIDE DEF S
  <2> QED
    OBVIOUS
<1> HIDE DEF G
<1>3. PICK g : Loop(S, found, 0, n, G, g)
  <2> HIDE DEF S
  <2>1. found \in S /\ 0 \in Nat /\ 0 <= n
    BY <1>1 DEF S
  <2> QED
    BY <1>2, <2>1, LoopIsDefined
<1>4. /\ g[0] = found /\ \A i \in 1 .. n : g[i] = G[<<g[i - 1], i>>]
  BY <1>3 DEF Loop
<1> DEFINE T == {i \in 0 .. n : /\ OuterOK(n, R, found, i, g[i])
                                /\ i # 0 => g[i] = Search!BestAt(g[i - 1], i)}
<1>5. 0 \in T
  <2>1. OuterOK(n, R, found, 0, found)
    BY <1>1 DEF OuterOK, SameResults, BestUpTo
  <2> QED
    BY <1>4, <2>1
<1>6. ASSUME NEW p \in 0 .. n - 1, p \in T
      PROVE  p + 1 \in T
  <2>1. PICK i \in Int : i = p + 1
    OBVIOUS
  <2>2. i \in 1 .. n /\ i - 1 = p /\ i \in 0 .. n
    BY <2>1
  <2>3. OuterOK(n, R, found, i - 1, g[i - 1])
    BY <1>6, <2>2
  <2>4. OuterOK(n, R, found, i, Search!BestAt(g[i - 1], i))
    <3> HIDE DEF T
    <3> QED
      BY <2>2, <2>3, TurnLemma
  <2>5. g[i - 1] \in S /\ Search!BestAt(g[i - 1], i) \in S
    BY <2>3, <2>4 DEF OuterOK
  <2>6. g[i] = Search!BestAt(g[i - 1], i)
    <3> HIDE DEF S
    <3> QED
      BY <1>2, <1>4, <2>2, <2>5
  <2> QED
    BY <2>1, <2>2, <2>4, <2>6
<1> HIDE DEF T
<1>7. 0 .. n \subseteq T
  BY <1>5, <1>6, NatInductionBySet
<1>8. g = [i \in 0 .. n |-> F(g, i)]
  <2>1. DOMAIN g = 0 .. n /\ g = [i \in 0 .. n |-> g[i]]
    BY <1>3 DEF Loop
  <2>2. \A i \in 0 .. n : g[i] = F(g, i)
    BY <1>4, <1>7 DEF T
  <2> HIDE DEF F
  <2> QED
    BY <2>1, <2>2
<1> DEFINE w == CHOOSE h : h = [i \in 0 .. n |-> F(h, i)]
<1>9. w = [i \in 0 .. n |-> F(w, i)] /\ Search!SortResultsByScore(found) = w[n]
  <2>1. w = [i \in 0 .. n |-> F(w, i)]
    <3> HIDE DEF F
    <3> QED
      BY <1>8
  <2>2. Search!SortResultsByScore(found) = w[n]
    BY <1>1 DEF Search!SortResultsByScore
  <2> QED
    BY <2>1, <2>2
<1> HIDE DEF w
<1>10. w[0] = found /\ \A i \in 1 .. n : w[i] = Search!BestAt(w[i - 1], i)
  <2>1. \A i \in 0 .. n : w[i] = F(w, i)
    <3> HIDE DEF F
    <3> QED
      BY <1>9
  <2>2. \A i \in 1 .. n : i \in 0 .. n /\ i # 0
    OBVIOUS
  <2>3. 0 \in 0 .. n
    OBVIOUS
  <2> QED
    BY <2>1, <2>2, <2>3
<1> DEFINE U == {i \in 0 .. n : OuterOK(n, R, found, i, w[i])}
<1>11. 0 \in U
  BY <1>5, <1>4, <1>10 DEF T
<1>12. ASSUME NEW p \in 0 .. n - 1, p \in U
       PROVE  p + 1 \in U
  <2>1. PICK i \in Int : i = p + 1
    OBVIOUS
  <2>2. i \in 1 .. n /\ i - 1 = p /\ i \in 0 .. n
    BY <2>1
  <2>3. OuterOK(n, R, found, i - 1, w[i - 1]) /\ w[i] = Search!BestAt(w[i - 1], i)
    BY <1>10, <1>12, <2>2
  <2>4. OuterOK(n, R, found, i, w[i])
    <3> HIDE DEF U
    <3> QED
      BY <2>2, <2>3, TurnLemma
  <2> QED
    BY <2>1, <2>2, <2>4
<1> HIDE DEF U
<1>13. n \in U
  <2>1. 0 .. n \subseteq U
    BY <1>11, <1>12, NatInductionBySet
  <2> QED
    BY <2>1
<1>14. PICK best : best = w[n] /\ OuterOK(n, R, found, n, best)
  BY <1>13 DEF U
<1>15. best \in Seq(R) /\ Len(best) = n
  <2>1. best \in [1 .. n -> R]
    BY <1>14 DEF OuterOK
  <2> QED
    BY <2>1, SeqDef, LenProperties
<1> QED
  BY <1>9, <1>14, <1>15 DEF OuterOK

-----------------------------------------------------------------------------

\* An object counts for a text exactly when some field of it holds the text.
LEMMA ScoreLemma ==
  ASSUME NEW k \in DOMAIN Search!Fields, NEW o, NEW t
  PROVE  /\ Search!ScoreOf(k, o, t) \in Nat
         /\ Search!ScoreOf(k, o, t) > 0 <=> \E f \in Search!Fields[k] : t \in o[f]
<1>1. k \in {"jobs", "nodes", "partitions", "users", "reservations", "accounts", "qos"}
  BY DEF Search!Fields
<1>2. \A texts, points : /\ t \in texts => Search!In(texts, t, points) = points
                         /\ t \notin texts => Search!In(texts, t, points) = 0
  BY DEF Search!In
<1>3. CASE k = "jobs"
  <2>1. Search!ScoreOf(k, o, t) = Search!JobScore(o, t)
    BY <1>3 DEF Search!ScoreOf
  <2>2. Search!Fields[k] = {"id", "name", "user", "partition", "state"}
    BY <1>3 DEF Search!Fields
  <2> QED
    BY <1>2, <2>1, <2>2 DEF Search!JobScore
<1>4. CASE k = "nodes"
  <2>1. Search!ScoreOf(k, o, t) = Search!NodeScore(o, t)
    BY <1>4 DEF Search!ScoreOf
  <2>2. Search!Fields[k] = {"name", "state", "features", "partitions"}
    BY <1>4 DEF Search!Fields
  <2> QED
    BY <1>2, <2>1, <2>2 DEF Search!NodeScore
<1>5. CASE k = "partitions"
  <2>1. Search!ScoreOf(k, o, t) = Search!PartitionScore(o, t)
    BY <1>5 DEF Search!ScoreOf
  <2>2. Search!Fields[k] = {"name", "state", "qos"}
    BY <1>5 DEF Search!Fields
  <2> QED
    BY <1>2, <2>1, <2>2 DEF Search!PartitionScore
<1>6. CASE k = "users"
  <2>1. Search!ScoreOf(k, o, t) = Search!UserScore(o, t)
    BY <1>6 DEF Search!ScoreOf
  <2>2. Search!Fields[k] = {"name", "defaultAccount", "accounts"}
    BY <1>6 DEF Search!Fields
  <2> QED
    BY <1>2, <2>1, <2>2 DEF Search!UserScore
<1>7. CASE k = "reservations"
  <2>1. Search!ScoreOf(k, o, t) = Search!ReservationScore(o, t)
    BY <1>7 DEF Search!ScoreOf
  <2>2. Search!Fields[k] = {"name", "state", "users", "accounts"}
    BY <1>7 DEF Search!Fields
  <2> QED
    BY <1>2, <2>1, <2>2 DEF Search!ReservationScore
<1>8. CASE k = "accounts"
  <2>1. Search!ScoreOf(k, o, t) = Search!AccountScore(o, t)
    BY <1>8 DEF Search!ScoreOf
  <2>2. Search!Fields[k] = {"name", "description", "organization", "parent"}
    BY <1>8 DEF Search!Fields
  <2> QED
    BY <1>2, <2>1, <2>2 DEF Search!AccountScore
<1>9. CASE k = "qos"
  <2>1. Search!ScoreOf(k, o, t) = Search!QoSScore(o, t)
    BY <1>9 DEF Search!ScoreOf
  <2>2. Search!Fields[k] = {"name", "preemptMode", "flags"}
    BY <1>9 DEF Search!Fields
  <2> QED
    BY <1>2, <2>1, <2>2 DEF Search!QoSScore
<1> QED
  BY <1>1, <1>3, <1>4, <1>5, <1>6, <1>7, <1>8, <1>9

-----------------------------------------------------------------------------

\* The types of a list, of the results and of a search.
ListRecord ==
  [at : {"asks", "sends", "looks", "done", "failed"},
   left : SUBSET UNION {DOMAIN Objects[k] : k \in Search!Lists}]

AllResults ==
  UNION {UNION {{Search!Result(k, i, t) : i \in Search!Matches(k, t)} : k \in Search!Lists} :
           t \in Text}

SearchRecord ==
  [text : Text, cancelled : BOOLEAN, at : {"collects", "queued", "shown", "left"},
   got : Seq(AllResults), channel : Seq(AllResults), lists : [Search!Lists -> ListRecord]]

\* What list k, in state l, has sent for text t.
SentBy(l, k, t) == IF l.at \in {"asks", "failed"} THEN {} ELSE Search!Matches(k, t) \ l.left

\* What the lists of search x have sent.
SentResults(x) ==
  UNION {{Search!Result(k, i, x.text) : i \in SentBy(x.lists[k], k, x.text)} : k \in Search!Lists}

\* A list that has not begun, or is through, has nothing left.
ListOK(l) == l.at \in {"asks", "failed", "done"} => l.left = {}

\* What has been sent is on its way or has come, once.
Carried(x) ==
  /\ Elements(x.got) \cup Elements(x.channel) = SentResults(x)
  /\ Elements(x.got) \cap Elements(x.channel) = {}
  /\ Distinct(x.got) /\ Distinct(x.channel)

\* Of a search that has not been cancelled.
Whole(x) ==
  /\ x.at # "left"
  /\ \A k \in Search!Lists : ListOK(x.lists[k])
  /\ x.at # "shown" => Carried(x)

\* What holds of each search that was started.
SearchOK(x) ==
  /\ x \in SearchRecord /\ Len(x.channel) <= ChanCap
  /\ x.at \in {"queued", "shown"} => Search!Closed(x) /\ x.channel = <<>>
  /\ \A k \in Search!Lists : x.lists[k].left \subseteq Search!Matches(k, x.text)
  /\ ~x.cancelled => Whole(x)

\* The results of search x, all of them, once, and the best first.
Answered(found, x) ==
  /\ Elements(found) = SentResults(x) /\ Distinct(found) /\ BestUpTo(found, Len(found))

\* The inductive invariant of the search.
SearchesInv ==
  /\ searches \in Seq(SearchRecord)
  /\ \A s \in DOMAIN searches : SearchOK(searches[s])

\* Only the last search may not be cancelled.
SearchingInv ==
  /\ searching \in 0 .. Len(searches)
  /\ \A s \in DOMAIN searches : s # searching => searches[s].cancelled

\* What is shown is all a search that was not cancelled has sent.
ResultsInv ==
  /\ from \in 0 .. Len(searches) /\ results \in Seq(AllResults)
  /\ from # 0 => /\ searches[from].at = "shown"
                 /\ ~searches[from].cancelled => Answered(results, searches[from])

SearchInv == SearchesInv /\ SearchingInv /\ ResultsInv

\* Results have scores.
LEMMA ResultsAreScored == Scored(AllResults) /\ \A r \in AllResults : r.score > 0
<1> SUFFICES ASSUME NEW r \in AllResults
             PROVE  r.score \in Nat /\ r.score > 0
  BY DEF Scored
<1>1. PICK k \in Search!Lists, t \in Text :
          \E i \in Search!Matches(k, t) : r = Search!Result(k, i, t)
  BY DEF AllResults
<1>2. PICK i \in Search!Matches(k, t) : r = Search!Result(k, i, t)
  BY <1>1
<1>3. r.score = Search!ScoreOf(k, Objects[k][i].holds, t)
  BY <1>2 DEF Search!Result
<1>4. k \in DOMAIN Search!Fields
  BY SearchAssumption DEF Search!Lists
<1>5. r.score \in Nat
  BY <1>3, <1>4, ScoreLemma
<1>6. r.score > 0
  BY <1>2 DEF Search!Matches
<1> QED
  BY <1>5, <1>6

\* Two objects do not give the same result.
LEMMA ResultsDiffer ==
  ASSUME NEW k \in Search!Lists, NEW l \in Search!Lists, NEW t,
         NEW i \in DOMAIN Objects[k], NEW j \in DOMAIN Objects[l],
         Search!Result(k, i, t) = Search!Result(l, j, t)
  PROVE  k = l /\ i = j
<1>1. Objects[k][i].name = Objects[l][j].name
  BY DEF Search!Result
<1> QED
  BY <1>1, SearchAssumption DEF Search!Lists

\* One search changes, which is not the one that is shown.
LEMMA ChangeLemma ==
  ASSUME SearchInv, NEW s \in DOMAIN searches, NEW y, SearchOK(y),
         y.cancelled = searches[s].cancelled, searches[s].at # "shown",
         searches' = [searches EXCEPT ![s] = y],
         UNCHANGED <<searching, results, from>>
  PROVE  SearchInv'
<1>1. searches \in Seq(SearchRecord) /\ y \in SearchRecord
  BY DEF SearchInv, SearchesInv, SearchOK
<1>2. /\ searches' \in Seq(SearchRecord) /\ Len(searches') = Len(searches)
      /\ searches'[s] = y /\ \A r \in DOMAIN searches : r # s => searches'[r] = searches[r]
  BY <1>1, ExceptSeq
<1>3. DOMAIN searches = 1 .. Len(searches) /\ DOMAIN searches' = 1 .. Len(searches)
  BY <1>1, <1>2, LenProperties
<1>4. SearchesInv'
  BY <1>2, <1>3 DEF SearchInv, SearchesInv
<1>5. SearchingInv'
  BY <1>2, <1>3 DEF SearchInv, SearchingInv
<1>6. ResultsInv'
  <2>1. CASE from = 0
    BY <1>2, <2>1 DEF SearchInv, ResultsInv
  <2>2. CASE from # 0
    <3>1. from \in DOMAIN searches /\ from # s
      BY <1>3, <2>2 DEF SearchInv, ResultsInv
    <3>2. searches'[from] = searches[from]
      BY <1>2, <3>1
    <3>3. PICK x : x = searches[from]
      OBVIOUS
    <3>4. searches'[from'] = x
      BY <3>2, <3>3
    <3> QED
      BY <1>2, <2>2, <3>3, <3>4 DEF SearchInv, ResultsInv
  <2> QED
    BY <2>1, <2>2
<1> QED
  BY <1>4, <1>5, <1>6 DEF SearchInv

\* Cancelling leaves every search where it is, and none that is not cancelled.
LEMMA CancelLemma ==
  ASSUME SearchInv
  PROVE  LET c == Search!CancelSearch
         IN /\ c \in Seq(SearchRecord) /\ Len(c) = Len(searches)
            /\ \A s \in 1 .. Len(searches) :
                 SearchOK(c[s]) /\ c[s].cancelled /\ c[s].at = searches[s].at
<1>1. PICK n \in Nat : n = Len(searches) /\ DOMAIN searches = 1 .. n
  BY LenProperties DEF SearchInv, SearchesInv
<1>2. PICK c : c = Search!CancelSearch
  OBVIOUS
<1>3. ASSUME NEW s \in 1 .. n
      PROVE  SearchOK(c[s]) /\ c[s].cancelled /\ c[s].at = searches[s].at
  <2>1. PICK x : x = searches[s]
    OBVIOUS
  <2>2. SearchOK(x)
    BY <1>1, <2>1 DEF SearchInv, SearchesInv
  <2>3. CASE s = searching
    <3>1. c[s] = [x EXCEPT !.cancelled = TRUE]
      BY <1>1, <1>2, <2>1, <2>3 DEF Search!CancelSearch
    <3>2. PICK y : y = [x EXCEPT !.cancelled = TRUE]
      OBVIOUS
    <3>3. /\ y \in SearchRecord /\ y.cancelled /\ y.at = x.at /\ y.channel = x.channel
          /\ y.lists = x.lists /\ y.text = x.text
      BY <2>2, <3>2 DEF SearchOK, SearchRecord
    <3>4. SearchOK(y)
      BY <2>2, <3>3 DEF SearchOK, Search!Closed
    <3> QED
      BY <2>1, <3>1, <3>2, <3>3, <3>4
  <2>4. CASE s # searching
    <3>1. c[s] = x
      BY <1>1, <1>2, <2>1, <2>4 DEF Search!CancelSearch
    <3>2. x.cancelled
      BY <1>1, <2>1, <2>4 DEF SearchInv, SearchingInv
    <3> QED
      BY <2>1, <2>2, <3>1, <3>2
  <2> QED
    BY <2>3, <2>4
<1>4. c \in [1 .. n -> SearchRecord]
  <2>1. DOMAIN c = 1 .. n /\ c = [s \in 1 .. n |-> c[s]]
    BY <1>1, <1>2 DEF Search!CancelSearch
  <2>2. \A s \in 1 .. n : c[s] \in SearchRecord
    BY <1>3 DEF SearchOK
  <2> QED
    BY <2>1, <2>2
<1>5. c \in Seq(SearchRecord) /\ Len(c) = n
  BY <1>4, SeqDef, LenProperties
<1> QED
  BY <1>1, <1>2, <1>3, <1>5

\* A search that starts has sent nothing.
LEMMA NewSearch ==
  ASSUME NEW t \in Text
  PROVE  SearchOK(Search!PerformSearch(t))
<1>1. PICK x : x = Search!PerformSearch(t)
  OBVIOUS
<1>2. /\ x.text = t /\ x.cancelled = FALSE /\ x.at = "collects"
      /\ x.got = <<>> /\ x.channel = <<>>
      /\ x.lists = [k \in Search!Lists |-> [at |-> "asks", left |-> {}]]
  BY <1>1 DEF Search!PerformSearch
<1>3. \A k \in Search!Lists : x.lists[k].at = "asks" /\ x.lists[k].left = {}
  BY <1>2
<1>4. x.lists \in [Search!Lists -> ListRecord]
  BY <1>2 DEF ListRecord
<1>5. x \in SearchRecord
  <2>1. <<>> \in Seq(AllResults)
    BY EmptySeq
  <2> QED
    BY <1>1, <1>4, <1>2, <2>1 DEF SearchRecord, Search!PerformSearch
<1>6. Len(x.channel) <= ChanCap
  BY <1>2, SearchAssumption, EmptySeq
<1>7. Whole(x)
  <2>1. SentResults(x) = {}
    BY <1>3 DEF SentResults, SentBy
  <2>2. DOMAIN x.got = {} /\ DOMAIN x.channel = {}
    BY <1>2, EmptySeq
  <2>3. Carried(x)
    BY <2>1, <2>2 DEF Carried, Elements, Distinct
  <2> QED
    BY <1>2, <1>3, <2>3 DEF Whole, ListOK
<1> QED
  BY <1>1, <1>2, <1>5, <1>6, <1>7 DEF SearchOK

\* The steps of the field.
LEMMA FieldSteps ==
  ASSUME SearchInv,
         Search!ClearResults \/ Search!Close \/ \E t \in Text : Search!OnSearchChange(t)
  PROVE  SearchInv'
<1>1. PICK c : c = Search!CancelSearch
  OBVIOUS
<1>2. PICK n \in Nat : n = Len(searches)
  BY LenProperties DEF SearchInv, SearchesInv
<1>3. /\ c \in Seq(SearchRecord) /\ Len(c) = n
      /\ \A s \in 1 .. n : SearchOK(c[s]) /\ c[s].cancelled /\ c[s].at = searches[s].at
  BY <1>1, <1>2, CancelLemma
<1>4. DOMAIN c = 1 .. n
  BY <1>3, LenProperties
<1>5. from \in 0 .. n /\ results \in Seq(AllResults) /\ (from # 0 => searches[from].at = "shown")
  BY <1>2 DEF SearchInv, ResultsInv
<1>6. CASE Search!ClearResults \/ Search!Close
  <2>1. searches' = c /\ searching' = 0
    BY <1>1, <1>6 DEF Search!ClearResults, Search!Close
  <2>2. SearchesInv'
    BY <1>3, <1>4, <2>1 DEF SearchesInv
  <2>3. SearchingInv'
    BY <1>3, <1>4, <2>1 DEF SearchingInv
  <2>4. ResultsInv'
    <3>1. CASE Search!ClearResults
      <4>1. from' = 0 /\ results' = <<>>
        BY <3>1 DEF Search!ClearResults
      <4> QED
        BY <1>3, <2>1, <4>1, EmptySeq DEF ResultsInv
    <3>2. CASE Search!Close
      <4>1. from' = from /\ results' = results
        BY <3>2 DEF Search!Close
      <4>2. from # 0 => c[from].at = "shown" /\ c[from].cancelled
        BY <1>3, <1>5
      <4>3. searches'[from'] = c[from] /\ Len(searches') = n
        BY <1>3, <2>1, <4>1
      <4> QED
        BY <1>5, <4>1, <4>2, <4>3 DEF ResultsInv
    <3> QED
      BY <1>6, <3>1, <3>2
  <2> QED
    BY <2>2, <2>3, <2>4 DEF SearchInv
<1>7. ASSUME NEW t \in Text, Search!OnSearchChange(t)
      PROVE  SearchInv'
  <2>1. PICK x : x = Search!PerformSearch(t) /\ SearchOK(x)
    BY NewSearch
  <2>2. PICK d : d = Append(c, x)
    OBVIOUS
  <2>3. /\ searches' = d /\ searching' = Len(d) /\ from' = from /\ results' = results
    BY <1>1, <1>7, <2>1, <2>2 DEF Search!OnSearchChange
  <2>4. x \in SearchRecord
    BY <2>1 DEF SearchOK
  <2>5. /\ d \in Seq(SearchRecord) /\ Len(d) = n + 1 /\ d[n + 1] = x
        /\ \A s \in 1 .. n : d[s] = c[s]
    BY <1>3, <2>2, <2>4, AppendProperties
  <2>6. DOMAIN d = 1 .. n + 1
    BY <2>5, LenProperties
  <2>7. \A s \in 1 .. n + 1 : s = n + 1 \/ s \in 1 .. n
    OBVIOUS
  <2>8. SearchesInv'
    BY <1>3, <2>1, <2>3, <2>5, <2>6, <2>7 DEF SearchesInv
  <2>9. SearchingInv'
    <3>1. n + 1 \in 0 .. n + 1
      OBVIOUS
    <3> QED
      BY <1>3, <2>3, <2>5, <2>6, <2>7, <3>1 DEF SearchingInv
  <2>10. ResultsInv'
    <3>1. from # 0 => d[from].at = "shown" /\ d[from].cancelled
      BY <1>3, <1>5, <2>5
    <3>2. from \in 0 .. n + 1
      BY <1>5
    <3>3. searches'[from'] = d[from] /\ Len(searches') = n + 1
      BY <2>3, <2>5
    <3> QED
      BY <1>5, <2>3, <3>1, <3>2, <3>3 DEF ResultsInv
  <2> QED
    BY <2>8, <2>9, <2>10 DEF SearchInv
<1> QED
  BY <1>6, <1>7

\* A list goes on without sending.
LEMMA BecomesLemma ==
  ASSUME SearchInv, NEW s \in DOMAIN searches, NEW k \in Search!Lists,
         searches[s].lists[k].at \notin Search!Through,
         NEW l \in ListRecord, l.left \subseteq Search!Matches(k, searches[s].text),
         ~searches[s].cancelled =>
           /\ ListOK(l)
           /\ SentBy(l, k, searches[s].text)
                = SentBy(searches[s].lists[k], k, searches[s].text),
         Search!Becomes(s, k, l)
  PROVE  SearchInv'
<1>1. PICK x : x = searches[s]
  OBVIOUS
<1>2. SearchOK(x) /\ x \in SearchRecord
  BY <1>1 DEF SearchInv, SearchesInv, SearchOK
<1>3. x.at \notin {"queued", "shown"}
  BY <1>1, <1>2 DEF SearchOK, Search!Closed
<1>4. PICK y : y = [x EXCEPT !.lists[k] = l]
  OBVIOUS
<1>5. searches' = [searches EXCEPT ![s] = y]
  BY <1>1, <1>4 DEF Search!Becomes
<1>6. /\ y \in SearchRecord /\ y.text = x.text /\ y.cancelled = x.cancelled /\ y.at = x.at
      /\ y.got = x.got /\ y.channel = x.channel /\ y.lists[k] = l
      /\ \A j \in Search!Lists : j # k => y.lists[j] = x.lists[j]
  BY <1>2, <1>4 DEF SearchRecord
<1>7. ASSUME ~y.cancelled
      PROVE  Whole(y)
  <2>1. ~x.cancelled /\ Whole(x)
    BY <1>2, <1>6, <1>7 DEF SearchOK
  <2>2. \A j \in Search!Lists :
          ListOK(y.lists[j]) /\ SentBy(y.lists[j], j, y.text) = SentBy(x.lists[j], j, x.text)
    BY <1>1, <1>6, <2>1 DEF Whole
  <2>3. SentResults(y) = SentResults(x)
    BY <1>6, <2>2 DEF SentResults
  <2> QED
    BY <1>6, <2>1, <2>2, <2>3 DEF Whole, Carried
<1>8. SearchOK(y)
  <2>1. \A j \in Search!Lists : y.lists[j].left \subseteq Search!Matches(j, y.text)
    BY <1>1, <1>2, <1>6 DEF SearchOK
  <2> QED
    BY <1>2, <1>3, <1>6, <1>7, <2>1 DEF SearchOK
<1> QED
  BY <1>1, <1>3, <1>5, <1>6, <1>8, ChangeLemma DEF Search!Becomes

\* A list is read or not, or goes on after a match.
LEMMA ListSteps ==
  ASSUME SearchInv, NEW s \in DOMAIN searches, NEW k \in Search!Lists,
         Search!SearchList(s, k) \/ Search!ListFails(s, k) \/ Search!GoesOn(s, k)
  PROVE  SearchInv'
<1>1. PICK x : x = searches[s] /\ SearchOK(x) /\ x \in SearchRecord
  BY DEF SearchInv, SearchesInv, SearchOK
<1>2. Search!Matches(k, x.text) \subseteq UNION {DOMAIN Objects[j] : j \in Search!Lists}
  BY DEF Search!Matches
<1>3. /\ x.lists[k] \in ListRecord /\ (~x.cancelled => ListOK(x.lists[k]))
      /\ x.lists[k].left \subseteq Search!Matches(k, x.text)
  BY <1>1 DEF SearchOK, SearchRecord, Whole
<1>4. CASE Search!SearchList(s, k)
  <2>1. PICK l : l = Search!Looked(x, Search!Matches(k, x.text))
    OBVIOUS
  <2>2. /\ l.left = Search!Matches(k, x.text) /\ l.at \in {"done", "sends"}
        /\ l.at = "done" => x.cancelled \/ l.left = {}
        /\ l \in ListRecord
    BY <1>2, <2>1 DEF Search!Looked, ListRecord
  <2>3. x.lists[k].at = "asks" /\ Search!Becomes(s, k, l)
    BY <1>1, <1>4, <2>1 DEF Search!SearchList
  <2>4. ~x.cancelled => ListOK(l) /\ SentBy(l, k, x.text) = SentBy(x.lists[k], k, x.text)
    BY <2>2, <2>3 DEF ListOK, SentBy
  <2> QED
    BY <1>1, <1>3, <2>2, <2>3, <2>4, BecomesLemma DEF Search!Through
<1>5. CASE Search!ListFails(s, k)
  <2>1. PICK l : l = [at |-> "failed", left |-> {}]
    OBVIOUS
  <2>2. l \in ListRecord /\ l.left = {} /\ l.at = "failed"
    BY <2>1 DEF ListRecord
  <2>3. x.lists[k].at = "asks" /\ Search!Becomes(s, k, l)
    BY <1>1, <1>5, <2>1 DEF Search!ListFails
  <2>4. ~x.cancelled => ListOK(l) /\ SentBy(l, k, x.text) = SentBy(x.lists[k], k, x.text)
    BY <2>2, <2>3 DEF ListOK, SentBy
  <2> QED
    BY <1>1, <1>3, <2>2, <2>3, <2>4, BecomesLemma DEF Search!Through
<1>6. CASE Search!GoesOn(s, k)
  <2>1. PICK l : l = Search!Looked(x, x.lists[k].left)
    OBVIOUS
  <2>2. /\ l.left = x.lists[k].left /\ l.at \in {"done", "sends"}
        /\ l.at = "done" => x.cancelled \/ l.left = {}
        /\ l \in ListRecord
    BY <1>3, <2>1 DEF Search!Looked, ListRecord
  <2>3. x.lists[k].at = "looks" /\ Search!Becomes(s, k, l)
    BY <1>1, <1>6, <2>1 DEF Search!GoesOn
  <2>4. ~x.cancelled => ListOK(l) /\ SentBy(l, k, x.text) = SentBy(x.lists[k], k, x.text)
    BY <1>3, <2>2, <2>3 DEF ListOK, SentBy
  <2> QED
    BY <1>1, <1>3, <2>2, <2>3, <2>4, BecomesLemma DEF Search!Through
<1> QED
  BY <1>4, <1>5, <1>6

\* A match is sent once.
LEMMA SendStep ==
  ASSUME SearchInv, NEW s \in DOMAIN searches, NEW k \in Search!Lists, Search!SendsMatch(s, k)
  PROVE  SearchInv'
<1>1. PICK x : x = searches[s] /\ SearchOK(x) /\ x \in SearchRecord
  BY DEF SearchInv, SearchesInv, SearchOK
<1>2. PICK i \in x.lists[k].left :
        searches' = [searches EXCEPT ![s].channel = Append(x.channel, Search!Result(k, i, x.text)),
                       ![s].lists[k] = [at |-> "looks", left |-> x.lists[k].left \ {i}]]
  BY <1>1 DEF Search!SendsMatch
<1>3. /\ x.lists[k].at = "sends" /\ Len(x.channel) < ChanCap
      /\ UNCHANGED <<searching, results, from>>
  BY <1>1 DEF Search!SendsMatch
<1>4. x.at \notin {"queued", "shown"}
  BY <1>1, <1>3 DEF SearchOK, Search!Closed, Search!Through
<1>5. PICK r : r = Search!Result(k, i, x.text)
  OBVIOUS
<1>6. PICK l : l = [at |-> "looks", left |-> x.lists[k].left \ {i}]
  OBVIOUS
<1>7. PICK y : y = [[x EXCEPT !.channel = Append(x.channel, r)] EXCEPT !.lists[k] = l]
  OBVIOUS
<1>8. searches' = [searches EXCEPT ![s] = y]
  BY <1>1, <1>2, <1>5, <1>6, <1>7
<1>9. l \in ListRecord /\ l.left = x.lists[k].left \ {i} /\ l.at = "looks"
  BY <1>1, <1>6 DEF ListRecord, SearchRecord
<1>10. x.channel \in Seq(AllResults) /\ x.text \in Text /\ x.lists \in [Search!Lists -> ListRecord]
  BY <1>1 DEF SearchRecord
<1>11. i \in Search!Matches(k, x.text) /\ i \in DOMAIN Objects[k]
  BY <1>1, <1>2 DEF SearchOK, Search!Matches
<1>12. r \in AllResults
  <2>1. r \in {Search!Result(k, j, x.text) : j \in Search!Matches(k, x.text)}
    BY <1>5, <1>11
  <2>2. r \in UNION {{Search!Result(j, m, x.text) : m \in Search!Matches(j, x.text)} :
                        j \in Search!Lists}
    BY <2>1
  <2> QED
    BY <1>10, <2>2 DEF AllResults
<1>13. PICK channel : channel = Append(x.channel, r)
  OBVIOUS
<1>14. /\ channel \in Seq(AllResults) /\ Len(channel) <= ChanCap
       /\ Elements(channel) = Elements(x.channel) \cup {r}
       /\ Distinct(x.channel) /\ r \notin Elements(x.channel) => Distinct(channel)
  <2>1. PICK n \in Nat : n = Len(x.channel)
    BY <1>10, LenProperties
  <2>2. /\ channel \in Seq(AllResults) /\ Len(channel) = n + 1
        /\ channel[n + 1] = r /\ \A j \in 1 .. n : channel[j] = x.channel[j]
    BY <1>10, <1>12, <1>13, <2>1, AppendProperties
  <2>3. DOMAIN x.channel = 1 .. n /\ DOMAIN channel = 1 .. n + 1
    BY <1>10, <2>1, <2>2, LenProperties
  <2>4. \A j \in 1 .. n + 1 : j = n + 1 \/ j \in 1 .. n
    OBVIOUS
  <2>5. n + 1 <= ChanCap
    BY <1>3, <2>1, SearchAssumption
  <2> QED
    BY <2>2, <2>3, <2>4, <2>5 DEF Elements, Distinct
<1>15. /\ y.text = x.text /\ y.cancelled = x.cancelled /\ y.at = x.at
       /\ y.got = x.got /\ y.channel = channel /\ y.lists[k] = l
       /\ \A j \in Search!Lists : j # k => y.lists[j] = x.lists[j]
       /\ y \in SearchRecord
  BY <1>1, <1>7, <1>9, <1>13, <1>14 DEF SearchRecord
<1>16. \A j \in Search!Lists : y.lists[j].left \subseteq Search!Matches(j, y.text)
  BY <1>1, <1>9, <1>15 DEF SearchOK
<1>17. ASSUME ~y.cancelled
       PROVE  Whole(y)
  <2>1. Whole(x) /\ Carried(x)
    BY <1>1, <1>4, <1>15, <1>17 DEF SearchOK, Whole
  <2>2. \A j \in Search!Lists : ListOK(y.lists[j])
    BY <1>9, <1>15, <2>1 DEF Whole, ListOK
  <2>3. /\ SentBy(l, k, x.text) = SentBy(x.lists[k], k, x.text) \cup {i}
        /\ i \notin SentBy(x.lists[k], k, x.text)
    BY <1>2, <1>3, <1>9, <1>11 DEF SentBy
  <2>4. SentResults(y) = SentResults(x) \cup {r}
    BY <1>5, <1>15, <2>3 DEF SentResults
  <2>5. r \notin SentResults(x)
    <3> SUFFICES ASSUME NEW j \in Search!Lists, NEW m \in SentBy(x.lists[j], j, x.text),
                        r = Search!Result(j, m, x.text)
                 PROVE  FALSE
      BY DEF SentResults
    <3>1. m \in DOMAIN Objects[j]
      BY DEF SentBy, Search!Matches
    <3>2. Search!Result(j, m, x.text) = Search!Result(k, i, x.text)
      BY <1>5
    <3>3. j = k /\ m = i
      BY <1>11, <3>1, <3>2, ResultsDiffer
    <3> QED
      BY <2>3, <3>3
  <2>6. Carried(y)
    BY <1>14, <1>15, <2>1, <2>4, <2>5 DEF Carried
  <2> QED
    BY <1>15, <2>1, <2>2, <2>6 DEF Whole
<1>18. SearchOK(y)
  BY <1>4, <1>14, <1>15, <1>16, <1>17 DEF SearchOK
<1> QED
  BY <1>1, <1>3, <1>4, <1>8, <1>15, <1>18, ChangeLemma

\* What is taken out of the channel, if the search goes on.
LEMMA CollectStep ==
  ASSUME SearchInv, NEW s \in DOMAIN searches, Search!Collect(s)
  PROVE  SearchInv'
<1>1. PICK x : x = searches[s] /\ SearchOK(x) /\ x \in SearchRecord
  BY DEF SearchInv, SearchesInv, SearchOK
<1>2. /\ x.at = "collects" /\ x.channel # <<>> /\ UNCHANGED <<searching, results, from>>
  BY <1>1 DEF Search!Collect
<1>3. x.got \in Seq(AllResults) /\ x.channel \in Seq(AllResults)
  BY <1>1 DEF SearchRecord
<1>4. CASE x.cancelled
  <2>1. PICK y : y = Search!Leaves(x)
    OBVIOUS
  <2>2. searches' = [searches EXCEPT ![s] = y]
    BY <1>1, <1>4, <2>1 DEF Search!Collect
  <2>3. <<>> \in Seq(AllResults) /\ Len(<<>>) = 0
    BY EmptySeq
  <2>4. /\ y \in SearchRecord /\ y.at = "left" /\ y.cancelled = x.cancelled /\ y.channel = <<>>
        /\ \A k \in Search!Lists : y.lists[k].left = {}
    <3>1. [k \in Search!Lists |-> [at |-> "done", left |-> {}]] \in [Search!Lists -> ListRecord]
      BY DEF ListRecord
    <3> QED
      BY <1>1, <2>1, <2>3, <3>1 DEF SearchRecord, Search!Leaves
  <2>5. SearchOK(y)
    BY <1>4, <2>3, <2>4, SearchAssumption DEF SearchOK
  <2> QED
    BY <1>1, <1>2, <2>2, <2>4, <2>5, ChangeLemma
<1>5. CASE ~x.cancelled
  <2>1. PICK r : r = Head(x.channel)
    OBVIOUS
  <2>2. PICK got, channel : got = Append(x.got, r) /\ channel = Tail(x.channel)
    OBVIOUS
  <2>3. PICK y : y = [x EXCEPT !.channel = channel, !.got = got]
    OBVIOUS
  <2>4. searches' = [searches EXCEPT ![s] = y]
    BY <1>1, <1>5, <2>1, <2>2, <2>3 DEF Search!Collect
  <2>5. PICK n \in Nat, m \in Nat : n = Len(x.got) /\ m = Len(x.channel)
    BY <1>3, LenProperties
  <2>6. /\ m # 0 /\ r = x.channel[1] /\ r \in AllResults
        /\ channel \in Seq(AllResults) /\ Len(channel) = m - 1
        /\ \A j \in 1 .. m - 1 : channel[j] = x.channel[j + 1]
    BY <1>2, <1>3, <2>1, <2>2, <2>5, HeadTailProperties, EmptySeq, ElementOfSeq
  <2>7. /\ got \in Seq(AllResults) /\ Len(got) = n + 1
        /\ got[n + 1] = r /\ \A j \in 1 .. n : got[j] = x.got[j]
    BY <1>3, <2>2, <2>5, <2>6, AppendProperties
  <2>8. /\ DOMAIN x.channel = 1 .. m /\ DOMAIN channel = 1 .. m - 1
        /\ DOMAIN x.got = 1 .. n /\ DOMAIN got = 1 .. n + 1
    BY <1>3, <2>5, <2>6, <2>7, LenProperties
  <2>9. \A j \in 1 .. n + 1 : j = n + 1 \/ j \in 1 .. n
    OBVIOUS
  <2>10. \A j \in 1 .. m : j = 1 \/ (j - 1 \in 1 .. m - 1 /\ (j - 1) + 1 = j)
    OBVIOUS
  <2>11. \A j \in 1 .. m - 1 : j + 1 \in 1 .. m /\ j + 1 # 1
    OBVIOUS
  <2>12. 1 \in 1 .. m
    BY <2>6
  <2>13. Elements(x.channel) = Elements(channel) \cup {r}
    <3>1. ASSUME NEW j \in 1 .. m
          PROVE  x.channel[j] \in Elements(channel) \cup {r}
      <4>1. CASE j = 1
        BY <2>6, <4>1
      <4>2. CASE j # 1
        <5>1. PICK i \in 1 .. m - 1 : i + 1 = j
          BY <2>10, <4>2
        <5>2. channel[i] = x.channel[j]
          BY <2>6, <5>1
        <5> QED
          BY <2>8, <5>2 DEF Elements
      <4> QED
        BY <4>1, <4>2
    <3>2. ASSUME NEW j \in 1 .. m - 1
          PROVE  channel[j] \in Elements(x.channel)
      BY <2>6, <2>8, <2>11 DEF Elements
    <3>3. r \in Elements(x.channel)
      BY <2>6, <2>8, <2>12 DEF Elements
    <3> QED
      BY <2>8, <3>1, <3>2, <3>3 DEF Elements
  <2>14. Distinct(x.channel) => Distinct(channel) /\ r \notin Elements(channel)
    <3> SUFFICES ASSUME Distinct(x.channel)
                 PROVE  Distinct(channel) /\ r \notin Elements(channel)
      OBVIOUS
    <3>1. ASSUME NEW i \in 1 .. m - 1, NEW j \in 1 .. m - 1, i # j
          PROVE  channel[i] # channel[j]
      <4>1. i + 1 \in 1 .. m /\ j + 1 \in 1 .. m /\ i + 1 # j + 1
        BY <3>1
      <4> QED
        BY <2>6, <2>8, <4>1 DEF Distinct
    <3>2. \A j \in 1 .. m - 1 : channel[j] # r
      BY <2>6, <2>8, <2>11, <2>12 DEF Distinct
    <3> QED
      BY <2>8, <3>1, <3>2 DEF Distinct, Elements
  <2>15. Elements(got) = Elements(x.got) \cup {r}
    <3>1. ASSUME NEW j \in 1 .. n + 1
          PROVE  got[j] \in Elements(x.got) \cup {r}
      BY <2>7, <2>8, <2>9 DEF Elements
    <3>2. ASSUME NEW j \in 1 .. n
          PROVE  x.got[j] \in Elements(got)
      <4>1. j \in 1 .. n + 1
        OBVIOUS
      <4> QED
        BY <2>7, <2>8, <4>1 DEF Elements
    <3>3. r \in Elements(got)
      <4>1. n + 1 \in 1 .. n + 1
        OBVIOUS
      <4> QED
        BY <2>7, <2>8, <4>1 DEF Elements
    <3> QED
      BY <2>8, <3>1, <3>2, <3>3 DEF Elements
  <2>16. Distinct(x.got) /\ r \notin Elements(x.got) => Distinct(got)
    BY <2>7, <2>8, <2>9 DEF Elements, Distinct
  <2>17. /\ y.text = x.text /\ y.cancelled = x.cancelled /\ y.at = x.at
         /\ y.got = got /\ y.channel = channel /\ y.lists = x.lists
         /\ y \in SearchRecord
    BY <1>1, <2>3, <2>6, <2>7 DEF SearchRecord
  <2>18. Whole(y)
    <3>1. Whole(x) /\ Carried(x)
      BY <1>1, <1>2, <1>5 DEF SearchOK, Whole
    <3>2. SentResults(y) = SentResults(x)
      BY <2>17 DEF SentResults
    <3>3. Carried(y)
      BY <2>13, <2>14, <2>15, <2>16, <2>17, <3>1, <3>2 DEF Carried
    <3> QED
      BY <2>17, <3>1, <3>3 DEF Whole
  <2>19. Len(channel) <= ChanCap
    <3>1. m <= ChanCap
      BY <1>1, <2>5 DEF SearchOK
    <3> QED
      BY <2>6, <3>1, SearchAssumption
  <2>20. SearchOK(y)
    BY <1>1, <1>2, <2>17, <2>18, <2>19 DEF SearchOK
  <2> QED
    BY <1>1, <1>2, <2>4, <2>17, <2>20, ChangeLemma
<1> QED
  BY <1>4, <1>5

\* The channel is empty and closed.
LEMMA CollectEndsStep ==
  ASSUME SearchInv, NEW s \in DOMAIN searches, Search!CollectEnds(s)
  PROVE  SearchInv'
<1>1. PICK x : x = searches[s] /\ SearchOK(x) /\ x \in SearchRecord
  BY DEF SearchInv, SearchesInv, SearchOK
<1>2. /\ x.at = "collects" /\ x.channel = <<>> /\ Search!Closed(x)
      /\ UNCHANGED <<searching, results, from>>
  BY <1>1 DEF Search!CollectEnds
<1>3. PICK y : y = [x EXCEPT !.at = "queued"]
  OBVIOUS
<1>4. searches' = [searches EXCEPT ![s] = y]
  BY <1>1, <1>3 DEF Search!CollectEnds
<1>5. /\ y.text = x.text /\ y.cancelled = x.cancelled /\ y.at = "queued"
      /\ y.got = x.got /\ y.channel = x.channel /\ y.lists = x.lists
      /\ y \in SearchRecord
  BY <1>1, <1>3 DEF SearchRecord
<1>6. SentResults(y) = SentResults(x) /\ Search!Closed(y)
  BY <1>2, <1>5 DEF SentResults, Search!Closed
<1>7. SearchOK(y)
  BY <1>1, <1>2, <1>5, <1>6 DEF SearchOK, Whole, Carried
<1> QED
  BY <1>1, <1>2, <1>4, <1>5, <1>7, ChangeLemma

\* The results are sorted and shown.
LEMMA UpdateStep ==
  ASSUME SearchInv, NEW s \in DOMAIN searches, Search!UpdateResultsList(s)
  PROVE  SearchInv'
<1>1. PICK x : x = searches[s] /\ SearchOK(x) /\ x \in SearchRecord
  BY DEF SearchInv, SearchesInv, SearchOK
<1>2. PICK n \in Nat : n = Len(searches) /\ DOMAIN searches = 1 .. n
  BY LenProperties DEF SearchInv, SearchesInv
<1>3. x.at = "queued" /\ x.channel = <<>> /\ Search!Closed(x)
  BY <1>1 DEF SearchOK, Search!UpdateResultsList
<1>4. PICK found : found = Search!SortResultsByScore(x.got)
  OBVIOUS
<1>5. results' = found /\ from' = s /\ searching' = searching
  BY <1>1, <1>4 DEF Search!UpdateResultsList
<1>6. /\ found \in Seq(AllResults) /\ SameResults(x.got, found)
      /\ BestUpTo(found, Len(found))
  <2>1. x.got \in Seq(AllResults)
    BY <1>1 DEF SearchRecord
  <2> QED
    BY <1>4, <2>1, SortLemma, ResultsAreScored
<1>7. PICK y : y = [[x EXCEPT !.at = "shown"] EXCEPT !.got = <<>>]
  OBVIOUS
<1>8. searches' = [searches EXCEPT ![s] = y]
  BY <1>1, <1>7 DEF Search!UpdateResultsList
<1>9. /\ y.text = x.text /\ y.cancelled = x.cancelled /\ y.at = "shown"
      /\ y.channel = x.channel /\ y.lists = x.lists /\ y \in SearchRecord
  <2>1. <<>> \in Seq(AllResults)
    BY EmptySeq
  <2> QED
    BY <1>1, <1>7, <2>1 DEF SearchRecord
<1>10. SentResults(y) = SentResults(x) /\ Search!Closed(y)
  BY <1>3, <1>9 DEF SentResults, Search!Closed
<1>11. SearchOK(y)
  BY <1>1, <1>3, <1>9, <1>10 DEF SearchOK, Whole
<1>12. ~y.cancelled => Answered(found, y)
  <2> SUFFICES ASSUME ~x.cancelled
               PROVE  Answered(found, y)
    BY <1>9
  <2>1. Carried(x)
    BY <1>1, <1>3 DEF SearchOK, Whole
  <2>2. Elements(x.channel) = {}
    BY <1>3, EmptySeq DEF Elements
  <2> QED
    BY <1>6, <1>10, <2>1, <2>2 DEF Answered, Carried, SameResults
<1>13. searches \in Seq(SearchRecord) /\ y \in SearchRecord
  BY <1>9 DEF SearchInv, SearchesInv
<1>14. /\ searches' \in Seq(SearchRecord) /\ Len(searches') = n
       /\ searches'[s] = y /\ \A r \in DOMAIN searches : r # s => searches'[r] = searches[r]
  BY <1>2, <1>8, <1>13, ExceptSeq
<1>15. DOMAIN searches' = 1 .. n
  BY <1>14, LenProperties
<1>16. SearchesInv'
  BY <1>2, <1>11, <1>14, <1>15 DEF SearchInv, SearchesInv
<1>17. SearchingInv'
  BY <1>1, <1>2, <1>5, <1>9, <1>14, <1>15 DEF SearchInv, SearchingInv
<1>18. ResultsInv'
  <2>1. s \in 0 .. n
    BY <1>2
  <2>2. searches'[from'] = y
    BY <1>5, <1>14
  <2> QED
    BY <1>5, <1>6, <1>9, <1>12, <1>14, <2>1, <2>2 DEF ResultsInv
<1> QED
  BY <1>16, <1>17, <1>18 DEF SearchInv

\* No step of a search loses or repeats a result.
LEMMA SearchSteps ==
  ASSUME SearchInv, Search!SearchNext
  PROVE  SearchInv'
<1>1. CASE Search!ClearResults \/ Search!Close \/ \E t \in Text : Search!OnSearchChange(t)
  BY <1>1, FieldSteps
<1>2. ASSUME NEW s \in DOMAIN searches, Search!Collector(s)
      PROVE  SearchInv'
  BY <1>2, CollectStep, CollectEndsStep, UpdateStep DEF Search!Collector
<1>3. ASSUME NEW s \in DOMAIN searches, NEW k \in Search!Lists, Search!List(s, k)
      PROVE  SearchInv'
  BY <1>3, ListSteps, SendStep DEF Search!List
<1> QED
  BY <1>1, <1>2, <1>3 DEF Search!SearchNext, Search!Goroutine

\* The objects of list k that hold text t in some field.
Held(k, t) ==
  {i \in DOMAIN Objects[k] : \E f \in Search!Fields[k] : t \in Objects[k][i].holds[f]}

\* The names of objects of list k.
Named(k, objects) == {Objects[k][i].name : i \in objects}

\* The results are those of search x and there are no others.
Complete(x) ==
  /\ {results[i].name : i \in DOMAIN results} =
       UNION {Named(k, Held(k, x.text)) : k \in {l \in Search!Lists : x.lists[l].at = "done"}}
  /\ \A i, j \in DOMAIN results :
       i < j => results[i] # results[j] /\ results[i].score >= results[j].score

\* When a search is through, what its lists have sent is what holds its text.
LEMMA AnsweredIsComplete ==
  ASSUME SearchInv, from # 0, ~searches[from].cancelled
  PROVE  Complete(searches[from])
<1>1. PICK x : x = searches[from]
  OBVIOUS
<1>2. SearchOK(x) /\ x.at = "shown" /\ Answered(results, x) /\ results \in Seq(AllResults)
  <2>1. from \in DOMAIN searches
    BY LenProperties DEF SearchInv, SearchesInv, ResultsInv
  <2> QED
    BY <1>1, <2>1 DEF SearchInv, SearchesInv, ResultsInv
<1>3. Search!Closed(x) /\ Whole(x)
  BY <1>1, <1>2 DEF SearchOK
<1>4. ASSUME NEW k \in Search!Lists
      PROVE  SentBy(x.lists[k], k, x.text) =
               IF x.lists[k].at = "done" THEN Held(k, x.text) ELSE {}
  <2>1. x.lists[k].at \in {"done", "failed"}
    BY <1>3 DEF Search!Closed, Search!Through
  <2>2. CASE x.lists[k].at = "failed"
    BY <2>2 DEF SentBy
  <2>3. CASE x.lists[k].at = "done"
    <3>1. x.lists[k].left = {}
      BY <1>3, <2>3 DEF Whole, ListOK
    <3>2. SentBy(x.lists[k], k, x.text) = Search!Matches(k, x.text)
      BY <2>3, <3>1 DEF SentBy
    <3>3. \A i : Search!Result(k, i, x.text).score = Search!ScoreOf(k, Objects[k][i].holds, x.text)
      BY DEF Search!Result
    <3>4. k \in DOMAIN Search!Fields
      BY SearchAssumption DEF Search!Lists
    <3>5. \A i : Search!ScoreOf(k, Objects[k][i].holds, x.text) > 0
                   <=> \E f \in Search!Fields[k] : x.text \in Objects[k][i].holds[f]
      BY <3>4, ScoreLemma
    <3> QED
      BY <2>3, <3>2, <3>3, <3>5 DEF Search!Matches, Held
  <2> QED
    BY <2>1, <2>2, <2>3
<1>5. {results[i].name : i \in DOMAIN results} = {r.name : r \in SentResults(x)}
  BY <1>2 DEF Answered, Elements
<1>6. \A k, i : Search!Result(k, i, x.text).name = Objects[k][i].name
  BY DEF Search!Result
<1>7. {r.name : r \in SentResults(x)} =
        UNION {Named(k, SentBy(x.lists[k], k, x.text)) : k \in Search!Lists}
  BY <1>6 DEF SentResults, Named
<1>8. \A i, j \in DOMAIN results :
        i < j => results[i] # results[j] /\ results[i].score >= results[j].score
  <2>1. DOMAIN results = 1 .. Len(results) /\ Len(results) \in Nat
    BY <1>2, LenProperties
  <2>2. \A i, j \in DOMAIN results : i < j => i # j /\ i <= Len(results)
    BY <2>1
  <2> QED
    BY <1>2, <2>2 DEF Answered, Distinct, BestUpTo
<1>9. UNION {Named(k, SentBy(x.lists[k], k, x.text)) : k \in Search!Lists} =
        UNION {Named(k, Held(k, x.text)) : k \in {l \in Search!Lists : x.lists[l].at = "done"}}
  <2>1. \A k \in Search!Lists :
          Named(k, SentBy(x.lists[k], k, x.text)) =
            IF x.lists[k].at = "done" THEN Named(k, Held(k, x.text)) ELSE {}
    BY <1>4 DEF Named
  <2> QED
    BY <2>1
<1> QED
  BY <1>1, <1>5, <1>7, <1>8, <1>9 DEF Complete

\* The searches keep their invariant.
LEMMA SearchInvariance == Spec => []SearchInv
<1>1. Init => SearchInv
  <2> SUFFICES ASSUME Init
               PROVE  SearchInv
    OBVIOUS
  <2>1. searches = <<>> /\ searching = 0 /\ results = <<>> /\ from = 0
    BY DEF Init, Search!Init
  <2>2. /\ <<>> \in Seq(SearchRecord) /\ <<>> \in Seq(AllResults) /\ Len(<<>>) = 0
        /\ DOMAIN <<>> = {}
    BY EmptySeq
  <2> QED
    BY <2>1, <2>2 DEF SearchInv, SearchesInv, SearchingInv, ResultsInv
<1>2. SearchInv /\ [Next]_vars => SearchInv'
  <2> SUFFICES ASSUME SearchInv, [Next]_vars
               PROVE  SearchInv'
    OBVIOUS
  <2>1. CASE SearchStep
    BY <2>1, SearchSteps DEF SearchStep
  <2>2. CASE UNCHANGED searchVars
    BY <2>2 DEF searchVars, SearchInv, SearchesInv, SearchingInv, ResultsInv
  <2> QED
    BY <2>1, <2>2 DEF Next, RingStep, WizardStep, NodesStep, HealthStep, vars
<1> QED
  BY <1>1, <1>2, PTL DEF Spec

\* What the results show is all that the text is in, once, and the best first.
THEOREM ResultsAreComplete == Spec => []ShownIsComplete
<1>1. SearchInv => ShownIsComplete
  BY AnsweredIsComplete DEF ShownIsComplete, Search!ShownIsComplete, Complete, Held, Named
<1> QED
  BY <1>1, SearchInvariance, PTL

-----------------------------------------------------------------------------
(***************************************************************************)
(* The nodes view.                                                         *)
(***************************************************************************)

\* A set of numbers that is not empty has a least.
LEMMA LeastOfSet ==
  ASSUME NEW S, S \subseteq Nat, S # {}
  PROVE  \E x \in S : \A y \in S : x <= y
<1> DEFINE R == OpToRel(<, Nat)
<1>1. IsWellFoundedOn(R, Nat)
  BY NatLessThanWellFounded
<1>2. R = {p \in Nat \X Nat : p[1] < p[2]}
  BY DEF OpToRel
<1> HIDE DEF R
<1>3. PICK x \in S : \A y \in S : ~(<<y, x>> \in R)
  BY <1>1, WFMin
<1>4. \A y \in S : x <= y
  <2> SUFFICES ASSUME NEW y \in S
               PROVE  x <= y
    OBVIOUS
  <2>1. <<y, x>> \notin R /\ x \in Nat /\ y \in Nat
    BY <1>3
  <2>2. ~(y < x)
    BY <1>2, <2>1
  <2> QED
    BY <2>1, <2>2
<1> QED
  BY <1>4

\* RemoveAt leaves the others in their order.
LEMMA RemoveAtLemma ==
  ASSUME NEW S, NEW s \in Seq(S), NEW i \in 1 .. Len(s)
  PROVE  LET r == NodeList!RemoveAt(s, i)
         IN /\ r \in Seq(S) /\ Len(r) = Len(s) - 1
            /\ \A k \in 1 .. Len(s) - 1 : r[k] = IF k < i THEN s[k] ELSE s[k + 1]
<1> DEFINE a == SubSeq(s, 1, i - 1)
           b == SubSeq(s, i + 1, Len(s))
<1>1. PICK n \in Nat : n = Len(s) /\ i \in 1 .. n
  BY LenProperties
<1>2. \A k \in 1 .. n : s[k] \in S
  BY <1>1, ElementOfSeq
<1>3. a \in Seq(S) /\ Len(a) = i - 1 /\ \A k \in 1 .. i - 1 : a[k] = s[k]
  <2>1. CASE i = 1
    <3>1. a = <<>>
      BY <2>1, SubSeqEmpty
    <3> QED
      BY <2>1, <3>1, EmptySeq
  <2>2. CASE i # 1
    <3>1. 1 <= i - 1 /\ 1 \in Int /\ i - 1 \in Int
      BY <1>1, <2>2
    <3>2. \A k \in 1 .. i - 1 : s[k] \in S
      BY <1>1, <1>2
    <3>3. a \in Seq(S) /\ Len(a) = (i - 1) - 1 + 1 
          /\ \A k \in 1 .. (i - 1) - 1 + 1 : a[k] = s[1 + k - 1]
      BY <3>1, <3>2, SubSeqProperties
    <3>4. (i - 1) - 1 + 1 = i - 1
      BY <1>1
    <3>5. \A k \in 1 .. i - 1 : 1 + k - 1 = k
      BY <1>1
    <3> HIDE DEF a
    <3> QED
      BY <3>3, <3>4, <3>5
  <2> QED
    BY <2>1, <2>2
<1>4. b \in Seq(S) /\ Len(b) = n - i /\ \A k \in 1 .. n - i : b[k] = s[k + i]
  <2>1. CASE i = n
    <3>1. b = <<>>
      BY <1>1, <2>1, SubSeqEmpty
    <3> QED
      BY <2>1, <1>1, <3>1, EmptySeq
  <2>2. CASE i # n
    <3>1. i + 1 <= n /\ i + 1 \in Int /\ n \in Int
      BY <1>1, <2>2
    <3>2. \A k \in i + 1 .. n : s[k] \in S
      BY <1>1, <1>2
    <3>3. b \in Seq(S) /\ Len(b) = n - (i + 1) + 1
          /\ \A k \in 1 .. n - (i + 1) + 1 : b[k] = s[(i + 1) + k - 1]
      BY <1>1, <3>1, <3>2, SubSeqProperties
    <3>4. n - (i + 1) + 1 = n - i
      BY <1>1
    <3>5. \A k \in 1 .. n - i : (i + 1) + k - 1 = k + i
      BY <1>1
    <3> HIDE DEF b
    <3> QED
      BY <3>3, <3>4, <3>5
  <2> QED
    BY <2>1, <2>2
<1> HIDE DEF a, b
<1>5. (i - 1) + (n - i) = n - 1
  BY <1>1
<1>6. /\ a \o b \in Seq(S) /\ Len(a \o b) = n - 1
      /\ \A k \in 1 .. n - 1 : (a \o b)[k] = IF k <= i - 1 THEN a[k] ELSE b[k - (i - 1)]
  BY <1>3, <1>4, <1>5, ConcatProperties
<1>7. ASSUME NEW k \in 1 .. n - 1
      PROVE  (a \o b)[k] = IF k < i THEN s[k] ELSE s[k + 1]
  <2>1. CASE k < i
    <3>1. k <= i - 1 /\ k \in 1 .. i - 1
      BY <1>1, <2>1
    <3> QED
      BY <1>3, <1>6, <2>1, <3>1
  <2>2. CASE ~(k < i)
    <3>1. ~(k <= i - 1) /\ k - (i - 1) \in 1 .. n - i /\ k - (i - 1) + i = k + 1
      BY <1>1, <2>2
    <3>2. (a \o b)[k] = b[k - (i - 1)] /\ b[k - (i - 1)] = s[k + 1]
      BY <1>4, <1>6, <3>1
    <3> QED
      BY <2>2, <3>2
  <2> QED
    BY <2>1, <2>2
<1>8. NodeList!RemoveAt(s, i) = a \o b
  BY DEF NodeList!RemoveAt, a, b
<1> QED
  BY <1>1, <1>6, <1>7, <1>8

\* What is removed where a test holds is the first.
LEMMA FirstLemma ==
  ASSUME NEW n \in Nat, NEW I, I \subseteq 1 .. n, I # {}
  PROVE  NodeList!Min(I) \in I
<1>1. \E x \in I : \A y \in I : x <= y
  <2>1. I \subseteq Nat
    OBVIOUS
  <2> QED
    BY <2>1, LeastOfSet
<1> QED
  BY <1>1 DEF NodeList!Min

\* The dialogs there are.  No two have the same name.
Page == [name : NodeList!Closes \cup {"progress"}, node : {0} \cup NodeList!Node]
PagesOK(stack) ==
  /\ stack \in Seq(Page)
  /\ \A i, j \in DOMAIN stack : stack[i].name = stack[j].name => i = j
Names(stack) == {stack[i].name : i \in DOMAIN stack}

\* RemovePage takes the page of a name away and leaves the others.
LEMMA RemovePageLemma ==
  ASSUME NEW stack, PagesOK(stack), NEW name
  PROVE  LET r == NodeList!RemovePage(stack, name)
         IN PagesOK(r) /\ Names(r) \subseteq Names(stack) \ {name}
<1> DEFINE I == {i \in 1 .. Len(stack) : stack[i].name = name}
           r == NodeList!RemovePage(stack, name)
<1>1. /\ stack \in Seq(Page) /\ Len(stack) \in Nat /\ DOMAIN stack = 1 .. Len(stack)
      /\ \A i, j \in DOMAIN stack : stack[i].name = stack[j].name => i = j
  BY LenProperties DEF PagesOK
<1>2. r = IF I # {} THEN NodeList!RemoveAt(stack, NodeList!Min(I)) ELSE stack
  BY DEF NodeList!RemovePage, NodeList!RemoveFirstMatch, NodeList!SelectInSeq
<1>3. CASE I = {}
  BY <1>1, <1>2, <1>3 DEF PagesOK, Names
<1>4. CASE I # {}
  <2>1. PICK m \in 1 .. Len(stack) : m = NodeList!Min(I) /\ stack[m].name = name
    <3>1. NodeList!Min(I) \in I
      BY <1>1, <1>4, FirstLemma
    <3> QED
      BY <3>1
  <2>2. r = NodeList!RemoveAt(stack, m)
    BY <1>2, <1>4, <2>1
  <2> HIDE DEF r, I
  <2>3. /\ r \in Seq(Page) /\ Len(r) = Len(stack) - 1
        /\ \A k \in 1 .. Len(stack) - 1 : r[k] = IF k < m THEN stack[k] ELSE stack[k + 1]
    BY <1>1, <2>1, <2>2, RemoveAtLemma
  <2>4. DOMAIN r = 1 .. Len(stack) - 1
    BY <2>3, LenProperties
  <2>5. PICK n \in Nat : n = Len(stack)
    BY <1>1
  <2> DEFINE old(k) == IF k < m THEN k ELSE k + 1
  <2>6. \A k \in 1 .. n - 1 : old(k) \in 1 .. n /\ old(k) # m
    BY <2>1, <2>5
  <2>7. \A k, l \in 1 .. n - 1 : old(k) = old(l) => k = l
    BY <2>1, <2>5
  <2>8. \A k \in 1 .. n - 1 : r[k] = stack[old(k)]
    BY <2>3, <2>5
  <2> HIDE DEF old
  <2>9. Names(r) \subseteq Names(stack) \ {name}
    BY <1>1, <2>1, <2>4, <2>5, <2>6, <2>8 DEF Names
  <2>10. \A k, l \in DOMAIN r : r[k].name = r[l].name => k = l
    BY <1>1, <2>4, <2>5, <2>6, <2>7, <2>8
  <2> QED
    BY <2>3, <2>9, <2>10 DEF PagesOK, r
<1> QED
  BY <1>3, <1>4

\* AddPage puts a page in front, in place of the one of its name.
LEMMA AddPageLemma ==
  ASSUME NEW stack, PagesOK(stack), NEW name \in NodeList!Closes \cup {"progress"},
         NEW node \in {0} \cup NodeList!Node
  PROVE  LET a == NodeList!AddPage(stack, name, node)
         IN PagesOK(a) /\ Names(a) \subseteq Names(stack) \cup {name}
<1> DEFINE r == NodeList!RemovePage(stack, name)
           p == [name |-> name, node |-> node]
           a == Append(r, p)
<1>1. PagesOK(r) /\ Names(r) \subseteq Names(stack) \ {name}
  BY RemovePageLemma
<1>2. p \in Page /\ p.name = name
  BY DEF Page
<1>3. NodeList!AddPage(stack, name, node) = a
  BY DEF NodeList!AddPage
<1> HIDE DEF r, p
<1>4. PICK n \in Nat : n = Len(r) /\ DOMAIN r = 1 .. n
  BY <1>1, LenProperties DEF PagesOK
<1>5. /\ a \in Seq(Page) /\ Len(a) = n + 1 /\ a[n + 1] = p
      /\ \A i \in 1 .. n : a[i] = r[i]
  BY <1>1, <1>2, <1>4, AppendProperties DEF PagesOK
<1>6. DOMAIN a = 1 .. n + 1
  BY <1>5, LenProperties
<1> HIDE DEF a
<1>7. \A i \in DOMAIN a : i \in 1 .. n \/ i = n + 1
  BY <1>6
<1>8. \A i, j \in DOMAIN a : a[i].name = a[j].name => i = j
  BY <1>1, <1>2, <1>4, <1>5, <1>7 DEF PagesOK, Names
<1>9. Names(a) \subseteq Names(stack) \cup {name}
  BY <1>1, <1>2, <1>4, <1>5, <1>7 DEF Names
<1> QED
  BY <1>3, <1>5, <1>8, <1>9 DEF PagesOK

-----------------------------------------------------------------------------

\* Lists of nodes, and the keys under which they are cached.
Host == [state : NodeList!NodeState, reason : NodeList!Reason]
Lists == UNION {[M -> Host] : M \in SUBSET NodeList!Node}
Key == Seq(NodeList!Toggled) \X NodeList!Wanted
Entry == [key : Key, data : Lists]

\* Without takes away at most one entry.
LEMMA WithoutLemma ==
  ASSUME NEW s \in Seq(Entry), NEW key
  PROVE  NodeList!Cache!Without(s, key) \in Seq(Entry)
<1> DEFINE I == {i \in 1 .. Len(s) : s[i].key = key}
           r == NodeList!Cache!Without(s, key)
           first == NodeList!Cache!Min(I)
<1>1. r = IF I # {} THEN NodeList!Cache!RemoveAt(s, first) ELSE s
  BY DEF NodeList!Cache!Without, NodeList!Cache!RemoveFirstMatch, NodeList!Cache!SelectInSeq
<1>2. CASE I = {}
  BY <1>1, <1>2
<1>3. CASE I # {}
  <2>1. NodeList!Min(I) \in I
    BY <1>3, FirstLemma, LenProperties
  <2>2. first = NodeList!Min(I)
    BY DEF NodeList!Min, NodeList!Cache!Min
  <2>3. first \in 1 .. Len(s)
    BY <2>1, <2>2
  <2>4. NodeList!Cache!RemoveAt(s, first) = NodeList!RemoveAt(s, first)
    BY DEF NodeList!Cache!RemoveAt, NodeList!RemoveAt
  <2> QED
    BY <1>1, <1>3, <2>3, <2>4, RemoveAtLemma
<1> QED
  BY <1>2, <1>3

\* What is read from the cache was stored there, and what is stored are lists.
LEMMA CacheLemma ==
  ASSUME NEW s \in Seq(Entry), NEW key \in Key, NEW list \in Lists
  PROVE  /\ NodeList!Cache!Has(s, key) => NodeList!Cache!Get(s, key) \in Lists
         /\ NodeList!Cache!Set(s, key, list, MaxSize) \in Seq(Entry)
         /\ NodeList!Cache!Expire(s, key) \in Seq(Entry)
<1>1. Len(s) \in Nat /\ \A i \in 1 .. Len(s) : s[i] \in Entry
  BY LenProperties, ElementOfSeq
<1>2. NodeList!Cache!Has(s, key) => NodeList!Cache!Get(s, key) \in Lists
  BY <1>1 DEF NodeList!Cache!Has, NodeList!Cache!Get, Entry
<1>3. NodeList!Cache!Set(s, key, list, MaxSize) \in Seq(Entry)
  <2> DEFINE kept == IF Len(s) >= MaxSize THEN Tail(s) ELSE s
  <2>1. kept \in Seq(Entry)
    <3>1. CASE Len(s) >= MaxSize
      <4>1. s # <<>>
        BY <3>1, NodesAssumption, EmptySeq
      <4> QED
        BY <3>1, <4>1, HeadTailProperties
    <3> QED
      BY <3>1
  <2>2. [key |-> key, data |-> list] \in Entry
    BY DEF Entry
  <2>3. NodeList!Cache!Set(s, key, list, MaxSize)
          = Append(NodeList!Cache!Without(kept, key), [key |-> key, data |-> list])
    BY DEF NodeList!Cache!Set, NodeList!Cache!EvictOldest
  <2> HIDE DEF kept
  <2> QED
    BY <2>1, <2>2, <2>3, WithoutLemma, AppendProperties
<1>4. NodeList!Cache!Expire(s, key) \in Seq(Entry)
  BY WithoutLemma DEF NodeList!Cache!Expire
<1> QED
  BY <1>2, <1>3, <1>4

-----------------------------------------------------------------------------

\* A refresh, from the request to the list.
Fetch ==
  [phase : {"idle", "started", "reading", "read", "got"}, len : 0 .. 2,
   copy : Seq(NodeList!Toggled), own : BOOLEAN, wanted : NodeList!Wanted,
   key : Key \cup {<<>>}, list : Lists]

\* A goroutine of an operation.
Task ==
  [op : {"drain", "resume", "details", "test", "info"}, node : {0} \cup NodeList!Node,
   phase : {"begins", "closed", "calling", "answered"}, ok : BOOLEAN]

\* What is read from the cluster, kept and shown are lists of its nodes.
ListsOK ==
  /\ hosts \in [NodeList!Node -> Host]
  /\ entries \in Seq(Entry) /\ nodes \in Lists
  /\ fetch \in Fetch /\ (fetch.phase \in {"reading", "read"} => fetch.key \in Key)

\* The slice of the filter by state holds no state twice.
FilterOK ==
  /\ array \in Seq(NodeList!Toggled) /\ used \in 0 .. Len(array)
  /\ \A i, j \in 1 .. used : i # j => array[i] # array[j]

\* The slice that a refresh was handed lies in the array, or in one it has for
\* itself.
ReadsOK == fetch.own \/ fetch.len <= Len(array)

\* What the table shows, and how.
LookOK ==
  /\ partFilter \in NodeList!Wanted /\ groupBy \in NodeList!Grouping
  /\ sorted => groupBy = "none"
  /\ \A row \in rows : row.id \in {0} \cup NodeList!Node

\* While the user is asked by what to sort, nothing is grouped, and no dialog
\* asks for groups.
SortAlone == "sort-by" \in Names(pages) => groupBy = "none" /\ "group-by" \notin Names(pages)

\* The goroutines and the keys.
TasksOK ==
  /\ tasks \in Seq(Task) /\ Len(tasks) <= MaxTasks
  /\ keys \in 0 .. MaxKeys

\* The inductive invariant of the nodes view.
NodesInv == ListsOK /\ FilterOK /\ ReadsOK /\ LookOK /\ PagesOK(pages) /\ SortAlone /\ TasksOK

\* What the refresh reads of the filter are states.
LEMMA ElementsLemma ==
  ASSUME ListsOK, FilterOK, ReadsOK
  PROVE  NodeList!Elements \in Seq(NodeList!Toggled)
<1>1. CASE fetch.own
  BY <1>1 DEF NodeList!Elements, ListsOK, Fetch
<1>2. CASE ~fetch.own
  <2>1. fetch.len \in Nat /\ Len(array) \in Nat /\ fetch.len <= Len(array)
    BY <1>2, LenProperties DEF ListsOK, Fetch, FilterOK, ReadsOK
  <2>2. \A i \in 1 .. fetch.len : array[i] \in NodeList!Toggled
    BY <2>1, ElementOfSeq DEF FilterOK
  <2>3. 1 \in Int /\ fetch.len \in Int
    BY <2>1
  <2>4. SubSeq(array, 1, fetch.len) \in Seq(NodeList!Toggled)
    BY <2>2, <2>3, SubSeqProperties
  <2> QED
    BY <1>2, <2>4 DEF NodeList!Elements
<1> QED
  BY <1>1, <1>2

\* No more states can be asked for than have a key.
LEMMA StatesCounted ==
  ASSUME FilterOK
  PROVE  Cardinality(NodeList!States) = used /\ used <= 2
<1> DEFINE f == [i \in 1 .. used |-> array[i]]
<1>1. used \in Nat /\ \A i \in 1 .. used : array[i] \in NodeList!Toggled
  BY ElementOfSeq, LenProperties DEF FilterOK
<1>2. f \in Bijection(1 .. used, NodeList!States)
  BY <1>1 DEF FilterOK, NodeList!States, Bijection, Injection, Surjection, IsInjective
<1>3. IsFiniteSet(1 .. used) /\ Cardinality(1 .. used) = used
  BY <1>1, FS_Interval
<1>4. Cardinality(NodeList!States) = used
  BY <1>2, <1>3, FS_Bijection DEF ExistsBijection
<1>5. IsFiniteSet(NodeList!Toggled) /\ Cardinality(NodeList!Toggled) = 2
  <2>1. NodeList!Toggled = {"IDLE"} \cup {"MIXED"} /\ "MIXED" \notin {"IDLE"}
    BY DEF NodeList!Toggled
  <2>2. IsFiniteSet({"IDLE"}) /\ Cardinality({"IDLE"}) = 1
    BY FS_Singleton
  <2> QED
    BY <2>1, <2>2, FS_AddElement
<1>6. NodeList!States \subseteq NodeList!Toggled
  BY <1>1 DEF NodeList!States
<1> QED
  BY <1>4, <1>5, <1>6, FS_Subset

\* Rows are about nodes.
LEMMA TableLemma ==
  ASSUME NEW list \in Lists, NEW wanted, NEW advanced, NEW by, NEW expanded
  PROVE  \A row \in NodeList!Table(list, wanted, advanced, by, expanded) :
           row.id \in {0} \cup NodeList!Node
<1>1. DOMAIN list \subseteq NodeList!Node
  BY DEF Lists
<1>2. \A n \in DOMAIN list : NodeList!NodeRow(list, n).id \in NodeList!Node
  BY <1>1 DEF NodeList!NodeRow
<1>3. \A name : NodeList!Header(name).id = 0
  BY DEF NodeList!Header
<1>4. \A row \in NodeList!Flat(list, wanted, advanced) : row.id \in NodeList!Node
  BY <1>2 DEF NodeList!Flat
<1>5. \A row \in NodeList!Grouped(list, by, expanded) : row.id \in {0} \cup NodeList!Node
  BY <1>2, <1>3 DEF NodeList!Grouped
<1> QED
  BY <1>4, <1>5 DEF NodeList!Table

\* There may be no refresh.
LEMMA IdleLemma ==
  /\ NodeList!Idle \in Fetch /\ NodeList!Idle.phase = "idle" /\ NodeList!Idle.len = 0
  /\ <<>> \in Lists
<1>1. <<>> \in Lists
  <2>1. <<>> \in [{} -> Host]
    OBVIOUS
  <2>2. [{} -> Host] \in {[M -> Host] : M \in SUBSET NodeList!Node}
    OBVIOUS
  <2> QED
    BY <2>1, <2>2, Zenon DEF Lists
<1>2. <<>> \in Seq(NodeList!Toggled)
  BY EmptySeq
<1>3. PICK any \in NodeList!Wanted :
        NodeList!Idle = [phase |-> "idle", len |-> 0, copy |-> <<>>, own |-> FALSE,
                         wanted |-> any, key |-> <<>>, list |-> <<>>]
  BY Zenon DEF NodeList!Wanted, NodeList!Idle
<1>4. 0 \in 0 .. 2 /\ <<>> \in Key \cup {<<>>} /\ FALSE \in BOOLEAN
  OBVIOUS
<1> QED
  BY <1>1, <1>2, <1>3, <1>4 DEF Fetch

\* A refresh: the filter, the dialogs and the goroutines stay as they are.
LEMMA FetchSteps ==
  ASSUME NodesInv,
         \/ NodeList!Refresh \/ NodeList!BuildKey \/ NodeList!ReadList \/ NodeList!ReadFails
         \/ NodeList!StoreList \/ NodeList!Display
         \/ \E i \in DOMAIN entries : NodeList!Expire(entries[i].key)
  PROVE  NodesInv'
<1> USE DEF NodesInv
<1>1. UNCHANGED <<hosts, array, used, partFilter, groupBy, sorted, pages, tasks, keys>>
  BY DEF NodeList!Refresh, NodeList!BuildKey, NodeList!ReadList, NodeList!ReadFails,
         NodeList!StoreList, NodeList!Display, NodeList!Expire, NodeList!filter, NodeList!look
<1>2. FilterOK' /\ PagesOK(pages)' /\ SortAlone' /\ TasksOK'
  BY <1>1 DEF FilterOK, PagesOK, SortAlone, Names, TasksOK
<1>3. fetch \in Fetch
  BY DEF ListsOK
<1>4. NodeList!Idle \in Fetch /\ NodeList!Idle.phase = "idle" /\ NodeList!Idle.len = 0
  BY IdleLemma
<1>5. 0 <= Len(array)
  BY LenProperties DEF FilterOK
<1>6. CASE NodeList!Refresh
  <2>1. used \in 0 .. 2 /\ used <= Len(array)
    BY StatesCounted DEF FilterOK
  <2>2. fetch' = [NodeList!Idle EXCEPT !.phase = "started", !.len = used, !.wanted = partFilter]
        /\ UNCHANGED <<entries, nodes, rows>>
    BY <1>6 DEF NodeList!Refresh, NodeList!look
  <2>3. fetch' \in Fetch /\ fetch'.len = used /\ fetch'.phase = "started"
    BY <1>4, <2>1, <2>2 DEF Fetch, LookOK
  <2> QED
    BY <1>1, <1>2, <2>1, <2>2, <2>3 DEF ListsOK, ReadsOK, LookOK
<1>7. CASE NodeList!BuildKey
  <2> DEFINE key == <<NodeList!Elements, fetch.wanted>>
  <2>1. key \in Key
    BY <1>3, ElementsLemma DEF Key, Fetch
  <2>2. \/ /\ NodeList!Cache!Has(entries, key)
           /\ fetch' = [fetch EXCEPT !.phase = "got", !.list = NodeList!Cache!Get(entries, key)]
        \/ fetch' = [fetch EXCEPT !.phase = "reading", !.key = key]
    BY <1>7 DEF NodeList!BuildKey
  <2>3. UNCHANGED <<entries, nodes, rows>>
    BY <1>7 DEF NodeList!BuildKey, NodeList!look
  <2> HIDE DEF key
  <2>4. NodeList!Cache!Has(entries, key) => NodeList!Cache!Get(entries, key) \in Lists
    BY <2>1, CacheLemma, <1>3 DEF ListsOK
  <2>5. /\ fetch' \in Fetch /\ fetch'.len = fetch.len /\ fetch'.own = fetch.own
        /\ fetch'.phase \in {"reading", "read"} => fetch'.key \in Key
    BY <1>3, <2>1, <2>2, <2>4 DEF Fetch
  <2> QED
    BY <1>1, <1>2, <2>3, <2>5 DEF ListsOK, ReadsOK, LookOK
<1>8. CASE NodeList!ReadList
  <2> DEFINE states == NodeList!Range(NodeList!Elements)
             list == NodeList!ListNodes(hosts, Partition, states, fetch.wanted)
  <2>1. list \in Lists
    <3> HIDE DEF states
    <3>1. list \in [DOMAIN list -> Host] /\ DOMAIN list \in SUBSET NodeList!Node
      BY DEF NodeList!ListNodes, ListsOK
    <3> QED
      BY <3>1 DEF Lists
  <2>2. fetch' = [fetch EXCEPT !.phase = "read", !.list = list] /\ fetch.phase = "reading"
        /\ UNCHANGED <<entries, nodes, rows>>
    BY <1>8 DEF NodeList!ReadList, NodeList!look
  <2> HIDE DEF list
  <2>3. /\ fetch' \in Fetch /\ fetch'.len = fetch.len /\ fetch'.own = fetch.own
        /\ fetch'.key \in Key
    BY <1>3, <2>1, <2>2 DEF Fetch, ListsOK
  <2> QED
    BY <1>1, <1>2, <2>2, <2>3 DEF ListsOK, ReadsOK, LookOK
<1>9. CASE NodeList!ReadFails
  <2>1. fetch' = NodeList!Idle /\ UNCHANGED <<entries, nodes, rows>>
    BY <1>9 DEF NodeList!ReadFails, NodeList!look
  <2> QED
    BY <1>1, <1>2, <1>4, <1>5, <2>1 DEF ListsOK, ReadsOK, LookOK
<1>10. CASE NodeList!StoreList
  <2>1. /\ entries' = NodeList!Cache!Set(entries, fetch.key, fetch.list, MaxSize)
        /\ fetch' = [fetch EXCEPT !.phase = "got"] /\ fetch.phase = "read"
        /\ UNCHANGED <<nodes, rows>>
    BY <1>10 DEF NodeList!StoreList, NodeList!look
  <2>2. entries' \in Seq(Entry)
    <3>1. entries \in Seq(Entry) /\ fetch.key \in Key /\ fetch.list \in Lists
      BY <2>1 DEF ListsOK, Fetch
    <3> QED
      BY <2>1, <3>1, CacheLemma
  <2>3. /\ fetch' \in Fetch /\ fetch'.len = fetch.len /\ fetch'.own = fetch.own
        /\ fetch'.phase = "got"
    BY <1>3, <2>1 DEF Fetch
  <2> QED
    BY <1>1, <1>2, <2>1, <2>2, <2>3 DEF ListsOK, ReadsOK, LookOK
<1>11. CASE NodeList!Display
  <2>1. PICK list \in Lists : list = fetch.list
    BY <1>3 DEF Fetch
  <2>2. /\ fetch' = NodeList!Idle /\ nodes' = list /\ UNCHANGED entries
        /\ rows' = NodeList!Table(list, partFilter, advancedFilter, groupBy, groupExpanded)
    BY <1>11, <2>1 DEF NodeList!Display
  <2>3. \A row \in rows' : row.id \in {0} \cup NodeList!Node
    BY <2>2, TableLemma
  <2> QED
    BY <1>1, <1>2, <1>4, <1>5, <2>2, <2>3 DEF ListsOK, ReadsOK, LookOK
<1>12. CASE \E i \in DOMAIN entries : NodeList!Expire(entries[i].key)
  <2>1. PICK i \in DOMAIN entries : NodeList!Expire(entries[i].key)
    BY <1>12
  <2>2. entries' \in Seq(Entry)
    <3>1. entries \in Seq(Entry)
      BY DEF ListsOK
    <3>2. \A key : NodeList!Cache!Expire(entries, key) \in Seq(Entry)
      BY <3>1, WithoutLemma DEF NodeList!Cache!Expire
    <3> QED
      BY <2>1, <3>2 DEF NodeList!Expire
  <2>3. UNCHANGED <<fetch, nodes, rows>>
    BY <2>1 DEF NodeList!Expire, NodeList!look
  <2> QED
    BY <1>1, <1>2, <2>2, <2>3 DEF ListsOK, ReadsOK, LookOK
<1> QED
  BY <1>6, <1>7, <1>8, <1>9, <1>10, <1>11, <1>12

\* A key is pressed while there is no dialog, and is counted.
LEMMA PressLemma ==
  ASSUME TasksOK, NodeList!Press
  PROVE  pages = <<>> /\ keys' \in 0 .. MaxKeys /\ Names(pages) = {}
<1>1. pages = <<>> /\ keys' = keys + 1 /\ keys < MaxKeys
  BY DEF NodeList!Press
<1>2. keys' \in 0 .. MaxKeys
  BY <1>1, BoundsAssumption DEF TasksOK
<1>3. DOMAIN <<>> = {}
  BY EmptySeq
<1> QED
  BY <1>1, <1>2, <1>3 DEF Names

\* The page in front is one of the pages.
LEMMA FrontLemma ==
  ASSUME PagesOK(pages), pages # <<>>
  PROVE  NodeList!Last(pages) \in Page /\ NodeList!Last(pages).name \in Names(pages)
<1>1. PICK n \in Nat : n = Len(pages) /\ DOMAIN pages = 1 .. n /\ pages \in Seq(Page)
  BY LenProperties DEF PagesOK
<1>2. n \in 1 .. n
  <2>1. n # 0
    BY <1>1, EmptySeq
  <2> QED
    BY <2>1
<1>3. NodeList!Last(pages) = pages[n]
  BY <1>1 DEF NodeList!Last
<1>4. pages[n] \in Page
  BY <1>1, <1>2, ElementOfSeq
<1> QED
  BY <1>1, <1>2, <1>3, <1>4 DEF Names

\* What the invariant asks of the pages.
LEMMA PagesChange ==
  ASSUME NEW stack, PagesOK(stack), pages' = stack,
         "sort-by" \in Names(stack) => groupBy' = "none" /\ "group-by" \notin Names(stack)
  PROVE  PagesOK(pages)' /\ SortAlone'
BY DEF PagesOK, SortAlone, Names

\* A refresh that has got the filter to itself.
LEMMA DetachLemma ==
  ASSUME ListsOK, FilterOK, ReadsOK
  PROVE  /\ NodeList!Detach \in Fetch /\ NodeList!Detach.own
         /\ NodeList!Detach.phase = fetch.phase /\ NodeList!Detach.key = fetch.key
<1>1. fetch \in Fetch /\ NodeList!Elements \in Seq(NodeList!Toggled) /\ TRUE \in BOOLEAN
  BY ElementsLemma DEF ListsOK
<1> QED
  BY <1>1 DEF NodeList!Detach, Fetch

\* Keys that toggle a state, or ask for all of them.
LEMMA StateSteps ==
  ASSUME NodesInv,
         (\E s \in NodeList!Toggled : NodeList!ToggleStateFilter(s)) \/ NodeList!ShowAllStates
  PROVE  NodesInv'
<1> USE DEF NodesInv
<1>1. /\ NodeList!Press
      /\ UNCHANGED <<hosts, entries, nodes, partFilter, groupBy, sorted, rows, pages, tasks>>
  BY DEF NodeList!ToggleStateFilter, NodeList!ShowAllStates, NodeList!look
<1>2. LookOK' /\ PagesOK(pages)' /\ SortAlone' /\ TasksOK'
  BY <1>1, PressLemma DEF LookOK, PagesOK, SortAlone, Names, TasksOK
<1>3. ListsOK'
  <2>1. fetch' = fetch \/ fetch' = NodeList!Detach
    BY DEF NodeList!ToggleStateFilter, NodeList!ShowAllStates
  <2>2. fetch' \in Fetch /\ fetch'.phase = fetch.phase /\ fetch'.key = fetch.key
    BY <2>1, DetachLemma DEF ListsOK
  <2> QED
    BY <1>1, <2>2 DEF ListsOK
<1>4. PICK n \in Nat : n = Len(array) /\ array \in [1 .. n -> NodeList!Toggled] /\ used \in 0 .. n
                       /\ (\A i, j \in 1 .. used : i # j => array[i] # array[j])
                       /\ (fetch.own \/ fetch.len <= n)
  <2>1. Len(array) \in Nat /\ DOMAIN array = 1 .. Len(array)
        /\ array = [i \in 1 .. Len(array) |-> array[i]]
    BY LenProperties DEF FilterOK
  <2>2. \A i \in 1 .. Len(array) : array[i] \in NodeList!Toggled
    BY ElementOfSeq DEF FilterOK
  <2>3. array \in [1 .. Len(array) -> NodeList!Toggled]
    BY <2>1, <2>2
  <2> QED
    BY <2>1, <2>3 DEF FilterOK, ReadsOK
<1>5. \A m \in Nat : \A f \in [1 .. m -> NodeList!Toggled] :
        f \in Seq(NodeList!Toggled) /\ Len(f) = m
  OBVIOUS
<1>6. ASSUME NEW m \in Nat, NEW f \in [1 .. m -> NodeList!Toggled], NEW u \in 0 .. m,
             array' = f, used' = u, \A i, j \in 1 .. u : i # j => f[i] # f[j],
             fetch'.own \/ fetch'.len <= m
      PROVE  FilterOK' /\ ReadsOK'
  <2>1. f \in Seq(NodeList!Toggled) /\ Len(f) = m
    BY <1>5
  <2> QED
    BY <1>6, <2>1 DEF FilterOK, ReadsOK
<1>7. CASE NodeList!ShowAllStates
  <2>1. array' = <<>> /\ used' = 0 /\ fetch' = NodeList!Detach
    BY <1>7 DEF NodeList!ShowAllStates
  <2>2. <<>> \in Seq(NodeList!Toggled) /\ Len(<<>>) = 0
    BY EmptySeq
  <2> QED
    BY <1>2, <1>3, <2>1, <2>2, DetachLemma DEF FilterOK, ReadsOK
<1>8. CASE \E s \in NodeList!Toggled : NodeList!ToggleStateFilter(s)
  <2>1. PICK s \in NodeList!Toggled : NodeList!ToggleStateFilter(s)
    BY <1>8
  <2>2. CASE \E i \in 1 .. used : array[i] = s
    <3>1. PICK i \in 1 .. used :
            /\ array' = [k \in DOMAIN array |-> IF k \in i .. used - 1 THEN array[k + 1]
                                                                      ELSE array[k]]
            /\ used' = used - 1 /\ UNCHANGED fetch
      <4>1. (CHOOSE i \in 1 .. used : array[i] = s) \in 1 .. used
        BY <2>2
      <4> QED
        BY <2>1, <2>2, <4>1 DEF NodeList!ToggleStateFilter
    <3> DEFINE old(k) == IF k \in i .. used - 1 THEN k + 1 ELSE k
               f == [k \in 1 .. n |-> array[old(k)]]
    <3>2. \A k \in 1 .. n : old(k) \in 1 .. n
      BY <1>4
    <3>3. \A k, l \in 1 .. used - 1 : k # l => old(k) # old(l) /\ old(k) \in 1 .. used
                                               /\ old(l) \in 1 .. used
      BY <1>4
    <3>4. array' = f
      BY <1>4, <3>1
    <3> HIDE DEF old
    <3>5. f \in [1 .. n -> NodeList!Toggled]
      BY <1>4, <3>2
    <3>6. used - 1 \in 0 .. n /\ \A k \in 1 .. used - 1 : k \in 1 .. n
      BY <1>4, <3>1
    <3>7. \A k, l \in 1 .. used - 1 : k # l => f[k] # f[l]
      BY <1>4, <3>3, <3>6
    <3> HIDE DEF f
    <3>8. fetch'.own \/ fetch'.len <= n
      BY <1>4, <3>1
    <3>9. used' = used - 1
      BY <3>1
    <3>10. FilterOK' /\ ReadsOK'
      BY <1>6, <3>4, <3>5, <3>6, <3>7, <3>8, <3>9
    <3> QED
      BY <1>2, <1>3, <3>10
  <2>3. CASE ~(\E i \in 1 .. used : array[i] = s) /\ used < n
    <3>1. array' = [array EXCEPT ![used + 1] = s] /\ used' = used + 1 /\ UNCHANGED fetch
      BY <1>4, <2>1, <2>3 DEF NodeList!ToggleStateFilter
    <3> DEFINE f == [array EXCEPT ![used + 1] = s]
    <3>2. /\ f \in [1 .. n -> NodeList!Toggled] /\ used + 1 \in 0 .. n /\ used + 1 \in 1 .. n
          /\ used + 1 \notin 1 .. used /\ \A i \in 1 .. used + 1 : i \in 1 .. used \/ i = used + 1
          /\ \A i \in 1 .. used : i \in 1 .. n
      BY <1>4, <2>3
    <3>3. f[used + 1] = s /\ \A i \in 1 .. used : f[i] = array[i]
      BY <1>4, <3>2
    <3> HIDE DEF f
    <3>4. \A i, j \in 1 .. used + 1 : i # j => f[i] # f[j]
      BY <1>4, <2>3, <3>2, <3>3
    <3>5. array' = f /\ used' = used + 1 /\ (fetch'.own \/ fetch'.len <= n)
      BY <1>4, <3>1 DEF f
    <3>6. FilterOK' /\ ReadsOK'
      BY <1>6, <3>2, <3>4, <3>5
    <3> QED
      BY <1>2, <1>3, <3>6
  <2>4. CASE ~(\E i \in 1 .. used : array[i] = s) /\ ~(used < n)
    <3>1. array' = Append(array, s) /\ used' = used + 1 /\ fetch' = NodeList!Detach
      BY <1>4, <2>1, <2>4 DEF NodeList!ToggleStateFilter
    <3>2. used = n
      <4>1. used \in 0 .. n /\ ~(used < n)
        BY <1>4, <2>4
      <4> QED
        BY ONLY <4>1, n \in Nat
    <3>3. PICK f : f = Append(array, s)
      OBVIOUS
    <3>4. /\ f \in Seq(NodeList!Toggled) /\ Len(f) = n + 1
          /\ \A i \in 1 .. n : f[i] = array[i]
          /\ f[n + 1] = s
      BY <1>4, <3>3, AppendProperties DEF FilterOK
    <3>5. n + 1 \in 0 .. n + 1 /\ \A i \in 1 .. n + 1 : i \in 1 .. n \/ i = n + 1
      BY <1>4
    <3>6. \A i, j \in 1 .. n + 1 : i # j => f[i] # f[j]
      BY <1>4, <2>4, <3>2, <3>4, <3>5
    <3>7. fetch'.own
      BY <3>1, DetachLemma
    <3>8. array' = f /\ used' = n + 1
      BY <3>1, <3>2, <3>3
    <3>9. FilterOK' /\ ReadsOK'
      BY <3>4, <3>5, <3>6, <3>7, <3>8 DEF FilterOK, ReadsOK
    <3> QED
      BY <1>2, <1>3, <3>9
  <2> QED
    BY <2>2, <2>3, <2>4
<1> QED
  BY <1>7, <1>8

\* Filters by partition and by state, whoever asks for them.
LEMMA FilterSteps ==
  ASSUME NodesInv,
         \/ \E wanted \in NodeList!Wanted : \/ NodeList!OnFilterChange(wanted)
                                            \/ NodeList!SetPartitionFilter(wanted)
                                            \/ NodeList!EnterPartition(wanted)
         \/ \E state \in {"", "IDLE"} : NodeList!OnAdvancedFilterChange(state)
         \/ \E n \in NodeList!Node : NodeList!FocusOnNode(n)
  PROVE  NodesInv'
<1> USE DEF NodesInv
<1>1. UNCHANGED <<hosts, entries, fetch, nodes, array, used, groupBy, sorted, tasks>>
  BY DEF NodeList!OnFilterChange, NodeList!SetPartitionFilter, NodeList!EnterPartition,
         NodeList!OnAdvancedFilterChange, NodeList!FocusOnNode, NodeList!look, NodeList!filter
<1>2. ListsOK' /\ FilterOK' /\ ReadsOK'
  BY <1>1 DEF ListsOK, FilterOK, ReadsOK
<1>3. TasksOK'
  <2>1. keys' = keys \/ NodeList!Press
    BY DEF NodeList!OnFilterChange, NodeList!SetPartitionFilter, NodeList!EnterPartition,
           NodeList!OnAdvancedFilterChange, NodeList!FocusOnNode
  <2> QED
    BY <1>1, <2>1, PressLemma DEF TasksOK
<1>4. PagesOK(pages)' /\ SortAlone'
  <2>1. pages' = pages \/ pages' = NodeList!RemovePage(pages, "partition-filter")
    BY DEF NodeList!OnFilterChange, NodeList!SetPartitionFilter, NodeList!EnterPartition,
           NodeList!OnAdvancedFilterChange, NodeList!FocusOnNode
  <2>2. PICK stack : stack = pages' /\ PagesOK(stack) /\ Names(stack) \subseteq Names(pages)
    BY <2>1, RemovePageLemma
  <2> QED
    BY <1>1, <2>2, PagesChange DEF SortAlone
<1>5. LookOK'
  <2>1. partFilter' \in NodeList!Wanted
    <3>1. "" \in NodeList!Wanted
      BY Zenon DEF NodeList!Wanted
    <3>2. partFilter' = partFilter \/ partFilter' = "" \/ partFilter' \in NodeList!Wanted
      BY Zenon DEF NodeList!OnFilterChange, NodeList!SetPartitionFilter, NodeList!EnterPartition,
             NodeList!OnAdvancedFilterChange, NodeList!FocusOnNode, NodeList!filter
    <3> QED
      BY <3>1, <3>2, Zenon DEF LookOK
  <2>2. rows' = rows \/ \E wanted, advanced :
                          rows' = NodeList!Table(nodes, wanted, advanced, groupBy, groupExpanded)
    BY Zenon DEF NodeList!OnFilterChange, NodeList!SetPartitionFilter, NodeList!EnterPartition,
           NodeList!OnAdvancedFilterChange, NodeList!FocusOnNode, NodeList!look
  <2>3. \A row \in rows' : row.id \in {0} \cup NodeList!Node
    <3>1. nodes \in Lists /\ \A row \in rows : row.id \in {0} \cup NodeList!Node
      BY Zenon DEF LookOK, ListsOK
    <3>2. CASE rows' = rows
      BY <3>1, <3>2, Zenon
    <3>3. ASSUME NEW wanted, NEW advanced,
                 rows' = NodeList!Table(nodes, wanted, advanced, groupBy, groupExpanded)
          PROVE  \A row \in rows' : row.id \in {0} \cup NodeList!Node
      <4>1. \A row \in NodeList!Table(nodes, wanted, advanced, groupBy, groupExpanded) :
              row.id \in {0} \cup NodeList!Node
        BY <3>1, TableLemma, Zenon
      <4> QED
        BY <3>3, <4>1, Zenon
    <3> QED
      BY <2>2, <3>2, <3>3, Zenon
  <2> QED
    BY <1>1, <2>1, <2>3, Zenon DEF LookOK
<1> QED
  BY <1>2, <1>3, <1>4, <1>5

\* Groups, sorting, and dialogs without consequences.
LEMMA LookSteps ==
  ASSUME NodesInv,
         \/ NodeList!Dismiss
         \/ \E name \in {"partition-filter", "group-by"} : NodeList!Prompt(name)
         \/ \E by \in NodeList!Grouping : NodeList!SetGroupBy(by)
         \/ NodeList!PromptSortBy
         \/ NodeList!Sort
         \/ \E row \in rows : NodeList!ToggleGroupExpansion(row)
  PROVE  NodesInv'
<1> USE DEF NodesInv
<1>1. UNCHANGED <<hosts, entries, fetch, nodes, array, used, partFilter, tasks>>
  BY DEF NodeList!Dismiss, NodeList!Prompt, NodeList!SetGroupBy, NodeList!PromptSortBy,
         NodeList!Sort, NodeList!ToggleGroupExpansion, NodeList!look, NodeList!filter
<1>2. ListsOK' /\ FilterOK' /\ ReadsOK'
  BY <1>1 DEF ListsOK, FilterOK, ReadsOK
<1>3. TasksOK'
  <2>1. keys' = keys \/ NodeList!Press
    BY DEF NodeList!Dismiss, NodeList!Prompt, NodeList!SetGroupBy, NodeList!PromptSortBy,
           NodeList!Sort, NodeList!ToggleGroupExpansion
  <2> QED
    BY <1>1, <2>1, PressLemma DEF TasksOK
<1>4. rows' = rows \/ \E wanted, advanced, by, expanded :
                        rows' = NodeList!Table(nodes, wanted, advanced, by, expanded)
  BY Zenon DEF NodeList!Dismiss, NodeList!Prompt, NodeList!SetGroupBy, NodeList!PromptSortBy,
         NodeList!Sort, NodeList!ToggleGroupExpansion, NodeList!look
<1>5. \A row \in rows' : row.id \in {0} \cup NodeList!Node
  BY <1>4, TableLemma DEF LookOK, ListsOK
<1>6. \A name : PagesOK(NodeList!RemovePage(pages, name))
               /\ Names(NodeList!RemovePage(pages, name)) \subseteq Names(pages) \ {name}
  BY RemovePageLemma
<1>7. CASE NodeList!Dismiss
  <2>1. UNCHANGED <<groupBy, sorted>> 
        /\ pages' = NodeList!RemovePage(pages, NodeList!Last(pages).name)
    BY <1>7 DEF NodeList!Dismiss, NodeList!look
  <2>2. PICK stack : stack = pages' /\ PagesOK(stack) /\ Names(stack) \subseteq Names(pages)
    BY <1>6, <2>1
  <2>3. PagesOK(pages)' /\ SortAlone'
    BY <2>1, <2>2, PagesChange DEF SortAlone
  <2> QED
    BY <1>1, <1>2, <1>3, <1>5, <2>1, <2>3 DEF LookOK
<1>8. CASE \E name \in {"partition-filter", "group-by"} : NodeList!Prompt(name)
  <2>1. PICK name \in {"partition-filter", "group-by"} : NodeList!Prompt(name)
    BY <1>8
  <2>2. /\ NodeList!Press /\ UNCHANGED <<groupBy, sorted>>
        /\ pages' = NodeList!AddPage(pages, name, 0)
    BY <2>1 DEF NodeList!Prompt, NodeList!look
  <2>3. name \in NodeList!Closes \cup {"progress"} /\ 0 \in {0} \cup NodeList!Node
    BY DEF NodeList!Closes
  <2>4. PICK stack : /\ stack = pages' /\ PagesOK(stack)
                     /\ Names(stack) \subseteq Names(pages) \cup {name}
    BY <2>2, <2>3, AddPageLemma
  <2>5. "sort-by" \notin Names(stack)
    BY <2>2, <2>4, PressLemma
  <2>6. PagesOK(pages)' /\ SortAlone'
    BY <2>4, <2>5, PagesChange
  <2> QED
    BY <1>1, <1>2, <1>3, <1>5, <2>2, <2>6 DEF LookOK
<1>9. CASE \E by \in NodeList!Grouping : NodeList!SetGroupBy(by)
  <2>1. PICK by \in NodeList!Grouping : NodeList!SetGroupBy(by)
    BY <1>9
  <2>2. /\ NodeList!InFront("group-by") /\ groupBy' = by /\ sorted' = (sorted /\ by = "none")
        /\ pages' = NodeList!RemovePage(pages, "group-by")
    BY <2>1 DEF NodeList!SetGroupBy
  <2>3. PICK stack : stack = pages' /\ PagesOK(stack) /\ Names(stack) \subseteq Names(pages)
    BY <1>6, <2>2
  <2>4. "group-by" \in Names(pages)
    BY <2>2, FrontLemma DEF NodeList!InFront
  <2>5. PagesOK(pages)' /\ SortAlone'
    BY <2>3, <2>4, PagesChange DEF SortAlone
  <2>6. sorted' => groupBy' = "none"
    BY <2>2
  <2> QED
    BY <1>1, <1>2, <1>3, <1>5, <2>2, <2>5, <2>6 DEF LookOK
<1>10. CASE NodeList!PromptSortBy
  <2>1. /\ NodeList!Press /\ groupBy' = "none" /\ UNCHANGED sorted
        /\ pages' = NodeList!AddPage(pages, "sort-by", 0)
    BY <1>10 DEF NodeList!PromptSortBy
  <2>2. "sort-by" \in NodeList!Closes \cup {"progress"} /\ 0 \in {0} \cup NodeList!Node
        /\ "none" \in NodeList!Grouping
    BY DEF NodeList!Closes, NodeList!Grouping
  <2>3. PICK stack : /\ stack = pages' /\ PagesOK(stack)
                     /\ Names(stack) \subseteq Names(pages) \cup {"sort-by"}
    BY <2>1, <2>2, AddPageLemma
  <2>4. "group-by" \notin Names(stack)
    BY <2>1, <2>3, PressLemma
  <2>5. PagesOK(pages)' /\ SortAlone'
    BY <2>1, <2>3, <2>4, PagesChange
  <2> QED
    BY <1>1, <1>2, <1>3, <1>5, <2>1, <2>2, <2>5 DEF LookOK
<1>11. CASE NodeList!Sort
  <2>1. /\ NodeList!InFront("sort-by") /\ UNCHANGED groupBy
        /\ pages' = NodeList!RemovePage(pages, "sort-by")
    BY <1>11 DEF NodeList!Sort
  <2>2. PICK stack : stack = pages' /\ PagesOK(stack) /\ Names(stack) \subseteq Names(pages)
    BY <1>6, <2>1
  <2>3. "sort-by" \in Names(pages)
    BY <2>1, FrontLemma DEF NodeList!InFront
  <2>4. PagesOK(pages)' /\ SortAlone' /\ groupBy' = "none"
    BY <2>1, <2>2, <2>3, PagesChange DEF SortAlone
  <2> QED
    BY <1>1, <1>2, <1>3, <1>5, <2>1, <2>4 DEF LookOK
<1>12. CASE \E row \in rows : NodeList!ToggleGroupExpansion(row)
  <2>1. UNCHANGED <<groupBy, sorted, pages>>
    BY <1>12 DEF NodeList!ToggleGroupExpansion
  <2>2. PagesOK(pages)' /\ SortAlone'
    BY <2>1 DEF PagesOK, SortAlone, Names
  <2> QED
    BY <1>1, <1>2, <1>3, <1>5, <2>1, <2>2 DEF LookOK
<1> QED
  BY <1>7, <1>8, <1>9, <1>10, <1>11, <1>12

\* The operations there are.
OfTask == {"drain", "resume", "details", "test", "info"}

\* A goroutine that is started is one more.
LEMMA GoLemma ==
  ASSUME TasksOK, NEW op \in OfTask, NEW n \in {0} \cup NodeList!Node, NodeList!Go(op, n)
  PROVE  tasks' \in Seq(Task) /\ Len(tasks') <= MaxTasks
<1> DEFINE t == [op |-> op, node |-> n, phase |-> "begins", ok |-> FALSE]
<1>1. t \in Task
  <2>1. FALSE \in BOOLEAN /\ "begins" \in {"begins", "closed", "calling", "answered"}
    OBVIOUS
  <2> QED
    BY <2>1 DEF Task, OfTask
<1>2. tasks' = Append(tasks, t) /\ Len(tasks) < MaxTasks
  BY DEF NodeList!Go
<1> HIDE DEF t
<1>3. tasks' \in Seq(Task) /\ Len(tasks') = Len(tasks) + 1
  BY <1>1, <1>2, AppendProperties DEF TasksOK
<1>4. Len(tasks) \in Nat /\ MaxTasks \in Nat
  BY LenProperties, BoundsAssumption DEF TasksOK
<1> QED
  BY <1>2, <1>3, <1>4

\* A goroutine that gets on, or comes to its end.
LEMMA TaskLemma ==
  ASSUME TasksOK, NEW i \in DOMAIN tasks
  PROVE  /\ tasks[i] \in Task
         /\ \A t \in Task : LET after == [tasks EXCEPT ![i] = t]
                            IN after \in Seq(Task) /\ Len(after) <= MaxTasks
         /\ LET after == NodeList!RemoveAt(tasks, i)
            IN after \in Seq(Task) /\ Len(after) <= MaxTasks
<1>1. i \in 1 .. Len(tasks) /\ tasks \in Seq(Task) /\ Len(tasks) \in Nat /\ MaxTasks \in Nat
      /\ Len(tasks) <= MaxTasks
  BY LenProperties, BoundsAssumption DEF TasksOK
<1>2. tasks[i] \in Task
  BY <1>1, ElementOfSeq
<1>3. ASSUME NEW t \in Task
      PROVE  [tasks EXCEPT ![i] = t] \in Seq(Task) /\ Len([tasks EXCEPT ![i] = t]) = Len(tasks)
  BY <1>1, ExceptSeq
<1>4. NodeList!RemoveAt(tasks, i) \in Seq(Task)
      /\ Len(NodeList!RemoveAt(tasks, i)) = Len(tasks) - 1
  BY <1>1, RemoveAtLemma
<1>5. Len(tasks) - 1 <= MaxTasks
  BY <1>1
<1> QED
  BY <1>1, <1>2, <1>3, <1>4, <1>5

\* A page over the others, which neither sorts nor groups.
LEMMA PageOver ==
  ASSUME SortAlone, NEW stack, PagesOK(stack), Names(stack) \subseteq Names(pages),
         NEW name \in (NodeList!Closes \cup {"progress"}) \ {"sort-by", "group-by"},
         NEW n \in {0} \cup NodeList!Node, pages' = NodeList!AddPage(stack, name, n),
         UNCHANGED groupBy
  PROVE  PagesOK(pages)' /\ SortAlone'
<1>1. PICK over : /\ over = pages' /\ PagesOK(over)
                  /\ Names(over) \subseteq Names(stack) \cup {name}
  BY AddPageLemma
<1> QED
  BY <1>1, PagesChange DEF SortAlone

\* Operations on a node are asked for.
LEMMA AskSteps ==
  ASSUME NodesInv,
         \/ \E row \in rows : \/ NodeList!DrainSelectedNode(row)
                              \/ NodeList!ResumeSelectedNode(row)
                              \/ NodeList!ShowNodeDetails(row)
                              \/ NodeList!SshToNode(row)
         \/ NodeList!Confirm("drain-input", "drain") \/ NodeList!Confirm("resume-confirm", "resume")
         \/ NodeList!ChooseSsh("test") \/ NodeList!ChooseSsh("info")
  PROVE  NodesInv'
<1> USE DEF NodesInv
<1>1. UNCHANGED <<hosts, entries, fetch, nodes, array, used, partFilter, groupBy, sorted, rows>>
  BY DEF NodeList!DrainSelectedNode, NodeList!ResumeSelectedNode, NodeList!ShowNodeDetails,
         NodeList!SshToNode, NodeList!Confirm, NodeList!ChooseSsh, NodeList!look, NodeList!filter
<1>2. ListsOK' /\ FilterOK' /\ ReadsOK' /\ LookOK'
  BY <1>1 DEF ListsOK, FilterOK, ReadsOK, LookOK
<1>3. Names(pages) \subseteq Names(pages)
  OBVIOUS
<1>4. CASE \E row \in rows : \/ NodeList!DrainSelectedNode(row)
                             \/ NodeList!ResumeSelectedNode(row)
                             \/ NodeList!SshToNode(row)
  <2>1. PICK row \in rows : \/ NodeList!DrainSelectedNode(row)
                            \/ NodeList!ResumeSelectedNode(row)
                            \/ NodeList!SshToNode(row)
    BY <1>4
  <2>2. row.id \in {0} \cup NodeList!Node
    BY DEF LookOK
  <2>3. PICK name \in {"drain-input", "resume-confirm", "error", "ssh-options"} :
          pages' = NodeList!AddPage(pages, name, row.id)
    BY <2>1, Zenon DEF NodeList!DrainSelectedNode, NodeList!ResumeSelectedNode, NodeList!SshToNode
  <2>4. name \in (NodeList!Closes \cup {"progress"}) \ {"sort-by", "group-by"}
    BY DEF NodeList!Closes
  <2>5. PagesOK(pages)' /\ SortAlone'
    BY <1>1, <1>3, <2>2, <2>3, <2>4, PageOver
  <2>6. NodeList!Press /\ UNCHANGED tasks
    BY <2>1 DEF NodeList!DrainSelectedNode, NodeList!ResumeSelectedNode, NodeList!SshToNode,
                NodeList!OnNode
  <2>7. TasksOK'
    BY <2>6, PressLemma DEF TasksOK
  <2> QED
    BY <1>2, <2>5, <2>7
<1>5. CASE \E row \in rows : NodeList!ShowNodeDetails(row)
  <2>1. PICK row \in rows : NodeList!ShowNodeDetails(row)
    BY <1>5
  <2>2. NodeList!Press /\ NodeList!Go("details", row.id) /\ UNCHANGED pages
    BY <2>1 DEF NodeList!ShowNodeDetails, NodeList!OnNode
  <2>3. row.id \in {0} \cup NodeList!Node /\ "details" \in OfTask
    BY DEF LookOK, OfTask
  <2>4. TasksOK'
    BY <2>2, <2>3, PressLemma, GoLemma DEF TasksOK
  <2>5. PagesOK(pages)' /\ SortAlone'
    BY <1>1, <2>2 DEF PagesOK, SortAlone, Names
  <2> QED
    BY <1>2, <2>4, <2>5
<1>6. CASE NodeList!Confirm("drain-input", "drain") \/ NodeList!Confirm("resume-confirm", "resume")
  <2>1. pages # <<>> /\ UNCHANGED <<pages, keys>>
    BY <1>6 DEF NodeList!Confirm, NodeList!InFront
  <2>2. PICK op \in {"drain", "resume"} : NodeList!Go(op, NodeList!Last(pages).node)
    BY <1>6 DEF NodeList!Confirm
  <2>3. op \in OfTask /\ NodeList!Last(pages).node \in {0} \cup NodeList!Node
    BY <2>1, FrontLemma DEF OfTask, Page
  <2>4. TasksOK'
    BY <2>1, <2>2, <2>3, GoLemma DEF TasksOK
  <2>5. PagesOK(pages)' /\ SortAlone'
    BY <1>1, <2>1 DEF PagesOK, SortAlone, Names
  <2> QED
    BY <1>2, <2>4, <2>5
<1>7. CASE NodeList!ChooseSsh("test") \/ NodeList!ChooseSsh("info")
  <2>1. pages # <<>> /\ UNCHANGED keys
    BY <1>7 DEF NodeList!ChooseSsh, NodeList!InFront
  <2>2. PICK op \in {"test", "info"} : NodeList!Go(op, NodeList!Last(pages).node)
    BY <1>7 DEF NodeList!ChooseSsh
  <2>3. op \in OfTask /\ NodeList!Last(pages).node \in {0} \cup NodeList!Node
    BY <2>1, FrontLemma DEF OfTask, Page
  <2>4. TasksOK'
    BY <2>1, <2>2, <2>3, GoLemma DEF TasksOK
  <2>5. PICK stack : /\ stack = NodeList!RemovePage(pages, "ssh-options")
                     /\ PagesOK(stack) /\ Names(stack) \subseteq Names(pages)
    BY RemovePageLemma
  <2>6. pages' = NodeList!AddPage(stack, "progress", 0)
    BY <1>7, <2>5 DEF NodeList!ChooseSsh
  <2>7. "progress" \in (NodeList!Closes \cup {"progress"}) \ {"sort-by", "group-by"}
        /\ 0 \in {0} \cup NodeList!Node
    OBVIOUS
  <2>8. PagesOK(pages)' /\ SortAlone'
    BY <1>1, <2>5, <2>6, <2>7, PageOver
  <2> QED
    BY <1>2, <2>4, <2>8
<1> QED
  BY <1>4, <1>5, <1>6, <1>7

\* The goroutines of the operations get on.
LEMMA TaskSteps ==
  ASSUME NodesInv, NEW i \in DOMAIN tasks, NodeList!AtTask(i)
  PROVE  NodesInv'
<1> USE DEF NodesInv
<1>1. UNCHANGED <<fetch, nodes, array, used, partFilter, groupBy, sorted, rows, keys>>
  BY DEF NodeList!AtTask, NodeList!ClosePrompt, NodeList!InvalidateLists, NodeList!Call,
         NodeList!QueryNode, NodeList!ShowResult, NodeList!look, NodeList!filter
<1>2. FilterOK' /\ ReadsOK' /\ LookOK'
  BY <1>1 DEF FilterOK, ReadsOK, LookOK
<1>3. PICK t \in Task : t = tasks[i]
  BY TaskLemma
<1>4. \A phase \in {"begins", "closed", "calling", "answered"} :
        \A ok \in BOOLEAN : /\ [t EXCEPT !.phase = phase] \in Task
                            /\ [t EXCEPT !.phase = phase, !.ok = ok] \in Task
  BY DEF Task
<1>5. CASE NodeList!ClosePrompt(i)
  <2>1. PICK name : pages' = NodeList!RemovePage(pages, name)
    BY <1>5 DEF NodeList!ClosePrompt
  <2>2. /\ UNCHANGED <<hosts, entries>>
        /\ tasks' = [tasks EXCEPT ![i] = [t EXCEPT !.phase = "closed"]]
    BY <1>3, <1>5 DEF NodeList!ClosePrompt, NodeList!Step
  <2>3. TasksOK'
    BY <1>1, <1>4, <2>2, TaskLemma DEF TasksOK
  <2>4. PICK stack : stack = pages' /\ PagesOK(stack) /\ Names(stack) \subseteq Names(pages)
    BY <2>1, RemovePageLemma
  <2>5. PagesOK(pages)' /\ SortAlone'
    BY <1>1, <2>4, PagesChange DEF SortAlone
  <2> QED
    BY <1>1, <1>2, <2>2, <2>3, <2>5 DEF ListsOK
<1>6. CASE NodeList!InvalidateLists(i)
  <2>1. /\ entries' = <<>> /\ UNCHANGED <<hosts, pages>>
        /\ tasks' = [tasks EXCEPT ![i] = [t EXCEPT !.phase = "calling"]]
    BY <1>3, <1>6 DEF NodeList!InvalidateLists, NodeList!Step
  <2>2. TasksOK'
    BY <1>1, <1>4, <2>1, TaskLemma DEF TasksOK
  <2>3. PagesOK(pages)' /\ SortAlone'
    BY <1>1, <2>1 DEF PagesOK, SortAlone, Names
  <2>4. ListsOK'
    BY <1>1, <2>1, EmptySeq DEF ListsOK
  <2> QED
    BY <1>2, <2>2, <2>3, <2>4
<1>7. CASE NodeList!Call(i)
  <2>1. /\ UNCHANGED <<entries, pages>>
        /\ \E ok \in BOOLEAN :
             tasks' = [tasks EXCEPT ![i] = [t EXCEPT !.phase = "answered", !.ok = ok]]
    BY <1>3, <1>7 DEF NodeList!Call
  <2>2. TasksOK'
    BY <1>1, <1>4, <2>1, TaskLemma DEF TasksOK
  <2>3. PagesOK(pages)' /\ SortAlone'
    BY <1>1, <2>1 DEF PagesOK, SortAlone, Names
  <2>4. hosts' \in [NodeList!Node -> Host]
    <3>1. \/ hosts' = NodeList!DrainNode(hosts, t.node)
          \/ hosts' = NodeList!ResumeNode(hosts, t.node)
          \/ hosts' = hosts
      BY <1>3, <1>7 DEF NodeList!Call
    <3>2. /\ [state |-> "DRAIN", reason |-> "given"] \in Host
          /\ [state |-> "IDLE", reason |-> ""] \in Host
      BY Zenon DEF Host, NodeList!NodeState, NodeList!Reason
    <3> QED
      BY <3>1, <3>2, Zenon DEF ListsOK, NodeList!DrainNode, NodeList!ResumeNode
  <2>5. ListsOK'
    BY <1>1, <2>1, <2>4 DEF ListsOK
  <2> QED
    BY <1>2, <2>2, <2>3, <2>5
<1>8. CASE NodeList!QueryNode(i)
  <2>1. /\ UNCHANGED <<hosts, entries, pages>>
        /\ \/ tasks' = NodeList!RemoveAt(tasks, i)
           \/ \E ok \in BOOLEAN :
                tasks' = [tasks EXCEPT ![i] = [t EXCEPT !.phase = "answered", !.ok = ok]]
    BY <1>3, <1>8 DEF NodeList!QueryNode
  <2>2. TasksOK'
    BY <1>1, <1>4, <2>1, TaskLemma DEF TasksOK
  <2>3. PagesOK(pages)' /\ SortAlone'
    BY <1>1, <2>1 DEF PagesOK, SortAlone, Names
  <2> QED
    BY <1>1, <1>2, <2>1, <2>2, <2>3 DEF ListsOK
<1>9. CASE NodeList!ShowResult(i)
  <2>1. PICK stack : /\ stack = IF t.op \in {"test", "info"}
                                THEN NodeList!RemovePage(pages, "progress") ELSE pages
                     /\ PagesOK(stack) /\ Names(stack) \subseteq Names(pages)
    BY RemovePageLemma
  <2>2. /\ UNCHANGED <<hosts, entries>> /\ tasks' = NodeList!RemoveAt(tasks, i)
        /\ pages' = NodeList!AddPage(stack, NodeList!ResultPage(t), 0)
    BY <1>3, <1>9, <2>1 DEF NodeList!ShowResult
  <2>3. NodeList!ResultPage(t) \in {"error", "success", "node-details", "notification", "node-info"}
    BY DEF NodeList!ResultPage, Task, NodeList!Mutates
  <2>4. 0 \in {0} \cup NodeList!Node
        /\ NodeList!ResultPage(t) \in (NodeList!Closes \cup {"progress"}) \ {"sort-by", "group-by"}
    BY <2>3 DEF NodeList!Closes
  <2>5. PagesOK(pages)' /\ SortAlone'
    BY <1>1, <2>1, <2>2, <2>4, PageOver
  <2>6. TasksOK'
    BY <1>1, <2>2, TaskLemma DEF TasksOK
  <2> QED
    BY <1>1, <1>2, <2>2, <2>5, <2>6 DEF ListsOK
<1> QED
  BY <1>5, <1>6, <1>7, <1>8, <1>9 DEF NodeList!AtTask

\* The nodes view starts so.
LEMMA NodesStart == Init => NodesInv
<1> SUFFICES ASSUME Init
             PROVE  NodesInv
  OBVIOUS
<1>1. /\ hosts = InitialHosts /\ entries = <<>> /\ fetch = NodeList!Idle /\ nodes = <<>>
      /\ array = InitialStates /\ used = Len(InitialStates) /\ groupBy = InitialGroupBy
      /\ sorted = FALSE /\ rows = {} /\ pages = <<>> /\ tasks = <<>> /\ keys = 0
  BY Zenon DEF Init, NodeList!Init
<1>2. partFilter \in NodeList!Wanted
  BY Zenon DEF Init, NodeList!Init, NodeList!Wanted
<1>3. \A S : <<>> \in Seq(S) /\ Len(<<>>) = 0 /\ DOMAIN <<>> = {}
  BY EmptySeq
<1>4. fetch \in Fetch /\ fetch.phase = "idle" /\ fetch.len = 0 /\ <<>> \in Lists
  BY <1>1, IdleLemma
<1>5. Len(array) \in Nat /\ DOMAIN array = 1 .. Len(array)
      /\ array \in Seq(NodeList!Toggled)
      /\ \A i, j \in 1 .. Len(array) : i # j => array[i] # array[j]
  BY <1>1, LenProperties, NodesAssumption
<1>6. hosts \in [NodeList!Node -> Host]
  BY <1>1, LenProperties, NodesAssumption DEF Host, NodeList!Node
<1>7. ListsOK
  BY <1>1, <1>3, <1>4, <1>6 DEF ListsOK
<1>8. FilterOK /\ ReadsOK
  BY <1>1, <1>4, <1>5 DEF FilterOK, ReadsOK
<1>9. LookOK
  BY <1>1, <1>2, NodesAssumption DEF LookOK
<1>10. PagesOK(pages) /\ SortAlone
  BY <1>1, <1>3 DEF PagesOK, SortAlone, Names
<1>11. TasksOK
  BY <1>1, <1>3, BoundsAssumption DEF TasksOK
<1> QED
  BY <1>7, <1>8, <1>9, <1>10, <1>11 DEF NodesInv

\* Its steps keep the invariant.
LEMMA NodesSteps ==
  ASSUME NodesInv, NodeList!NodesNext
  PROVE  NodesInv'
BY FetchSteps, StateSteps, FilterSteps, LookSteps, AskSteps, TaskSteps, Zenon DEF NodeList!NodesNext

\* The invariant is more than the types.
LEMMA NodesTypes == NodesInv => NodeList!NodesTypeOK
<1> SUFFICES ASSUME NodesInv
             PROVE  NodeList!NodesTypeOK
  OBVIOUS
<1> USE DEF NodesInv
<1>1. /\ sorted => groupBy = "none"
      /\ groupBy \in NodeList!Grouping
      /\ hosts \in [NodeList!Node -> [state : NodeList!NodeState, reason : NodeList!Reason]]
  BY DEF LookOK, ListsOK, Host
<1>2. DOMAIN nodes \subseteq NodeList!Node
      /\ \A n \in DOMAIN nodes : nodes[n].state \in NodeList!NodeState
  BY DEF ListsOK, Lists, Host
<1>3. NodeList!Range(array) \subseteq NodeList!Toggled
  <2>1. DOMAIN array = 1 .. Len(array) /\ \A i \in 1 .. Len(array) : array[i] \in NodeList!Toggled
    BY LenProperties, ElementOfSeq DEF FilterOK
  <2> QED
    BY <2>1 DEF NodeList!Range
<1>4. used \in 0 .. Len(array) /\ NodeList!Cardinality(NodeList!States) = used
  <2>1. NodeList!Cardinality(NodeList!States) = Cardinality(NodeList!States)
    BY DEF NodeList!Cardinality, Cardinality
  <2> QED
    BY <2>1, StatesCounted DEF FilterOK
<1>5. /\ fetch.phase \in {"idle", "started", "reading", "read", "got"} /\ fetch.len <= 2
  BY DEF ListsOK, Fetch
<1>6. \A i \in DOMAIN pages : pages[i].node \in {0} \cup NodeList!Node
  <2>1. DOMAIN pages = 1 .. Len(pages) /\ \A i \in 1 .. Len(pages) : pages[i] \in Page
    BY LenProperties, ElementOfSeq DEF PagesOK
  <2> QED
    BY <2>1 DEF Page
<1>7. \A i, j \in DOMAIN pages : pages[i].name = pages[j].name => i = j
  BY DEF PagesOK
<1>8. keys \in 0 .. MaxKeys /\ Len(tasks) <= MaxTasks
  BY DEF TasksOK
<1> QED
  BY <1>1, <1>2, <1>3, <1>4, <1>5, <1>6, <1>7, <1>8, Zenon DEF NodeList!NodesTypeOK

\* The nodes view keeps its invariant.
LEMMA NodesInvariance == Spec => []NodesInv
<1>1. Init => NodesInv
  BY NodesStart
<1>2. NodesInv /\ [Next]_vars => NodesInv'
  <2> SUFFICES ASSUME NodesInv, [Next]_vars
               PROVE  NodesInv'
    OBVIOUS
  <2>1. CASE NodesStep
    BY <2>1, NodesSteps DEF NodesStep
  <2>2. CASE UNCHANGED nodesVars
    BY <2>2 DEF nodesVars, NodesInv, ListsOK, FilterOK, ReadsOK, LookOK, PagesOK,
                SortAlone, Names, TasksOK
  <2> QED
    BY <2>1, <2>2 DEF Next, RingStep, WizardStep, SearchStep, HealthStep, vars
<1> QED
  BY <1>1, <1>2, PTL DEF Spec

-----------------------------------------------------------------------------
(***************************************************************************)
(* The types of all parts.                                                 *)
(***************************************************************************)

\* Of the loops, no more than one holds the lock, and no check is still to be made
\* while none does.
LoopsOK ==
  /\ Len(loops) \in 0 .. MaxLoops
  /\ loops \in [1 .. Len(loops) -> {"due", "checks", "waits", "ended"}]
  /\ lock \in 0 .. Len(loops)
  /\ \A l \in DOMAIN loops : l = lock <=> loops[l] = "checks"
  /\ todo \subseteq Health!Component /\ (lock = 0 => todo = {})
  /\ running \in BOOLEAN

\* What the monitor has found.
FoundOK ==
  /\ now \in 0 .. MaxNow
  /\ DOMAIN checks \subseteq Health!Component
  /\ \A k \in DOMAIN checks : checks[k] \in [status : Health!Status, at : 0 .. now]
  /\ overall \in Health!Status
  /\ DOMAIN alerts \subseteq Health!AlertId
  /\ \A id \in DOMAIN alerts : alerts[id] \in Health!Alert

\* What the goroutine of tview is about.
DrawnOK ==
  /\ drawing \in {"nothing"} \cup Health!Box /\ upToDate \subseteq Health!Box
  /\ ticks \in 0 .. MaxTicks

HealthTypeInv == LoopsOK /\ FoundOK /\ DrawnOK

\* What a check finds is a status.
LEMMA StatusLemma ==
  ASSUME NEW name \in Health!Component, NEW answer
  PROVE  Health!CheckStatus(name, answer) \in Health!Status
<1>1. \A v, w, c : Health!SetCheckStatus(v, w, c) \in Health!Status
  BY DEF Health!SetCheckStatus, Health!Status, Health!Bad
<1>2. Health!CheckNodes(answer) \in Health!Status
  BY <1>1 DEF Health!CheckNodes, Health!Status, Health!Bad
<1>3. /\ Health!CheckQueue(answer.pending) \in Health!Status
      /\ Health!CheckUtilization(answer) \in Health!Status
  BY <1>1 DEF Health!CheckQueue, Health!CheckUtilization
<1>4. name \in {"nodes", "queue", "utilization"}
  BY ChecksAssumption DEF Health!Component
<1> QED
  BY <1>2, <1>3, <1>4 DEF Health!CheckStatus, Health!Status

\* The loops of the monitor, started and stopped.
LEMMA LoopSteps ==
  ASSUME HealthTypeInv,
         \/ Health!Start \/ Health!Stop
         \/ \E l \in DOMAIN loops : Health!Tick(l) \/ Health!BeginRound(l)
         \/ Health!EndRound
  PROVE  HealthTypeInv'
<1> USE DEF HealthTypeInv
<1> DEFINE S == {"due", "checks", "waits", "ended"}
<1>1. PICK n \in 0 .. MaxLoops : /\ n = Len(loops) /\ loops \in [1 .. n -> S]
                                 /\ DOMAIN loops = 1 .. n /\ lock \in 0 .. n
                                 /\ MaxLoops \in Nat
  BY BoundsAssumption DEF LoopsOK
<1>2. ASSUME NEW m \in 0 .. MaxLoops, NEW f \in [1 .. m -> S]
      PROVE  Len(f) = m /\ DOMAIN f = 1 .. m
  BY <1>1, <1>2
<1>3. /\ UNCHANGED <<checks, alerts, now, drawing>>
      /\ overall' = overall \/ overall' = Health!OverallStatus
      /\ upToDate' \subseteq upToDate
  BY DEF Health!Start, Health!Stop, Health!Tick, Health!BeginRound, Health!EndRound
<1>4. Health!OverallStatus \in Health!Status
  BY DEF Health!OverallStatus, Health!Status, Health!Bad
<1>5. FoundOK'
  BY <1>3, <1>4 DEF FoundOK
<1>6. DrawnOK'
  <2>1. ticks' \in 0 .. MaxTicks
    <3>1. ticks' = ticks \/ (ticks < MaxTicks /\ ticks' = ticks + 1)
      BY DEF Health!Start, Health!Stop, Health!Tick, Health!BeginRound, Health!EndRound
    <3> QED
      BY <3>1, BoundsAssumption DEF DrawnOK
  <2> QED
    BY <1>3, <2>1 DEF DrawnOK
<1>7. CASE Health!Start
  <2>1. n < MaxLoops /\ loops' = Append(loops, "due") /\ running' = TRUE /\ UNCHANGED <<lock, todo>>
    BY <1>1, <1>7 DEF Health!Start
  <2>2. loops \in Seq(S) /\ "due" \in S
    BY <1>1
  <2>3. PICK f : f = Append(loops, "due")
    OBVIOUS
  <2>4. /\ f \in Seq(S) /\ Len(f) = n + 1 /\ f[n + 1] = "due"
        /\ \A l \in 1 .. n : f[l] = loops[l]
    <3> HIDE DEF S
    <3> QED
      BY <1>1, <2>2, <2>3, AppendProperties
  <2>5. f \in [1 .. n + 1 -> S] /\ DOMAIN f = 1 .. n + 1 /\ n + 1 \in 0 .. MaxLoops
    BY <1>1, <2>1, <2>4, LenProperties
  <2>6. lock' \in 0 .. n + 1 /\ n + 1 # lock
        /\ \A l \in 1 .. n + 1 : l \in 1 .. n \/ l = n + 1
    BY <1>1, <2>1
  <2>7. \A l \in 1 .. n + 1 : l = lock <=> f[l] = "checks"
    BY <1>1, <2>4, <2>6 DEF LoopsOK
  <2>8. LoopsOK'
    BY <2>1, <2>3, <2>4, <2>5, <2>6, <2>7 DEF LoopsOK
  <2> QED
    BY <1>5, <1>6, <2>8
<1>8. CASE Health!Stop
  <2>1. UNCHANGED <<loops, lock, todo>> /\ running' = FALSE
    BY <1>8 DEF Health!Stop
  <2>2. LoopsOK'
    BY <2>1 DEF LoopsOK
  <2> QED
    BY <1>5, <1>6, <2>2
<1>9. CASE \E l \in DOMAIN loops : Health!Tick(l)
  <2>1. PICK l \in 1 .. n, s \in {"due", "ended"} :
          /\ loops[l] = "waits" /\ loops' = [loops EXCEPT ![l] = s]
          /\ UNCHANGED <<running, lock, todo>>
    BY <1>1, <1>9 DEF Health!Tick
  <2>2. PICK f : f = [loops EXCEPT ![l] = s]
    OBVIOUS
  <2>3. f \in [1 .. n -> S] /\ Len(f) = n /\ DOMAIN f = 1 .. n
    <3>1. f \in [1 .. n -> S]
      BY <1>1, <2>1, <2>2
    <3> QED
      BY <1>2, <3>1
  <2>4. \A m \in 1 .. n : m = lock <=> f[m] = "checks"
    BY <1>1, <2>1, <2>2 DEF LoopsOK
  <2>5. LoopsOK'
    BY <1>1, <2>1, <2>2, <2>3, <2>4 DEF LoopsOK
  <2> QED
    BY <1>5, <1>6, <2>5
<1>10. CASE \E l \in DOMAIN loops : Health!BeginRound(l)
  <2>1. PICK l \in 1 .. n :
          /\ lock = 0 /\ lock' = l /\ todo' = Health!Component
          /\ loops' = [loops EXCEPT ![l] = "checks"] /\ UNCHANGED running
    BY <1>1, <1>10 DEF Health!BeginRound
  <2>2. PICK f : f = [loops EXCEPT ![l] = "checks"]
    OBVIOUS
  <2>3. f \in [1 .. n -> S] /\ Len(f) = n /\ DOMAIN f = 1 .. n
    <3>1. f \in [1 .. n -> S]
      BY <1>1, <2>1, <2>2
    <3> QED
      BY <1>2, <3>1
  <2>4. \A m \in 1 .. n : m = l <=> f[m] = "checks"
    BY <1>1, <2>1, <2>2 DEF LoopsOK
  <2>5. LoopsOK'
    BY <1>1, <2>1, <2>2, <2>3, <2>4 DEF LoopsOK
  <2> QED
    BY <1>5, <1>6, <2>5
<1>11. CASE Health!EndRound
  <2>1. /\ lock # 0 /\ lock' = 0 /\ todo = {} /\ todo' = todo
        /\ loops' = [loops EXCEPT ![lock] = "waits"] /\ UNCHANGED running
    BY <1>11 DEF Health!EndRound
  <2>2. PICK f : f = [loops EXCEPT ![lock] = "waits"]
    OBVIOUS
  <2>3. f \in [1 .. n -> S] /\ Len(f) = n /\ DOMAIN f = 1 .. n
    <3>1. f \in [1 .. n -> S]
      BY <1>1, <2>1, <2>2
    <3> QED
      BY <1>2, <3>1
  <2>4. \A m \in 1 .. n : m = 0 <=> f[m] = "checks"
    BY <1>1, <2>1, <2>2 DEF LoopsOK
  <2>5. LoopsOK'
    BY <1>1, <2>1, <2>2, <2>3, <2>4 DEF LoopsOK
  <2> QED
    BY <1>5, <1>6, <2>5
<1> QED
  BY <1>7, <1>8, <1>9, <1>10, <1>11

\* What the monitor finds, and what the user does about alerts.
LEMMA AlertSteps ==
  ASSUME HealthTypeInv,
         \/ \E name \in Health!Component : \E answer \in Answers[name] :
              Health!CheckReturns(name, answer)
         \/ Health!Second
         \/ \E id \in Health!Active : Health!AcknowledgeAlert(id) \/ Health!ResolveAlert(id)
         \/ Health!ClearResolvedAlerts
  PROVE  HealthTypeInv'
<1> USE DEF HealthTypeInv
<1>1. /\ UNCHANGED <<running, loops, lock, overall, ticks, drawing>>
      /\ todo' \subseteq todo
  BY DEF Health!CheckReturns, Health!Second, Health!AcknowledgeAlert, Health!ResolveAlert,
         Health!ClearResolvedAlerts
<1>2. LoopsOK'
  BY <1>1 DEF LoopsOK
<1>3. DrawnOK'
  <2>1. upToDate' \subseteq upToDate \cup {"alerts"}
    BY DEF Health!CheckReturns, Health!Second, Health!AcknowledgeAlert, Health!ResolveAlert,
           Health!ClearResolvedAlerts
  <2> QED
    BY <1>1, <2>1 DEF DrawnOK, Health!Box
<1>4. now \in 0 .. MaxNow /\ MaxNow \in Nat /\ 0 \in 0 .. MaxNow /\ FALSE \in BOOLEAN
      /\ TRUE \in BOOLEAN
  BY BoundsAssumption DEF FoundOK
<1>5. CASE \E name \in Health!Component : \E answer \in Answers[name] :
             Health!CheckReturns(name, answer)
  <2>1. PICK name \in Health!Component, status \in Health!Status :
          /\ checks' = Health!Put(checks, name, [status |-> status, at |-> now])
          /\ alerts' = IF status \in Health!Bad THEN Health!AddAlert(name, status) ELSE alerts
          /\ now' = now
    BY <1>5, StatusLemma DEF Health!CheckReturns
  <2>2. [status |-> status, at |-> now] \in [status : Health!Status, at : 0 .. now]
    BY <1>4
  <2>3. /\ DOMAIN checks' \subseteq Health!Component
        /\ \A k \in DOMAIN checks' : checks'[k] \in [status : Health!Status, at : 0 .. now]
    BY <2>1, <2>2 DEF Health!Put, FoundOK
  <2>4. /\ DOMAIN alerts' \subseteq Health!AlertId
        /\ \A id \in DOMAIN alerts' : alerts'[id] \in Health!Alert
    <3>1. CASE alerts' = alerts
      BY <3>1 DEF FoundOK
    <3>2. CASE alerts' # alerts
      <4>1. status \in Health!Bad /\ <<name, now>> \in Health!AlertId
        BY <1>4, <2>1, <3>2 DEF Health!AlertId
      <4>2. PICK new : new = [severity |-> status, acknowledged |-> FALSE, resolved |-> FALSE,
                              resolvedAt |-> 0]
        OBVIOUS
      <4>3. new \in Health!Alert
        BY <1>4, <4>1, <4>2 DEF Health!Alert
      <4>4. alerts' = Health!Put(alerts, <<name, now>>, new)
        BY <2>1, <3>2, <4>2 DEF Health!AddAlert
      <4> QED
        BY <4>1, <4>3, <4>4 DEF Health!Put, FoundOK
    <3> QED
      BY <3>1, <3>2
  <2>5. FoundOK'
    BY <1>1, <2>1, <2>3, <2>4 DEF FoundOK
  <2> QED
    BY <1>2, <1>3, <2>5
<1>6. CASE Health!Second
  <2>1. now < MaxNow /\ now' = now + 1 /\ UNCHANGED <<checks, alerts>>
    BY <1>6 DEF Health!Second
  <2>2. now' \in 0 .. MaxNow /\ \A i \in 0 .. now : i \in 0 .. now'
    BY <1>4, <2>1
  <2>3. \A k \in DOMAIN checks : checks[k] \in [status : Health!Status, at : 0 .. now']
    BY <2>2 DEF FoundOK
  <2>4. FoundOK'
    BY <1>1, <2>1, <2>2, <2>3 DEF FoundOK
  <2> QED
    BY <1>2, <1>3, <2>4
<1>7. CASE \E id \in Health!Active : Health!AcknowledgeAlert(id) \/ Health!ResolveAlert(id)
  <2>1. PICK id \in DOMAIN alerts :
          \/ alerts' = [alerts EXCEPT ![id].acknowledged = TRUE]
          \/ alerts' = [alerts EXCEPT ![id].resolved = TRUE, ![id].resolvedAt = now]
    BY <1>7 DEF Health!AcknowledgeAlert, Health!ResolveAlert, Health!Active
  <2>2. now' = now /\ checks' = checks
    BY <1>7 DEF Health!AcknowledgeAlert, Health!ResolveAlert
  <2>3. PICK a \in Health!Alert : a = alerts[id]
    BY DEF FoundOK
  <2>4. /\ [a EXCEPT !.acknowledged = TRUE] \in Health!Alert
        /\ [a EXCEPT !.resolved = TRUE, !.resolvedAt = now] \in Health!Alert
    BY <1>4 DEF Health!Alert
  <2>5. PICK b \in Health!Alert : alerts' = [alerts EXCEPT ![id] = b]
    BY <2>1, <2>3, <2>4
  <2>6. /\ DOMAIN alerts' \subseteq Health!AlertId
        /\ \A i \in DOMAIN alerts' : alerts'[i] \in Health!Alert
    BY <2>5 DEF FoundOK
  <2>7. FoundOK'
    BY <1>1, <2>2, <2>6 DEF FoundOK
  <2> QED
    BY <1>2, <1>3, <2>7
<1>8. CASE Health!ClearResolvedAlerts
  <2>1. UNCHANGED <<now, checks>>
        /\ \E old : alerts' = Health!Restrict(alerts, DOMAIN alerts \ old)
    BY <1>8 DEF Health!ClearResolvedAlerts
  <2>2. /\ DOMAIN alerts' \subseteq Health!AlertId
        /\ \A i \in DOMAIN alerts' : alerts'[i] \in Health!Alert
    BY <2>1 DEF Health!Restrict, FoundOK
  <2>3. FoundOK'
    BY <1>1, <2>1, <2>2 DEF FoundOK
  <2> QED
    BY <1>2, <1>3, <2>3
<1> QED
  BY <1>5, <1>6, <1>7, <1>8

\* The types of the health monitor.
LEMMA HealthTypesHold == Spec => []Health!HealthTypeOK
<1>1. Init => HealthTypeInv
  <2> SUFFICES ASSUME Init
               PROVE  HealthTypeInv
    OBVIOUS
  <2>1. /\ running = FALSE /\ loops = <<>> /\ lock = 0 /\ todo = {}
        /\ checks = <<>> /\ overall = "unknown" /\ alerts = <<>>
        /\ ticks = 0 /\ now = 0 /\ drawing = "nothing" /\ upToDate = {}
    BY DEF Init, Health!Init
  <2>2. /\ Len(<<>>) = 0 /\ <<>> \in [1 .. 0 -> {"due", "checks", "waits", "ended"}]
        /\ DOMAIN <<>> = {}
    OBVIOUS
  <2>3. 0 \in 0 .. MaxLoops /\ 0 \in 0 .. MaxTicks /\ 0 \in 0 .. MaxNow /\ 0 \in 0 .. 0
    BY BoundsAssumption
  <2>4. LoopsOK
    BY <2>1, <2>2, <2>3 DEF LoopsOK
  <2>5. FoundOK
    BY <2>1, <2>2, <2>3 DEF FoundOK, Health!Status
  <2>6. DrawnOK
    BY <2>1, <2>3 DEF DrawnOK
  <2> QED
    BY <2>4, <2>5, <2>6 DEF HealthTypeInv
<1>2. HealthTypeInv /\ [Next]_vars => HealthTypeInv'
  <2> SUFFICES ASSUME HealthTypeInv, [Next]_vars
               PROVE  HealthTypeInv'
    OBVIOUS
  <2>1. CASE HealthStep
    <3>1. CASE Health!Draw
      <4>1. UNCHANGED <<running, loops, lock, todo, checks, overall, alerts, ticks, now>>
        BY <3>1 DEF Health!Draw, Health!Refresh, Health!UpdateHealthOverview,
                    Health!UpdateAlerts, Health!UpdateHealthChecks
      <4>2. /\ drawing' \in {"nothing", "overview", "alerts", "checks"}
            /\ upToDate' \subseteq upToDate \cup {"overview", "alerts", "checks"}
        BY <3>1 DEF Health!Draw, Health!Refresh, Health!UpdateHealthOverview,
                    Health!UpdateAlerts, Health!UpdateHealthChecks
      <4> QED
        BY <4>1, <4>2 DEF HealthTypeInv, LoopsOK, FoundOK, DrawnOK, Health!Box
    <3> QED
      BY <2>1, <3>1, LoopSteps, AlertSteps DEF HealthStep, Health!HealthNext, Health!Monitor
  <2>2. CASE UNCHANGED healthVars
    BY <2>2 DEF healthVars, HealthTypeInv, LoopsOK, FoundOK, DrawnOK
  <2> QED
    BY <2>1, <2>2 DEF Next, RingStep, WizardStep, NodesStep, SearchStep, vars
<1>3. HealthTypeInv => Health!HealthTypeOK
  <2> SUFFICES ASSUME HealthTypeInv
               PROVE  Health!HealthTypeOK
    OBVIOUS
  <2>1. loops \in Health!BoundedSeq({"due", "checks", "waits", "ended"}, MaxLoops)
    BY DEF HealthTypeInv, LoopsOK, Health!BoundedSeq, Health!SeqOf
  <2>2. Health!Range(alerts) \subseteq Health!Alert
    BY DEF HealthTypeInv, FoundOK, Health!Range
  <2> QED
    BY <2>1, <2>2 DEF HealthTypeInv, LoopsOK, FoundOK, DrawnOK, Health!HealthTypeOK
<1> QED
  BY <1>1, <1>2, <1>3, PTL DEF Spec

\* The types of the ring, and where head is.
LEMMA RingTypes == Spec => []Ring!TypeOK
<1> DEFINE Total == totalLines <= MaxTotal
<1>1. Init => RingInv /\ Total
  <2> SUFFICES ASSUME Init
               PROVE  RingInv /\ Total
    OBVIOUS
  <2>1. totalLines = 0
    BY DEF Init, Ring!Init
  <2> QED
    BY <2>1, RingStarts, BoundsAssumption
<1>2. RingInv /\ Total /\ [Next]_vars => RingInv' /\ Total'
  <2> SUFFICES ASSUME RingInv, Total, [Next]_vars
               PROVE  RingInv' /\ Total'
    OBVIOUS
  <2>1. CASE RingStep
    <3>1. totalLines' = totalLines \/ totalLines' <= MaxTotal
      BY <2>1 DEF RingStep, Ring!Next, Ring!AppendString, Ring!Clear, Ring!Resize
    <3> QED
      BY <3>1, RingSteps
  <2>2. CASE UNCHANGED totalLines
    BY <2>2, RingSteps
  <2> QED
    BY <2>1, <2>2 DEF Next, WizardStep, NodesStep, SearchStep, HealthStep, vars, ringVars
<1>3. RingInv /\ Total => Ring!TypeOK
  <2> SUFFICES ASSUME RingInv, Total
               PROVE  Ring!TypeOK
    OBVIOUS
  <2>1. PICK b : b = Ring0 /\ IsRing(b, capacity)
    BY DEF RingInv
  <2>2. b.data = data /\ b.head = head /\ b.tail = tail /\ b.size = size
    BY <2>1 DEF Ring0
  <2>3. /\ capacity \in Nat \ {0} /\ totalLines \in Nat
        /\ data \in [0 .. capacity - 1 -> Line \cup {NoLine}]
        /\ tail \in 0 .. capacity - 1 /\ size \in 0 .. capacity
        /\ size < capacity => tail = 0
        /\ head = Slot(capacity, tail + size)
    BY <2>1, <2>2 DEF IsRing, RingInv
  <2>4. PICK c, i : c = capacity /\ i = tail + size
    OBVIOUS
  <2>5. c \in Nat \ {0} /\ i \in 0 .. 2 * c - 1
    BY <2>3, <2>4
  <2>6. i % c = Slot(c, i) /\ Slot(c, i) \in 0 .. c - 1
    BY <2>5, SlotIsRemainder
  <2>7. head = (tail + size) % capacity /\ head \in 0 .. capacity - 1
    BY <2>3, <2>4, <2>6
  <2>8. totalLines \in 0 .. MaxTotal
    BY <2>3, BoundsAssumption
  <2> QED
    BY <2>3, <2>7, <2>8 DEF Ring!TypeOK
<1> QED
  BY <1>1, <1>2, <1>3, PTL DEF Spec

\* The types of the search.
LEMMA SearchTypes == SearchInv => Search!SearchTypeOK
<1> SUFFICES ASSUME SearchInv
             PROVE  Search!SearchTypeOK
  OBVIOUS
<1> USE DEF SearchInv
<1>1. searching \in 0 .. Len(searches) /\ from \in 0 .. Len(searches)
  BY DEF SearchingInv, ResultsInv
<1>2. \A i \in DOMAIN results : results[i].score > 0
  <2>1. \A i \in DOMAIN results : results[i] \in AllResults
    BY LenProperties, ElementOfSeq DEF ResultsInv
  <2> QED
    BY <2>1, ResultsAreScored
<1>3. ASSUME NEW s \in DOMAIN searches
      PROVE  /\ searches[s].at \in {"collects", "queued", "shown", "left"}
             /\ searches[s].cancelled \in BOOLEAN /\ (s # searching => searches[s].cancelled)
             /\ Len(searches[s].channel) <= ChanCap
             /\ \A k \in Search!Lists :
                  searches[s].lists[k].at \in {"asks", "sends", "looks", "done", "failed"}
  <2>1. PICK x : x = searches[s] /\ x \in SearchRecord /\ Len(x.channel) <= ChanCap
    BY DEF SearchesInv, SearchOK
  <2>2. /\ x.at \in {"collects", "queued", "shown", "left"} /\ x.cancelled \in BOOLEAN
        /\ x.lists \in [Search!Lists -> ListRecord]
    BY <2>1 DEF SearchRecord
  <2>3. \A k \in Search!Lists : x.lists[k].at \in {"asks", "sends", "looks", "done", "failed"}
    BY <2>2 DEF ListRecord
  <2>4. s # searching => searches[s].cancelled
    BY DEF SearchingInv
  <2> QED
    BY <2>1, <2>2, <2>3, <2>4
<1> QED
  BY <1>1, <1>2, <1>3 DEF Search!SearchTypeOK

\* What the configuration allows and the cluster offers is a list.
LEMMA OptionsAreLists ==
  ASSUME NEW offered \in Seq(STRING), NEW allowed \in Seq(STRING)
  PROVE  Wizard!FilterFieldOptions(offered, allowed) \in Seq(STRING)
<1> DEFINE n == Len(allowed)
           S == Seq(STRING)
           H(list, i) == IF allowed[i] \in Wizard!Range(offered)
                         THEN Append(list, allowed[i]) ELSE list
           G == [q \in S \X (1 .. n) |-> H(q[1], q[2])]
           F(g, i) == IF i = 0 THEN <<>> ELSE H(g[i - 1], i)
           Both(g) == g = [i \in 0 .. n |-> F(g, i)]
<1>1. n \in Nat /\ \A i \in 1 .. n : allowed[i] \in STRING
  BY LenProperties, ElementOfSeq
<1>2. \A list \in S, i \in 1 .. n : H(list, i) \in S
  BY <1>1, AppendProperties
<1>3. <<>> \in S
  BY EmptySeq
<1> HIDE DEF n, S, H
<1>4. G \in [S \X (1 .. n) -> S]
  BY <1>2
<1>5. \A list \in S, i \in 1 .. n : G[<<list, i>>] = H(list, i)
  OBVIOUS
<1> HIDE DEF G
<1>6. PICK g : Loop(S, <<>>, 0, n, G, g)
  <2>1. 0 \in Nat /\ 0 <= n /\ 0 + 1 = 1
    BY <1>1
  <2> QED
    BY <1>1, <1>3, <1>4, <2>1, LoopIsDefined
<1>7. /\ g \in [0 .. n -> S] /\ g[0] = <<>>
      /\ \A i \in 1 .. n : g[i] = H(g[i - 1], i)
  <2>1. \A i \in 1 .. n : i - 1 \in 0 .. n
    BY <1>1
  <2>2. 0 + 1 = 1
    OBVIOUS
  <2> QED
    BY <1>5, <1>6, <2>1, <2>2 DEF Loop
<1>8. Both(g)
  <2>1. \A i \in 0 .. n : i = 0 \/ (i \in 1 .. n /\ i # 0)
    BY <1>1
  <2>2. \A i \in 0 .. n : g[i] = F(g, i)
    BY <1>7, <2>1
  <2> HIDE DEF F
  <2> QED
    BY <1>7, <2>2
<1> DEFINE both == CHOOSE h : Both(h)
<1>9. Both(both)
  <2> HIDE DEF Both
  <2> QED
    BY <1>8
<1> HIDE DEF both
<1>10. both[n] \in S
  <2>1. both = [i \in 0 .. n |-> F(both, i)]
    BY <1>9
  <2>2. both[0] = <<>> /\ \A i \in 1 .. n : both[i] = H(both[i - 1], i)
    <3>1. \A i \in 1 .. n : i \in 0 .. n /\ i # 0
      BY <1>1
    <3>2. 0 \in 0 .. n
      BY <1>1
    <3> QED
      BY <2>1, <3>1, <3>2
  <2> DEFINE T == {i \in 0 .. n : both[i] \in S}
  <2>3. 0 \in T
    BY <1>1, <1>3, <2>2
  <2>4. \A i \in 0 .. n - 1 : i \in T => i + 1 \in T
    <3> SUFFICES ASSUME NEW i \in 0 .. n - 1, i \in T
                 PROVE  i + 1 \in T
      OBVIOUS
    <3>1. i + 1 \in 1 .. n /\ i + 1 \in 0 .. n /\ (i + 1) - 1 = i
      BY <1>1
    <3> QED
      BY <1>2, <2>2, <3>1
  <2> HIDE DEF T
  <2>5. 0 .. n \subseteq T
    BY <1>1, <2>3, <2>4, NatInductionBySet
  <2>6. n \in 0 .. n
    BY <1>1
  <2> QED
    BY <2>5, <2>6 DEF T
<1>11. Wizard!FilterFieldOptions(offered, allowed) \in {offered, allowed, both[n]}
  BY DEF Wizard!FilterFieldOptions, both, Both, F, H, n
<1> QED
  BY <1>10, <1>11 DEF S

\* Where no form is open.
NoFormOn == {"closed", "templates", "success"}

\* A dropdown begins with one of its entries.
LEMMA ChosenIsOffered ==
  ASSUME NEW k \in Wizard!Dropdown, NEW offers \in Offers, NEW value
  PROVE  LET list == Wizard!OptionsOf(k, offers[k])
         IN list # <<>> => Wizard!Chosen(list, value) \in Wizard!Range(list)
<1> DEFINE list == Wizard!OptionsOf(k, offers[k])
<1>1. list \in Seq(STRING \cup {Wizard!Unset})
  <2>1. PICK some : some = Wizard!FilterFieldOptions(offers[k], FieldOptions[k])
    OBVIOUS
  <2>2. some \in Seq(STRING)
    BY <2>1, OptionsAreLists, WizardAssumption
  <2>3. PICK first, S : first = Wizard!Unset /\ S = STRING \cup {first}
    OBVIOUS
  <2>4. some \in Seq(S)
    <3>1. STRING \subseteq S
      BY <2>3
    <3> QED
      BY <2>2, <3>1, SeqMonotonic
  <2>5. <<first>> \in Seq(S)
    BY <2>3
  <2>6. <<first>> \o some \in Seq(S)
    BY <2>4, <2>5, ConcatProperties
  <2>7. list = some \/ list = <<first>> \o some
    BY <2>1, <2>3, Zenon DEF Wizard!OptionsOf
  <2> QED
    BY <2>3, <2>4, <2>6, <2>7
<1> HIDE DEF list
<1>2. list # <<>> => 1 \in DOMAIN list
  BY <1>1, EmptySeq, LenProperties
<1>3. list # <<>> => list[1] \in Wizard!Range(list)
  BY <1>2 DEF Wizard!Range
<1>4. list # <<>> => Wizard!Chosen(list, value) \in Wizard!Range(list)
  BY <1>3 DEF Wizard!Chosen
<1> QED
  BY <1>4 DEF list

\* What there is while no form is open.
LEMMA NoFormOK ==
  /\ DOMAIN Wizard!NoForm.job = Wizard!Field /\ Wizard!NoForm.touched = {}
  /\ Wizard!NoForm.shown = {} /\ \A k \in Wizard!Dropdown : Wizard!NoForm.options[k] = <<>>
  /\ Wizard!NoForm.submits = 0 /\ Wizard!NoForm.lost = 0
  /\ Wizard!NoForm.submits \in 0 .. MaxSubmits
  /\ Wizard!NoForm.lost \in 0 .. Wizard!NoForm.submits
<1>1. 0 \in 0 .. MaxSubmits /\ 0 \in 0 .. 0
  BY BoundsAssumption
<1> QED
  BY <1>1 DEF Wizard!NoForm, Wizard!NoTemplate

\* A new form is not the one there is none of: it has something in it.
LEMMA OpenedForm ==
  ASSUME Wizard!WizardTypeOK, NEW t, Wizard!ShowJobForm(t)
  PROVE  Wizard!WizardTypeOK'
<1>1. PICK offers \in Offers, user \in UserRecords :
        LET values == Wizard!Preset(t, user)
            visible == Wizard!Shown(values, t)
            lists == [k \in Wizard!Dropdown |->
                        IF k \in visible THEN Wizard!OptionsOf(k, offers[k]) ELSE <<>>]
        IN form' = [Wizard!NoForm EXCEPT
             !.template = t, !.shown = visible, !.options = lists,
             !.job = [k \in Wizard!Field |->
                        IF k \in Wizard!Dropdown THEN Wizard!Chosen(lists[k], values[k])
                                                 ELSE values[k]]]
  BY DEF Wizard!ShowJobForm
<1> DEFINE values == Wizard!Preset(t, user)
           visible == Wizard!Shown(values, t)
           lists == [k \in Wizard!Dropdown |->
                       IF k \in visible THEN Wizard!OptionsOf(k, offers[k]) ELSE <<>>]
           job == [k \in Wizard!Field |->
                     IF k \in Wizard!Dropdown THEN Wizard!Chosen(lists[k], values[k])
                                              ELSE values[k]]
<1>2. form' = [Wizard!NoForm EXCEPT !.template = t, !.shown = visible, !.options = lists,
                                    !.job = job]
  BY <1>1
<1>3. page' = "form" /\ forms' = forms + 1 /\ forms < MaxForms
  BY DEF Wizard!ShowJobForm
<1>4. PICK f \in Wizard!Field \ Wizard!Dropdown : HardDefaults[f] # Wizard!Unset
  BY WizardAssumption
<1>5. job[f] # Wizard!Unset
  <2>1. job[f] = values[f]
    BY <1>4
  <2>2. values[f] # Wizard!Unset
    <3> HIDE DEF values
    <3>1. \A src, dst : (dst[f] # Wizard!Unset => Wizard!Overlay(dst, src)[f] # Wizard!Unset)
      BY <1>4 DEF Wizard!Overlay
    <3>2. PICK lower : lower = Wizard!Overlay(HardDefaults, Wizard!FromMap(FormDefaults))
      OBVIOUS
    <3>3. PICK middle : middle = Wizard!Overlay(lower, t.values)
      OBVIOUS
    <3>4. values = Wizard!Overlay(Wizard!OfUser(user), middle)
      BY <3>2, <3>3 DEF values, Wizard!Preset
    <3>5. lower[f] # Wizard!Unset
      BY <1>4, <3>1, <3>2
    <3>6. middle[f] # Wizard!Unset
      BY <3>1, <3>3, <3>5
    <3>7. \A src, dst : src[f] # Wizard!Unset => Wizard!Overlay(dst, src)[f] # Wizard!Unset
      BY <1>4 DEF Wizard!Overlay
    <3> QED
      BY <3>4, <3>6, <3>7
  <2> QED
    BY <2>1, <2>2
<1>6. ASSUME NEW k \in Wizard!Dropdown, lists[k] # <<>>
      PROVE  job[k] \in Wizard!Range(lists[k])
  <2>1. k \in Wizard!Field
    BY DEF Wizard!Field, Wizard!Usual, Wizard!Dropdown
  <2>2. job[k] = Wizard!Chosen(lists[k], values[k])
    BY <2>1
  <2>3. lists[k] = Wizard!OptionsOf(k, offers[k])
    BY <1>6
  <2> HIDE DEF values, lists, job
  <2> QED
    BY <1>6, <2>2, <2>3, ChosenIsOffered
<1>7. DOMAIN job = Wizard!Field
  OBVIOUS
<1> HIDE DEF values, visible, lists, job
<1>8. PICK new : new = form'
  OBVIOUS
<1>9. /\ new.job = job /\ new.options = lists /\ new.shown = visible /\ new.touched = {}
      /\ new.submits = 0 /\ new.lost = 0
  BY <1>2, <1>8 DEF Wizard!NoForm
<1>10. new # Wizard!NoForm
  <2>1. Wizard!NoForm.job[f] = Wizard!Unset
    BY <1>4 DEF Wizard!NoForm, Wizard!NoTemplate
  <2> QED
    BY <1>5, <1>9, <2>1
<1>11. forms' \in 0 .. MaxForms /\ 0 \in 0 .. MaxSubmits /\ 0 \in 0 .. 0
  BY <1>3, BoundsAssumption DEF Wizard!WizardTypeOK
<1> QED
  BY <1>3, <1>6, <1>7, <1>8, <1>9, <1>10, <1>11 DEF Wizard!WizardTypeOK, Wizard!IsDropdown

\* A field is changed to what it may be.
LEMMA ChangedForm ==
  ASSUME WizardTypes, Wizard!WizardTypeOK, NEW k, NEW v, Wizard!Edit(k, v)
  PROVE  Wizard!WizardTypeOK'
<1> DEFINE job == [form.job EXCEPT ![k] = v]
<1>1. /\ page = "form" /\ page' = page /\ k \in form.shown
      /\ form' = [form EXCEPT !.job = job, !.touched = form.touched \cup {k}]
      /\ UNCHANGED forms
      /\ Wizard!IsDropdown(k) => v \in Wizard!Range(form.options[k])
  BY DEF Wizard!Edit
<1>2. PICK old, new : old = form /\ new = form' /\ IsForm(old)
  BY DEF WizardTypes
<1>3. DOMAIN job = DOMAIN old.job
      /\ \A f \in DOMAIN old.job : job[f] = IF f = k THEN v ELSE old.job[f]
  BY <1>2
<1> HIDE DEF job
<1>4. /\ new.job = job /\ new.options = old.options /\ new.shown = old.shown
      /\ new.touched = old.touched \cup {k} /\ new.submits = old.submits /\ new.lost = old.lost
  BY <1>1, <1>2 DEF IsForm
<1>5. new # Wizard!NoForm
  <2>1. Wizard!NoForm.touched = {}
    BY DEF Wizard!NoForm
  <2> QED
    BY <1>4, <2>1
<1>6. ASSUME NEW f \in Wizard!Dropdown, new.options[f] # <<>>
      PROVE  new.job[f] \in Wizard!Range(new.options[f])
  <2>1. f \in DOMAIN old.job /\ old.job[f] \in Wizard!Range(old.options[f])
        /\ (f = k => v \in Wizard!Range(old.options[f]))
    <3>1. f \in Wizard!Field
      BY DEF Wizard!Field, Wizard!Usual, Wizard!Dropdown
    <3> QED
      BY <1>1, <1>2, <1>4, <1>6, <3>1 DEF Wizard!WizardTypeOK, Wizard!IsDropdown
  <2> QED
    BY <1>3, <1>4, <2>1
<1> QED
  BY <1>1, <1>2, <1>3, <1>4, <1>5, <1>6 DEF Wizard!WizardTypeOK, Wizard!IsDropdown

\* A form is sent, and forgotten or kept.
LEMMA SentForm ==
  ASSUME WizardTypes, Wizard!WizardTypeOK, Wizard!Submit \/ Wizard!SubmitFails
  PROVE  Wizard!WizardTypeOK'
<1>1. UNCHANGED forms
  BY DEF Wizard!Submit, Wizard!SubmitFails
<1>2. CASE Wizard!Submit
  <2>1. page' = "success" /\ form' = Wizard!NoForm
    BY <1>2 DEF Wizard!Submit
  <2> QED
    BY <1>1, <2>1, NoFormOK DEF Wizard!WizardTypeOK, Wizard!IsDropdown
<1>3. CASE Wizard!SubmitFails
  <2>1. PICK old, new : old = form /\ new = form' /\ IsForm(old)
    BY DEF WizardTypes
  <2>2. /\ page' = "error" /\ form.submits < MaxSubmits
        /\ \/ new = [old EXCEPT !.submits = @ + 1]
           \/ new = [old EXCEPT !.submits = @ + 1, !.lost = @ + 1]
    BY <1>3, <2>1 DEF Wizard!SubmitFails, Wizard!Sends
  <2>3. /\ new.job = old.job /\ new.options = old.options /\ new.shown = old.shown
        /\ new.touched = old.touched /\ new.submits = old.submits + 1
        /\ new.lost = old.lost \/ new.lost = old.lost + 1
    BY <2>1, <2>2 DEF IsForm
  <2>4. /\ old.submits \in 0 .. MaxSubmits /\ old.lost \in 0 .. old.submits
        /\ old.submits < MaxSubmits /\ MaxSubmits \in Nat
    BY <2>1, <2>2, BoundsAssumption DEF Wizard!WizardTypeOK
  <2>5. /\ new.submits \in 0 .. MaxSubmits /\ new.lost \in 0 .. new.submits
        /\ new.submits # 0
    BY <2>3, <2>4
  <2>6. new # Wizard!NoForm
    <3>1. Wizard!NoForm.submits = 0
      BY DEF Wizard!NoForm
    <3> QED
      BY <2>5, <3>1
  <2> QED
    BY <1>1, <2>1, <2>2, <2>3, <2>5, <2>6 DEF Wizard!WizardTypeOK, Wizard!IsDropdown
<1> QED
  BY <1>2, <1>3

\* The types of the wizard: a form is open on some pages only, and its dropdowns have
\* what they offer.
LEMMA WizardTypesHold == Spec => []Wizard!WizardTypeOK
<1>1. Init => Wizard!WizardTypeOK
  <2> SUFFICES ASSUME Init
               PROVE  Wizard!WizardTypeOK
    OBVIOUS
  <2>1. page = "closed" /\ form = Wizard!NoForm /\ forms = 0
    BY DEF Init, Wizard!Init
  <2>2. forms \in 0 .. MaxForms
    BY <2>1, BoundsAssumption
  <2> QED
    BY <2>1, <2>2, NoFormOK DEF Wizard!WizardTypeOK, Wizard!IsDropdown
<1>2. WizardTypes /\ Wizard!WizardTypeOK /\ [Next]_vars => Wizard!WizardTypeOK'
  <2> SUFFICES ASSUME WizardTypes, Wizard!WizardTypeOK, [Next]_vars
               PROVE  Wizard!WizardTypeOK'
    OBVIOUS
  <2>1. CASE WizardStep
    <3>1. CASE Wizard!Show \/ Wizard!CancelSelection \/ Wizard!Preview \/ Wizard!SubmitInvalid
               \/ Wizard!CloseFront
      <4>1. /\ UNCHANGED <<form, forms>> /\ page' \in NoFormOn \cup {"form", "preview", "error"}
            /\ page \in NoFormOn <=> page' \in NoFormOn
        BY <3>1 DEF Wizard!Show, Wizard!CancelSelection, Wizard!Preview, Wizard!SubmitInvalid,
                    Wizard!CloseFront, NoFormOn
      <4> QED
        BY <4>1 DEF Wizard!WizardTypeOK, Wizard!IsDropdown, NoFormOn
    <3>2. CASE Wizard!CancelForm
      <4>1. UNCHANGED forms /\ form' = Wizard!NoForm /\ page' = "templates"
        BY <3>2 DEF Wizard!CancelForm
      <4> QED
        BY <4>1, NoFormOK DEF Wizard!WizardTypeOK, Wizard!IsDropdown
    <3> QED
      BY <2>1, <3>1, <3>2, OpenedForm, ChangedForm, SentForm DEF WizardStep, Wizard!WizardNext
  <2>2. CASE RingStep \/ NodesStep \/ SearchStep \/ HealthStep \/ UNCHANGED vars
    <3>1. UNCHANGED <<page, form, forms>>
      BY <2>2 DEF RingStep, NodesStep, SearchStep, HealthStep, vars, wizardVars
    <3> QED
      BY <3>1 DEF Wizard!WizardTypeOK, Wizard!IsDropdown
  <2> QED
    BY <2>1, <2>2 DEF Next
<1>3. WizardInv => WizardTypes
  BY DEF WizardInv
<1> QED
  BY <1>1, <1>2, <1>3, WizardInvariance, PTL DEF Spec

\* The type invariants of all parts, whatever the configuration and the cluster: among
\* them, the ring never reads or writes outside its slots, no more than one loop of the
\* monitor holds the lock, a form is open on its own pages only, no dialog of the nodes
\* view is there twice, and its rows are not sorted while they are grouped.
THEOREM TypeCorrect == Spec => []TypeOK
<1>1. Spec => []NodeList!NodesTypeOK
  BY NodesInvariance, NodesTypes, PTL
<1>2. Spec => []Search!SearchTypeOK
  BY SearchInvariance, SearchTypes, PTL
<1>3. TypeOK <=> /\ Ring!TypeOK /\ Wizard!WizardTypeOK /\ NodeList!NodesTypeOK
                 /\ Search!SearchTypeOK /\ Health!HealthTypeOK
  BY DEF TypeOK
<1> QED
  BY <1>1, <1>2, <1>3, RingTypes, WizardTypesHold, HealthTypesHold, PTL

=============================================================================
