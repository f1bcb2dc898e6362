------------------------- MODULE InMultiStreamProofs -------------------------
(***************************************************************************)
(* A multi-volume in-stream finds the volume of a position, knows where    *)
(* each volume is, and is the one stream an archive reads, for any number  *)
(* and sizes of volumes.                                                   *)
(***************************************************************************)
EXTENDS InMultiStream, SequenceTheorems, WellFoundedInduction, TLAPS

\* Every entry has the size of its volume.
Sized == \A n \in DOMAIN subs : subs[n].size = sizes[subs[n].volume]

EndOf(n) == subs[n].offset + subs[n].size

\* The entries lie one behind the other.
Laid ==
    /\ Len(subs) >= 1
    /\ subs[1].offset = 0
    /\ \A n \in 1..(Len(subs) - 1) : subs[n + 1].offset = EndOf(n)
    /\ total = EndOf(Len(subs))

\* An open stream has its volumes open.
Ready == opened => Laid /\ open = Volume /\ streamIndex < Len(subs)

\* Each volume has one entry, unless an open() failed before.
OneEach ==
    ~broken => IF opened THEN Len(subs) = Volumes /\ \A n \in DOMAIN subs : subs[n].volume = n
               ELSE subs = <<>>

IInv == TypeOK /\ Sized /\ Ready /\ OneEach /\ PlacesKnown

----------------------------------------------------------------------------
(* Counting up is done with a set of numbers, not a predicate. *)

\* A set of natural numbers has a least one.
LEMMA LeastNumber ==
  ASSUME NEW T, T \subseteq Nat, T # {}
  PROVE  \E n \in T : \A m \in T : n <= m
<1> DEFINE R == OpToRel(<, Nat)
<1>1. IsWellFoundedOn(R, Nat)
  BY NatLessThanWellFounded
<1>2. \A m, n \in Nat : m < n => <<m, n>> \in R
  BY DEF OpToRel
<1> HIDE DEF R
<1>3. PICK n \in T : \A m \in T : ~ (<<m, n>> \in R)
  BY <1>1, WFMin
<1>4. ASSUME NEW m \in T PROVE n <= m
  <2>1. m \in Nat /\ n \in Nat /\ ~(m < n)
    BY <1>2, <1>3
  <2> QED
    BY <2>1
<1> QED
  BY <1>4

\* A set with 0 and the successor of each of its numbers has all of them.
LEMMA Counting ==
  ASSUME NEW S, 0 \in S, \A n \in Nat : n \in S => n + 1 \in S
  PROVE  Nat \subseteq S
<1> SUFFICES ASSUME Nat \ S # {} PROVE FALSE
  OBVIOUS
<1>1. PICK n \in Nat \ S : \A m \in Nat \ S : n <= m
  BY LeastNumber
<1>2. n # 0 /\ n - 1 \in Nat /\ n - 1 \in S
  BY <1>1
<1>3. (n - 1) + 1 \in S
  BY <1>2
<1> QED
  BY <1>1, <1>3

----------------------------------------------------------------------------
(* The offsets of the entries. *)

\* What the recursion of OffsetOf computes.
Sum(list, f, i) == IF i = 1 THEN 0 ELSE f[i - 1] + list[i - 1].size

Sums(list, f, m) == f \in [1..(m + 1) -> Nat] /\ \A i \in 1..(m + 1) : f[i] = Sum(list, f, i)

\* One entry more.
LEMMA SumsOnce ==
  ASSUME NEW list \in Seq(Sub), NEW m \in Nat, m < Len(list), NEW f, Sums(list, f, m)
  PROVE  \E g : Sums(list, g, m + 1)
<1> DEFINE new == f[m + 1] + list[m + 1].size
           g == [i \in 1..(m + 2) |-> IF i <= m + 1 THEN f[i] ELSE new]
<1>1. f \in [1..(m + 1) -> Nat] /\ \A i \in 1..(m + 1) : f[i] = Sum(list, f, i)
  BY DEF Sums
<1>2. new \in Nat
  <2>1. list[m + 1] \in Sub /\ m + 1 \in 1..(m + 1)
    OBVIOUS
  <2>2. list[m + 1].size \in Nat
    BY <2>1 DEF Sub
  <2> QED
    BY <1>1, <2>1, <2>2
<1>3. (m + 1) + 1 = m + 2
  OBVIOUS
<1> HIDE DEF new
<1>4. g \in [1..(m + 2) -> Nat]
  BY <1>1, <1>2
<1>5. ASSUME NEW i \in 1..(m + 2) PROVE g[i] = Sum(list, g, i)
  <2>1. CASE i = 1
    <3>1. g[1] = f[1] /\ 1 \in 1..(m + 1)
      OBVIOUS
    <3> HIDE DEF g
    <3> QED
      BY <1>1, <2>1, <3>1 DEF Sum
  <2>2. CASE i # 1 /\ i <= m + 1
    <3>1. i \in 1..(m + 1) /\ g[i] = f[i] /\ g[i - 1] = f[i - 1]
      BY <2>2
    <3> HIDE DEF g
    <3> QED
      BY <1>1, <2>2, <3>1 DEF Sum
  <2>3. CASE i # 1 /\ ~(i <= m + 1)
    <3>1. i = m + 2 /\ i - 1 = m + 1 /\ g[i] = new /\ g[m + 1] = f[m + 1]
      BY <2>3
    <3> HIDE DEF g
    <3> QED
      BY <2>3, <3>1 DEF Sum, new
  <2> QED
    BY <2>1, <2>2, <2>3
<1> HIDE DEF g
<1> QED
  BY <1>3, <1>4, <1>5, Zenon DEF Sums

\* The offset of an entry is the end of the one before.
LEMMA Offsets ==
  ASSUME NEW list \in Seq(Sub)
  PROVE  /\ OffsetOf(list, 1) = 0
         /\ \A n \in 1..(Len(list) + 1) : OffsetOf(list, n) \in Nat
         /\ \A n \in 1..Len(list) : OffsetOf(list, n + 1) = OffsetOf(list, n) + list[n].size
<1> DEFINE N == Len(list)
           Known == {m \in Nat : m <= N => \E f : Sums(list, f, m)}
           before == CHOOSE f : f = [i \in 1..(N + 1) |-> Sum(list, f, i)]
<1>1. N \in Nat
  OBVIOUS
<1>2. 0 \in Known
  <2> DEFINE f == [i \in 1..1 |-> 0]
  <2>1. f \in [1..(0 + 1) -> Nat] /\ f[1] = 0 /\ \A i \in 1..(0 + 1) : i = 1
    OBVIOUS
  <2> HIDE DEF f
  <2>2. Sums(list, f, 0)
    BY <2>1, Zenon DEF Sums, Sum
  <2> QED
    BY <2>2
<1>3. ASSUME NEW m \in Nat, m \in Known PROVE m + 1 \in Known
  <2>1. SUFFICES ASSUME m + 1 <= N PROVE \E f : Sums(list, f, m + 1)
    OBVIOUS
  <2>2. m <= N /\ m < N
    BY <1>1, <2>1
  <2>3. PICK f : Sums(list, f, m)
    BY <1>3, <2>2
  <2> QED
    BY <2>2, <2>3, SumsOnce
<1>4. \E f : Sums(list, f, N)
  <2>1. Nat \subseteq Known
    <3> HIDE DEF Known
    <3> QED
      BY <1>2, <1>3, Counting
  <2> QED
    BY <1>1, <2>1
<1>5. \A n : OffsetOf(list, n) = before[n]
  BY Zenon DEF OffsetOf, Sum
<1> HIDE DEF N, Known
<1>6. PICK f : Sums(list, f, N)
  BY <1>4
<1>7. f = [i \in 1..(N + 1) |-> Sum(list, f, i)]
  BY <1>6 DEF Sums
<1>8. before = [i \in 1..(N + 1) |-> Sum(list, before, i)]
  BY <1>7, Zenon
<1> HIDE DEF before
<1>9. \A i \in 1..(N + 1) : before[i] = Sum(list, before, i)
  BY <1>8, Zenon
<1>10. before[1] = 0
  <2>1. 1 \in 1..(N + 1)
    BY <1>1
  <2> QED
    BY <1>9, <2>1, Zenon DEF Sum
<1>11. ASSUME NEW n \in 1..N PROVE before[n + 1] = before[n] + list[n].size
  <2>1. n + 1 \in 1..(N + 1) /\ n + 1 # 1 /\ (n + 1) - 1 = n
    BY <1>1
  <2> QED
    BY <1>9, <2>1, Zenon DEF Sum
<1>12. \A n \in 1..(N + 1) : before[n] \in Nat
  <2> DEFINE Typed == {m \in Nat : m <= N => before[m + 1] \in Nat}
  <2>1. 0 \in Typed
    BY <1>10
  <2>2. ASSUME NEW m \in Nat, m \in Typed PROVE m + 1 \in Typed
    <3>1. SUFFICES ASSUME m + 1 <= N PROVE before[(m + 1) + 1] \in Nat
      OBVIOUS
    <3>2. m + 1 \in 1..N /\ m <= N
      BY <1>1, <3>1
    <3>3. list[m + 1].size \in Nat
      <4>1. list[m + 1] \in Sub
        BY <3>2 DEF N
      <4> QED
        BY <4>1 DEF Sub
    <3> QED
      BY <1>11, <2>2, <3>2, <3>3
  <2>3. Nat \subseteq Typed
    <3> HIDE DEF Typed
    <3> QED
      BY <2>1, <2>2, Counting
  <2>4. ASSUME NEW n \in 1..(N + 1) PROVE before[n] \in Nat
    <3>1. n - 1 \in Nat /\ n - 1 <= N /\ (n - 1) + 1 = n
      BY <1>1
    <3> QED
      BY <2>3, <3>1
  <2> QED
    BY <2>4
<1> QED
  BY <1>5, <1>10, <1>11, <1>12 DEF N

----------------------------------------------------------------------------
(* The search. *)

First == [left |-> 0, mid |-> streamIndex, right |-> Len(subs)]

\* The range after k turns.
After(f, k) == IF k = 0 THEN First ELSE Turn(f[k - 1])

\* The turns one after another, up to m of them.
LEMMA TurnsTaken ==
  ASSUME NEW m \in Nat
  PROVE  \E f : f = [k \in 0..m |-> After(f, k)]
<1> DEFINE Taken == {n \in Nat : \E f : f = [k \in 0..n |-> After(f, k)]}
<1>1. 0 \in Taken
  <2> DEFINE f == [k \in 0..0 |-> First]
  <2>1. f = [k \in 0..0 |-> After(f, k)]
    <3>1. \A k \in 0..0 : k = 0
      OBVIOUS
    <3>2. \A k \in 0..0 : After(f, k) = First
      BY <3>1, Zenon DEF After
    <3> QED
      BY <3>2, Zenon
  <2> HIDE DEF f
  <2> QED
    BY <2>1
<1>2. ASSUME NEW n \in Nat, n \in Taken PROVE n + 1 \in Taken
  <2>1. PICK f : f = [k \in 0..n |-> After(f, k)]
    BY <1>2
  <2> DEFINE g == [k \in 0..(n + 1) |-> IF k <= n THEN f[k] ELSE Turn(f[n])]
  <2>2. ASSUME NEW k \in 0..(n + 1)
        PROVE  (IF k <= n THEN f[k] ELSE Turn(f[n])) = After(g, k)
    <3>1. CASE k = 0
      <4>1. k <= n /\ k \in 0..n
        BY <3>1
      <4> HIDE DEF g
      <4> QED
        BY <2>1, <3>1, <4>1, Zenon DEF After
    <3>2. CASE k # 0 /\ k <= n
      <4>1. k \in 0..n /\ g[k - 1] = f[k - 1]
        BY <3>2
      <4>2. f[k] = After(f, k)
        BY <2>1, <4>1, Zenon
      <4> HIDE DEF g
      <4> QED
        BY <3>2, <4>1, <4>2, Zenon DEF After
    <3>3. CASE k # 0 /\ ~(k <= n)
      <4>1. k - 1 = n /\ g[k - 1] = f[n]
        BY <3>3
      <4> HIDE DEF g
      <4> QED
        BY <3>3, <4>1, Zenon DEF After
    <3> QED
      BY <3>1, <3>2, <3>3
  <2>3. g = [k \in 0..(n + 1) |-> After(g, k)]
    BY <2>2, Zenon
  <2> HIDE DEF g
  <2> QED
    BY <2>3
<1>3. Nat \subseteq Taken
  <2> HIDE DEF Taken
  <2> QED
    BY <1>1, <1>2, Counting
<1> QED
  BY <1>3

\* The position is in the n-th entry; in a range of entries, counted from 0.
Has(n) == subs[n].offset <= pos /\ pos < EndOf(n)

Around(range) ==
    /\ range.left \in Nat /\ range.mid \in Nat /\ range.right \in Nat
    /\ range.left <= range.mid /\ range.mid < range.right /\ range.right <= Len(subs)
    /\ subs[range.left + 1].offset <= pos /\ pos < EndOf(range.right)

\* Typed entries.
LEMMA Entry ==
  ASSUME IInv, NEW n \in 1..Len(subs)
  PROVE  /\ subs[n] \in Sub /\ subs[n].volume \in Volume
         /\ subs[n].size \in Nat /\ subs[n].offset \in Nat /\ subs[n].local \in Nat
         /\ EndOf(n) \in Nat /\ subs[n].size = sizes[subs[n].volume]
<1>1. subs[n] \in Sub /\ subs[n].size = sizes[subs[n].volume]
  BY DEF IInv, TypeOK, Sized
<1> QED
  BY <1>1 DEF Sub, EndOf

\* A turn finds the entry of the position, or leaves fewer entries around it.
LEMMA TurnNarrows ==
  ASSUME IInv, opened, pos \in Nat, NEW range, Around(range)
  PROVE  LET next == Turn(range)
         IN  /\ Around(next)
             /\ Has(range.mid + 1) => next = range
             /\ ~Has(range.mid + 1) => next.right - next.left < range.right - range.left
<1> DEFINE l == range.left
           m == range.mid
           r == range.right
           next == Turn(range)
           s == subs[m + 1]
<1>1. l \in Nat /\ m \in Nat /\ r \in Nat /\ l <= m /\ m < r /\ r <= Len(subs)
      /\ subs[l + 1].offset <= pos /\ pos < EndOf(r)
  BY DEF Around
<1>2. Len(subs) \in Nat
  BY DEF IInv, TypeOK
<1>3. m + 1 \in 1..Len(subs) /\ l + 1 \in 1..Len(subs) /\ r \in 1..Len(subs)
  BY <1>1, <1>2
<1>4. s.offset \in Nat /\ s.size \in Nat /\ EndOf(m + 1) = s.offset + s.size
  BY <1>3, Entry DEF EndOf
<1> HIDE DEF l, m, r
<1>5. CASE pos < s.offset
  <2>1. next = [left |-> l, mid |-> (l + m) \div 2, right |-> m]
    BY <1>5 DEF Turn, l, m, r
  <2>2. l # m
    BY <1>1, <1>4, <1>5
  <2>3. (l + m) \div 2 \in Nat /\ l <= (l + m) \div 2 /\ (l + m) \div 2 < m
    BY <1>1, <2>2
  <2>4. EndOf(m) = s.offset
    <3>1. m \in 1..(Len(subs) - 1)
      BY <1>1, <1>2, <2>2
    <3> QED
      BY <3>1 DEF IInv, Ready, Laid
  <2>5. next.left = l /\ next.mid = (l + m) \div 2 /\ next.right = m
    BY <2>1
  <2>6. Around(next)
    BY <1>1, <1>2, <1>5, <2>3, <2>4, <2>5 DEF Around
  <2>7. ~Has(m + 1)
    BY <1>4, <1>5 DEF Has
  <2>8. next.right - next.left < r - l
    BY <1>1, <2>5
  <2> QED
    BY <2>6, <2>7, <2>8 DEF l, m, r
<1>6. CASE ~(pos < s.offset) /\ pos >= s.offset + s.size
  <2>1. next = [left |-> m + 1, mid |-> (m + 1 + r) \div 2, right |-> r]
    BY <1>6 DEF Turn, IsBehind, l, m, r
  <2>2. m + 1 # r
    BY <1>1, <1>4, <1>6
  <2>3. (m + 1 + r) \div 2 \in Nat /\ m + 1 <= (m + 1 + r) \div 2 /\ (m + 1 + r) \div 2 < r
    BY <1>1, <2>2
  <2>4. subs[(m + 1) + 1].offset = EndOf(m + 1)
    <3>1. m + 1 \in 1..(Len(subs) - 1)
      BY <1>1, <1>2, <2>2
    <3> QED
      BY <3>1 DEF IInv, Ready, Laid
  <2>5. next.left = m + 1 /\ next.mid = (m + 1 + r) \div 2 /\ next.right = r
    BY <2>1
  <2>6. Around(next)
    BY <1>1, <1>2, <1>4, <1>6, <2>3, <2>4, <2>5 DEF Around
  <2>7. ~Has(m + 1)
    BY <1>4, <1>6 DEF Has
  <2>8. next.right - next.left < r - l
    BY <1>1, <2>5
  <2> QED
    BY <2>6, <2>7, <2>8 DEF l, m, r
<1>7. CASE ~(pos < s.offset) /\ ~(pos >= s.offset + s.size)
  <2>1. next = range
    BY <1>7, Zenon DEF Turn, IsBehind, m
  <2>2. Has(m + 1)
    BY <1>4, <1>7 DEF Has
  <2> QED
    BY <2>1, <2>2 DEF m
<1> QED
  BY <1>5, <1>6, <1>7

\* Read() finds the entry of its position.
LEMMA Searched ==
  ASSUME IInv, opened, pos < total
  PROVE  Found \in 0..(Len(subs) - 1) /\ Has(Found + 1)
<1> DEFINE n == Len(subs)
           turns == CHOOSE f : f = [k \in 0..n |-> After(f, k)]
           Narrow(k) == /\ Around(turns[k])
                        /\ \/ Has(turns[k].mid + 1)
                           \/ turns[k].right - turns[k].left <= n - k
           Fine == {k \in Nat : k <= n => Narrow(k)}
<1>1. n \in Nat /\ n >= 1 /\ pos \in Nat /\ streamIndex \in Nat /\ streamIndex < n
  BY DEF IInv, TypeOK, Ready, Laid
<1>2. Found = turns[n].mid
  BY Zenon DEF Found, After, First
<1> HIDE DEF n
<1>3. turns = [k \in 0..n |-> After(turns, k)]
  BY <1>1, TurnsTaken, Zenon
<1> HIDE DEF turns
<1>4. \A k \in 0..n : turns[k] = After(turns, k)
  BY <1>3, Zenon
<1>5. 0 \in Fine
  <2>1. 0 \in 0..n
    BY <1>1
  <2>2. turns[0] = First
    BY <1>4, <2>1, Zenon DEF After
  <2>3. subs[1].offset = 0 /\ total = EndOf(n)
    BY DEF IInv, Ready, Laid, n
  <2>4. turns[0].left = 0 /\ turns[0].mid = streamIndex /\ turns[0].right = n
    BY <2>2 DEF First, n
  <2>5. Around(turns[0])
    BY <1>1, <2>3, <2>4 DEF Around, n
  <2> QED
    BY <1>1, <2>4, <2>5
<1>6. ASSUME NEW k \in Nat, k \in Fine PROVE k + 1 \in Fine
  <2>1. SUFFICES ASSUME k + 1 <= n PROVE Narrow(k + 1)
    BY DEF Fine
  <2>2. k + 1 \in 0..n /\ k + 1 # 0 /\ (k + 1) - 1 = k /\ k <= n
    BY <1>1, <2>1
  <2>3. Narrow(k)
    BY <1>6, <2>2
  <2> HIDE DEF Fine
  <2>4. turns[k + 1] = Turn(turns[k])
    BY <1>4, <2>2, Zenon DEF After
  <2> DEFINE a == turns[k]
             b == turns[k + 1]
  <2>5. /\ Around(a) /\ (Has(a.mid + 1) \/ a.right - a.left <= n - k)
        /\ b = Turn(a)
    BY <2>3, <2>4
  <2> HIDE DEF a, b
  <2>6. /\ Around(b)
        /\ Has(a.mid + 1) => b = a
        /\ ~Has(a.mid + 1) => b.right - b.left < a.right - a.left
    BY <1>1, <2>5, TurnNarrows
  <2>7. Has(b.mid + 1) \/ b.right - b.left <= n - (k + 1)
    <3>1. CASE Has(a.mid + 1)
      BY <2>6, <3>1, Zenon
    <3>2. CASE ~Has(a.mid + 1)
      <4>1. b.right - b.left < a.right - a.left /\ a.right - a.left <= n - k
        BY <2>5, <2>6, <3>2
      <4>2. b.right \in Nat /\ b.left \in Nat /\ a.right \in Nat /\ a.left \in Nat
        BY <2>5, <2>6 DEF Around
      <4> QED
        BY ONLY <1>1, <4>1, <4>2, k \in Nat
    <3> QED
      BY <3>1, <3>2
  <2> QED
    BY <2>6, <2>7 DEF b
<1>7. Narrow(n)
  <2>1. Nat \subseteq Fine
    <3> HIDE DEF Fine
    <3> QED
      BY <1>5, <1>6, Counting
  <2> QED
    BY <1>1, <2>1
<1>8. /\ turns[n].left \in Nat /\ turns[n].mid \in Nat /\ turns[n].right \in Nat
      /\ turns[n].left <= turns[n].mid /\ turns[n].mid < turns[n].right
      /\ turns[n].right <= n
  BY <1>7 DEF Around, n
<1>9. Has(turns[n].mid + 1)
  <2>1. ~(turns[n].right - turns[n].left <= n - n)
    BY <1>1, <1>8
  <2> QED
    BY <1>7, <2>1
<1> QED
  BY <1>1, <1>2, <1>8, <1>9 DEF n

----------------------------------------------------------------------------
(* The volumes open() adds. *)

\* The offsets depend on the sizes alone.
LEMMA SameOffsets ==
  ASSUME NEW a \in Seq(Sub), NEW b \in Seq(Sub), Len(a) = Len(b),
         \A i \in 1..Len(a) : a[i].size = b[i].size
  PROVE  \A n \in 1..(Len(a) + 1) : OffsetOf(a, n) = OffsetOf(b, n)
<1> DEFINE N == Len(a)
           Same == {m \in Nat : m <= N => OffsetOf(a, m + 1) = OffsetOf(b, m + 1)}
<1>1. N \in Nat
  OBVIOUS
<1>2. /\ OffsetOf(a, 1) = 0 /\ OffsetOf(b, 1) = 0
      /\ \A n \in 1..N : OffsetOf(a, n + 1) = OffsetOf(a, n) + a[n].size
      /\ \A n \in 1..N : OffsetOf(b, n + 1) = OffsetOf(b, n) + b[n].size
      /\ \A n \in 1..N : a[n].size = b[n].size
  BY Offsets
<1> HIDE DEF N
<1>3. 0 \in Same
  BY <1>2
<1>4. ASSUME NEW m \in Nat, m \in Same PROVE m + 1 \in Same
  <2>1. SUFFICES ASSUME m + 1 <= N PROVE OffsetOf(a, (m + 1) + 1) = OffsetOf(b, (m + 1) + 1)
    OBVIOUS
  <2>2. m + 1 \in 1..N /\ m <= N
    BY <1>1, <2>1
  <2>3. OffsetOf(a, m + 1) = OffsetOf(b, m + 1)
    BY <1>4, <2>2
  <2> QED
    BY <1>2, <2>2, <2>3, Zenon
<1>5. Nat \subseteq Same
  <2> HIDE DEF Same
  <2> QED
    BY <1>3, <1>4, Counting
<1>6. ASSUME NEW n \in 1..(N + 1) PROVE OffsetOf(a, n) = OffsetOf(b, n)
  <2>1. n - 1 \in Nat /\ n - 1 <= N /\ (n - 1) + 1 = n
    BY <1>1
  <2> QED
    BY <1>5, <2>1
<1> QED
  BY <1>6 DEF N

\* The entries of the first n volumes, before they are laid out.
Listed(n) == subs \o Entries(n)

\* What is added, and what was there before.
LEMMA ListedEntries ==
  ASSUME IInv, NEW n \in 1..Volumes
  PROVE  /\ Listed(n) \in Seq(Sub) /\ Len(Listed(n)) = Len(subs) + n
         /\ \A i \in 1..Len(subs) : Listed(n)[i] = subs[i]
         /\ \A v \in 1..n : /\ Listed(n)[Len(subs) + v].volume = v
                            /\ Listed(n)[Len(subs) + v].size = sizes[v]
<1> DEFINE e == Entries(n)
<1>1. n \in Nat /\ Volumes \in Nat /\ subs \in Seq(Sub)
  BY InMultiStreamAssumption DEF IInv, TypeOK
<1>2. ASSUME NEW v \in 1..n
      PROVE [volume |-> v, size |-> sizes[v], offset |-> 0, local |-> 0] \in Sub
  <2>1. v \in Volume /\ MaxVolume \in Nat
    BY <1>1, InMultiStreamAssumption DEF Volume
  <2>2. sizes[v] \in Nat
    BY <2>1 DEF IInv, TypeOK
  <2> QED
    BY <2>1, <2>2 DEF Sub
<1>3. e \in Seq(Sub) /\ Len(e) = n
  BY <1>1, <1>2 DEF Entries
<1>4. \A v \in 1..n : e[v].volume = v /\ e[v].size = sizes[v]
  BY DEF Entries
<1> HIDE DEF e
<1>5. Listed(n) = subs \o e
  BY DEF Listed, e
<1>6. /\ subs \o e \in Seq(Sub) /\ Len(subs \o e) = Len(subs) + n
      /\ \A i \in 1..Len(subs) : (subs \o e)[i] = subs[i]
      /\ \A v \in 1..n : (subs \o e)[Len(subs) + v] = e[v]
  BY <1>1, <1>3
<1> QED
  BY <1>4, <1>5, <1>6

\* What open() makes of the entries it had and those it adds.
Extended(n) ==
    /\ subs' \in Seq(Sub) /\ Len(subs') = Len(subs) + n
    /\ \A i \in 1..Len(subs) : subs'[i].volume = subs[i].volume /\ subs'[i].size = subs[i].size
    /\ \A v \in 1..n : /\ subs'[Len(subs) + v].volume = v
                       /\ subs'[Len(subs) + v].size = sizes[v]
    /\ \A i \in 1..Len(subs') : subs'[i].local = 0
    /\ Laid' /\ total' \in Nat /\ pos' = 0 /\ streamIndex' = 0

\* They lie one behind the other.
LEMMA AddExtends ==
  ASSUME IInv, NEW n \in 1..Volumes, Add(n)
  PROVE  Extended(n)
<1> DEFINE list == Listed(n)
           N == Len(list)
<1>1. n \in Nat /\ n # 0 /\ Volumes \in Nat /\ subs \in Seq(Sub) /\ Len(subs) \in Nat
  BY InMultiStreamAssumption DEF IInv, TypeOK
<1>2. /\ list \in Seq(Sub) /\ N = Len(subs) + n
      /\ \A i \in 1..Len(subs) : list[i] = subs[i]
      /\ \A v \in 1..n : list[Len(subs) + v].volume = v /\ list[Len(subs) + v].size = sizes[v]
  BY ListedEntries
<1>3. /\ subs' = Initialized(list)
      /\ total' = OffsetOf(subs', Len(subs') + 1)
      /\ pos' = 0 /\ streamIndex' = 0
  BY <1>1, Zenon DEF Add, Listed
<1>4. N \in Nat /\ N >= 1 /\ DOMAIN list = 1..N
  BY <1>1, <1>2
<1> HIDE DEF list, N
<1>5. /\ OffsetOf(list, 1) = 0
      /\ \A k \in 1..(N + 1) : OffsetOf(list, k) \in Nat
      /\ \A k \in 1..N : OffsetOf(list, k + 1) = OffsetOf(list, k) + list[k].size
  BY <1>2, Offsets DEF N
<1>6. ASSUME NEW i \in 1..N
      PROVE  /\ subs'[i] \in Sub /\ subs'[i].volume = list[i].volume
             /\ subs'[i].size = list[i].size /\ subs'[i].local = 0
             /\ subs'[i].offset = OffsetOf(list, i)
  <2>1. subs'[i] = [list[i] EXCEPT !.offset = OffsetOf(list, i), !.local = 0]
    BY <1>3, <1>4, Zenon DEF Initialized
  <2>2. list[i] \in Sub /\ OffsetOf(list, i) \in Nat
    <3>1. i \in 1..(N + 1)
      BY <1>4
    <3>2. list[i] \in Sub
      BY <1>2, <1>4 DEF N
    <3> QED
      BY <1>5, <3>1, <3>2
  <2> DEFINE x == list[i]
             y == subs'[i]
             o == OffsetOf(list, i)
  <2>3. y = [x EXCEPT !.offset = o, !.local = 0] /\ x \in Sub /\ o \in Nat
    BY <2>1, <2>2, Zenon
  <2> HIDE DEF x, y, o
  <2>4. y \in Sub /\ y.volume = x.volume /\ y.size = x.size /\ y.local = 0 /\ y.offset = o
    BY ONLY <2>3 DEF Sub
  <2> QED
    BY <2>4, Zenon DEF x, y, o
<1>7. subs' \in Seq(Sub) /\ Len(subs') = N
  <2>1. subs' = [i \in 1..N |-> [list[i] EXCEPT !.offset = OffsetOf(list, i), !.local = 0]]
    BY <1>3, <1>4, Zenon DEF Initialized
  <2>2. \A i \in 1..N : [list[i] EXCEPT !.offset = OffsetOf(list, i), !.local = 0] \in Sub
    BY <1>6, <2>1
  <2> DEFINE r(i) == [list[i] EXCEPT !.offset = OffsetOf(list, i), !.local = 0]
  <2> HIDE DEF r
  <2>3. subs' = [i \in 1..N |-> r(i)] /\ \A i \in 1..N : r(i) \in Sub
    BY <2>1, <2>2, Zenon DEF r
  <2> QED
    BY <1>4, <2>3
<1>8. \A k \in 1..(N + 1) : OffsetOf(subs', k) = OffsetOf(list, k)
  BY <1>2, <1>6, <1>7, SameOffsets DEF N
<1>9. total' = OffsetOf(list, N + 1) /\ total' \in Nat
  <2>1. N + 1 \in 1..(N + 1)
    BY <1>4
  <2> QED
    BY <1>3, <1>5, <1>7, <1>8, <2>1
<1>10. Laid'
  <2>1. subs'[1].offset = 0
    <3>1. 1 \in 1..N
      BY <1>4
    <3> QED
      BY <1>5, <1>6, <3>1
  <2>2. ASSUME NEW k \in 1..N PROVE subs'[k].offset + subs'[k].size = OffsetOf(list, k + 1)
    BY <1>5, <1>6
  <2>3. ASSUME NEW k \in 1..(N - 1) PROVE subs'[k + 1].offset = subs'[k].offset + subs'[k].size
    <3>1. k \in 1..N /\ k + 1 \in 1..N
      BY <1>4
    <3> QED
      BY <1>6, <2>2, <3>1, Zenon
  <2>4. total' = subs'[N].offset + subs'[N].size
    <3>1. N \in 1..N
      BY <1>4
    <3> QED
      BY <1>9, <2>2, <3>1, Zenon
  <2> QED
    BY <1>4, <1>7, <2>1, <2>3, <2>4 DEF Laid, EndOf
<1>11. \A i \in 1..Len(subs) : subs'[i].volume = subs[i].volume /\ subs'[i].size = subs[i].size
  <2>1. ASSUME NEW i \in 1..Len(subs) PROVE i \in 1..N
    BY <1>1, <1>2
  <2> QED
    BY <1>2, <1>6, <2>1
<1>12. \A v \in 1..n : /\ subs'[Len(subs) + v].volume = v
                       /\ subs'[Len(subs) + v].size = sizes[v]
  <2>1. ASSUME NEW v \in 1..n PROVE Len(subs) + v \in 1..N
    BY <1>1, <1>2
  <2> QED
    BY <1>2, <1>6, <2>1
<1> QED
  BY <1>2, <1>3, <1>6, <1>7, <1>9, <1>10, <1>11, <1>12, Zenon DEF Extended

----------------------------------------------------------------------------
(* The steps of the stream. *)

\* A volume is never behind its end.
Within(place) == place \in [Volume -> Nat] /\ \A v \in Volume : place[v] <= sizes[v]

\* The places volumes are left at are within them.
LEMMA PlacesWithin ==
  ASSUME IInv
  PROVE  /\ Within(at) /\ \A n : Within(Sought(n)) /\ Within([v \in Volume |-> 0])
         /\ \A v \in Volume : sizes[v] \in Nat
<1>1. at \in [Volume -> Nat] /\ \A v \in Volume : at[v] <= sizes[v]
  BY DEF IInv, TypeOK
<1>2. \A v \in Volume : sizes[v] \in Nat
  BY InMultiStreamAssumption DEF IInv, TypeOK
<1>3. \A n : Within(Sought(n))
  BY <1>1, <1>2 DEF Within, Sought
<1>4. Within([v \in Volume |-> 0])
  BY <1>2 DEF Within
<1> QED
  BY <1>1, <1>2, <1>3, <1>4 DEF Within

\* So is one that is moved within its volume.
LEMMA PlaceMoved ==
  ASSUME IInv, NEW place, Within(place), NEW v \in Volume, NEW m \in Nat, m <= sizes[v]
  PROVE  Within([place EXCEPT ![v] = m])
BY DEF Within

\* Entries that were laid out again have the sizes of their volumes.
LEMMA ExtendedSized ==
  ASSUME IInv, NEW n \in 1..Volumes, Extended(n), sizes' = sizes
  PROVE  Sized'
<1>1. n \in Nat /\ Volumes \in Nat /\ Len(subs) \in Nat /\ subs \in Seq(Sub)
  BY InMultiStreamAssumption DEF IInv, TypeOK
<1>2. /\ subs' \in Seq(Sub) /\ Len(subs') = Len(subs) + n
      /\ \A i \in 1..Len(subs) : subs'[i].volume = subs[i].volume /\ subs'[i].size = subs[i].size
      /\ \A v \in 1..n : /\ subs'[Len(subs) + v].volume = v
                         /\ subs'[Len(subs) + v].size = sizes[v]
  BY DEF Extended
<1>3. ASSUME NEW i \in DOMAIN subs' PROVE subs'[i].size = sizes[subs'[i].volume]
  <2>1. i \in 1..(Len(subs) + n)
    BY <1>2
  <2>2. CASE i <= Len(subs)
    <3>1. i \in 1..Len(subs)
      BY <1>1, <2>1, <2>2
    <3> QED
      BY <1>2, <3>1, Entry
  <2>3. CASE ~(i <= Len(subs))
    <3>1. i - Len(subs) \in 1..n /\ Len(subs) + (i - Len(subs)) = i
      BY <1>1, <2>1, <2>3
    <3> QED
      BY <1>2, <3>1
  <2> QED
    BY <2>2, <2>3
<1> QED
  BY <1>3 DEF Sized

\* A new stream has nothing to lay out.
LEMMA InitInv == Init => IInv
<1> SUFFICES ASSUME Init PROVE IInv
  OBVIOUS
<1> USE DEF Init
<1>1. TypeOK
  <2>1. at \in [Volume -> Nat] /\ \A v \in Volume : at[v] <= sizes[v]
    BY InMultiStreamAssumption
  <2>2. subs \in Seq(Sub)
    OBVIOUS
  <2>3. present \subseteq Volume
    OBVIOUS
  <2> QED
    BY <2>1, <2>2, <2>3 DEF TypeOK
<1>2. Sized /\ Ready /\ OneEach /\ PlacesKnown
  BY DEF Sized, Ready, OneEach, PlacesKnown
<1> QED
  BY <1>1, <1>2 DEF IInv

\* open() lays out an entry for each volume, all of them at their starts.
LEMMA OpenInv == IInv /\ Open => IInv'
<1> SUFFICES ASSUME IInv, Open PROVE IInv'
  OBVIOUS
<1>1. /\ ~opened /\ open' = Volume /\ at' = Sought(Volumes) /\ Add(Volumes)
      /\ opened' = TRUE /\ UNCHANGED <<kind, sizes, present, erased, broken>>
  BY DEF Open, volumeVars
<1>2. Volumes \in 1..Volumes /\ Volumes \in Nat
  BY InMultiStreamAssumption
<1>3. Extended(Volumes)
  BY <1>1, <1>2, AddExtends
<1>4. TypeOK'
  <2>1. Within(at')
    BY <1>1, PlacesWithin, Zenon
  <2>2. subs' \in Seq(Sub) /\ total' \in Nat /\ pos' \in Nat /\ streamIndex' \in Nat
    BY <1>3 DEF Extended
  <2>3. /\ kind \in {"file", "mem", "callback"} /\ sizes \in [Volume -> 0..MaxVolume]
        /\ present \subseteq Volume /\ erased \subseteq Volume /\ broken \in BOOLEAN
    BY DEF IInv, TypeOK
  <2> QED
    BY <1>1, <2>1, <2>2, <2>3 DEF TypeOK, Within
<1>5. Sized'
  BY <1>1, <1>2, <1>3, ExtendedSized
<1>6. Ready'
  <2>1. Laid' /\ streamIndex' = 0
    BY <1>3 DEF Extended
  <2>2. Len(subs') > 0
    BY <1>2, <1>3 DEF Extended, IInv, TypeOK
  <2> QED
    BY <1>1, <2>1, <2>2 DEF Ready
<1>7. OneEach'
  <2>1. SUFFICES ASSUME ~broken
                 PROVE  Len(subs') = Volumes /\ \A n \in DOMAIN subs' : subs'[n].volume = n
    BY <1>1 DEF OneEach
  <2>2. subs = <<>>
    BY <1>1, <2>1 DEF IInv, OneEach
  <2>3. Len(subs) = 0
    BY <2>2
  <2>4. /\ subs' \in Seq(Sub) /\ Len(subs') = 0 + Volumes
        /\ \A v \in 1..Volumes : subs'[0 + v].volume = v
    BY <1>3, <2>3 DEF Extended
  <2> QED
    BY <1>2, <2>4
<1>8. PlacesKnown'
  <2>1. ASSUME NEW n \in DOMAIN subs' PROVE at'[subs'[n].volume] = subs'[n].local
    <3>1. subs' \in Seq(Sub) /\ \A i \in 1..Len(subs') : subs'[i].local = 0
      BY <1>3 DEF Extended
    <3>2. subs'[n] \in Sub /\ subs'[n].local = 0
      BY <2>1, <3>1
    <3>3. subs'[n].volume \in Volume /\ subs'[n].volume <= Volumes
      BY <1>2, <3>2 DEF Sub, Volume
    <3> QED
      BY <1>1, <3>2, <3>3 DEF Sought
  <2> QED
    BY <2>1 DEF PlacesKnown
<1> QED
  BY <1>4, <1>5, <1>6, <1>7, <1>8 DEF IInv

\* open() that fails leaves the stream closed, with entries it lays out again.
LEMMA OpenFailsInv == IInv /\ OpenFails => IInv'
<1> SUFFICES ASSUME IInv, OpenFails PROVE IInv'
  OBVIOUS
<1>1. ~opened /\ UNCHANGED <<kind, sizes, present, erased, opened>>
  BY DEF OpenFails, volumeVars
<1>2. PICK v \in Volume :
        /\ open' \in {open \cup 1..(v - 1)}
                     \cup (IF v \in present THEN {open \cup 1..v} ELSE {})
        /\ at' \in {Sought(v - 1)}
                  \cup (IF v \in open' THEN {[Sought(v - 1) EXCEPT ![v] = sizes[v]]} ELSE {})
        /\ Add(v - 1)
        /\ broken' = (broken \/ v > 1)
  BY DEF OpenFails
<1>3. v \in Nat /\ v >= 1 /\ v <= Volumes /\ Volumes \in Nat
  BY InMultiStreamAssumption DEF Volume
<1>4. Within(at')
  <2>1. at' = Sought(v - 1) \/ at' = [Sought(v - 1) EXCEPT ![v] = sizes[v]]
    BY <1>2
  <2>2. sizes[v] \in Nat /\ sizes[v] <= sizes[v] /\ Within(Sought(v - 1))
    BY PlacesWithin
  <2>3. Within([Sought(v - 1) EXCEPT ![v] = sizes[v]])
    BY <2>2, PlaceMoved
  <2> QED
    BY <2>1, <2>2, <2>3, Zenon
<1>5. open' \subseteq Volume
  <2>1. 1..(v - 1) \subseteq Volume /\ 1..v \subseteq Volume
    BY <1>3 DEF Volume
  <2>2. open \subseteq Volume
    BY DEF IInv, TypeOK
  <2> QED
    BY <1>2, <2>1, <2>2
<1>6. /\ kind \in {"file", "mem", "callback"} /\ sizes \in [Volume -> 0..MaxVolume]
      /\ present \subseteq Volume /\ erased \subseteq Volume /\ broken \in BOOLEAN
      /\ opened \in BOOLEAN /\ subs \in Seq(Sub) /\ total \in Nat /\ pos \in Nat
      /\ streamIndex \in Nat
  BY DEF IInv, TypeOK
<1>7. broken' \in BOOLEAN
  BY <1>2
<1>8. Ready' /\ PlacesKnown'
  BY <1>1 DEF Ready, PlacesKnown
<1>9. CASE v = 1
  <2>1. UNCHANGED multi /\ broken' = broken
    <3>1. v - 1 = 0 /\ ~(v > 1)
      BY <1>9
    <3>2. UNCHANGED multi
      BY <1>2, <3>1, Zenon DEF Add
    <3> QED
      BY <1>2, <1>6, <3>1, <3>2
  <2>2. subs' = subs /\ total' = total /\ pos' = pos /\ streamIndex' = streamIndex
    BY <2>1 DEF multi
  <2>3. TypeOK'
    BY <1>1, <1>4, <1>5, <1>6, <1>7, <2>2 DEF TypeOK, Within
  <2>4. Sized' /\ OneEach'
    BY <1>1, <2>1, <2>2 DEF IInv, Sized, OneEach
  <2> QED
    BY <1>8, <2>3, <2>4 DEF IInv
<1>10. CASE v # 1
  <2>1. v - 1 \in 1..Volumes /\ v > 1
    BY <1>3, <1>10
  <2>2. Extended(v - 1)
    BY <1>2, <2>1, AddExtends
  <2>3. TypeOK'
    <3>1. subs' \in Seq(Sub) /\ total' \in Nat /\ pos' \in Nat /\ streamIndex' \in Nat
      BY <2>2 DEF Extended
    <3> QED
      BY <1>1, <1>4, <1>5, <1>6, <1>7, <3>1 DEF TypeOK, Within
  <2>4. Sized'
    BY <1>1, <2>1, <2>2, ExtendedSized
  <2>5. OneEach'
    BY <1>2, <2>1 DEF OneEach
  <2> QED
    BY <1>8, <2>3, <2>4, <2>5 DEF IInv
<1> QED
  BY <1>9, <1>10

\* close() forgets the entries.
LEMMA CloseInv == IInv /\ Close => IInv'
<1> SUFFICES ASSUME IInv, Close PROVE IInv'
  OBVIOUS
<1>1. /\ open' = {} /\ at' = [v \in Volume |-> 0] /\ subs' = <<>> /\ opened' = FALSE
      /\ broken' = FALSE /\ UNCHANGED <<kind, sizes, present, erased, total, pos, streamIndex>>
  BY DEF Close, SubsAfterClose, volumeVars
<1>2. Within(at')
  BY <1>1, PlacesWithin, Zenon
<1>3. /\ kind \in {"file", "mem", "callback"} /\ sizes \in [Volume -> 0..MaxVolume]
      /\ present \subseteq Volume /\ erased \subseteq Volume
      /\ total \in Nat /\ pos \in Nat /\ streamIndex \in Nat
  BY DEF IInv, TypeOK
<1>4. TypeOK'
  <2>1. subs' \in Seq(Sub) /\ open' \subseteq Volume
    BY <1>1
  <2> QED
    BY <1>1, <1>2, <1>3, <2>1 DEF TypeOK, Within
<1>5. Sized' /\ Ready' /\ OneEach' /\ PlacesKnown'
  BY <1>1 DEF Sized, Ready, OneEach, PlacesKnown
<1> QED
  BY <1>4, <1>5 DEF IInv

\* What is on the disk, and a position that moves, are no matter of the entries.
LEMMA RestInv ==
  IInv /\ (Erase \/ Appear \/ ReadAtEnd \/ Seek \/ UNCHANGED vars) => IInv'
<1> SUFFICES ASSUME IInv, Erase \/ Appear \/ ReadAtEnd \/ Seek \/ UNCHANGED vars PROVE IInv'
  OBVIOUS
<1>1. UNCHANGED <<kind, sizes, open, at, subs, total, streamIndex, opened, broken>>
  BY DEF Erase, Appear, ReadAtEnd, Seek, vars, volumeVars, multi
<1>2. present' \subseteq Volume /\ erased' \subseteq Volume /\ pos' \in Nat
  <2>1. present \subseteq Volume /\ erased \subseteq Volume /\ pos \in Nat
    BY DEF IInv, TypeOK
  <2>2. CASE Erase
    <3>1. PICK n \in 0..Volumes :
            /\ present' = IF kind = "file" THEN present \ 1..n ELSE present
            /\ erased' \in IF kind = "mem" THEN {erased, erased \cup 1..n} ELSE {erased}
      BY <2>2 DEF Erase
    <3>2. pos' = pos
      BY <2>2 DEF Erase, multi
    <3>3. 1..n \subseteq Volume
      BY InMultiStreamAssumption DEF Volume
    <3> QED
      BY <2>1, <3>1, <3>2, <3>3
  <2>3. CASE Appear
    BY <2>1, <2>3 DEF Appear, multi
  <2>4. CASE ReadAtEnd \/ UNCHANGED vars
    BY <2>1, <2>4 DEF ReadAtEnd, volumeVars, multi, vars
  <2>5. CASE Seek
    BY <2>1, <2>5, InMultiStreamAssumption DEF Seek, volumeVars
  <2> QED
    BY <2>2, <2>3, <2>4, <2>5
<1>3. TypeOK'
  BY <1>1, <1>2 DEF IInv, TypeOK
<1>4. Sized' /\ OneEach' /\ PlacesKnown'
  BY <1>1 DEF IInv, Sized, OneEach, PlacesKnown
<1>5. Ready'
  BY <1>1 DEF IInv, Ready, Laid, EndOf
<1> QED
  BY <1>3, <1>4, <1>5 DEF IInv

\* The place of the volume of an entry is remembered, or the stream is broken.
Remembers(i, m) ==
    /\ subs' = [subs EXCEPT ![i].local = m]
    /\ UNCHANGED <<sizes, total, opened>>
    /\ \/ broken' = TRUE
       \/ broken' = broken /\ at' = [at EXCEPT ![subs[i].volume] = m]
       \/ broken' = broken /\ at' = at /\ at[subs[i].volume] = m

\* Nothing else of the entries changes; no other entry has the volume.
LEMMA RememberedInv ==
  ASSUME IInv, opened, NEW i \in 1..Len(subs), NEW m \in Nat, Remembers(i, m)
  PROVE  /\ subs' \in Seq(Sub) /\ Len(subs') = Len(subs)
         /\ Laid' /\ Sized' /\ OneEach' /\ PlacesKnown'
<1> DEFINE v == subs[i].volume
<1>1. subs \in Seq(Sub) /\ Len(subs) \in Nat /\ Len(subs) >= 1
  BY DEF IInv, TypeOK, Ready, Laid
<1>2. /\ subs' = [subs EXCEPT ![i].local = m]
      /\ sizes' = sizes /\ total' = total /\ opened' = opened
      /\ \/ broken' = TRUE
         \/ broken' = broken /\ at' = [at EXCEPT ![v] = m]
         \/ broken' = broken /\ at' = at /\ at[v] = m
  BY DEF Remembers
<1> HIDE DEF v
<1>3. ASSUME NEW n \in 1..Len(subs)
      PROVE  /\ subs'[n] \in Sub /\ subs'[n].volume = subs[n].volume
             /\ subs'[n].size = subs[n].size /\ subs'[n].offset = subs[n].offset
             /\ subs'[n].local = IF n = i THEN m ELSE subs[n].local
  <2>1. subs'[n] = IF n = i THEN [subs[n] EXCEPT !.local = m] ELSE subs[n]
    BY <1>1, <1>2
  <2>2. subs[n] \in Sub
    BY <1>1
  <2> DEFINE x == subs[n]
             y == subs'[n]
  <2>3. y = (IF n = i THEN [x EXCEPT !.local = m] ELSE x) /\ x \in Sub
    BY <2>1, <2>2, Zenon
  <2> HIDE DEF x, y
  <2>4. /\ y \in Sub /\ y.volume = x.volume /\ y.size = x.size /\ y.offset = x.offset
        /\ y.local = IF n = i THEN m ELSE x.local
    BY ONLY <2>3, m \in Nat DEF Sub
  <2> QED
    BY <2>4, Zenon DEF x, y
<1>4. subs' \in Seq(Sub) /\ Len(subs') = Len(subs) /\ DOMAIN subs' = 1..Len(subs)
  <2> DEFINE x == [subs[i] EXCEPT !.local = m]
  <2>1. x \in Sub /\ subs' = [subs EXCEPT ![i] = x]
    <3>1. subs[i] \in Sub
      BY <1>1
    <3>2. x \in Sub
      BY <3>1 DEF Sub
    <3> QED
      BY <1>2, <3>2
  <2> HIDE DEF x
  <2> QED
    BY <1>1, <2>1
<1>5. \A n \in 1..Len(subs) : EndOf(n)' = EndOf(n)
  BY <1>3 DEF EndOf
<1>6. Laid'
  <2>1. /\ subs[1].offset = 0
        /\ \A n \in 1..(Len(subs) - 1) : subs[n + 1].offset = EndOf(n)
        /\ total = EndOf(Len(subs))
    BY DEF IInv, Ready, Laid
  <2>2. 1 \in 1..Len(subs) /\ Len(subs) \in 1..Len(subs)
    BY <1>1
  <2>3. ASSUME NEW n \in 1..(Len(subs) - 1) PROVE subs'[n + 1].offset = EndOf(n)'
    <3>1. n \in 1..Len(subs) /\ n + 1 \in 1..Len(subs)
      BY <1>1
    <3> QED
      BY <1>3, <1>5, <2>1, <3>1, Zenon
  <2>4. subs'[1].offset = 0
    BY <1>3, <2>1, <2>2, Zenon
  <2>5. total' = EndOf(Len(subs))'
    BY <1>2, <1>4, <1>5, <2>1, <2>2, Zenon
  <2> QED
    BY <1>1, <1>4, <2>3, <2>4, <2>5 DEF Laid
<1>7. Sized'
  BY <1>1, <1>2, <1>3, <1>4 DEF IInv, Sized
<1>8. OneEach'
  <2>1. SUFFICES ASSUME ~broken'
                 PROVE  Len(subs') = Volumes /\ \A n \in DOMAIN subs' : subs'[n].volume = n
    BY <1>2 DEF OneEach
  <2>2. ~broken
    BY <1>2, <2>1
  <2>3. Len(subs) = Volumes /\ \A n \in DOMAIN subs : subs[n].volume = n
    BY <2>2 DEF IInv, OneEach
  <2> QED
    BY <1>1, <1>3, <1>4, <2>3
<1>9. PlacesKnown'
  <2>1. SUFFICES ASSUME ~broken', NEW n \in 1..Len(subs)
                 PROVE  at'[subs'[n].volume] = subs'[n].local
    BY <1>4 DEF PlacesKnown
  <2>2. ~broken
    BY <1>2, <2>1
  <2>3. subs[n].volume = n /\ v = i
    BY <1>1, <2>2 DEF IInv, OneEach, v
  <2>4. at[n] = subs[n].local
    BY <1>1, <2>2, <2>3 DEF IInv, PlacesKnown
  <2>5. at'[n] = IF n = i THEN m ELSE at[n]
    <3>1. at \in [Volume -> Nat] /\ n \in Volume
      BY <2>3, Entry DEF IInv, TypeOK
    <3>2. CASE at' = [at EXCEPT ![v] = m]
      BY <2>3, <3>1, <3>2
    <3>3. CASE at' = at /\ at[v] = m
      BY <2>3, <3>3
    <3> QED
      BY <1>2, <2>1, <3>2, <3>3
  <2> QED
    BY <1>3, <2>3, <2>4, <2>5
<1> QED
  BY <1>4, <1>6, <1>7, <1>8, <1>9

\* The entry a read finds has the position, and more bytes.
LEMMA EntryFound ==
  ASSUME IInv, opened, pos < total
  PROVE  /\ Found \in Nat /\ Found < Len(subs) /\ Found + 1 \in 1..Len(subs)
         /\ subs[Found + 1].volume \in Volume
         /\ Local(subs[Found + 1]) \in Nat /\ subs[Found + 1].size \in Nat
         /\ Local(subs[Found + 1]) < subs[Found + 1].size
         /\ subs[Found + 1].size = sizes[subs[Found + 1].volume]
<1> DEFINE f == Found
<1>1. f \in 0..(Len(subs) - 1) /\ Has(f + 1)
  BY Searched
<1> HIDE DEF f
<1>2. Len(subs) \in Nat /\ pos \in Nat
  BY DEF IInv, TypeOK
<1>3. f \in Nat /\ f < Len(subs) /\ f + 1 \in 1..Len(subs)
  BY <1>1, <1>2
<1>4. /\ subs[f + 1].volume \in Volume
      /\ subs[f + 1].size \in Nat /\ subs[f + 1].offset \in Nat
      /\ subs[f + 1].size = sizes[subs[f + 1].volume]
  BY <1>3, Entry
<1>5. subs[f + 1].offset <= pos /\ pos < subs[f + 1].offset + subs[f + 1].size
  BY <1>1 DEF Has, EndOf
<1>6. Local(subs[f + 1]) \in Nat /\ Local(subs[f + 1]) < subs[f + 1].size
  BY <1>2, <1>4, <1>5 DEF Local
<1> QED
  BY <1>3, <1>4, <1>6 DEF f

\* What the reads have in common.
LEMMA ReadStepInv ==
  ASSUME IInv, opened, pos < total, streamIndex' = Found, pos' \in Nat, Within(at'),
         UNCHANGED <<volumeVars, open, total, opened>>, broken' \in BOOLEAN,
         \/ subs' = subs /\ at' = at /\ broken' = broken
         \/ \E m \in Nat : Remembers(Found + 1, m)
  PROVE  IInv'
<1>1. UNCHANGED <<kind, sizes, present, erased, open, total, opened>>
  BY DEF volumeVars
<1>2. Found \in Nat /\ Found < Len(subs) /\ Found + 1 \in 1..Len(subs)
  BY EntryFound
<1> DEFINE f == Found
<1>3. f \in Nat /\ f < Len(subs) /\ f + 1 \in 1..Len(subs) /\ streamIndex' = f
  BY <1>2
<1>4. \/ subs' = subs /\ at' = at /\ broken' = broken
      \/ \E m \in Nat : Remembers(f + 1, m)
  OBVIOUS
<1> HIDE DEF f
<1>5. /\ subs' \in Seq(Sub) /\ Len(subs') = Len(subs)
      /\ Laid' /\ Sized' /\ OneEach' /\ PlacesKnown'
  <2>1. CASE subs' = subs /\ at' = at /\ broken' = broken
    BY <1>1, <2>1 DEF IInv, TypeOK, Sized, Ready, Laid, EndOf, OneEach, PlacesKnown
  <2>2. CASE \E m \in Nat : Remembers(f + 1, m)
    BY <1>3, <2>2, RememberedInv, Zenon
  <2> QED
    BY <1>4, <2>1, <2>2
<1>6. TypeOK'
  BY <1>1, <1>3, <1>5 DEF IInv, TypeOK, Within
<1>7. Ready'
  BY <1>1, <1>3, <1>5 DEF IInv, Ready
<1> QED
  BY <1>5, <1>6, <1>7 DEF IInv

\* A read that fails remembers where the seek left the volume.
LEMMA ReadFailsInv == IInv /\ (ReadFails \/ SeekInReadFails) => IInv'
<1> SUFFICES ASSUME IInv, ReadFails \/ SeekInReadFails PROVE IInv'
  OBVIOUS
<1> DEFINE f == Found
           s == subs[f + 1]
           l == Local(s)
<1>1. /\ opened /\ pos < total /\ streamIndex' = f
      /\ UNCHANGED <<volumeVars, open, total, pos, opened>>
  BY DEF ReadFails, SeekInReadFails
<1>2. /\ f + 1 \in 1..Len(subs) /\ s.volume \in Volume /\ l \in Nat /\ s.size \in Nat
      /\ l < s.size /\ s.size = sizes[s.volume]
  BY <1>1, EntryFound
<1>3. sizes' = sizes
  BY <1>1 DEF volumeVars
<1>4. pos' \in Nat /\ broken \in BOOLEAN /\ at \in [Volume -> Nat]
  BY <1>1 DEF IInv, TypeOK
<1>5. Within(at)
  BY PlacesWithin
<1>6. /\ Within(at') /\ broken' \in BOOLEAN
      /\ \/ subs' = subs /\ at' = at /\ broken' = broken
         \/ \E m \in Nat : Remembers(f + 1, m)
  <2>1. CASE ReadFails
    <3>1. broken' = broken
      BY <2>1 DEF ReadFails
    <3>2. \/ at' = at /\ subs' = subs
          \/ at' = [at EXCEPT ![s.volume] = l] /\ subs' = [subs EXCEPT ![f + 1].local = l]
      BY <2>1 DEF ReadFails
    <3> HIDE DEF f, l
    <3>3. CASE at' = at /\ subs' = subs
      BY <1>4, <1>5, <3>1, <3>3
    <3>4. CASE at' = [at EXCEPT ![s.volume] = l] /\ subs' = [subs EXCEPT ![f + 1].local = l]
      <4>1. Within(at')
        <5>1. l <= sizes[s.volume]
          BY <1>2
        <5> HIDE DEF s
        <5>2. Within([at EXCEPT ![s.volume] = l])
          BY <1>2, <1>5, <5>1, PlaceMoved
        <5> QED
          BY <3>4, <5>2
      <4>2. Remembers(f + 1, l)
        BY <1>1, <1>3, <3>1, <3>4 DEF Remembers
      <4> QED
        BY <1>2, <1>4, <3>1, <4>1, <4>2
    <3> QED
      BY <3>2, <3>3, <3>4
  <2>2. CASE SeekInReadFails
    <3>1. /\ subs' = [subs EXCEPT ![f + 1].local = 0] /\ at' = at
          /\ broken' = (broken \/ at[s.volume] # 0)
      BY <2>2 DEF SeekInReadFails
    <3> HIDE DEF f
    <3>2. broken' \in BOOLEAN
      BY <3>1
    <3>3. broken' = TRUE \/ (broken' = broken /\ at' = at /\ at[s.volume] = 0)
      BY <1>4, <3>1
    <3>4. Remembers(f + 1, 0)
      BY <1>1, <1>3, <3>1, <3>3 DEF Remembers
    <3> QED
      BY <1>5, <3>1, <3>2, <3>4
  <2> QED
    BY <2>1, <2>2
<1> HIDE DEF l, s
<1> QED
  BY <1>1, <1>4, <1>6, ReadStepInv, Zenon DEF f

\* A read remembers where it left the volume.
LEMMA ReadInv == IInv /\ (\E n \in 1..MaxRead : Read(n)) => IInv'
<1> SUFFICES ASSUME IInv, NEW n \in 1..MaxRead, Read(n) PROVE IInv'
  OBVIOUS
<1> DEFINE f == Found
           s == subs[f + 1]
           v == s.volume
           l == Local(s)
           from == IF MustSeek(s) THEN l ELSE at[v]
<1>1. /\ opened /\ pos < total /\ streamIndex' = f
      /\ UNCHANGED <<volumeVars, open, total, opened, broken>>
  BY DEF Read
<1>2. /\ f + 1 \in 1..Len(subs) /\ v \in Volume /\ l \in Nat /\ s.size \in Nat
      /\ l < s.size /\ s.size = sizes[v]
  BY <1>1, EntryFound
<1>3. PICK m \in 1..n :
        /\ m <= s.size - l /\ from + m <= sizes[v]
        /\ at' = [at EXCEPT ![v] = from + m]
        /\ subs' = [subs EXCEPT ![f + 1].local = l + m]
        /\ pos' = pos + m
  BY DEF Read
<1>4. sizes' = sizes
  BY <1>1 DEF volumeVars
<1>5. pos \in Nat /\ broken \in BOOLEAN /\ at \in [Volume -> Nat]
  BY <1>1 DEF IInv, TypeOK
<1>6. ~broken => from = l
  <2>1. SUFFICES ASSUME ~broken, ~MustSeek(s) PROVE at[v] = l
    OBVIOUS
  <2>2. s.local = l
    BY <2>1 DEF MustSeek
  <2>3. \A k \in 1..Len(subs) : at[subs[k].volume] = subs[k].local
    BY <1>1, <2>1 DEF IInv, TypeOK, PlacesKnown
  <2>4. at[v] = s.local
    <3> DEFINE i == f + 1
    <3> HIDE DEF f
    <3> QED
      BY <1>2, <2>3, Zenon
  <2> QED
    BY <2>2, <2>4
<1>7. from \in Nat
  BY <1>2, <1>5
<1> HIDE DEF from
<1>8. m \in Nat /\ from + m \in Nat /\ l + m \in Nat /\ pos' \in Nat
  BY <1>2, <1>3, <1>5, <1>7
<1> HIDE DEF l
<1>9. Within(at')
  <2>1. Within(at)
    BY PlacesWithin
  <2>2. Within([at EXCEPT ![v] = from + m])
    <3> HIDE DEF v
    <3> QED
      BY <1>2, <1>3, <1>8, <2>1, PlaceMoved
  <2> QED
    BY <1>3, <2>2
<1>10. Remembers(f + 1, l + m)
  <2>1. broken' = TRUE \/ (broken' = broken /\ at' = [at EXCEPT ![v] = l + m])
    BY <1>1, <1>3, <1>5, <1>6
  <2> HIDE DEF f
  <2> QED
    BY <1>1, <1>3, <1>4, <2>1 DEF Remembers
<1>11. broken' \in BOOLEAN
  BY <1>1, <1>5
<1> HIDE DEF v, s
<1> QED
  BY <1>1, <1>8, <1>9, <1>10, <1>11, ReadStepInv, Zenon DEF f

----------------------------------------------------------------------------
(* The invariant, and what follows from it. *)

\* The invariant holds in every state.
LEMMA Invariance == Spec => []IInv
<1>1. Init => IInv
  BY InitInv
<1>2. IInv /\ [Next]_vars => IInv'
  BY OpenInv, OpenFailsInv, CloseInv, RestInv, ReadFailsInv, ReadInv DEF Next
<1> QED
  BY <1>1, <1>2, PTL DEF Spec

\* The variables have their types, and no volume is behind its end.
THEOREM TypeCorrect == Spec => []TypeOK
<1>1. IInv => TypeOK
  BY DEF IInv
<1> QED
  BY <1>1, Invariance, PTL

\* A read that skips the seek gets the bytes of the position: where a volume is
\* remembered to be is where it is.
THEOREM PlacesKnownHolds == Spec => []PlacesKnown
<1>1. IInv => PlacesKnown
  BY DEF IInv
<1> QED
  BY <1>1, Invariance, PTL

\* Every position before the end is in an entry.
LEMMA EachHasEntry ==
  ASSUME IInv, opened, NEW p \in 0..(total - 1)
  PROVE  \E n \in 1..Len(subs) : subs[n].offset <= p /\ p < EndOf(n)
<1> DEFINE N == Len(subs)
           Beyond == {n \in 1..N : p < EndOf(n)}
<1>1. N \in Nat /\ N >= 1 /\ total = EndOf(N) /\ subs[1].offset = 0 /\ total \in Nat
  BY DEF IInv, TypeOK, Ready, Laid
<1>2. \A n \in 1..(N - 1) : subs[n + 1].offset = EndOf(n)
  BY DEF IInv, Ready, Laid
<1>3. p \in Nat /\ p < total
  BY <1>1
<1>4. \A n \in 1..N : EndOf(n) \in Nat
  BY Entry
<1> HIDE DEF N
<1>5. N \in Beyond
  BY <1>1, <1>3
<1>6. PICK n \in Beyond : \A m \in Beyond : n <= m
  <2>1. Beyond # {} /\ Beyond \subseteq Nat
    BY <1>1, <1>5
  <2> HIDE DEF Beyond
  <2> QED
    BY <2>1, LeastNumber
<1>7. n \in 1..N /\ p < EndOf(n)
  BY <1>6
<1>8. subs[n].offset <= p
  <2>1. CASE n = 1
    BY <1>1, <1>3, <2>1
  <2>2. CASE n # 1
    <3>1. n - 1 \in 1..N /\ n - 1 \in 1..(N - 1) /\ (n - 1) + 1 = n /\ ~(n <= n - 1)
      BY <1>1, <1>7, <2>2
    <3>2. ~(p < EndOf(n - 1))
      BY <1>6, <3>1
    <3>3. EndOf(n - 1) \in Nat /\ subs[n].offset = EndOf(n - 1)
      BY <1>2, <1>4, <3>1
    <3> QED
      BY <1>3, <3>2, <3>3
  <2> QED
    BY <2>1, <2>2
<1> QED
  BY <1>7, <1>8 DEF N

\* Read() always has an entry to find, and finds the one that has its position.
THEOREM SearchFindsHolds == Spec => []SearchFinds
<1>1. IInv => SearchFinds
  <2>1. SUFFICES ASSUME IInv, opened
                 PROVE  /\ open = Volume /\ streamIndex + 1 \in DOMAIN subs
                        /\ \A p \in 0..(total - 1) :
                              \E n \in DOMAIN subs : /\ subs[n].offset <= p
                                                     /\ p < subs[n].offset + subs[n].size
                                                     /\ p = pos => Found = n - 1
    BY DEF SearchFinds
  <2>2. open = Volume /\ streamIndex + 1 \in DOMAIN subs /\ DOMAIN subs = 1..Len(subs)
    BY <2>1 DEF IInv, TypeOK, Ready
  <2>3. ASSUME NEW p \in 0..(total - 1)
        PROVE  \E n \in DOMAIN subs : /\ subs[n].offset <= p
                                      /\ p < subs[n].offset + subs[n].size
                                      /\ p = pos => Found = n - 1
    <3>1. CASE p = pos
      <4> DEFINE f == Found
      <4>1. pos < total
        BY <2>1, <3>1 DEF IInv, TypeOK
      <4>2. f \in 0..(Len(subs) - 1) /\ Has(f + 1)
        BY <2>1, <4>1, Searched
      <4> HIDE DEF f
      <4>3. f + 1 \in 1..Len(subs) /\ f = (f + 1) - 1
        BY <2>1, <4>2 DEF IInv, TypeOK
      <4>4. subs[f + 1].offset <= p /\ p < subs[f + 1].offset + subs[f + 1].size
        BY <3>1, <4>2 DEF Has, EndOf
      <4> QED
        BY <2>2, <4>3, <4>4 DEF f
    <3>2. CASE p # pos
      BY <2>1, <2>2, <3>2, EachHasEntry DEF EndOf
    <3> QED
      BY <3>1, <3>2
  <2> QED
    BY <2>1, <2>2, <2>3
<1> QED
  BY <1>1, Invariance, PTL

----------------------------------------------------------------------------
(* The volumes one behind the other. *)

Byte == Nat \X Nat

Stored == [v \in Volume |-> Data(v)]

Content == FlattenSeq(Stored)

\* The bytes of a volume are as many as its size.
LEMMA StoredBytes ==
  ASSUME IInv
  PROVE  /\ Stored \in Seq(Seq(Byte)) /\ Len(Stored) = Volumes
         /\ \A v \in Volume : /\ Data(v) \in Seq(Byte) /\ Len(Data(v)) = sizes[v]
                              /\ sizes[v] \in Nat /\ Stored[v] = Data(v)
<1>1. ASSUME NEW v \in Volume PROVE Data(v) \in Seq(Byte) /\ Len(Data(v)) = sizes[v]
  <2>1. sizes[v] \in Nat
    BY PlacesWithin
  <2>2. v \in Nat
    BY DEF Volume
  <2> DEFINE r(k) == IF v \in erased THEN <<0, 0>> ELSE <<v, k>>
  <2>3. \A k \in 1..sizes[v] : r(k) \in Byte
    BY <2>2 DEF Byte
  <2> HIDE DEF r
  <2>4. /\ [k \in 1..sizes[v] |-> r(k)] \in Seq(Byte)
        /\ Len([k \in 1..sizes[v] |-> r(k)]) = sizes[v]
    BY <2>1, <2>3
  <2> QED
    BY <2>4 DEF Data, r
<1>2. \A v \in Volume : Stored[v] = Data(v)
  BY DEF Stored
<1>3. Stored \in Seq(Seq(Byte)) /\ Len(Stored) = Volumes
  <2> DEFINE r(v) == Data(v)
  <2>1. Volumes \in Nat /\ \A v \in 1..Volumes : r(v) \in Seq(Byte)
    BY <1>1, InMultiStreamAssumption DEF Volume
  <2> HIDE DEF r
  <2>2. /\ [v \in 1..Volumes |-> r(v)] \in Seq(Seq(Byte))
        /\ Len([v \in 1..Volumes |-> r(v)]) = Volumes
    <3> DEFINE T == Seq(Byte)
    <3>1. \A v \in 1..Volumes : r(v) \in T
      BY <2>1
    <3> HIDE DEF T
    <3>2. [v \in 1..Volumes |-> r(v)] \in Seq(T) /\ Len([v \in 1..Volumes |-> r(v)]) = Volumes
      BY <2>1, <3>1
    <3> QED
      BY <3>2 DEF T
  <2> QED
    BY <2>2 DEF Stored, Volume, r
<1>4. \A v \in Volume : sizes[v] \in Nat
  BY PlacesWithin
<1> QED
  BY <1>1, <1>2, <1>3, <1>4

\* The first i sequences, given what is made of those before.
Pile(seqs, f, i) == IF i = 1 THEN seqs[i] ELSE f[i - 1] \o seqs[i]

\* FlattenSeq() piles up to m sequences.
LEMMA PilesUp ==
  ASSUME NEW seqs, NEW m \in Nat
  PROVE  \E f : f = [i \in 1..m |-> Pile(seqs, f, i)]
<1> DEFINE Known == {n \in Nat : \E f : f = [i \in 1..n |-> Pile(seqs, f, i)]}
<1>1. 0 \in Known
  <2> DEFINE f == [i \in 1..0 |-> 0]
  <2>1. f = [i \in 1..0 |-> Pile(seqs, f, i)]
    <3>1. ~ \E i : i \in 1..0
      OBVIOUS
    <3> QED
      BY <3>1, Zenon
  <2> HIDE DEF f
  <2> QED
    BY <2>1
<1>2. ASSUME NEW n \in Nat, n \in Known PROVE n + 1 \in Known
  <2>1. PICK f : f = [i \in 1..n |-> Pile(seqs, f, i)]
    BY <1>2
  <2> DEFINE top == Pile(seqs, f, n + 1)
             g == [i \in 1..(n + 1) |-> IF i <= n THEN f[i] ELSE top]
  <2>2. ASSUME NEW i \in 1..(n + 1)
        PROVE  (IF i <= n THEN f[i] ELSE top) = Pile(seqs, g, i)
    <3>1. Pile(seqs, g, i) = Pile(seqs, f, i)
      <4>1. CASE i = 1
        BY <4>1, Zenon DEF Pile
      <4>2. CASE i # 1
        <5>1. g[i - 1] = f[i - 1]
          BY <4>2
        <5> HIDE DEF g
        <5> QED
          BY <4>2, <5>1, Zenon DEF Pile
      <4> QED
        BY <4>1, <4>2
    <3> HIDE DEF g
    <3>2. CASE i <= n
      <4>1. i \in 1..n
        BY <3>2
      <4>2. f[i] = Pile(seqs, f, i)
        BY <2>1, <4>1, Zenon
      <4> QED
        BY <3>1, <3>2, <4>2, Zenon
    <3>3. CASE ~(i <= n)
      <4>1. i = n + 1
        BY <3>3
      <4> QED
        BY <3>1, <3>3, <4>1, Zenon
    <3> QED
      BY <3>2, <3>3
  <2>3. g = [i \in 1..(n + 1) |-> Pile(seqs, g, i)]
    BY <2>2, Zenon
  <2> HIDE DEF g
  <2> QED
    BY <2>3
<1>3. Nat \subseteq Known
  <2> HIDE DEF Known
  <2> QED
    BY <1>1, <1>2, Counting
<1> QED
  BY <1>3

\* s is the content of the first k volumes.
Holds(s, k) ==
    /\ s \in Seq(Byte) /\ Len(s) = EndOf(k)
    /\ \A v \in 1..k : /\ EndOf(v) <= Len(s)
                       /\ \A r \in 1..sizes[v] : s[subs[v].offset + r] = Data(v)[r]

\* The entries of a stream that is not broken.
LEMMA EntryOfEach ==
  ASSUME IInv, opened, ~broken
  PROVE  /\ Len(subs) = Volumes /\ Volumes \in Nat /\ Volumes >= 1 /\ Volume = 1..Volumes
         /\ subs[1].offset = 0 /\ total = EndOf(Volumes)
         /\ \A v \in 1..(Volumes - 1) : subs[v + 1].offset = EndOf(v)
         /\ \A v \in 1..Volumes : /\ subs[v].volume = v
                                  /\ subs[v].size = sizes[v] /\ subs[v].offset \in Nat
                                  /\ EndOf(v) = subs[v].offset + sizes[v]
                                  /\ sizes[v] \in Nat
<1>1. Len(subs) = Volumes /\ \A v \in DOMAIN subs : subs[v].volume = v
  BY DEF IInv, OneEach
<1>2. Volumes \in Nat /\ Volumes >= 1 /\ Volume = 1..Volumes /\ DOMAIN subs = 1..Volumes
  BY <1>1, InMultiStreamAssumption DEF Volume, IInv, TypeOK
<1>3. /\ subs[1].offset = 0 /\ total = EndOf(Volumes)
      /\ \A v \in 1..(Volumes - 1) : subs[v + 1].offset = EndOf(v)
  BY <1>1 DEF IInv, Ready, Laid
<1>4. ASSUME NEW v \in 1..Volumes
      PROVE  /\ subs[v].volume = v /\ subs[v].size = sizes[v] /\ subs[v].offset \in Nat
             /\ EndOf(v) = subs[v].offset + sizes[v] /\ sizes[v] \in Nat
  BY <1>1, <1>2, Entry DEF EndOf
<1> QED
  BY <1>1, <1>2, <1>3, <1>4

\* One volume more.
LEMMA HoldsMore ==
  ASSUME IInv, opened, ~broken, NEW k \in 1..(Volumes - 1), NEW s, Holds(s, k)
  PROVE  Holds(s \o Data(k + 1), k + 1)
<1> DEFINE d == Data(k + 1)
           c == s \o d
           size == sizes[k + 1]
<1>1. /\ k \in 1..Volumes /\ k + 1 \in 1..Volumes /\ k \in Nat /\ Volumes \in Nat
      /\ Volume = 1..Volumes
  BY EntryOfEach
<1>2. d \in Seq(Byte) /\ Len(d) = size /\ size \in Nat
  BY <1>1, StoredBytes
<1>3. /\ s \in Seq(Byte) /\ Len(s) = EndOf(k) /\ Len(s) \in Nat
      /\ \A v \in 1..k : /\ EndOf(v) <= Len(s)
                         /\ \A r \in 1..sizes[v] : s[subs[v].offset + r] = Data(v)[r]
  BY DEF Holds
<1>4. subs[k + 1].offset = Len(s) /\ EndOf(k + 1) = Len(s) + size
  BY <1>1, <1>3, EntryOfEach
<1> HIDE DEF d, size
<1>5. /\ c \in Seq(Byte) /\ Len(c) = Len(s) + size
      /\ \A q \in 1..Len(s) : c[q] = s[q]
      /\ \A r \in 1..size : c[Len(s) + r] = d[r]
  BY <1>2, <1>3
<1> HIDE DEF c
<1>6. ASSUME NEW v \in 1..(k + 1)
      PROVE  /\ EndOf(v) <= Len(c)
             /\ \A r \in 1..sizes[v] : c[subs[v].offset + r] = Data(v)[r]
  <2>1. CASE v = k + 1
    <3>1. EndOf(k + 1) <= Len(c) /\ \A r \in 1..size : c[subs[k + 1].offset + r] = d[r]
      BY <1>2, <1>3, <1>4, <1>5
    <3> QED
      BY <2>1, <3>1, Zenon DEF d, size
  <2>2. CASE v # k + 1
    <3>1. v \in 1..k /\ v \in 1..Volumes
      BY <1>1, <2>2
    <3>2. /\ subs[v].offset \in Nat /\ EndOf(v) = subs[v].offset + sizes[v]
          /\ sizes[v] \in Nat
      BY <3>1, EntryOfEach
    <3>3. EndOf(v) <= Len(s) /\ \A r \in 1..sizes[v] : s[subs[v].offset + r] = Data(v)[r]
      BY <1>3, <3>1
    <3>4. EndOf(v) <= Len(c)
      BY <1>2, <1>3, <1>5, <3>2, <3>3
    <3>5. ASSUME NEW r \in 1..sizes[v] PROVE c[subs[v].offset + r] = Data(v)[r]
      <4>1. subs[v].offset + r \in 1..Len(s)
        BY <1>3, <3>2, <3>3
      <4> QED
        BY <1>5, <3>3, <4>1
    <3> QED
      BY <3>4, <3>5
  <2> QED
    BY <2>1, <2>2
<1> QED
  BY <1>4, <1>5, <1>6, Zenon DEF Holds, c, d

\* What the archive reads: the bytes of a volume begin at the offset of its entry.
LEMMA ContentHolds ==
  ASSUME IInv, opened, ~broken
  PROVE  Holds(Content, Volumes)
<1> DEFINE N == Volumes
           flatten == CHOOSE f : f = [i \in 1..N |-> Pile(Stored, f, i)]
           Held == {k \in Nat : k + 1 <= N => Holds(flatten[k + 1], k + 1)}
<1>1. N \in Nat /\ N >= 1 /\ Len(Stored) = N /\ Volume = 1..N
  BY StoredBytes, EntryOfEach
<1>2. Content = flatten[N]
  <2>1. Len(Stored) # 0
    BY <1>1
  <2> QED
    BY <1>1, <2>1, Zenon DEF Content, FlattenSeq, Pile
<1> HIDE DEF N
<1>3. flatten = [i \in 1..N |-> Pile(Stored, flatten, i)]
  BY <1>1, PilesUp, Zenon
<1> HIDE DEF flatten
<1>4. \A i \in 1..N : flatten[i] = Pile(Stored, flatten, i) /\ Stored[i] = Data(i)
  BY <1>1, <1>3, StoredBytes, Zenon
<1>5. 0 \in Held
  <2>1. 1 \in 1..N /\ 0 + 1 = 1
    BY <1>1
  <2>2. flatten[1] = Data(1)
    BY <1>4, <2>1, Zenon DEF Pile
  <2>3. Data(1) \in Seq(Byte) /\ Len(Data(1)) = sizes[1] /\ sizes[1] \in Nat
    BY <1>1, <2>1, StoredBytes
  <2>4. subs[1].offset = 0 /\ EndOf(1) = sizes[1]
    BY <2>1, <2>3, EntryOfEach DEF N
  <2>5. Holds(Data(1), 1)
    <3>1. \A v \in 1..1 : v = 1
      OBVIOUS
    <3> QED
      BY <2>3, <2>4, <3>1 DEF Holds
  <2> QED
    BY <2>1, <2>2, <2>5
<1>6. ASSUME NEW k \in Nat, k \in Held PROVE k + 1 \in Held
  <2>1. SUFFICES ASSUME (k + 1) + 1 <= N PROVE Holds(flatten[(k + 1) + 1], (k + 1) + 1)
    OBVIOUS
  <2> DEFINE j == k + 1
  <2>2. j \in 1..(N - 1) /\ j + 1 \in 1..N /\ j + 1 # 1 /\ (j + 1) - 1 = j
    BY <1>1, <2>1
  <2>3. Holds(flatten[j], j)
    BY <1>1, <1>6, <2>1
  <2> HIDE DEF j, Held
  <2>4. flatten[j + 1] = flatten[j] \o Data(j + 1)
    BY <1>4, <2>2, Zenon DEF Pile
  <2>5. Holds(flatten[j] \o Data(j + 1), j + 1)
    <3>1. j \in 1..(Volumes - 1)
      BY <2>2 DEF N
    <3> QED
      BY <2>3, <3>1, HoldsMore
  <2> QED
    BY <2>4, <2>5, Zenon DEF j
<1>7. Holds(flatten[N], N)
  <2>1. Nat \subseteq Held
    <3> HIDE DEF Held
    <3> QED
      BY <1>5, <1>6, Counting
  <2>2. N - 1 \in Nat /\ (N - 1) + 1 = N /\ N <= N
    BY <1>1
  <2> QED
    BY <2>1, <2>2
<1> QED
  BY <1>2, <1>7 DEF N

\* The bytes from behind m to n.
LEMMA Piece ==
  ASSUME NEW S, NEW s \in Seq(S), NEW m \in Nat, NEW n \in Nat, n <= Len(s) - m
  PROVE  /\ SubSeq(s, m + 1, m + n) \in Seq(S) /\ Len(SubSeq(s, m + 1, m + n)) = n
         /\ \A k \in 1..n : SubSeq(s, m + 1, m + n)[k] = s[m + k]
<1> DEFINE q == SubSeq(s, m + 1, m + n)
<1>1. \A i \in (m + 1)..(m + n) : s[i] \in S
  OBVIOUS
<1>2. q \in Seq(S) /\ Len(q) = n
  BY <1>1, SubSeqProperties
<1>3. \A k \in 1..n : q[k] = s[(m + 1) + k - 1]
  BY SubSeqProperties, <1>1
<1>4. \A k \in 1..n : q[k] = s[m + k]
  BY <1>3
<1> QED
  BY <1>2, <1>4

\* Bytes of the volume of the position are the bytes of the content there.
LEMMA SameBytes ==
  ASSUME IInv, opened, ~broken, NEW v \in Volume, NEW l \in Nat, NEW m \in Nat,
         l + m <= sizes[v]
  PROVE  /\ subs[v].offset + l + m <= Len(Content)
         /\ SubSeq(Data(v), l + 1, l + m)
            = SubSeq(Content, subs[v].offset + l + 1, subs[v].offset + l + m)
<1> DEFINE o == subs[v].offset
           d == Data(v)
           c == Content
           size == sizes[v]
<1>1. /\ v \in 1..Volumes /\ d \in Seq(Byte) /\ Len(d) = size /\ size \in Nat
      /\ o \in Nat /\ EndOf(v) = o + size
  BY StoredBytes, EntryOfEach
<1>2. Holds(c, Volumes)
  BY ContentHolds
<1>3. /\ c \in Seq(Byte) /\ Len(c) \in Nat /\ o + size <= Len(c)
      /\ \A r \in 1..size : c[o + r] = d[r]
  BY <1>1, <1>2 DEF Holds
<1> HIDE DEF o, d, c, size
<1>4. l + m <= size
  BY DEF size
<1> DEFINE a == SubSeq(d, l + 1, l + m)
           e == o + l
           b == SubSeq(c, e + 1, e + m)
<1>5. e \in Nat /\ m <= Len(d) - l /\ m <= Len(c) - e /\ o + l + m <= Len(c)
  BY <1>1, <1>3, <1>4
<1>6. a \in Seq(Byte) /\ Len(a) = m /\ \A k \in 1..m : a[k] = d[l + k]
  BY <1>1, <1>5, Piece
<1> HIDE DEF e
<1>7. b \in Seq(Byte) /\ Len(b) = m /\ \A k \in 1..m : b[k] = c[e + k]
  BY <1>3, <1>5, Piece
<1> HIDE DEF a, b
<1>8. ASSUME NEW k \in 1..m PROVE a[k] = b[k]
  <2>1. l + k \in 1..size /\ e + k = o + (l + k)
    BY <1>1, <1>4 DEF e
  <2> QED
    BY <1>3, <1>6, <1>7, <2>1
<1>9. a = b
  BY <1>6, <1>7, <1>8
<1> QED
  BY <1>5, <1>9, Zenon DEF a, b, e, o, d, c

----------------------------------------------------------------------------
(* Every step is one of the stream an archive expects. *)

\* The content is that of the volumes.
LEMMA SameContent ==
  ASSUME UNCHANGED <<sizes, erased>>
  PROVE  Content' = Content
BY DEF Content, Stored, Data

\* A read of a stream that is not broken gets the bytes of the position.
LEMMA ReadFlat ==
  ASSUME IInv, ~broken, NEW n \in 1..MaxRead, Read(n)
  PROVE  Flat!Read
<1> DEFINE f == Found
           s == subs[f + 1]
           v == s.volume
           l == Local(s)
           from == IF MustSeek(s) THEN l ELSE at[v]
<1>1. /\ opened /\ pos < total
      /\ UNCHANGED <<kind, sizes, present, erased, open, total, opened, broken>>
  BY DEF Read, volumeVars
<1>2. /\ f + 1 \in 1..Len(subs) /\ v \in Volume /\ l \in Nat /\ s.size \in Nat
      /\ l < s.size /\ s.size = sizes[v]
  BY <1>1, EntryFound
<1>3. PICK m \in 1..n :
        /\ m <= s.size - l
        /\ got' = SubSeq(Data(v), from + 1, from + m)
        /\ pos' = pos + m
  BY DEF Read
<1>4. v = f + 1
  <2>1. DOMAIN subs = 1..Len(subs)
    BY DEF IInv, TypeOK
  <2> HIDE DEF f
  <2> QED
    BY <1>1, <1>2, <2>1 DEF IInv, OneEach
<1>5. from = l
  <2>1. SUFFICES ASSUME ~MustSeek(s) PROVE at[v] = l
    OBVIOUS
  <2>2. s.local = l
    BY <2>1 DEF MustSeek
  <2>3. \A k \in 1..Len(subs) : at[subs[k].volume] = subs[k].local
    BY <1>1 DEF IInv, TypeOK, PlacesKnown
  <2> HIDE DEF f
  <2> QED
    BY <1>2, <2>2, <2>3, Zenon
<1>6. s.offset + l = pos /\ s.offset \in Nat /\ pos \in Nat /\ s = subs[v]
  <2>1. s.offset \in Nat /\ pos \in Nat
    <3> HIDE DEF f
    <3> QED
      BY <1>2, Entry DEF IInv, TypeOK
  <2>2. s = subs[v]
    BY <1>4, Zenon
  <2> QED
    BY <2>1, <2>2 DEF Local
<1>7. got' = SubSeq(Data(v), l + 1, l + m)
  BY <1>3, <1>5, Zenon
<1>8. m \in Nat /\ m >= 1 /\ l + m <= sizes[v]
  <2> HIDE DEF l, s, v
  <2> QED
    BY <1>2, <1>3
<1>9. /\ subs[v].offset + l + m <= Len(Content)
      /\ SubSeq(Data(v), l + 1, l + m)
         = SubSeq(Content, subs[v].offset + l + 1, subs[v].offset + l + m)
  <2> HIDE DEF l, v
  <2> QED
    BY <1>1, <1>2, <1>8, SameBytes
<1>10. subs[v].offset + l = pos
  BY <1>6, Zenon
<1> HIDE DEF f, s, v, l, from
<1>11. pos + m <= Len(Content) /\ got' = SubSeq(Content, pos + 1, pos + m)
  BY <1>7, <1>9, <1>10, Zenon
<1>12. Content' = Content
  BY <1>1, SameContent
<1>13. Len(Content) \in Nat /\ m \in 0..Len(Content) /\ m # 0
  <2>1. Len(Content) \in Nat
    <3>1. Content \in Seq(Byte)
      BY <1>1, ContentHolds DEF Holds
    <3> QED
      BY <3>1
  <2> QED
    BY <1>6, <1>8, <1>11, <2>1
<1>14. opened' = opened /\ broken' = broken
  BY <1>1
<1> DEFINE position == IF opened THEN pos ELSE 0
<1>15. position = pos /\ position' = pos + m
  BY <1>1, <1>3, <1>14
<1> HIDE DEF position
<1>16. /\ opened
       /\ m = 0 => position >= Len(Content)
       /\ position + m <= Len(Content) \/ m = 0
       /\ got' = SubSeq(Content, position + 1, position + m)
       /\ position' = position + m
       /\ UNCHANGED <<Content, opened, broken>>
  BY <1>1, <1>11, <1>12, <1>13, <1>14, <1>15
<1> QED
  BY <1>13, <1>16, Zenon DEF Flat!Read, Content, Stored, position

\* Each action is one of the stream of an archive, unless the stream breaks.
LEMMA NextFlat ==
  ASSUME IInv, Next
  PROVE  Flat!Next \/ UNCHANGED Flat!vars
<1> DEFINE position == IF opened THEN pos ELSE 0
<1>1. broken \in BOOLEAN /\ broken' \in BOOLEAN /\ opened \in BOOLEAN /\ opened' \in BOOLEAN
  <2>1. IInv'
    BY OpenInv, OpenFailsInv, CloseInv, RestInv, ReadFailsInv, ReadInv DEF Next
  <2> QED
    BY <2>1 DEF IInv, TypeOK
<1>2. CASE broken'
  BY <1>1, <1>2 DEF Flat!Next, Flat!Breaks
<1>3. CASE Close
  <2>1. /\ opened' = FALSE /\ got' = <<>> /\ broken' = FALSE /\ UNCHANGED <<sizes, erased>>
    BY <1>3 DEF Close, volumeVars
  <2>2. Content' = Content
    BY <2>1, SameContent
  <2>3. position' = 0
    BY <2>1
  <2> HIDE DEF position
  <2> QED
    BY <2>1, <2>2, <2>3, Zenon DEF Flat!Next, Flat!Close, Content, Stored, position
<1>4. CASE ~broken' /\ (\/ OpenFails \/ Erase)
  <2>1. /\ ~opened /\ opened' = opened /\ got' = <<>> /\ ~broken /\ broken' = broken
    BY <1>1, <1>4 DEF OpenFails, Erase
  <2>2. position = 0 /\ position' = 0
    BY <2>1
  <2> HIDE DEF position
  <2> QED
    BY <2>1, <2>2, Zenon DEF Flat!Next, Flat!Replace, position
<1>5. CASE ~broken' /\ Appear
  <2>1. UNCHANGED <<sizes, erased, pos, opened, got, broken>>
    BY <1>5 DEF Appear, multi
  <2>2. Content' = Content /\ position' = position
    BY <2>1, SameContent
  <2> HIDE DEF position
  <2> QED
    BY <2>1, <2>2, Zenon DEF Flat!vars, Content, Stored, position
<1>6. CASE ~broken' /\ Open
  <2>1. /\ ~opened /\ opened' = TRUE /\ got' = <<>> /\ ~broken /\ broken' = broken
        /\ Add(Volumes) /\ UNCHANGED <<sizes, erased>>
    BY <1>1, <1>6 DEF Open, volumeVars
  <2>2. pos' = 0
    <3>1. Volumes # 0
      BY InMultiStreamAssumption
    <3> QED
      BY <2>1, <3>1 DEF Add
  <2>3. Content' = Content /\ position' = 0
    BY <2>1, <2>2, SameContent
  <2> HIDE DEF position
  <2> QED
    BY <2>1, <2>3, Zenon DEF Flat!Next, Flat!Open, Content, Stored, position
<1>7. CASE ~broken' /\ (ReadAtEnd \/ ReadFails \/ SeekInReadFails)
  <2>1. /\ opened /\ opened' = opened /\ got' = <<>> /\ ~broken /\ broken' = broken
        /\ pos' = pos /\ UNCHANGED <<sizes, erased>>
    BY <1>1, <1>7 DEF ReadAtEnd, ReadFails, SeekInReadFails, volumeVars, multi
  <2>2. Content' = Content /\ position' = position
    BY <2>1, SameContent
  <2> HIDE DEF position
  <2> QED
    BY <2>1, <2>2, Zenon DEF Flat!Next, Flat!ReadFails, Content, Stored, position
<1>8. CASE ~broken' /\ Seek
  <2>1. /\ opened /\ opened' = opened /\ got' = <<>> /\ ~broken /\ broken' = broken
        /\ pos' \in 0..MaxSeek /\ UNCHANGED <<sizes, erased>>
    BY <1>1, <1>8 DEF Seek, volumeVars
  <2>2. Content' = Content /\ position' \in Nat
    BY <2>1, SameContent, InMultiStreamAssumption
  <2> HIDE DEF position
  <2> QED
    BY <2>1, <2>2, Zenon DEF Flat!Next, Flat!Seek, Content, Stored, position
<1>9. ASSUME ~broken', NEW n \in 1..MaxRead, Read(n) PROVE Flat!Next
  <2>1. ~broken
    BY <1>9 DEF Read
  <2>2. Flat!Read
    BY <1>9, <2>1, ReadFlat
  <2> QED
    BY <2>1, <2>2, Zenon DEF Flat!Next
<1> HIDE DEF position
<1> QED
  BY <1>2, <1>3, <1>4, <1>5, <1>6, <1>7, <1>8, <1>9, Zenon DEF Next

\* The volumes one behind the other are the one stream the archive reads, whatever
\* the order of seeks and reads and however few bytes a read gets, for any number
\* and sizes of volumes.
THEOREM Implements == Spec => FlatSpec
<1>1. Init => Flat!Init
  BY DEF Init, Flat!Init
<1>2. IInv /\ [Next]_vars => [Flat!Next]_(Flat!vars)
  <2> SUFFICES ASSUME IInv, [Next]_vars PROVE Flat!Next \/ UNCHANGED Flat!vars
    OBVIOUS
  <2>1. CASE Next
    BY <2>1, NextFlat
  <2>2. CASE UNCHANGED vars
    <3>1. UNCHANGED <<sizes, erased, pos, opened, got, broken>>
      BY <2>2 DEF vars, volumeVars, multi
    <3>2. Content' = Content
      BY <3>1, SameContent
    <3> QED
      BY <3>1, <3>2 DEF Flat!vars, Content, Stored
  <2> QED
    BY <2>1, <2>2
<1> QED
  BY <1>1, <1>2, Invariance, PTL DEF Spec, FlatSpec, Flat!Spec
=============================================================================
