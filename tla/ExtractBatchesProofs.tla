------------------------- MODULE ExtractBatchesProofs -------------------------
(***************************************************************************)
(* ExtractCallback::process() extracts what was selected, for any number   *)
(* of items and folders, any selection and any size of a batch.            *)
(***************************************************************************)
EXTENDS ExtractBatches, FiniteSetTheorems, SequenceTheorems, TLAPS

\* The archive has not been asked for anything yet.
Untouched ==
    /\ items = selection
    /\ itemIndex = 0 /\ partNumber = 0
    /\ extracted = <<>> /\ wanted = <<>> /\ batch = <<>>
    /\ returned # "ok"

\* The items are sorted before the first batch.
Begun ==
    \/ phase \in {"called", "done"} /\ Untouched
    \/ phase # "called" /\ items = InOrder /\ partsCount = PartsFor(Len(items))

\* What was extracted, what the archive wants next and what is left of the batch
\* are the items one after another, up to itemIndex.
Row ==
    /\ itemIndex = Len(extracted) + Len(wanted) + Len(batch)
    /\ \A k \in DOMAIN extracted : extracted[k] = items[k]
    /\ \A k \in DOMAIN wanted : wanted[k] = items[Len(extracted) + k]
    /\ \A k \in DOMAIN batch : batch[k] = items[Len(extracted) + Len(wanted) + k]

Within(s) == \A k \in DOMAIN s : first <= s[k] /\ s[k] <= last

\* Nothing the archive is asked for is outside the batch.
Limits == Within(wanted) /\ Within(batch)

\* The archive has not passed what it wants.
Run ==
    wanted # <<>> => /\ file <= wanted[1]
                     /\ \A k \in 2..Len(wanted) : wanted[k - 1] < wanted[k]

Phases ==
    /\ phase = "batch" => wanted = <<>> /\ batch = <<>>
    /\ returned # "no" => phase = "done"
    /\ returned = "ok" => wanted = <<>> /\ batch = <<>> /\ itemIndex = Len(items)

\* All parts but the last are full.
Parts ==
    /\ partNumber > 1 => (partNumber - 1) * BatchSize < Len(items)
    /\ phase = "batch" => /\ itemIndex = partNumber * BatchSize
                          /\ partNumber > 0 => itemIndex < Len(items)
    /\ phase = "archive" => /\ partNumber > 0
                            /\ itemIndex = IF partNumber * BatchSize < Len(items)
                                           THEN partNumber * BatchSize ELSE Len(items)
    /\ returned = "ok" => partNumber > 0 /\ Len(items) <= partNumber * BatchSize

\* Every item that was extracted went to a stream of it.
Streams ==
    toStreams => \A k \in DOMAIN extracted : \E s \in served : selection[s] = extracted[k]

IInv == TypeOK /\ Begun /\ Row /\ Limits /\ Run /\ Phases /\ Parts /\ Streams

\* Those that are not behind the j-th number.
NotBehind(s, j) == {i \in DOMAIN s : s[i] < s[j] \/ (s[i] = s[j] /\ i <= j)}

----------------------------------------------------------------------------
(* The order of the items. *)

\* A set of natural numbers has a least one.
LEMMA LeastNumber ==
  ASSUME NEW T, T \subseteq Nat, T # {}
  PROVE  \E n \in T : \A m \in T : n <= m
<1> DEFINE R == OpToRel(<, Nat)
<1>1. IsWellFoundedOn(R, Nat)
  BY NatLessThanWellFounded
<1>2. \A m, n \in Nat : m < n => <<m, n>> \in R
  BY DEF OpToRel
<1> HIDE DEF R
<1>3. PICK n \in T : \A m \in T : ~ (<<m, n>> \in R)
  BY <1>1, WFMin
<1>4. ASSUME NEW m \in T PROVE n <= m
  <2>1. m \in Nat /\ n \in Nat /\ ~(m < n)
    BY <1>2, <1>3
  <2> QED
    BY <2>1
<1> QED
  BY <1>4

\* The place of a number in the order.
LEMMA PlaceInside ==
  ASSUME NEW s \in Seq(Nat), NEW j \in DOMAIN s
  PROVE  /\ Place(s, j) \in DOMAIN s
         /\ IsFiniteSet(NotBehind(s, j)) /\ Place(s, j) = Cardinality(NotBehind(s, j))
<1> DEFINE n == Len(s)
           S == NotBehind(s, j)
<1>1. n \in Nat /\ DOMAIN s = 1..n /\ j \in 1..n
  OBVIOUS
<1> HIDE DEF n
<1>2. IsFiniteSet(1..n) /\ Cardinality(1..n) = n
  BY <1>1, FS_Interval
<1>3. S \in SUBSET (1..n) /\ j \in S
  BY <1>1 DEF NotBehind
<1>4. Place(s, j) = Cardinality(S)
  BY DEF Place, NotBehind
<1> HIDE DEF S
<1>5. IsFiniteSet(S) /\ Cardinality(S) <= n
  BY <1>2, <1>3, FS_Subset
<1>6. Cardinality(S) \in Nat /\ Cardinality(S) # 0
  BY <1>3, <1>5, FS_CardinalityType, FS_EmptySet
<1> QED
  BY <1>1, <1>4, <1>5, <1>6 DEF S

\* A number has its place before that of any behind it.
LEMMA PlaceBefore ==
  ASSUME NEW s \in Seq(Nat), NEW i \in DOMAIN s, NEW j \in DOMAIN s, i # j, i \in NotBehind(s, j)
  PROVE  Place(s, i) < Place(s, j)
<1> DEFINE S == NotBehind(s, i)
           T == NotBehind(s, j)
<1>1. \A k \in DOMAIN s : k \in Nat /\ s[k] \in Nat
  OBVIOUS
<1>2. S \subseteq T /\ j \in T /\ j \notin S
  BY <1>1 DEF NotBehind
<1>3. /\ IsFiniteSet(S) /\ Place(s, i) = Cardinality(S) /\ Cardinality(S) \in Nat
      /\ IsFiniteSet(T) /\ Place(s, j) = Cardinality(T) /\ Cardinality(T) \in Nat
  BY PlaceInside, FS_CardinalityType
<1> HIDE DEF S, T
<1>4. Cardinality(S) <= Cardinality(T) /\ Cardinality(S) # Cardinality(T)
  BY <1>2, <1>3, FS_Subset
<1> QED
  BY <1>3, <1>4

\* Ascending() puts each number somewhere, and in order.
LEMMA AscendingOrder ==
  ASSUME NEW S \in SUBSET Nat, NEW s \in Seq(S)
  PROVE  /\ Ascending(s) \in Seq(S) /\ Len(Ascending(s)) = Len(s)
         /\ \A k, l \in DOMAIN s : k <= l => Ascending(s)[k] <= Ascending(s)[l]
         /\ \A j \in DOMAIN s : \E k \in DOMAIN s : Ascending(s)[k] = s[j]
<1> DEFINE n == Len(s)
           f == [j \in 1..n |-> Place(s, j)]
           At(k) == CHOOSE j \in DOMAIN s : Place(s, j) = k
           t == Ascending(s)
<1>1. n \in Nat /\ DOMAIN s = 1..n /\ s \in Seq(Nat) /\ \A j \in 1..n : s[j] \in S /\ s[j] \in Nat
  <2>1. n \in Nat /\ DOMAIN s = 1..n /\ \A j \in 1..n : s[j] \in S
    OBVIOUS
  <2>2. \A j \in 1..n : s[j] \in Nat
    BY <2>1
  <2>3. s = [j \in 1..n |-> s[j]]
    OBVIOUS
  <2> HIDE DEF n
  <2>4. s \in Seq(Nat)
    BY <2>1, <2>2, <2>3
  <2> QED
    BY <2>1, <2>2, <2>4
<1> HIDE DEF n
<1>2. \A j \in 1..n : Place(s, j) \in 1..n
  BY <1>1, PlaceInside
<1>3. ASSUME NEW i \in 1..n, NEW j \in 1..n, i # j
      PROVE  Place(s, i) # Place(s, j)
  <2>1. i \in NotBehind(s, j) \/ j \in NotBehind(s, i)
    BY <1>1, <1>3 DEF NotBehind
  <2>2. Place(s, i) \in Nat /\ Place(s, j) \in Nat
    BY <1>1, <1>2
  <2>3. Place(s, i) < Place(s, j) \/ Place(s, j) < Place(s, i)
    BY <1>1, <1>3, <2>1, PlaceBefore
  <2> QED
    BY <2>2, <2>3
<1>4. f \in Injection(1..n, 1..n)
  BY <1>2, <1>3 DEF Injection, IsInjective
<1>5. f \in Surjection(1..n, 1..n)
  BY <1>1, <1>4, FS_Injection, FS_Interval
<1>6. ASSUME NEW k \in 1..n PROVE At(k) \in 1..n /\ Place(s, At(k)) = k
  <2>1. \E j \in 1..n : Place(s, j) = k
    BY <1>5 DEF Surjection
  <2> QED
    BY <1>1, <2>1
<1>7. t = [k \in 1..n |-> s[At(k)]]
  BY <1>1 DEF Ascending
<1> HIDE DEF At, f, t
<1>8. t \in Seq(S) /\ Len(t) = n /\ \A k \in 1..n : t[k] = s[At(k)]
  BY <1>1, <1>6, <1>7
<1>9. ASSUME NEW k \in 1..n, NEW l \in 1..n, k <= l PROVE t[k] <= t[l]
  <2>1. CASE k = l
    BY <1>1, <1>6, <1>8, <2>1
  <2>2. CASE k # l
    <3>1. At(k) # At(l) /\ ~(Place(s, At(l)) < Place(s, At(k)))
      BY <1>1, <1>6, <1>9, <2>2
    <3>2. At(l) \notin NotBehind(s, At(k))
      BY <1>1, <1>6, <3>1, PlaceBefore
    <3> DEFINE a == At(k)
               b == At(l)
    <3>3. a \in 1..n /\ b \in 1..n /\ s[a] \in Nat /\ s[b] \in Nat /\ ~(s[b] < s[a])
      <4>1. a \in 1..n /\ b \in 1..n
        BY <1>6
      <4> HIDE DEF a, b
      <4> QED
        BY <1>1, <3>2, <4>1 DEF NotBehind, a, b
    <3> QED
      BY <1>8, <3>3
  <2> QED
    BY <2>1, <2>2
<1>10. ASSUME NEW j \in 1..n PROVE \E k \in 1..n : t[k] = s[j]
  <2>1. Place(s, j) \in 1..n
    BY <1>2
  <2>2. At(Place(s, j)) = j
    BY <1>3, <1>6, <2>1
  <2> QED
    BY <1>8, <2>1, <2>2
<1> QED
  BY <1>1, <1>8, <1>9, <1>10 DEF n, t
----------------------------------------------------------------------------
(* The values. *)

\* Typed values.
LEMMA Values ==
  ASSUME IInv
  PROVE  /\ Items \subseteq Nat /\ BatchSize \in Nat /\ BatchSize >= 1
         /\ items \in Seq(Items) /\ Len(items) \in Nat /\ DOMAIN items = 1..Len(items)
         /\ itemIndex \in Nat /\ itemIndex <= Len(items)
         /\ extracted \in Seq(Items) /\ Len(extracted) \in Nat
         /\ wanted \in Seq(Items) /\ Len(wanted) \in Nat
         /\ batch \in Seq(Items) /\ Len(batch) \in Nat
         /\ DOMAIN extracted = 1..Len(extracted)
         /\ DOMAIN wanted = 1..Len(wanted) /\ DOMAIN batch = 1..Len(batch)
         /\ file \in Nat /\ partNumber \in Nat
BY ExtractBatchesAssumption DEF IInv, TypeOK, Items

\* The items in ascending order are those that were selected.
LEMMA Ordered ==
  ASSUME IInv
  PROVE  /\ InOrder \in Seq(Items) /\ Len(InOrder) = Len(selection)
         /\ Len(selection) \in Nat /\ DOMAIN selection = 1..Len(selection)
         /\ \A k, l \in DOMAIN selection : k <= l => InOrder[k] <= InOrder[l]
         /\ \A j \in DOMAIN selection : \E k \in DOMAIN selection : InOrder[k] = selection[j]
<1>1. selection \in Seq(Items) /\ Items \in SUBSET Nat
  BY Values DEF IInv, TypeOK
<1> QED
  BY <1>1, AscendingOrder DEF InOrder

\* A piece of a sequence.
LEMMA Piece ==
  ASSUME NEW S, NEW s \in Seq(S), NEW m \in Nat, NEW n \in Nat, m <= n, n <= Len(s)
  PROVE  /\ SubSeq(s, m + 1, n) \in Seq(S) /\ Len(SubSeq(s, m + 1, n)) = n - m
         /\ \A k \in 1..(n - m) : SubSeq(s, m + 1, n)[k] = s[m + k]
<1> DEFINE q == SubSeq(s, m + 1, n)
<1>1. \A i \in (m + 1)..n : s[i] \in S
  OBVIOUS
<1>2. q \in Seq(S) /\ Len(q) = n - m
  BY <1>1, SubSeqProperties
<1>3. \A k \in 1..(n - m) : q[k] = s[(m + 1) + k - 1]
  BY SubSeqProperties, <1>1
<1>4. \A k \in 1..(n - m) : q[k] = s[m + k]
  BY <1>3
<1> QED
  BY <1>2, <1>4

\* The next batch: as many of the next items as it has room for, and its limits.
LEMMA NextBatch ==
  ASSUME IInv, items = InOrder
  PROVE  LET b == BatchAt(itemIndex)
             e == IF itemIndex + BatchSize < Len(items) THEN itemIndex + BatchSize
                  ELSE Len(items)
         IN  /\ b \in Seq(Items) /\ Len(b) = e - itemIndex
             /\ \A k \in 1..(e - itemIndex) : b[k] = items[itemIndex + k]
             /\ \A k \in DOMAIN b : FirstOf(b) <= b[k] /\ b[k] <= LastOf(b)
             /\ FirstOf(b) \in Items \cup {0} /\ LastOf(b) \in Items \cup {0}
<1> DEFINE e == IF itemIndex + BatchSize < Len(items) THEN itemIndex + BatchSize ELSE Len(items)
           b == BatchAt(itemIndex)
           m == e - itemIndex
<1>1. e \in Nat /\ itemIndex <= e /\ e <= Len(items) /\ itemIndex \in Nat /\ m \in Nat
  <2>1. /\ BatchSize \in Nat /\ Len(items) \in Nat
        /\ itemIndex \in Nat /\ itemIndex <= Len(items)
    BY Values
  <2> QED
    BY ONLY <2>1
<1>2. b = SubSeq(items, itemIndex + 1, e)
  BY DEF BatchAt
<1>3. \A k, l \in 1..Len(items) : k <= l => items[k] <= items[l]
  BY Ordered
<1> HIDE DEF e
<1>4. b \in Seq(Items) /\ Len(b) = m /\ \A k \in 1..m : b[k] = items[itemIndex + k]
  <2>1. items \in Seq(Items)
    BY Values
  <2> QED
    BY <1>1, <1>2, <2>1, Piece
<1> HIDE DEF b, m
<1>5. DOMAIN b = 1..m /\ \A k \in 1..m : b[k] \in Items
  BY <1>4
<1>6. \A k, l \in 1..m : k <= l => b[k] <= b[l]
  <2>1. ASSUME NEW k \in 1..m, NEW l \in 1..m, k <= l PROVE b[k] <= b[l]
    <3>1. itemIndex + k \in 1..Len(items) /\ itemIndex + l \in 1..Len(items)
          /\ itemIndex + k <= itemIndex + l
      BY <1>1, <2>1 DEF m
    <3> QED
      BY <1>3, <1>4, <3>1
  <2> QED
    BY <2>1
<1>7. CASE b = <<>>
  BY <1>4, <1>5, <1>7 DEF FirstOf, LastOf, e, b, m
<1>8. CASE b # <<>>
  <2>1. 1 \in 1..m /\ m \in 1..m
    BY <1>1, <1>4, <1>8
  <2>2. FirstOf(b) = b[1] /\ LastOf(b) = b[m]
    BY <1>4, <1>8 DEF FirstOf, LastOf, Last
  <2>3. \A k \in 1..m : b[1] <= b[k] /\ b[k] <= b[m]
    BY <1>6, <2>1
  <2> QED
    BY <1>4, <1>5, <2>1, <2>2, <2>3 DEF e, b, m
<1> QED
  BY <1>7, <1>8

\* The archive takes at least one index from a batch, all from one folder and
\* strictly ascending.
LEMMA RunTaken ==
  ASSUME IInv, batch # <<>>
  PROVE  RunLength \in 1..Len(batch) /\ InOneRun(RunLength)
<1> DEFINE n == Len(batch)
           T == {k \in 1..n : k = n \/ ~InOneRun(k + 1)}
<1>1. n \in Nat /\ n >= 1
  BY Values
<1> HIDE DEF n
<1>2. T \subseteq Nat /\ T # {}
  <2>1. n \in 1..n
    BY <1>1
  <2>2. n \in T
    BY <2>1, Zenon
  <2>3. T \subseteq 1..n
    BY Zenon
  <2> HIDE DEF T
  <2> QED
    BY <1>1, <2>2, <2>3
<1>3. PICK k \in T : \A m \in T : k <= m
  BY <1>2, LeastNumber
<1>4. k \in 1..n /\ k \in Nat /\ (k < n => ~InOneRun(k + 1))
  BY <1>1, <1>3
<1>5. InOneRun(k)
  <2>1. CASE k = 1
    BY <2>1 DEF InOneRun
  <2>2. CASE k # 1
    <3>1. k - 1 \in 1..n /\ k - 1 # n /\ (k - 1) + 1 = k /\ ~(k <= k - 1)
      BY <1>1, <1>4, <2>2
    <3>2. k - 1 \notin T
      <4> HIDE DEF T
      <4> QED
        BY <1>3, <3>1
    <3> QED
      BY <3>1, <3>2, Zenon
  <2> QED
    BY <2>1, <2>2
<1>6. \E r \in 1..n : InOneRun(r) /\ (r < n => ~InOneRun(r + 1))
  BY <1>4, <1>5
<1>7. RunLength = CHOOSE r \in 1..n : InOneRun(r) /\ (r < n => ~InOneRun(r + 1))
  BY Zenon DEF RunLength, n
<1>8. RunLength \in 1..n /\ InOneRun(RunLength)
  BY <1>6, <1>7, Zenon
<1> QED
  BY <1>8 DEF n

\* The folder of an item begins with the item or before it.
LEMMA FolderBefore ==
  ASSUME IInv, NEW i \in Items, folderStart[i] # NoFolder
  PROVE  folderStart[i] \in Items /\ folderStart[i] <= i
BY DEF IInv, TypeOK, Layouts

----------------------------------------------------------------------------
(* The steps. *)

\* Nothing was done yet.
LEMMA InitInv == Init => IInv
<1> SUFFICES ASSUME Init PROVE IInv
  OBVIOUS
<1>1. selection \in Seq(Items)
  <2>1. PICK n \in 0..MaxSelection : selection \in [1..n -> Items]
    BY DEF Init, BoundedSeq, SeqOf
  <2> QED
    BY <2>1, ExtractBatchesAssumption
<1>2. TypeOK
  BY <1>1, ExtractBatchesAssumption DEF Init, TypeOK, Items
<1>3. Len(<<>>) = 0 /\ DOMAIN <<>> = {}
  OBVIOUS
<1>4. Begun /\ Row /\ Limits /\ Run /\ Phases /\ Parts /\ Streams
  BY <1>1, <1>3 DEF Init, Begun, Untouched, Row, Limits, Within, Run, Phases, Parts, Streams
<1> QED
  BY <1>2, <1>4 DEF IInv

\* The number of parts announced is how many batches n items need.
LEMMA PartsNeeded ==
  ASSUME NEW n \in Nat
  PROVE  /\ PartsFor(n) \in Nat \ {0} /\ n <= PartsFor(n) * BatchSize
         /\ PartsFor(n) > 1 => (PartsFor(n) - 1) * BatchSize < n
<1> DEFINE d == n \div BatchSize
           p == PartsFor(n)
<1>1. BatchSize \in Nat /\ BatchSize >= 1
  BY ExtractBatchesAssumption
<1>2. d \in Nat /\ d * BatchSize <= n /\ n < d * BatchSize + BatchSize
  BY <1>1
<1>3. p = IF n < BatchSize THEN 1
          ELSE IF n > d * BatchSize THEN d + 1 ELSE d
  <2>1. 1 * BatchSize = BatchSize
    BY <1>1
  <2> QED
    BY <1>1, <2>1 DEF PartsFor
<1> HIDE DEF d, p
<1>4. n >= BatchSize => d >= 1
  <2>1. d = 0 => d * BatchSize = 0
    BY <1>1
  <2> QED
    BY <1>1, <1>2, <2>1
<1>5. (d + 1) * BatchSize = d * BatchSize + BatchSize /\ (d + 1) - 1 = d
  BY <1>1, <1>2
<1>6. (d - 1) * BatchSize = d * BatchSize - BatchSize
  BY <1>1, <1>2
<1>7. CASE n < BatchSize
  BY <1>1, <1>3, <1>7 DEF p
<1>8. CASE n >= BatchSize /\ n > d * BatchSize
  <2>1. p = d + 1
    BY <1>1, <1>3, <1>8
  <2>2. p \in Nat \ {0} /\ p * BatchSize = d * BatchSize + BatchSize /\ p - 1 = d
    BY <1>2, <1>5, <2>1
  <2>3. (p - 1) * BatchSize = d * BatchSize
    BY <2>2, Zenon
  <2>4. n <= p * BatchSize /\ (p - 1) * BatchSize < n
    BY ONLY <1>1, <1>2, <1>8, <2>2, <2>3, n \in Nat
  <2> QED
    BY <2>2, <2>4 DEF p
<1>9. CASE n >= BatchSize /\ ~(n > d * BatchSize)
  <2>1. p = d /\ d * BatchSize = n /\ d \in Nat \ {0}
    <3>1. d * BatchSize \in Nat
      BY <1>1, <1>2
    <3> QED
      BY <1>1, <1>2, <1>3, <1>4, <1>9, <3>1
  <2> QED
    BY <1>1, <1>6, <2>1 DEF p
<1> QED
  BY <1>1, <1>7, <1>8, <1>9

\* More parts hold more items.
LEMMA FewerParts ==
  ASSUME NEW a \in Nat, NEW b \in Nat, a * BatchSize < b * BatchSize
  PROVE  a < b
<1> SUFFICES ASSUME b <= a PROVE FALSE
  OBVIOUS
<1>1. BatchSize \in Nat
  BY ExtractBatchesAssumption
<1>2. PICK d \in Nat : a = b + d
  OBVIOUS
<1>3. a * BatchSize = b * BatchSize + d * BatchSize /\ d * BatchSize \in Nat
      /\ b * BatchSize \in Nat
  BY <1>1, <1>2
<1> QED
  BY <1>3

\* The items are sorted, or the archive fails at once.
LEMMA BeginKeeps == IInv /\ Begin => IInv'
<1> SUFFICES ASSUME IInv, Begin PROVE IInv'
  OBVIOUS
<1>1. Untouched /\ phase = "called" /\ returned = "no"
  BY DEF Begin, IInv, Begun, Phases, TypeOK
<1>2. UNCHANGED <<selected, itemIndex, first, last, archive, history>>
  BY DEF Begin
<1>3. UNCHANGED <<folderStart, selection, toStreams, itemIndex, first, last, batch, wanted, file,
                  extracted, served>>
  BY <1>2 DEF selected, archive, history
<1>4. Len(<<>>) = 0 /\ DOMAIN <<>> = {} /\ 0 * BatchSize = 0
  BY ExtractBatchesAssumption
<1>5. wanted = <<>> /\ batch = <<>> /\ extracted = <<>> /\ itemIndex = 0
  BY <1>1 DEF Untouched
<1>6. Row' /\ Limits' /\ Run' /\ Streams'
  BY <1>3, <1>4, <1>5 DEF Row, Limits, Within, Run, Streams
<1>7. CASE items' = Sorted(items) /\ partsCount' = PartsFor(Len(items)) /\ partNumber' = 0
           /\ phase' = "batch" /\ returned' = returned
  <2>1. items = selection /\ selection \in Seq(Items) /\ Len(selection) \in Nat
        /\ Items \in SUBSET Nat
    BY <1>1, Values DEF Untouched, IInv, TypeOK
  <2>2. items' = Ascending(selection) /\ items' \in Seq(Items) /\ Len(items') = Len(selection)
    BY <1>7, <2>1, AscendingOrder DEF Sorted
  <2>3. TypeOK'
    <3>1. partsCount' \in Nat \ {0}
      BY <1>7, <2>1, PartsNeeded
    <3> QED
      BY <1>1, <1>3, <1>5, <1>7, <2>1, <2>2, <3>1 DEF IInv, TypeOK
  <2>4. Begun'
    BY <1>3, <1>7, <2>1, <2>2 DEF Begun, InOrder
  <2>5. Phases' /\ Parts'
    BY <1>1, <1>3, <1>4, <1>5, <1>7 DEF Phases, Parts
  <2> QED
    BY <1>6, <2>3, <2>4, <2>5 DEF IInv
<1>8. CASE Return("thrown") /\ UNCHANGED <<items, partsCount, partNumber>>
  <2>1. phase' = "done" /\ returned' = "thrown" /\ UNCHANGED <<items, partsCount, partNumber>>
    BY <1>8 DEF Return
  <2>2. TypeOK'
    BY <1>3, <2>1 DEF IInv, TypeOK
  <2>3. Begun'
    BY <1>1, <1>3, <2>1 DEF Begun, Untouched
  <2>4. Phases' /\ Parts'
    BY <1>1, <1>3, <1>4, <1>5, <2>1 DEF Phases, Parts, Untouched
  <2> QED
    BY <1>6, <2>2, <2>3, <2>4 DEF IInv
<1> QED
  BY <1>7, <1>8 DEF Begin

\* The next batch.
LEMMA StartBatchKeeps == IInv /\ StartBatch => IInv'
<1> SUFFICES ASSUME IInv, StartBatch PROVE IInv'
  OBVIOUS
<1> DEFINE e == IF itemIndex + BatchSize < Len(items) THEN itemIndex + BatchSize ELSE Len(items)
           b == BatchAt(itemIndex)
<1>1. /\ phase = "batch" /\ batch' = b /\ itemIndex' = itemIndex + Len(b)
      /\ first' = FirstOf(b) /\ last' = LastOf(b) /\ partNumber' = partNumber + 1
      /\ phase' = "archive"
      /\ UNCHANGED <<folderStart, selection, toStreams, items, partsCount, wanted, file,
                     extracted, served, returned>>
  BY DEF StartBatch, selected, history
<1>2. items = InOrder /\ partsCount = PartsFor(Len(items)) /\ wanted = <<>> /\ returned = "no"
  BY <1>1 DEF IInv, Begun, Phases, TypeOK
<1>3. /\ b \in Seq(Items) /\ Len(b) = e - itemIndex
      /\ \A k \in 1..(e - itemIndex) : b[k] = items[itemIndex + k]
      /\ \A k \in DOMAIN b : FirstOf(b) <= b[k] /\ b[k] <= LastOf(b)
      /\ FirstOf(b) \in Items \cup {0} /\ LastOf(b) \in Items \cup {0}
  BY <1>2, NextBatch
<1> HIDE DEF b
<1>4. /\ itemIndex \in Nat /\ itemIndex <= Len(items) /\ Len(items) \in Nat
      /\ BatchSize \in Nat /\ BatchSize >= 1 /\ partNumber \in Nat /\ Len(extracted) \in Nat
  BY Values
<1>5. itemIndex' = e /\ e <= Len(items) /\ e \in Nat /\ DOMAIN b = 1..(e - itemIndex)
  <2>1. e \in Nat /\ e <= Len(items) /\ itemIndex <= e
    BY ONLY <1>4
  <2> HIDE DEF e
  <2> QED
    BY <1>1, <1>3, <1>4, <2>1
<1>6. itemIndex = Len(extracted) /\ Len(wanted) = 0
  BY <1>1, <1>4 DEF IInv, Phases, Row
<1>7. itemIndex = partNumber * BatchSize /\ (partNumber > 0 => itemIndex < Len(items))
  BY <1>1 DEF IInv, Parts
<1>8. Parts'
  <2>1. (partNumber + 1) * BatchSize = itemIndex + BatchSize /\ (partNumber + 1) - 1 = partNumber
    BY <1>4, <1>7
  <2>2. partNumber' = partNumber + 1 /\ partNumber' * BatchSize = itemIndex + BatchSize
        /\ (partNumber' - 1) * BatchSize = itemIndex
    BY <1>1, <1>7, <2>1
  <2>3. partNumber' > 1 => itemIndex < Len(items)
    BY <1>4, <1>7, <2>2
  <2>4. partNumber' > 0
    BY <1>4, <2>2
  <2> QED
    BY <1>1, <1>2, <1>5, <2>2, <2>3, <2>4 DEF Parts
<1> HIDE DEF e
<1>9. TypeOK'
  BY <1>1, <1>3, <1>4, <1>5 DEF IInv, TypeOK
<1>10. Begun' /\ Phases'
  <2>1. InOrder' = InOrder
    BY <1>1 DEF InOrder
  <2>2. phase' = "archive" /\ items' = items /\ partsCount' = partsCount /\ returned' = "no"
    BY <1>1, <1>2
  <2>3. items' = InOrder' /\ partsCount' = PartsFor(Len(items'))
    BY <1>2, <2>1, <2>2
  <2>4. Begun'
    BY <2>2, <2>3 DEF Begun
  <2> QED
    BY <2>2, <2>4 DEF Phases
<1>11. Row'
  <2>1. \A k \in DOMAIN b : b[k] = items[Len(extracted) + Len(wanted) + k]
    <3>1. Len(extracted) + Len(wanted) = itemIndex
      BY ONLY <1>4, <1>6
    <3>2. \A k \in DOMAIN b : b[k] = items[itemIndex + k]
      BY <1>3, <1>5, Zenon DEF e
    <3> QED
      BY <3>1, <3>2, Zenon
  <2>2. e = Len(extracted) + Len(wanted) + Len(b)
    BY <1>3, <1>4, <1>5, <1>6
  <2> QED
    BY <1>1, <1>5, <2>1, <2>2 DEF IInv, Row
<1>12. Limits' /\ Run' /\ Streams'
  <2>1. DOMAIN wanted = {}
    BY <1>2
  <2> QED
    BY <1>1, <1>2, <1>3, <2>1 DEF IInv, Limits, Within, Run, Streams
<1> QED
  BY <1>8, <1>9, <1>10, <1>11, <1>12 DEF IInv

\* The archive takes the next run out of the batch.
LEMMA StartRunKeeps == IInv /\ StartRun => IInv'
<1> SUFFICES ASSUME IInv, StartRun PROVE IInv'
  OBVIOUS
<1> DEFINE n == RunLength
           m == Len(batch)
           start == folderStart[batch[1]]
<1>1. /\ phase = "archive" /\ wanted = <<>> /\ batch # <<>>
      /\ wanted' = SubSeq(batch, 1, n) /\ batch' = SubSeq(batch, n + 1, m)
      /\ file' = IF start = NoFolder THEN batch[1] ELSE start
      /\ UNCHANGED <<folderStart, selection, toStreams, items, itemIndex, first, last,
                     partsCount, partNumber, extracted, served, phase, returned>>
  BY DEF StartRun, selected, history
<1>2. /\ m \in Nat /\ m >= 1 /\ batch \in Seq(Items) /\ Len(extracted) \in Nat /\ Len(wanted) = 0
      /\ DOMAIN batch = 1..m
  BY <1>1, Values
<1>3. n \in 1..m /\ n \in Nat /\ InOneRun(n)
  BY <1>1, <1>2, RunTaken
<1> HIDE DEF n, m
<1>4. /\ wanted' \in Seq(Items) /\ Len(wanted') = n
      /\ \A k \in 1..n : wanted'[k] = batch[k]
  <2> DEFINE q == SubSeq(batch, 0 + 1, n)
  <2>1. q \in Seq(Items) /\ Len(q) = n - 0 /\ \A k \in 1..(n - 0) : q[k] = batch[0 + k]
    BY <1>2, <1>3, Piece DEF m
  <2>2. wanted' = q
    <3>1. 0 + 1 = 1
      OBVIOUS
    <3> QED
      BY <1>1, <3>1, Zenon
  <2> HIDE DEF q
  <2> QED
    BY <1>3, <2>1, <2>2
<1>5. /\ batch' \in Seq(Items) /\ Len(batch') = m - n
      /\ \A k \in 1..(m - n) : batch'[k] = batch[n + k]
  <2> DEFINE q == SubSeq(batch, n + 1, m)
  <2>1. q \in Seq(Items) /\ Len(q) = m - n /\ \A k \in 1..(m - n) : q[k] = batch[n + k]
    <3>1. n <= m /\ m <= Len(batch)
      BY <1>2, <1>3 DEF m
    <3> QED
      BY <1>2, <1>3, <3>1, Piece
  <2>2. batch' = q
    BY <1>1, Zenon
  <2> HIDE DEF q
  <2> QED
    BY <2>1, <2>2, Zenon
<1>6. DOMAIN wanted' = 1..n /\ DOMAIN batch' = 1..(m - n)
  BY <1>4, <1>5
<1>7. \A k \in 1..m : /\ first <= batch[k] /\ batch[k] <= last
                      /\ batch[k] = items[Len(extracted) + k]
  <2>1. \A k \in 1..m : Len(extracted) + Len(wanted) + k = Len(extracted) + k
    BY <1>2
  <2> QED
    BY <1>2, <2>1 DEF IInv, Limits, Within, Row
<1>8. batch[1] \in Items /\ file' \in Items /\ file' <= batch[1]
  <2>1. batch[1] \in Items /\ batch[1] \in Nat
    BY <1>2, Values
  <2>2. start # NoFolder => start \in Items /\ start <= batch[1]
    BY <2>1, FolderBefore
  <2> HIDE DEF start
  <2> QED
    BY <1>1, <2>1, <2>2
<1>9. TypeOK'
  <2>1. file' \in 0..ItemsCount
    BY <1>8, ExtractBatchesAssumption DEF Items
  <2> QED
    BY <1>1, <1>4, <1>5, <2>1 DEF IInv, TypeOK
<1>10. Begun' /\ Phases' /\ Parts'
  <2>1. items = InOrder /\ partsCount = PartsFor(Len(items)) /\ returned = "no"
    BY <1>1 DEF IInv, Begun, Phases, TypeOK
  <2>2. InOrder' = InOrder
    BY <1>1 DEF InOrder
  <2> QED
    BY <1>1, <2>1, <2>2 DEF IInv, Begun, Phases, Parts
<1>11. Row'
  <2>1. itemIndex = Len(extracted) + n + (m - n)
    BY <1>2, <1>3 DEF IInv, Row, m
  <2>2. \A k \in 1..n : wanted'[k] = items[Len(extracted) + k]
    BY <1>2, <1>3, <1>4, <1>7
  <2>3. ASSUME NEW k \in 1..(m - n) PROVE batch'[k] = items[Len(extracted) + n + k]
    <3>1. n + k \in 1..m /\ Len(extracted) + (n + k) = Len(extracted) + n + k
      BY <1>2, <1>3
    <3> QED
      BY <1>5, <1>7, <3>1
  <2>4. \A k \in DOMAIN extracted : extracted[k] = items[k]
    BY DEF IInv, Row
  <2> QED
    BY <1>1, <1>4, <1>5, <1>6, <2>1, <2>2, <2>3, <2>4 DEF Row
<1>12. Limits'
  <2>1. \A k \in 1..(m - n) : n + k \in 1..m
    BY <1>2, <1>3
  <2>2. \A k \in 1..n : k \in 1..m
    BY <1>2, <1>3
  <2> QED
    BY <1>1, <1>4, <1>5, <1>6, <1>7, <2>1, <2>2 DEF Limits, Within
<1>13. Run'
  <2>1. ASSUME NEW k \in 2..n PROVE wanted'[k - 1] < wanted'[k]
    <3>1. k \in 1..n /\ k - 1 \in 1..n
      BY <1>3
    <3>2. batch[k - 1] < batch[k]
      BY <1>3 DEF InOneRun
    <3> QED
      BY <1>4, <3>1, <3>2
  <2>2. wanted'[1] = batch[1]
    BY <1>3, <1>4
  <2> QED
    BY <1>4, <1>8, <2>1, <2>2 DEF Run
<1>14. Streams'
  BY <1>1 DEF IInv, Streams
<1> QED
  BY <1>9, <1>10, <1>11, <1>12, <1>13, <1>14 DEF IInv

\* The archive comes to the item it wants, and gets a stream for it: the item is in
\* the batch.
LEMMA WantedKeeps ==
  ASSUME IInv, Item, Head(wanted) = file
  PROVE  IInv'
<1> DEFINE n == Len(wanted)
           x == Len(extracted)
<1>1. /\ wanted \in Seq(Items) /\ n \in Nat /\ n >= 1 /\ wanted # <<>> /\ Head(wanted) = wanted[1]
      /\ extracted \in Seq(Items) /\ x \in Nat /\ batch \in Seq(Items) /\ Len(batch) \in Nat
      /\ DOMAIN wanted = 1..n /\ DOMAIN extracted = 1..x /\ Items \subseteq Nat
  BY Values DEF Item
<1>2. file = wanted[1] /\ file \in Items /\ 1 \in 1..n /\ \A k \in 1..n : wanted[k] \in Nat
  <2>1. \A k \in 1..n : wanted[k] \in Items
    BY <1>1
  <2> HIDE DEF n
  <2>2. 1 \in 1..n
    BY <1>1
  <2> QED
    BY <1>1, <2>1, <2>2
<1>3. InBatch(file)
  BY <1>1, <1>2 DEF IInv, Limits, Within, InBatch
<1>4. /\ phase = "archive" /\ extracted' = Append(extracted, file) /\ Serve(file)
      /\ wanted' = Tail(wanted) /\ file' = file + 1
      /\ UNCHANGED <<folderStart, selection, toStreams, items, itemIndex, first, last,
                     partsCount, partNumber, batch, phase, returned>>
  BY <1>3 DEF Item, IsWanted, selected
<1>5. /\ wanted' \in Seq(Items) /\ Len(wanted') = n - 1 /\ DOMAIN wanted' = 1..(n - 1)
      /\ \A k \in 1..(n - 1) : wanted'[k] = wanted[k + 1]
  BY <1>1, <1>4
<1>6. /\ extracted' \in Seq(Items) /\ Len(extracted') = x + 1 /\ DOMAIN extracted' = 1..(x + 1)
      /\ extracted'[x + 1] = file /\ \A k \in 1..x : extracted'[k] = extracted[k]
  BY <1>1, <1>2, <1>4
<1>7. /\ \A k \in 1..x : extracted[k] = items[k]
      /\ \A k \in 1..n : wanted[k] = items[x + k]
      /\ \A k \in DOMAIN batch : batch[k] = items[x + n + k]
      /\ itemIndex = x + n + Len(batch)
  BY <1>1 DEF IInv, Row
<1>8. served' \subseteq DOMAIN selection /\ served \subseteq served'
      /\ (toStreams => \E s \in served' : selection[s] = file)
  BY <1>4 DEF Serve, IInv, TypeOK
<1> HIDE DEF n, x
<1>9. TypeOK'
  <2>1. file' \in 0..ItemsCount
    BY <1>2, <1>4, ExtractBatchesAssumption DEF Items
  <2> QED
    BY <1>4, <1>5, <1>6, <1>8, <2>1 DEF IInv, TypeOK
<1>10. Begun' /\ Phases' /\ Parts'
  <2>1. items = InOrder /\ partsCount = PartsFor(Len(items)) /\ returned = "no"
    BY <1>4 DEF IInv, Begun, Phases, TypeOK
  <2>2. InOrder' = InOrder
    BY <1>4 DEF InOrder
  <2> QED
    BY <1>4, <2>1, <2>2 DEF IInv, Begun, Phases, Parts
<1>11. Row'
  <2>1. itemIndex' = Len(extracted') + Len(wanted') + Len(batch')
    <3>1. x + n + Len(batch) = (x + 1) + (n - 1) + Len(batch)
      BY <1>1
    <3> QED
      BY <1>4, <1>5, <1>6, <1>7, <3>1, Zenon
  <2>2. ASSUME NEW k \in 1..(x + 1) PROVE extracted'[k] = items[k]
    <3>1. CASE k = x + 1
      BY <1>1, <1>2, <1>6, <1>7, <3>1
    <3>2. CASE k # x + 1
      <4>1. k \in 1..x
        BY <1>1, <3>2
      <4> QED
        BY <1>6, <1>7, <4>1
    <3> QED
      BY <3>1, <3>2
  <2>3. ASSUME NEW k \in 1..(n - 1) PROVE wanted'[k] = items[(x + 1) + k]
    <3>1. k + 1 \in 1..n /\ x + (k + 1) = (x + 1) + k
      BY <1>1
    <3> QED
      BY <1>5, <1>7, <3>1
  <2>4. (x + 1) + (n - 1) = x + n
    BY <1>1
  <2> QED
    BY <1>4, <1>5, <1>6, <1>7, <2>1, <2>2, <2>3, <2>4 DEF Row
<1>12. Limits'
  <2>1. \A k \in 1..(n - 1) : k + 1 \in 1..n
    BY <1>1
  <2>2. \A k \in 1..n : first <= wanted[k] /\ wanted[k] <= last
    BY <1>1 DEF IInv, Limits, Within
  <2> QED
    BY <1>4, <1>5, <2>1, <2>2 DEF IInv, Limits, Within
<1>13. Run'
  <2>1. \A k \in 2..n : wanted[k - 1] < wanted[k]
    BY <1>1 DEF IInv, Run, n
  <2>2. SUFFICES ASSUME wanted' # <<>>
                 PROVE  /\ file' <= wanted'[1]
                        /\ \A k \in 2..(n - 1) : wanted'[k - 1] < wanted'[k]
    BY <1>5 DEF Run
  <2>3. n >= 2
    BY <1>1, <1>5, <2>2
  <2>4. file' <= wanted'[1]
    <3>1. 2 \in 2..n /\ 2 \in 1..n /\ 1 \in 1..(n - 1)
      BY <1>1, <2>3
    <3>2. wanted[1] < wanted[2]
      <4>1. 2 - 1 = 1
        OBVIOUS
      <4> QED
        BY <2>1, <3>1, <4>1, Zenon
    <3>3. wanted'[1] = wanted[2]
      <4>1. 1 + 1 = 2
        OBVIOUS
      <4> QED
        BY <1>5, <3>1, <4>1, Zenon
    <3>4. wanted[2] \in Nat /\ wanted[1] \in Nat
      BY <1>2, <3>1
    <3>5. file' = wanted[1] + 1
      BY <1>2, <1>4, Zenon
    <3> QED
      BY ONLY <3>2, <3>3, <3>4, <3>5
  <2>5. ASSUME NEW k \in 2..(n - 1) PROVE wanted'[k - 1] < wanted'[k]
    <3>1. k \in 1..(n - 1) /\ k - 1 \in 1..(n - 1) /\ (k - 1) + 1 = k /\ (k + 1) - 1 = k
          /\ k + 1 \in 2..n
      BY <1>1
    <3> QED
      BY <1>5, <2>1, <3>1
  <2> QED
    BY <2>4, <2>5
<1>14. Streams'
  <2>1. SUFFICES ASSUME toStreams, NEW k \in 1..(x + 1)
                 PROVE  \E s \in served' : selection[s] = extracted'[k]
    BY <1>4, <1>6 DEF Streams
  <2>2. CASE k = x + 1
    BY <1>6, <1>8, <2>1, <2>2
  <2>3. CASE k # x + 1
    <3>1. k \in 1..x /\ extracted'[k] = extracted[k]
      BY <1>1, <1>6, <2>3
    <3> QED
      BY <1>1, <1>8, <2>1, <3>1 DEF IInv, Streams
  <2> QED
    BY <2>2, <2>3
<1> QED
  BY <1>9, <1>10, <1>11, <1>12, <1>13, <1>14 DEF IInv

\* The archive goes past an item.
LEMMA ItemKeeps == IInv /\ Item => IInv'
<1> SUFFICES ASSUME IInv, Item, Head(wanted) # file PROVE IInv'
  BY WantedKeeps
<1>1. /\ wanted \in Seq(Items) /\ wanted # <<>> /\ Head(wanted) = wanted[1] /\ wanted[1] \in Items
      /\ Items \subseteq Nat /\ file \in Nat
  BY Values DEF Item
<1>2. /\ phase = "archive" /\ wanted' = wanted /\ file' = file + 1
      /\ UNCHANGED <<folderStart, selection, toStreams, items, itemIndex, first, last, served,
                     partsCount, partNumber, extracted, batch, phase, returned>>
  BY DEF Item, IsWanted, selected, history
<1>3. file <= wanted[1] /\ file # wanted[1]
  BY <1>1 DEF IInv, Run
<1>4. file + 1 <= wanted[1] /\ file + 1 \in 0..ItemsCount
  BY <1>1, <1>3, ExtractBatchesAssumption DEF Items
<1>5. TypeOK'
  BY <1>2, <1>4 DEF IInv, TypeOK
<1>6. InOrder' = InOrder
  BY <1>2 DEF InOrder
<1>7. Begun' /\ Phases' /\ Parts'
  <2>1. items = InOrder /\ partsCount = PartsFor(Len(items)) /\ returned = "no"
    BY <1>2 DEF IInv, Begun, Phases, TypeOK
  <2> QED
    BY <1>2, <1>6, <2>1 DEF IInv, Begun, Phases, Parts
<1>8. Row' /\ Limits' /\ Streams'
  BY <1>2 DEF IInv, Row, Limits, Within, Streams
<1>9. Run'
  BY <1>2, <1>4 DEF IInv, Run
<1> QED
  BY <1>5, <1>7, <1>8, <1>9 DEF IInv

\* The archive is through with the batch, or gives up.
LEMMA EndKeeps == IInv /\ (EndBatch \/ Fail) => IInv'
<1> SUFFICES ASSUME IInv, EndBatch \/ Fail PROVE IInv'
  OBVIOUS
<1>1. /\ phase = "archive"
      /\ UNCHANGED <<folderStart, selection, toStreams, items, itemIndex, first, last, partsCount,
                     partNumber, batch, wanted, file, extracted, served>>
  BY DEF EndBatch, Fail, selected, archive, history
<1>2. /\ items = InOrder /\ partsCount = PartsFor(Len(items)) /\ returned = "no"
      /\ itemIndex \in Nat /\ itemIndex <= Len(items) /\ Len(items) \in Nat
      /\ BatchSize \in Nat /\ partNumber \in Nat
  BY <1>1, Values DEF IInv, Begun, Phases, TypeOK
<1>3. \/ /\ wanted = <<>> /\ batch = <<>>
         /\ \/ itemIndex >= Len(items) /\ phase' = "done" /\ returned' = "ok"
            \/ ~(itemIndex >= Len(items)) /\ phase' = "batch" /\ returned' = returned
      \/ phase' = "done" /\ returned' \in {"thrown", "aborted"}
  BY DEF EndBatch, Fail, Return, IsLast
<1>4. TypeOK'
  BY <1>1, <1>3 DEF IInv, TypeOK
<1>5. InOrder' = InOrder
  BY <1>1 DEF InOrder
<1>6. Begun'
  BY <1>1, <1>2, <1>3, <1>5 DEF Begun
<1>7. Row' /\ Limits' /\ Run' /\ Streams'
  BY <1>1 DEF IInv, Row, Limits, Within, Run, Streams
<1>8. Phases'
  BY <1>1, <1>2, <1>3 DEF IInv, Phases
<1>9. Parts'
  <2>1. partNumber * BatchSize \in Nat
    BY <1>2
  <2>2. /\ partNumber > 1 => (partNumber - 1) * BatchSize < Len(items)
        /\ partNumber > 0
        /\ itemIndex = IF partNumber * BatchSize < Len(items)
                       THEN partNumber * BatchSize ELSE Len(items)
    BY <1>1 DEF IInv, Parts
  <2>3. /\ itemIndex >= Len(items) => Len(items) <= partNumber * BatchSize
        /\ ~(itemIndex >= Len(items)) =>
              itemIndex = partNumber * BatchSize /\ itemIndex < Len(items)
    BY <1>2, <2>1, <2>2
  <2> QED
    BY <1>1, <1>2, <1>3, <2>2, <2>3 DEF Parts
<1> QED
  BY <1>4, <1>6, <1>7, <1>8, <1>9 DEF IInv

\* The invariant of the module.
LEMMA Invariance == Spec => []IInv
<1>1. IInv /\ Next => IInv'
  BY BeginKeeps, StartBatchKeeps, StartRunKeeps, ItemKeeps, EndKeeps DEF Next, GoOn
<1>2. IInv /\ UNCHANGED vars => IInv'
  <2> SUFFICES ASSUME IInv, UNCHANGED vars PROVE IInv'
    OBVIOUS
  <2>1. UNCHANGED <<folderStart, selection, toStreams, items, itemIndex, first, last, partsCount,
                    partNumber, batch, wanted, file, extracted, served, phase, returned>>
    BY DEF vars, selected, archive, history
  <2>2. InOrder' = InOrder
    BY <2>1 DEF InOrder
  <2>3. TypeOK' /\ Begun'
    BY <2>1, <2>2 DEF IInv, TypeOK, Begun, Untouched
  <2>4. Row' /\ Limits' /\ Run' /\ Phases' /\ Parts' /\ Streams'
    BY <2>1 DEF IInv, Row, Limits, Within, Run, Phases, Parts, Streams
  <2> QED
    BY <2>3, <2>4 DEF IInv
<1> QED
  BY <1>1, <1>2, InitInv, PTL DEF Spec

----------------------------------------------------------------------------
\* Every variable stays in its type: no index of an item, of a batch or of a folder
\* leaves the archive.
THEOREM TypeCorrect == Spec => []TypeOK
<1>1. IInv => TypeOK
  BY DEF IInv
<1> QED
  BY <1>1, Invariance, PTL

\* What process() extracts is at any time the beginning of what the caller selected, in
\* ascending order: however many items there are, however large a batch is and however
\* the items are laid out in folders, none is extracted that was not selected, none
\* twice, and none is passed over.
THEOREM ExtractsInOrderHolds == Spec => []ExtractsInOrder
<1>1. IInv => ExtractsInOrder
  <2> SUFFICES ASSUME IInv PROVE IsPrefix(extracted, InOrder)
    BY DEF ExtractsInOrder
  <2> DEFINE x == Len(extracted)
             order == InOrder
  <2>1. order \in Seq(Items) /\ Len(order) \in Nat
    BY Ordered
  <2>2. x \in Nat /\ extracted \in Seq(Items) /\ DOMAIN extracted = 1..x
    BY Values
  <2>3. x <= Len(order) /\ \A k \in 1..x : extracted[k] = order[k]
    <3>1. CASE Untouched
      BY <2>1, <3>1 DEF Untouched
    <3>2. CASE ~Untouched
      <4>1. items = order
        BY <3>2 DEF IInv, Begun
      <4>2. x <= Len(items)
        <5>1. itemIndex = x + Len(wanted) + Len(batch) /\ itemIndex <= Len(items)
              /\ Len(wanted) \in Nat /\ Len(batch) \in Nat /\ Len(items) \in Nat
          BY Values DEF IInv, Row
        <5> QED
          BY ONLY <2>2, <5>1
      <4>3. \A k \in 1..x : extracted[k] = items[k]
        BY <2>2 DEF IInv, Row
      <4> QED
        BY <4>1, <4>2, <4>3
    <3> QED
      BY <3>1, <3>2
  <2> HIDE DEF x, order
  <2> DEFINE p == SubSeq(extracted, 0 + 1, x)
             q == SubSeq(order, 0 + 1, x)
  <2>4. /\ p \in Seq(Items) /\ Len(p) = x - 0 /\ \A k \in 1..(x - 0) : p[k] = extracted[0 + k]
        /\ q \in Seq(Items) /\ Len(q) = x - 0 /\ \A k \in 1..(x - 0) : q[k] = order[0 + k]
    <3>1. x <= Len(extracted)
      BY <2>2 DEF x
    <3> QED
      BY <2>1, <2>2, <2>3, <3>1, Piece
  <2> HIDE DEF p, q
  <2>5. p = q
    BY <2>2, <2>3, <2>4
  <2>6. SubSeq(extracted, 1, x) = SubSeq(order, 1, x)
    <3>1. 0 + 1 = 1
      OBVIOUS
    <3> QED
      BY <2>5, <3>1, Zenon DEF p, q
  <2> QED
    BY <2>3, <2>6 DEF IsPrefix, x, order
<1> QED
  BY <1>1, Invariance, PTL

\* An operation that reports success has extracted every item it was asked for: none
\* was taken for one of another batch and left out without an error.
THEOREM ExtractsAllHolds == Spec => []ExtractsAll
<1>1. IInv => ExtractsAll
  <2> SUFFICES ASSUME IInv, returned = "ok" PROVE Len(extracted) = Len(selection)
    BY DEF ExtractsAll
  <2>1. items = InOrder /\ wanted = <<>> /\ batch = <<>> /\ itemIndex = Len(items)
    BY DEF IInv, Begun, Untouched, Phases
  <2>2. Len(items) = Len(selection)
    BY <2>1, Ordered
  <2>3. itemIndex = Len(extracted) + Len(wanted) + Len(batch)
    BY DEF IInv, Row
  <2>4. Len(wanted) = 0 /\ Len(batch) = 0 /\ Len(extracted) \in Nat
    BY <2>1, Values
  <2> QED
    BY <2>1, <2>2, <2>3, <2>4
<1> QED
  BY <1>1, Invariance, PTL

\* The loop of process() begins no more parts than process() announced before it, and
\* all of them if it succeeds, at 0 items and at every multiple of a batch too: the
\* progress neither exceeds 1 nor ends before it.
THEOREM PartsAsAnnouncedHolds == Spec => []PartsAsAnnounced
<1>1. IInv => PartsAsAnnounced
  <2> SUFFICES ASSUME IInv PROVE PartsAsAnnounced
    OBVIOUS
  <2> DEFINE n == Len(items)
             c == partsCount
             s == partNumber
  <2>1. n \in Nat /\ s \in Nat /\ BatchSize \in Nat /\ BatchSize >= 1
    BY Values
  <2>2. SUFFICES ASSUME s > 0 PROVE s <= c /\ (returned = "ok" => s = c)
    BY <2>1 DEF PartsAsAnnounced, IInv, Parts
  <2>3. c = PartsFor(n)
    BY <2>2 DEF IInv, Begun, Untouched
  <2>4. c \in Nat \ {0} /\ n <= c * BatchSize /\ (c > 1 => (c - 1) * BatchSize < n)
    <3> HIDE DEF n, c
    <3> QED
      BY <2>1, <2>3, PartsNeeded
  <2>5. /\ s > 1 => (s - 1) * BatchSize < n
        /\ returned = "ok" => n <= s * BatchSize
    BY DEF IInv, Parts
  <2> HIDE DEF n, c, s
  <2>6. s <= c
    <3>1. CASE s > 1
      <4>1. (s - 1) * BatchSize < c * BatchSize
        BY ONLY <2>1, <2>4, <2>5, <3>1
      <4>2. s - 1 < c
        BY <2>1, <2>4, <3>1, <4>1, FewerParts
      <4> QED
        BY <2>1, <2>4, <4>2
    <3> QED
      BY <2>1, <2>2, <2>4, <3>1
  <2>7. ASSUME returned = "ok" PROVE c <= s
    <3>1. CASE c > 1
      <4>1. (c - 1) * BatchSize < s * BatchSize
        BY ONLY <2>1, <2>4, <2>5, <2>7, <3>1
      <4>2. c - 1 < s
        BY <2>1, <2>4, <3>1, <4>1, FewerParts
      <4> QED
        BY <2>1, <2>4, <4>2
    <3> QED
      BY <2>1, <2>2, <2>4, <3>1
  <2> QED
    BY <2>1, <2>4, <2>6, <2>7
<1> QED
  BY <1>1, Invariance, PTL

\* An operation that reports success has written to every stream the caller passed with
\* an item, but for the other streams of an item that was passed more than once.
THEOREM StreamsServedHolds == Spec => []StreamsServed
<1>1. IInv => StreamsServed
  <2> SUFFICES ASSUME IInv, returned = "ok", toStreams, NEW s \in DOMAIN selection
               PROVE  s \in served
                      \/ \E t \in DOMAIN selection \ {s} : selection[t] = selection[s]
    BY DEF StreamsServed
  <2>1. items = InOrder /\ wanted = <<>> /\ batch = <<>> /\ itemIndex = Len(items)
    BY DEF IInv, Begun, Untouched, Phases
  <2>2. Len(items) = Len(selection) /\ \E k \in DOMAIN selection : items[k] = selection[s]
    BY <2>1, Ordered
  <2>3. PICK k \in DOMAIN selection : items[k] = selection[s]
    BY <2>2
  <2>4. k \in DOMAIN extracted
    <3>1. Len(wanted) = 0 /\ Len(batch) = 0 /\ Len(extracted) \in Nat
          /\ DOMAIN extracted = 1..Len(extracted)
      BY <2>1, Values
    <3>2. Len(extracted) = Len(selection)
      BY <2>1, <2>2, <3>1 DEF IInv, Row
    <3>3. DOMAIN selection = 1..Len(selection)
      BY Ordered
    <3> QED
      BY <3>1, <3>2, <3>3
  <2>5. extracted[k] = selection[s]
    BY <2>3, <2>4 DEF IInv, Row
  <2>6. PICK t \in served : selection[t] = selection[s]
    BY <2>4, <2>5 DEF IInv, Streams
  <2>7. t \in DOMAIN selection
    BY DEF IInv, TypeOK
  <2> QED
    BY <2>6, <2>7
<1> QED
  BY <1>1, Invariance, PTL
=============================================================================
