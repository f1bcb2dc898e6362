-------------------------- MODULE OutMultiStreamProofs --------------------------
(***************************************************************************)
(* A multi-volume out-stream, for any bytes, any size of a part and any    *)
(* number of parts: its parts fit its size, hold what was written, and,    *)
(* joined, are the flat stream the archive writes.                         *)
(***************************************************************************)
EXTENDS OutMultiStream, SequenceTheorems, WellFoundedInduction, TLAPS

\* A Write() has made room for all it is going to store.
Room == offset + Len(input) <= size

Fitting(part) == part \in Part /\ Len(part.data) <= PartSize

Good(ps) == ps \in Seq(Part) /\ \A i \in DOMAIN ps : Fitting(ps[i])

\* k parts are as many as n bytes need.
Enough(k, n) == k <= MaxParts /\ n <= k * PartSize /\ k * PartSize < n + PartSize

Scalars ==
    /\ kind \in {"file", "mem"}
    /\ size \in 0..MaxSize
    /\ offset \in 0..size
    /\ input \in Seq(Byte)

Flags == opened \in BOOLEAN /\ failed \in BOOLEAN /\ broken \in BOOLEAN

Core == Scalars /\ Good(parts) /\ Enough(Len(parts), size) /\ Room

\* No Write() is at work in a closed stream.
Quiet == ~opened => input = <<>>

IInv == Core /\ Flags /\ Quiet

\* How many of the first w bytes are in the part that begins behind start bytes.
FillAt(start, w) ==
    IF start + PartSize <= w THEN PartSize ELSE IF w <= start THEN 0 ELSE w - start

Fill(k, w) == FillAt(k * PartSize, w)

\* The parts hold the first w bytes, each as many as fit before the next has any.
Filled(ps, w) == \A k \in 0..(Len(ps) - 1) : Len(ps[k + 1].data) = Fill(k, w)

\* The bytes stored so far, w of them, fill the parts; a Write() at work goes on to
\* the size it made room for.
Upto(w) ==
    /\ Filled(parts, w)
    /\ offset <= w /\ w <= size
    /\ w = size \/ (input # <<>> /\ offset + Len(input) = size)

Whole == ~broken => \E w \in Nat : Upto(w)

\* The file of a part that is not open yet is empty, the truncation loses nothing.
Fresh ==
    kind = "file" /\ opened /\ ~broken =>
        \A i \in DOMAIN parts : ~parts[i].open => parts[i].data = <<>>

AllClosed == ~opened => \A i \in DOMAIN parts : ~parts[i].open

Contents == IInv /\ Whole /\ Fresh /\ AllClosed

----------------------------------------------------------------------------
(* Sequences.  Counting up is done with a set of numbers, not a predicate. *)

\* A set of natural numbers has a least one.
LEMMA LeastNumber ==
  ASSUME NEW T, T \subseteq Nat, T # {}
  PROVE  \E n \in T : \A m \in T : n <= m
<1> DEFINE R == OpToRel(<, Nat)
<1>1. IsWellFoundedOn(R, Nat)
  BY NatLessThanWellFounded
<1>2. \A m, n \in Nat : m < n => <<m, n>> \in R
  BY DEF OpToRel
<1> HIDE DEF R
<1>3. PICK n \in T : \A m \in T : ~ (<<m, n>> \in R)
  BY <1>1, WFMin
<1>4. ASSUME NEW m \in T PROVE n <= m
  <2>1. m \in Nat /\ n \in Nat /\ ~(m < n)
    BY <1>2, <1>3
  <2> QED
    BY <2>1
<1> QED
  BY <1>4

\* A set with 0 and the successor of each of its numbers has all of them.
LEMMA Counting ==
  ASSUME NEW S, 0 \in S, \A n \in Nat : n \in S => n + 1 \in S
  PROVE  Nat \subseteq S
<1> SUFFICES ASSUME Nat \ S # {} PROVE FALSE
  OBVIOUS
<1>1. PICK n \in Nat \ S : \A m \in Nat \ S : n <= m
  BY LeastNumber
<1>2. n # 0 /\ n - 1 \in Nat /\ n - 1 \in S
  BY <1>1
<1>3. (n - 1) + 1 \in S
  BY <1>2
<1> QED
  BY <1>1, <1>3

\* The recursion of FlattenSeq, and what satisfies it up to n.
Unfold(seqs, f, i) == IF i = 1 THEN seqs[i] ELSE f[i - 1] \o seqs[i]

Unfolds(seqs, S, n) ==
    \E f \in [1..n -> Seq(S)] : \A i \in 1..n : f[i] = Unfold(seqs, f, i)

\* One sequence more.
LEMMA UnfoldsOnce ==
  ASSUME NEW S, NEW seqs \in Seq(Seq(S)), NEW n \in Nat, n + 1 <= Len(seqs), Unfolds(seqs, S, n)
  PROVE  Unfolds(seqs, S, n + 1)
<1>1. PICK f \in [1..n -> Seq(S)] : \A i \in 1..n : f[i] = Unfold(seqs, f, i)
  BY DEF Unfolds
<1> DEFINE new == Unfold(seqs, f, n + 1)
           g == [i \in 1..(n + 1) |-> IF i <= n THEN f[i] ELSE new]
<1>2. new \in Seq(S)
  <2>1. seqs[n + 1] \in Seq(S)
    OBVIOUS
  <2>2. CASE n = 0
    BY <2>1, <2>2 DEF Unfold
  <2>3. CASE n # 0
    <3>1. f[n] \in Seq(S) /\ n + 1 # 1 /\ (n + 1) - 1 = n
      BY <2>3
    <3>2. f[n] \o seqs[n + 1] \in Seq(S)
      BY <2>1, <3>1, ConcatProperties
    <3> QED
      BY <3>1, <3>2 DEF Unfold
  <2> QED
    BY <2>2, <2>3
<1> HIDE DEF new
<1>3. g \in [1..(n + 1) -> Seq(S)]
  BY <1>2
<1>4. ASSUME NEW i \in 1..(n + 1) PROVE g[i] = Unfold(seqs, g, i)
  <2>1. CASE i = 1
    <3>1. g[1] = IF 1 <= n THEN f[1] ELSE new
      BY <2>1
    <3>2. (1 <= n => f[1] = seqs[1]) /\ (n = 0 => new = seqs[1]) /\ (1 <= n \/ n = 0)
      <4>1. \A h : Unfold(seqs, h, 1) = seqs[1]
        BY Zenon DEF Unfold
      <4>2. 1 <= n => f[1] = seqs[1]
        BY <1>1, <4>1
      <4>3. n = 0 => new = seqs[1]
        BY <4>1 DEF new
      <4> QED
        BY <4>2, <4>3
    <3> HIDE DEF g
    <3> QED
      BY <2>1, <3>1, <3>2 DEF Unfold
  <2>2. CASE i # 1
    <3>1. i - 1 \in 1..n /\ i - 1 \in 1..(n + 1) /\ i - 1 <= n
      BY <2>2
    <3>2. g[i - 1] = f[i - 1]
      BY <3>1
    <3>3. Unfold(seqs, g, i) = Unfold(seqs, f, i)
      <4> HIDE DEF g
      <4> QED
        BY <2>2, <3>2, Zenon DEF Unfold
    <3>4. CASE i <= n
      <4>1. i \in 1..n /\ g[i] = f[i]
        BY <3>4
      <4> HIDE DEF g
      <4> QED
        BY <1>1, <3>3, <4>1, Zenon
    <3>5. CASE ~(i <= n)
      <4>1. i = n + 1 /\ g[i] = new
        BY <3>5
      <4> HIDE DEF g
      <4> QED
        BY <3>3, <4>1, Zenon DEF new
    <3> QED
      BY <3>4, <3>5
  <2> QED
    BY <2>1, <2>2
<1> HIDE DEF g
<1> QED
  BY <1>3, <1>4, Zenon DEF Unfolds

\* There is a function that satisfies the recursion up to the last sequence.
LEMMA UnfoldsAll ==
  ASSUME NEW S, NEW seqs \in Seq(Seq(S))
  PROVE  Unfolds(seqs, S, Len(seqs))
<1> DEFINE Known == {n \in Nat : n <= Len(seqs) => Unfolds(seqs, S, n)}
<1>1. 0 \in Known
  <2>1. [i \in 1..0 |-> <<>>] \in [1..0 -> Seq(S)] /\ ~ \E i \in 1..0 : TRUE
    OBVIOUS
  <2>2. Unfolds(seqs, S, 0)
    BY <2>1, Zenon DEF Unfolds
  <2> QED
    BY <2>2
<1>2. ASSUME NEW n \in Nat, n \in Known PROVE n + 1 \in Known
  BY <1>2, UnfoldsOnce
<1>3. Nat \subseteq Known
  <2> HIDE DEF Known
  <2> QED
    BY <1>1, <1>2, Counting
<1> QED
  BY <1>3

\* The function of that recursion, up to the last sequence, ends with FlattenSeq.
LEMMA Unfolded ==
  ASSUME NEW S, NEW seqs \in Seq(Seq(S)), seqs # <<>>
  PROVE  \E f \in [1..Len(seqs) -> Seq(S)] :
            /\ f[Len(seqs)] = FlattenSeq(seqs)
            /\ \A i \in 1..Len(seqs) : f[i] = Unfold(seqs, f, i)
<1> DEFINE N == Len(seqs)
           flatten == CHOOSE g : g = [i \in 1..N |-> Unfold(seqs, g, i)]
           Same(f) == {n \in Nat : n \in 1..N => flatten[n] = f[n]}
<1>1. N \in Nat /\ N >= 1
  OBVIOUS
<1>2. FlattenSeq(seqs) = flatten[N]
  BY <1>1 DEF FlattenSeq, Unfold
<1>3. PICK f \in [1..N -> Seq(S)] : \A i \in 1..N : f[i] = Unfold(seqs, f, i)
  BY UnfoldsAll, Zenon DEF Unfolds
<1> HIDE DEF N
<1>4. f = [i \in 1..N |-> Unfold(seqs, f, i)]
  BY <1>3
<1>5. flatten = [i \in 1..N |-> Unfold(seqs, flatten, i)]
  BY <1>4, Zenon
<1> HIDE DEF flatten
<1>6. \A i \in 1..N : flatten[i] = Unfold(seqs, flatten, i)
  BY <1>5, Zenon
<1>7. 0 \in Same(f)
  OBVIOUS
<1>8. ASSUME NEW n \in Nat, n \in Same(f) PROVE n + 1 \in Same(f)
  <2>1. SUFFICES ASSUME n + 1 \in 1..N PROVE flatten[n + 1] = f[n + 1]
    OBVIOUS
  <2>2. flatten[n + 1] = Unfold(seqs, flatten, n + 1) /\ f[n + 1] = Unfold(seqs, f, n + 1)
    BY <1>3, <1>6, <2>1, Zenon
  <2>3. CASE n = 0
    BY <2>2, <2>3 DEF Unfold
  <2>4. CASE n # 0
    <3>1. n + 1 # 1 /\ (n + 1) - 1 = n /\ flatten[n] = f[n]
      BY <1>1, <1>8, <2>1, <2>4
    <3> QED
      BY <2>2, <3>1, Zenon DEF Unfold
  <2> QED
    BY <2>3, <2>4
<1>9. N \in Same(f)
  <2> HIDE DEF Same
  <2> QED
    BY <1>1, <1>7, <1>8, Counting
<1>10. flatten[N] = f[N]
  BY <1>1, <1>9
<1> QED
  BY <1>2, <1>3, <1>10, Zenon DEF N

\* Two sequences, one behind the other.
LEMMA Joining ==
  ASSUME NEW S, NEW a \in Seq(S), NEW b \in Seq(S), NEW c, c = a \o b
  PROVE  /\ Len(c) = Len(a) + Len(b)
         /\ \A q \in 1..Len(a) : c[q] = a[q]
         /\ \A r \in 1..Len(b) : c[Len(a) + r] = b[r]
OBVIOUS

\* Where the sequences of seqs end in s, and what s holds up to there.
Ends(seqs, s, ends) ==
    /\ ends \in [0..Len(seqs) -> Nat]
    /\ ends[0] = 0 /\ ends[Len(seqs)] = Len(s)
    /\ \A i \in 1..Len(seqs) :
          /\ ends[i] = ends[i - 1] + Len(seqs[i])
          /\ \A r \in 1..Len(seqs[i]) : s[ends[i - 1] + r] = seqs[i][r]

\* FlattenSeq() puts one sequence behind the other.
LEMMA Flattening ==
  ASSUME NEW S, NEW seqs \in Seq(Seq(S))
  PROVE  FlattenSeq(seqs) \in Seq(S) /\ \E ends : Ends(seqs, FlattenSeq(seqs), ends)
<1> DEFINE N == Len(seqs)
           All == FlattenSeq(seqs)
<1>1. CASE seqs = <<>>
  <2>1. FlattenSeq(seqs) = <<>> /\ N = 0
    BY <1>1 DEF FlattenSeq
  <2> DEFINE ends == [i \in 0..0 |-> 0]
  <2>2. ends \in [0..0 -> Nat] /\ ends[0] = 0 /\ Len(<<>>) = 0 /\ ~ \E i \in 1..0 : TRUE
    OBVIOUS
  <2> HIDE DEF ends
  <2>3. Ends(<<>>, <<>>, ends)
    BY <2>2, Zenon DEF Ends
  <2> QED
    BY <1>1, <2>1, <2>3, EmptySeq, Zenon
<1>2. CASE seqs # <<>>
  <2>1. PICK f \in [1..N -> Seq(S)] :
            /\ f[N] = All
            /\ \A i \in 1..N : f[i] = Unfold(seqs, f, i)
    BY <1>2, Unfolded, Zenon
  <2>2. N \in Nat /\ N >= 1 /\ \A i \in 1..N : seqs[i] \in Seq(S) /\ Len(seqs[i]) \in Nat
    BY <1>2
  <2> HIDE DEF N, All
  <2>3. \A i \in 1..N : f[i] \in Seq(S) /\ Len(f[i]) \in Nat
    OBVIOUS
  <2> DEFINE ends == [i \in 0..N |-> IF i = 0 THEN 0 ELSE Len(f[i])]
  <2>4. ends \in [0..N -> Nat] /\ ends[0] = 0 /\ ends[N] = Len(All) /\ All \in Seq(S)
    BY <2>1, <2>2, <2>3
  <2>5. ends[1] = Len(f[1]) /\ \A i \in 2..N : ends[i] = Len(f[i]) /\ ends[i - 1] = Len(f[i - 1])
    BY <2>2
  <2> HIDE DEF ends
  <2>6. ASSUME NEW i \in 1..N
        PROVE  /\ i \in 0..N /\ i - 1 \in 0..N
               /\ ends[i] \in Nat /\ ends[i - 1] \in Nat
               /\ ends[i] = ends[i - 1] + Len(seqs[i])
               /\ \A r \in 1..Len(seqs[i]) : f[i][ends[i - 1] + r] = seqs[i][r]
               /\ i > 1 => \A q \in 1..ends[i - 1] : f[i][q] = f[i - 1][q]
    <3>1. i \in 0..N /\ i - 1 \in 0..N
      BY <2>2
    <3>2. ends[i] \in Nat /\ ends[i - 1] \in Nat
      BY <2>4, <3>1
    <3>3. CASE i = 1
      <4>1. i - 1 = 0
        BY <3>3
      <4>2. f[i] = seqs[i] /\ ends[i] = Len(seqs[i]) /\ ends[i - 1] = 0
        BY <2>1, <2>4, <2>5, <3>3, <4>1 DEF Unfold
      <4> QED
        BY <2>2, <3>1, <3>2, <3>3, <4>2
    <3>4. CASE i # 1
      <4>1. i - 1 \in 1..N /\ i \in 2..N
        BY <2>2, <3>4
      <4>2. f[i] = f[i - 1] \o seqs[i]
        BY <2>1, <3>4 DEF Unfold
      <4>3. f[i - 1] \in Seq(S) /\ seqs[i] \in Seq(S)
        BY <2>2, <2>3, <4>1
      <4>4. ends[i] = Len(f[i]) /\ ends[i - 1] = Len(f[i - 1])
        BY <2>5, <4>1
      <4>5. /\ Len(f[i]) = Len(f[i - 1]) + Len(seqs[i])
            /\ \A q \in 1..Len(f[i - 1]) : f[i][q] = f[i - 1][q]
            /\ \A r \in 1..Len(seqs[i]) : f[i][Len(f[i - 1]) + r] = seqs[i][r]
        <5> DEFINE a == f[i - 1]
                   b == seqs[i]
                   c == f[i]
        <5>1. a \in Seq(S) /\ b \in Seq(S) /\ c = a \o b
          BY <4>2, <4>3
        <5> HIDE DEF a, b, c
        <5>2. /\ Len(c) = Len(a) + Len(b)
              /\ \A q \in 1..Len(a) : c[q] = a[q]
              /\ \A r \in 1..Len(b) : c[Len(a) + r] = b[r]
          BY <5>1, Joining
        <5> QED
          BY <5>2 DEF a, b, c
      <4> QED
        BY <3>1, <3>2, <4>4, <4>5
    <3> QED
      BY <3>3, <3>4
  <2> DEFINE Kept == {n \in Nat : n < N =>
                         \A q \in 1..ends[N - n] : All[q] = f[N - n][q]}
  <2>7. 0 \in Kept
    BY <2>1, <2>2
  <2>8. ASSUME NEW n \in Nat, n \in Kept PROVE n + 1 \in Kept
    <3>1. SUFFICES ASSUME n + 1 < N, NEW q \in 1..ends[N - (n + 1)]
                   PROVE  All[q] = f[N - (n + 1)][q]
      BY DEF Kept
    <3> DEFINE i == N - n
    <3>2. i \in 1..N /\ i > 1 /\ i - 1 = N - (n + 1) /\ n < N
      BY <2>2, <3>1
    <3> HIDE DEF Kept
    <3>3. \A p \in 1..ends[i] : All[p] = f[i][p]
      BY <2>8, <3>2 DEF Kept
    <3> HIDE DEF i
    <3>4. q \in 1..ends[i - 1] /\ q \in 1..ends[i]
      <4>1. ends[i] = ends[i - 1] + Len(seqs[i]) /\ Len(seqs[i]) \in Nat
            /\ ends[i] \in Nat /\ ends[i - 1] \in Nat
        BY <2>2, <2>6, <3>2
      <4>2. q \in 1..ends[i - 1]
        BY <3>1, <3>2
      <4> QED
        BY <4>1, <4>2
    <3>5. f[i][q] = f[i - 1][q]
      BY <2>6, <3>2, <3>4
    <3> QED
      BY <3>2, <3>3, <3>4, <3>5
  <2>9. Nat \subseteq Kept
    <3> HIDE DEF Kept
    <3> QED
      BY <2>7, <2>8, Counting
  <2>10. ASSUME NEW i \in 1..N, NEW r \in 1..Len(seqs[i])
         PROVE  All[ends[i - 1] + r] = seqs[i][r]
    <3>1. N - i \in Nat /\ N - i < N /\ N - (N - i) = i
      BY <2>2
    <3>2. \A q \in 1..ends[i] : All[q] = f[i][q]
      BY <2>9, <3>1
    <3> HIDE DEF Kept
    <3> DEFINE m == Len(seqs[i])
               e == ends[i]
               d == ends[i - 1]
    <3>3. d + r \in 1..e
      <4>1. e = d + m /\ d \in Nat /\ m \in Nat /\ r \in 1..m
        BY <2>2, <2>6
      <4> HIDE DEF d, e, m
      <4> QED
        BY <4>1
    <3>4. f[i][ends[i - 1] + r] = seqs[i][r]
      BY <2>6
    <3> QED
      BY <3>2, <3>3, <3>4
  <2> HIDE DEF Kept
  <2>11. Ends(seqs, All, ends)
    BY <2>4, <2>6, <2>10 DEF Ends, N
  <2> QED
    BY <2>4, <2>11, Zenon DEF All
<1> QED
  BY <1>1, <1>2

----------------------------------------------------------------------------
(* Arithmetic of the parts. *)

\* The division that finds the part of a position.
LEMMA Division ==
  ASSUME NEW n \in Nat
  PROVE  /\ n \div PartSize \in Nat
         /\ (n \div PartSize) * PartSize <= n
         /\ n < (n \div PartSize) * PartSize + PartSize
BY OutMultiStreamAssumption

\* Parts compare as their sizes do.
LEMMA Fewer ==
  ASSUME NEW a \in Nat, NEW b \in Nat, a * PartSize < b * PartSize
  PROVE  a < b
<1>1. SUFFICES ASSUME b <= a PROVE FALSE
  OBVIOUS
<1>2. PartSize \in Nat /\ PartSize > 0
  BY OutMultiStreamAssumption
<1>3. PICK d \in Nat : a = b + d
  BY <1>1
<1>4. a * PartSize = b * PartSize + d * PartSize
  BY <1>2, <1>3
<1>5. d * PartSize >= 0
  BY <1>2
<1> QED
  BY <1>2, <1>4, <1>5

\* SetSize() rounds up.
LEMMA Needed ==
  ASSUME NEW n \in Nat
  PROVE  /\ PartsFor(n) \in Nat
         /\ n <= PartsFor(n) * PartSize
         /\ PartsFor(n) * PartSize < n + PartSize
<1> DEFINE q == n \div PartSize
<1>1. q \in Nat /\ q * PartSize <= n /\ n < q * PartSize + PartSize
  BY Division
<1>2. (q + 1) * PartSize = q * PartSize + PartSize
  BY <1>1, OutMultiStreamAssumption
<1>3. PartsFor(n) = IF q * PartSize < n THEN q + 1 ELSE q
  BY DEF PartsFor
<1> HIDE DEF q
<1> QED
  BY <1>1, <1>2, <1>3, OutMultiStreamAssumption

\* No size needs more parts than a larger one.
LEMMA Cut ==
  ASSUME NEW n \in Nat, NEW k \in Nat, NEW m \in Nat, n <= m, m <= k * PartSize
  PROVE  PartsFor(n) <= k
<1>1. PartsFor(n) \in Nat /\ PartsFor(n) * PartSize < n + PartSize
  BY Needed
<1>2. (k + 1) * PartSize = k * PartSize + PartSize
  BY OutMultiStreamAssumption
<1>3. PartsFor(n) * PartSize < (k + 1) * PartSize
  BY <1>1, <1>2, OutMultiStreamAssumption
<1> QED
  BY <1>1, <1>3, Fewer

----------------------------------------------------------------------------
(* The parts. *)

\* A part without bytes.
LEMMA NewFits == Fitting(NewPart)
BY OutMultiStreamAssumption DEF Fitting, NewPart, Part

\* A list of parts that fit.
LEMMA Resizing ==
  ASSUME Good(parts), NEW n \in Nat
  PROVE  Good(Resized(n)) /\ Len(Resized(n)) = PartsFor(n)
<1> DEFINE k == PartsFor(n)
           at(i) == IF i <= Len(parts) THEN parts[i] ELSE NewPart
<1>1. k \in Nat
  BY Needed
<1>2. \A i \in 1..k : Fitting(at(i))
  BY <1>1, NewFits DEF Good
<1>3. Resized(n) = [i \in 1..k |-> at(i)]
  BY DEF Resized
<1> HIDE DEF k, at
<1>4. \A i \in 1..k : at(i) \in Part
  BY <1>2 DEF Fitting
<1>5. Resized(n) \in Seq(Part) /\ Len(Resized(n)) = k
  BY <1>1, <1>3, <1>4
<1>6. \A i \in DOMAIN Resized(n) : Fitting(Resized(n)[i])
  BY <1>2, <1>3, Zenon
<1> QED
  BY <1>5, <1>6 DEF Good, k

\* Bytes put into a part.
LEMMA Overlaid ==
  ASSUME NEW s \in Seq(Byte), NEW data \in Seq(Byte), NEW off \in Nat
  PROVE  /\ Overlay(s, off, data) \in Seq(Byte)
         /\ Len(Overlay(s, off, data)) =
               IF off + Len(data) > Len(s) THEN off + Len(data) ELSE Len(s)
<1> DEFINE end == off + Len(data)
           n == IF end > Len(s) THEN end ELSE Len(s)
           at(i) == IF i > off /\ i <= end THEN data[i - off]
                    ELSE IF i <= Len(s) THEN s[i] ELSE 0
<1>1. n \in Nat /\ end \in Nat
  OBVIOUS
<1>2. \A i \in 1..n : at(i) \in Byte
  BY <1>1, OutMultiStreamAssumption
<1>3. Overlay(s, off, data) = [i \in 1..n |-> at(i)]
  BY DEF Overlay
<1> HIDE DEF n, at, end
<1>4. Overlay(s, off, data) \in Seq(Byte) /\ Len(Overlay(s, off, data)) = n
  BY <1>1, <1>2, <1>3
<1> QED
  BY <1>4 DEF n, end

\* Where a Write() goes on: a part of the list, and bytes that fit into it.
LEMMA Going ==
  ASSUME IInv, input # <<>>
  PROVE  /\ Index \in Nat /\ Index < Len(parts)
         /\ PartOffset \in Nat
         /\ ChunkSize \in Nat /\ ChunkSize >= 1 /\ ChunkSize <= Len(input)
         /\ PartOffset + ChunkSize <= PartSize
<1>1. /\ offset \in Nat /\ size \in Nat /\ Len(input) \in Nat /\ Len(input) >= 1
      /\ offset < size
  BY OutMultiStreamAssumption DEF IInv, Core, Scalars, Room
<1>2. Index \in Nat /\ Index * PartSize <= offset /\ offset < Index * PartSize + PartSize
  BY <1>1, Division DEF Index
<1>3. Index < Len(parts)
  <2>1. Len(parts) \in Nat /\ size <= Len(parts) * PartSize
    BY DEF IInv, Core, Good, Enough
  <2>2. Index * PartSize < Len(parts) * PartSize
    BY <1>1, <1>2, <2>1, OutMultiStreamAssumption
  <2> QED
    BY <1>2, <2>1, <2>2, Fewer
<1>4. PartSize * Index = Index * PartSize
  BY <1>2, OutMultiStreamAssumption
<1>5. PartOffset \in Nat /\ PartOffset < PartSize
  BY <1>1, <1>2, <1>4, OutMultiStreamAssumption DEF PartOffset
<1>6. /\ ChunkSize \in Nat /\ ChunkSize >= 1 /\ ChunkSize <= Len(input)
      /\ PartOffset + ChunkSize <= PartSize
  BY <1>1, <1>5, OutMultiStreamAssumption DEF ChunkSize
<1> QED
  BY <1>2, <1>3, <1>5, <1>6

\* Bytes stored in a part, in one or two strokes: it fits as before.
LEMMA Stored ==
  ASSUME IInv, input # <<>>, NEW n \in 1..ChunkSize, NEW part, Fitting(part)
  PROVE  Fitting([data |-> Overlay(DataWhenOpened(part), PartOffset, SubSeq(input, 1, n)),
                  open |-> TRUE])
<1>1. /\ PartOffset \in Nat /\ ChunkSize \in Nat /\ ChunkSize <= Len(input)
      /\ PartOffset + ChunkSize <= PartSize
  BY Going
<1>2. input \in Seq(Byte)
  BY DEF IInv, Core, Scalars
<1>3. SubSeq(input, 1, n) \in Seq(Byte) /\ Len(SubSeq(input, 1, n)) = n
  <2>1. \A i \in 1..n : input[i] \in Byte
    BY <1>1, <1>2
  <2> QED
    BY <2>1, SubSeqProperties
<1>4. DataWhenOpened(part) \in Seq(Byte) /\ Len(DataWhenOpened(part)) <= PartSize
  <2>1. part.data \in Seq(Byte) /\ Len(part.data) <= PartSize
    BY DEF Fitting, Part
  <2>2. DataWhenOpened(part) = part.data \/ DataWhenOpened(part) = <<>>
    BY DEF DataWhenOpened
  <2>3. <<>> \in Seq(Byte) /\ Len(<<>>) = 0
    BY EmptySeq
  <2>4. CASE DataWhenOpened(part) = part.data
    BY <2>1, <2>4
  <2>5. CASE DataWhenOpened(part) = <<>>
    BY <2>3, <2>5, OutMultiStreamAssumption
  <2> QED
    BY <2>2, <2>4, <2>5
<1> DEFINE d == DataWhenOpened(part)
           b == SubSeq(input, 1, n)
           o == Overlay(d, PartOffset, b)
<1> HIDE DEF d, b, o
<1>5. /\ Overlay(d, PartOffset, b) \in Seq(Byte)
      /\ Len(Overlay(d, PartOffset, b)) =
            IF PartOffset + Len(b) > Len(d) THEN PartOffset + Len(b) ELSE Len(d)
  BY <1>1, <1>3, <1>4, Overlaid DEF d, b
<1>6. Len(b) = n /\ Len(d) \in Nat /\ Len(d) <= PartSize
  BY <1>3, <1>4 DEF b, d
<1>7. o \in Seq(Byte) /\ Len(o) <= PartSize
  BY <1>1, <1>5, <1>6, OutMultiStreamAssumption DEF o
<1>8. Fitting([data |-> o, open |-> TRUE])
  BY <1>7 DEF Fitting, Part
<1> QED
  BY <1>8 DEF o, d, b

\* A part that is opened, closed or emptied.
LEMMA Reopened ==
  ASSUME NEW part, Fitting(part)
  PROVE  /\ Fitting([data |-> DataWhenOpened(part), open |-> TRUE])
         /\ Fitting([part EXCEPT !.open = TRUE]) /\ Fitting(ClosePart(part))
<1>1. part.data \in Seq(Byte) /\ Len(part.data) <= PartSize
  BY DEF Fitting, Part
<1>2. ASSUME NEW x \in Seq(Byte), Len(x) <= PartSize
      PROVE  Fitting([data |-> x, open |-> TRUE])
  BY <1>2 DEF Fitting, Part
<1>3. <<>> \in Seq(Byte) /\ Len(<<>>) <= PartSize
  BY EmptySeq, OutMultiStreamAssumption
<1>4. DataWhenOpened(part) = part.data \/ DataWhenOpened(part) = <<>>
  BY DEF DataWhenOpened
<1>5. Fitting([data |-> DataWhenOpened(part), open |-> TRUE])
  <2>1. Fitting([data |-> part.data, open |-> TRUE])
    BY <1>1, <1>2
  <2>2. Fitting([data |-> <<>>, open |-> TRUE])
    BY <1>2, <1>3
  <2> QED
    BY <1>4, <2>1, <2>2, Zenon
<1>6. Fitting([part EXCEPT !.open = TRUE])
  BY DEF Fitting, Part
<1>7. Fitting(ClosePart(part))
  BY DEF Fitting, Part, ClosePart
<1> QED
  BY <1>5, <1>6, <1>7

\* One part is replaced by another that fits.
LEMMA Replaced ==
  ASSUME Good(parts), NEW i \in 1..Len(parts), NEW part, Fitting(part)
  PROVE  /\ Good([parts EXCEPT ![i] = part])
         /\ Len([parts EXCEPT ![i] = part]) = Len(parts)
BY DEF Good, Fitting

----------------------------------------------------------------------------
(* The steps. *)

\* A new stream.
LEMMA InitInv == Init => IInv
<1> SUFFICES ASSUME Init PROVE IInv
  OBVIOUS
<1>1. Flags
  BY Zenon DEF Init, Flags
<1>2. Scalars /\ Room
  BY OutMultiStreamAssumption, EmptySeq DEF Init, Scalars, Room
<1>3. Good(parts) /\ Len(parts) = 0
  BY EmptySeq DEF Init, Good
<1>4. Enough(Len(parts), size)
  BY <1>3, OutMultiStreamAssumption DEF Init, Enough
<1>5. Quiet
  BY DEF Init, Quiet
<1> QED
  BY <1>1, <1>2, <1>3, <1>4, <1>5 DEF IInv, Core

\* The flags stay flags.
LEMMA NextFlags == IInv /\ Next => Flags'
BY ZenonT(30), SMTT(30) DEF IInv, Flags, Next, Open, Close, Erase, WriteCall, WriteStep, WriteChunk,
   OpenPartFails, WriteFails, Seek, SetSize, Clear

\* An exception leaves nothing behind.
LEMMA Cleared ==
  ASSUME IInv, Clear
  PROVE  Core'
<1>1. Scalars' /\ Room'
  BY OutMultiStreamAssumption, EmptySeq DEF IInv, Core, Clear, OffsetAfterClear, Scalars,
     Room
<1>2. Good(parts') /\ Len(parts') = 0
  BY EmptySeq DEF Clear, Good
<1>3. Enough(Len(parts'), size')
  BY <1>2, OutMultiStreamAssumption DEF Clear, Enough
<1> QED
  BY <1>1, <1>2, <1>3 DEF Core

\* A Write() is only at work in a stream that is open.
LEMMA NextQuiet == IInv /\ Next => Quiet'
BY DEF IInv, Quiet, Next, Open, Close, Erase, WriteCall, WriteStep, WriteChunk, OpenPartFails,
   WriteFails, Seek, SetSize, Clear

\* Without a Write() at work there is room enough.
LEMMA AtRest ==
  ASSUME kind' \in {"file", "mem"}, size' \in 0..MaxSize, offset' \in 0..size', input' = <<>>
  PROVE  Scalars' /\ Room'
<1>1. Len(input') = 0 /\ input' \in Seq(Byte)
  BY EmptySeq
<1>2. size' \in Nat /\ offset' \in Nat /\ offset' <= size'
  BY OutMultiStreamAssumption
<1>3. \A o, n \in Nat : \A s : o <= n /\ Len(s) = 0 => o + Len(s) <= n
  OBVIOUS
<1>4. Room'
  BY <1>1, <1>2, <1>3, Zenon DEF Room
<1> QED
  BY <1>1, <1>4 DEF Scalars

\* Nothing but the flags and the position moves, which stays inside the stream.
LEMMA Idle ==
  ASSUME IInv, UNCHANGED <<kind, size, parts>>, input' = <<>>, offset' \in 0..size
  PROVE  Core'
BY AtRest DEF IInv, Core, Scalars

\* Parts are exchanged for others that fit, one for one.
LEMMA Exchanged ==
  ASSUME IInv, UNCHANGED <<kind, size>>, Good(parts'), Len(parts') = Len(parts), Scalars', Room'
  PROVE  Core'
BY DEF IInv, Core

\* Typed values.
LEMMA Values ==
  ASSUME IInv
  PROVE  /\ size \in Nat /\ offset \in Nat /\ offset <= size
         /\ input \in Seq(Byte) /\ Len(input) \in Nat
         /\ Good(parts) /\ Len(parts) \in Nat /\ DOMAIN parts = 1..Len(parts)
         /\ size <= Len(parts) * PartSize
BY OutMultiStreamAssumption DEF IInv, Core, Scalars, Good, Enough

\* What Write() is called with are bytes.
LEMMA InputsTyped ==
  ASSUME NEW data \in Inputs
  PROVE  data \in Seq(Byte) /\ Len(data) \in Nat
<1>1. PICK S \in {{0}, Byte} : data \in BoundedSeq(S, MaxWrite)
  BY DEF Inputs
<1>2. PICK n \in 0..MaxWrite : data \in [1..n -> S]
  BY <1>1 DEF BoundedSeq, SeqOf
<1> QED
  BY <1>1, <1>2, OutMultiStreamAssumption

\* A Write() that begins makes room for its bytes.
LEMMA WriteCallKeeps ==
  ASSUME IInv, NEW data \in Inputs, WriteCall(data)
  PROVE  Core'
<1>1. CASE Clear
  BY <1>1, Cleared
<1>2. CASE ~Clear
  <2> DEFINE end == offset + Len(data)
  <2>1. data \in Seq(Byte)
    BY InputsTyped
  <2>2. /\ end <= MaxSize
        /\ end > size => PartsFor(end) <= MaxParts
        /\ parts' = IF end > size THEN Resized(end) ELSE parts
        /\ size' = IF end > size THEN end ELSE size
        /\ input' = data
        /\ UNCHANGED <<kind, offset>>
    BY <1>2 DEF WriteCall
  <2>3. offset \in Nat /\ size \in Nat /\ Len(data) \in Nat /\ offset <= size
    BY <2>1, OutMultiStreamAssumption DEF IInv, Core, Scalars
  <2>4. Scalars' /\ Room'
    BY <2>1, <2>2, <2>3, OutMultiStreamAssumption DEF IInv, Core, Scalars, Room
  <2>5. CASE end > size
    <3>1. Good(Resized(end)) /\ Len(Resized(end)) = PartsFor(end)
      <4>1. end \in Nat /\ Good(parts)
        BY <2>3 DEF IInv, Core
      <4> HIDE DEF end
      <4> QED
        BY <4>1, Resizing
    <3>2. Enough(PartsFor(end), end)
      BY <2>2, <2>3, <2>5, Needed DEF Enough
    <3> QED
      BY <2>2, <2>4, <2>5, <3>1, <3>2 DEF Core
  <2>6. CASE ~(end > size)
    BY <2>2, <2>4, <2>6 DEF IInv, Core
  <2> QED
    BY <2>5, <2>6
<1> QED
  BY <1>1, <1>2

\* What a turn of the loop of Write() stores: the next bytes of its input.
LEMMA NextChunk ==
  ASSUME IInv, WriteChunk
  PROVE  /\ Chunk \in Seq(Byte) /\ Len(Chunk) = ChunkSize
         /\ RestOfInput \in Seq(Byte) /\ Len(RestOfInput) = Len(input) - ChunkSize
<1>1. ChunkSize \in Nat /\ ChunkSize >= 1 /\ ChunkSize <= Len(input)
  BY Going DEF WriteChunk
<1>2. input \in Seq(Byte) /\ Len(input) \in Nat
  BY Values
<1>3. Chunk \in Seq(Byte) /\ Len(Chunk) = ChunkSize
  <2>1. \A i \in 1..ChunkSize : input[i] \in Byte
    BY <1>1, <1>2
  <2> QED
    BY <1>1, <2>1, SubSeqProperties DEF Chunk
<1>4. RestOfInput \in Seq(Byte) /\ Len(RestOfInput) = Len(input) - ChunkSize
  <2>1. \A i \in (ChunkSize + 1)..Len(input) : input[i] \in Byte
    BY <1>1, <1>2
  <2>2. /\ SubSeq(input, ChunkSize + 1, Len(input)) \in Seq(Byte)
        /\ Len(SubSeq(input, ChunkSize + 1, Len(input))) =
              IF ChunkSize + 1 <= Len(input) THEN Len(input) - (ChunkSize + 1) + 1 ELSE 0
    BY <1>1, <1>2, <2>1, SubSeqProperties
  <2> QED
    BY <1>1, <1>2, <2>2 DEF RestOfInput
<1> QED
  BY <1>3, <1>4

\* A turn of the loop of Write() stores bytes where the position is.
LEMMA WriteChunkKeeps ==
  ASSUME IInv, WriteChunk
  PROVE  Core'
<1>1. /\ Index \in Nat /\ Index < Len(parts)
      /\ ChunkSize \in Nat /\ ChunkSize >= 1 /\ ChunkSize <= Len(input)
  BY Going DEF WriteChunk
<1>2. input \in Seq(Byte) /\ Len(input) \in Nat /\ Len(parts) \in Nat
  BY DEF IInv, Core, Scalars, Good
<1> DEFINE part == parts[Index + 1]
           new == [data |-> Overlay(DataWhenOpened(part), PartOffset, Chunk), open |-> TRUE]
<1>3. Index + 1 \in 1..Len(parts) /\ Fitting(part)
  BY <1>1, <1>2 DEF IInv, Core, Good
<1>4. Fitting(new)
  BY <1>1, <1>3, Stored DEF WriteChunk, Chunk
<1>5. parts' = [parts EXCEPT ![Index + 1] = new]
  BY DEF WriteChunk
<1>6. Good(parts') /\ Len(parts') = Len(parts)
  <2> HIDE DEF new, part
  <2> QED
    BY <1>3, <1>4, <1>5, Replaced DEF IInv, Core
<1>7. RestOfInput \in Seq(Byte) /\ Len(RestOfInput) = Len(input) - ChunkSize
  BY NextChunk
<1>8. Scalars' /\ Room' /\ UNCHANGED <<kind, size>>
  <2>1. offset' = offset + ChunkSize /\ input' = RestOfInput /\ UNCHANGED <<kind, size>>
    BY DEF WriteChunk
  <2> QED
    BY <1>1, <1>2, <1>7, <2>1, OutMultiStreamAssumption DEF IInv, Core, Scalars, Room
<1> QED
  BY <1>6, <1>8, Exchanged

\* A Write() that gives up leaves a part with fewer bytes, or with none.
LEMMA WriteFailsKeeps ==
  ASSUME IInv, WriteFails
  PROVE  Core'
<1>1. /\ Index \in Nat /\ Index < Len(parts)
      /\ ChunkSize \in Nat /\ ChunkSize >= 1 /\ ChunkSize <= Len(input)
  BY Going DEF WriteFails
<1>2. Len(parts) \in Nat
  BY DEF IInv, Core, Good
<1> DEFINE part == parts[Index + 1]
<1>3. Index + 1 \in 1..Len(parts) /\ Fitting(part)
  BY <1>1, <1>2 DEF IInv, Core, Good
<1>4. \E new : Fitting(new) /\ parts' = [parts EXCEPT ![Index + 1] = new]
  <2>1. CASE kind = "file"
    <3>1. PICK taken \in 0..(ChunkSize - 1) :
            parts' = [parts EXCEPT ![Index + 1] =
                       [data |-> IF taken = 0 THEN DataWhenOpened(part)
                                 ELSE Overlay(DataWhenOpened(part), PartOffset,
                                              SubSeq(input, 1, taken)),
                        open |-> TRUE]]
      BY <2>1 DEF WriteFails
    <3>2. CASE taken = 0
      BY <1>3, <3>1, <3>2, Reopened
    <3>3. CASE taken # 0
      <4>1. taken \in 1..ChunkSize
        BY <1>1, <3>3
      <4>2. Fitting([data |-> Overlay(DataWhenOpened(part), PartOffset, SubSeq(input, 1, taken)),
                     open |-> TRUE])
        BY <1>3, <4>1, Stored DEF WriteFails
      <4> QED
        BY <3>1, <3>3, <4>2
    <3> QED
      BY <3>2, <3>3
  <2>2. CASE kind # "file"
    <3>1. parts' = [parts EXCEPT ![Index + 1] =
                      IF PartCanSeek(part) THEN NewPart ELSE [part EXCEPT !.open = TRUE]]
      BY <2>2 DEF WriteFails
    <3>2. Fitting(IF PartCanSeek(part) THEN NewPart ELSE [part EXCEPT !.open = TRUE])
      BY <1>3, NewFits, Reopened
    <3> QED
      BY <3>1, <3>2
  <2> QED
    BY <2>1, <2>2
<1>5. Good(parts') /\ Len(parts') = Len(parts)
  <2>1. PICK new : Fitting(new) /\ parts' = [parts EXCEPT ![Index + 1] = new]
    BY <1>4
  <2> QED
    BY <1>3, <2>1, Replaced DEF IInv, Core
<1>6. Scalars' /\ Room' /\ UNCHANGED <<kind, size>>
  BY EmptySeq, OutMultiStreamAssumption DEF WriteFails, IInv, Core, Scalars, Room
<1> QED
  BY <1>5, <1>6, Exchanged

\* SetSize() cuts parts off, and never adds one.
LEMMA SetSizeKeeps ==
  ASSUME IInv, SetSize
  PROVE  Core'
<1>1. /\ offset \in Nat /\ size \in Nat /\ offset <= size /\ size <= MaxSize
      /\ Good(parts) /\ Len(parts) \in Nat /\ Enough(Len(parts), size)
  BY OutMultiStreamAssumption DEF IInv, Core, Scalars, Good
<1>2. Good(Resized(offset)) /\ Len(Resized(offset)) = PartsFor(offset)
  BY <1>1, Resizing
<1>3. PartsFor(offset) <= Len(parts)
  BY <1>1, Cut DEF Enough
<1>4. Enough(PartsFor(offset), offset)
  <2>1. /\ PartsFor(offset) \in Nat
        /\ offset <= PartsFor(offset) * PartSize
        /\ PartsFor(offset) * PartSize < offset + PartSize
    BY <1>1, Needed
  <2>2. PartsFor(offset) <= MaxParts
    BY <1>1, <1>3, <2>1, OutMultiStreamAssumption DEF Enough
  <2> QED
    BY <2>1, <2>2, Zenon DEF Enough
<1>5. /\ parts' = Resized(offset) /\ size' = offset
      /\ UNCHANGED <<kind, offset, input>> /\ input = <<>>
  BY DEF SetSize
<1>6. Scalars' /\ Room'
  <2>1. offset \in 0..MaxSize /\ offset \in 0..offset
    BY <1>1, OutMultiStreamAssumption
  <2>2. kind' \in {"file", "mem"} /\ size' \in 0..MaxSize /\ offset' \in 0..size' /\ input' = <<>>
    BY <1>5, <2>1, Zenon DEF IInv, Core, Scalars
  <2> QED
    BY <2>2, AtRest
<1> QED
  BY <1>2, <1>4, <1>5, <1>6 DEF Core

\* A list that has other parts that fit in the places of the old.
LEMMA Exchanging ==
  ASSUME Good(parts), NEW f, DOMAIN f = DOMAIN parts, f = [i \in DOMAIN parts |-> f[i]],
         \A i \in DOMAIN parts : Fitting(f[i])
  PROVE  Good(f) /\ Len(f) = Len(parts)
<1>1. DOMAIN parts = 1..Len(parts) /\ Len(parts) \in Nat
  BY DEF Good
<1>2. f \in [1..Len(parts) -> Part]
  BY <1>1 DEF Fitting
<1> QED
  BY <1>1, <1>2 DEF Good

\* close() and erase() leave a list whose parts fit.
LEMMA CloseKeeps ==
  ASSUME IInv, Close \/ Erase
  PROVE  Core'
<1>1. /\ Good(parts) /\ Enough(Len(parts), size)
      /\ kind \in {"file", "mem"} /\ size \in 0..MaxSize /\ offset \in 0..size /\ 0 \in 0..size
  BY OutMultiStreamAssumption DEF IInv, Core, Scalars
<1>2. input' = <<>> /\ kind' = kind
  BY DEF Close, Erase, IInv, Quiet
<1>3. ASSUME NEW f, parts' = f, DOMAIN f = DOMAIN parts, f = [i \in DOMAIN parts |-> f[i]],
             \A i \in DOMAIN parts : Fitting(f[i]), size' = size, offset' \in 0..size
      PROVE  Core'
  <2>1. Good(f) /\ Len(f) = Len(parts)
    BY <1>1, <1>3, Exchanging
  <2>2. Scalars' /\ Room'
    BY <1>1, <1>2, <1>3, AtRest
  <2> QED
    BY <1>1, <1>3, <2>1, <2>2 DEF Core
<1>4. CASE Close
  <2> DEFINE f == [i \in DOMAIN parts |-> ClosePart(parts[i])]
  <2>1. \A i \in DOMAIN parts : Fitting(f[i])
    BY <1>1, Reopened DEF Good
  <2>2. DOMAIN f = DOMAIN parts /\ f = [i \in DOMAIN parts |-> f[i]]
    OBVIOUS
  <2>3. parts' = f /\ size' = size /\ offset' \in 0..size
    BY <1>1, <1>4 DEF Close
  <2> HIDE DEF f
  <2> QED
    BY <1>3, <2>1, <2>2, <2>3
<1>5. CASE parts' = <<>> /\ size' = 0 /\ offset' = 0
  <2>1. Good(parts') /\ Len(parts') = 0
    BY <1>5, EmptySeq DEF Good
  <2>2. Enough(Len(parts'), size')
    BY <1>5, <2>1, OutMultiStreamAssumption DEF Enough
  <2>3. Scalars' /\ Room'
    BY <1>1, <1>2, <1>5, AtRest, OutMultiStreamAssumption
  <2> QED
    BY <2>1, <2>2, <2>3 DEF Core
<1>6. ASSUME NEW stuck \in DOMAIN parts, size' = size, offset' = offset,
             parts' = [i \in DOMAIN parts |-> IF i < stuck THEN NewPart ELSE parts[i]]
      PROVE  Core'
  <2> DEFINE f == [i \in DOMAIN parts |-> IF i < stuck THEN NewPart ELSE parts[i]]
  <2>1. \A i \in DOMAIN parts : Fitting(f[i])
    BY <1>1, NewFits DEF Good
  <2>2. DOMAIN f = DOMAIN parts /\ f = [i \in DOMAIN parts |-> f[i]]
    OBVIOUS
  <2>3. parts' = f /\ size' = size /\ offset' \in 0..size
    BY <1>1, <1>6
  <2> HIDE DEF f
  <2> QED
    BY <1>3, <2>1, <2>2, <2>3
<1> QED
  BY <1>4, <1>5, <1>6 DEF Erase

\* Every step keeps the invariant.
LEMMA NextInv == IInv /\ Next => IInv'
<1> SUFFICES ASSUME IInv, Next PROVE Core'
  BY NextFlags, NextQuiet DEF IInv
<1>1. CASE Open
  <2>1. UNCHANGED <<kind, size, parts>> /\ input' = <<>> /\ offset' \in 0..size
    BY <1>1, OutMultiStreamAssumption DEF Open, IInv, Quiet, Core, Scalars
  <2> QED
    BY <2>1, Idle
<1>2. CASE Close \/ Erase
  BY <1>2, CloseKeeps
<1>3. ASSUME NEW data \in Inputs, WriteCall(data) PROVE Core'
  BY <1>3, WriteCallKeeps
<1>4. CASE WriteChunk
  BY <1>4, WriteChunkKeeps
<1>5. CASE OpenPartFails
  BY <1>5, Cleared DEF OpenPartFails
<1>6. CASE WriteFails
  BY <1>6, WriteFailsKeeps
<1>7. CASE Seek
  <2>1. UNCHANGED <<kind, size, parts>> /\ input' = <<>> /\ offset' \in 0..size
    BY <1>7 DEF Seek
  <2> QED
    BY <2>1, Idle
<1>8. CASE SetSize
  BY <1>8, SetSizeKeeps
<1> QED
  BY <1>1, <1>2, <1>3, <1>4, <1>5, <1>6, <1>7, <1>8 DEF Next, WriteStep

----------------------------------------------------------------------------
\* The invariant of the module.
LEMMA Invariance == Spec => []IInv
<1>1. IInv /\ UNCHANGED vars => IInv'
  BY DEF IInv, Core, Flags, Quiet, Scalars, Room, Good, Enough, vars
<1> QED
  BY <1>1, InitInv, NextInv, PTL DEF Spec

\* Every variable stays in its type, the position in the stream.
THEOREM TypeCorrect == Spec => []TypeOK
<1>1. IInv => TypeOK
  BY DEF IInv, Core, Flags, Scalars, Good, TypeOK
<1> QED
  BY <1>1, Invariance, PTL

\* The stream has the parts its size needs, no more and no fewer, none longer than
\* a volume may be, and a Write() finds the part it goes on in.
THEOREM PartsFitHolds == Spec => []PartsFit
<1>1. IInv => PartsFit
  <2> SUFFICES ASSUME IInv PROVE PartsFit
    OBVIOUS
  <2>1. Enough(Len(parts), size) /\ \A i \in DOMAIN parts : Len(parts[i].data) <= PartSize
    BY DEF IInv, Core, Good, Fitting
  <2>2. input # <<>> => Index < Len(parts)
    BY Going
  <2> QED
    BY <2>1, <2>2 DEF PartsFit, Enough
<1> QED
  BY <1>1, Invariance, PTL

----------------------------------------------------------------------------
(* What filled parts hold together. *)

\* Parts lie one behind the other.
LEMMA Behind ==
  ASSUME NEW j \in Nat, NEW k \in Nat
  PROVE  /\ j * PartSize \in Nat
         /\ (k + 1) * PartSize = k * PartSize + PartSize
         /\ k < j => k * PartSize + PartSize <= j * PartSize
<1>1. PartSize \in Nat /\ PartSize > 0
  BY OutMultiStreamAssumption
<1>2. j * PartSize \in Nat /\ k * PartSize \in Nat
  BY <1>1
<1>3. (k + 1) * PartSize = k * PartSize + PartSize
  BY <1>1
<1>4. ASSUME k < j PROVE k * PartSize + PartSize <= j * PartSize
  <2>1. PICK d \in Nat : j = (k + 1) + d
    BY <1>4
  <2>2. j * PartSize = (k + 1) * PartSize + d * PartSize /\ d * PartSize \in Nat
    BY <1>1, <2>1
  <2> QED
    BY <1>1, <1>2, <1>3, <2>2
<1> QED
  BY <1>2, <1>3, <1>4

\* Every byte of n parts has its part and its place there.
LEMMA Place ==
  ASSUME NEW n \in Nat, NEW p \in Nat, 1 <= p, p <= n * PartSize
  PROVE  \E k \in 0..(n - 1) : \E r \in 1..PartSize : p = k * PartSize + r
<1> DEFINE k == (p - 1) \div PartSize
<1>1. k \in Nat /\ k * PartSize <= p - 1 /\ p - 1 < k * PartSize + PartSize
  BY Division
<1> HIDE DEF k
<1>2. k * PartSize \in Nat /\ n * PartSize \in Nat
  BY <1>1, Behind
<1>3. k < n
  BY <1>1, <1>2, Fewer, OutMultiStreamAssumption
<1>4. p - k * PartSize \in 1..PartSize /\ p = k * PartSize + (p - k * PartSize)
  BY <1>1, <1>2, OutMultiStreamAssumption
<1>5. k \in 0..(n - 1)
  BY <1>1, <1>3
<1> QED
  BY <1>4, <1>5, Zenon

\* Parts filled with w bytes: joined, they are w bytes, each where it belongs.
LEMMA JoinedFilled ==
  ASSUME NEW ps, Good(ps), NEW w \in Nat, w <= Len(ps) * PartSize, Filled(ps, w)
  PROVE  /\ Joined(ps) \in Seq(Byte)
         /\ Len(Joined(ps)) = w
         /\ \A k \in 0..(Len(ps) - 1) : \A r \in 1..PartSize :
               k * PartSize + r <= w => Joined(ps)[k * PartSize + r] = ps[k + 1].data[r]
<1> DEFINE seqs == [i \in DOMAIN ps |-> ps[i].data]
           N == Len(ps)
<1>1. ps \in Seq(Part) /\ N \in Nat /\ DOMAIN ps = 1..N /\ \A i \in 1..N : ps[i] \in Part
  BY DEF Good
<1>2. seqs \in Seq(Seq(Byte)) /\ Len(seqs) = N /\ \A i \in 1..N : seqs[i] = ps[i].data
  <2>1. \A part \in Part : part.data \in Seq(Byte)
    BY DEF Part
  <2> HIDE DEF N
  <2>2. seqs = [i \in 1..N |-> ps[i].data] /\ \A i \in 1..N : ps[i].data \in Seq(Byte)
    BY <1>1, <2>1
  <2> HIDE DEF seqs
  <2> QED
    BY <1>1, <2>2
<1> DEFINE All == Joined(ps)
<1>3. All = FlattenSeq(seqs)
  BY DEF Joined
<1> HIDE DEF seqs, N, All
<1>4. All \in Seq(Byte) /\ \E ends : Ends(seqs, All, ends)
  BY <1>2, <1>3, Flattening, Zenon
<1>5. PICK ends : Ends(seqs, All, ends)
  BY <1>4, Zenon
<1>6. /\ ends[0] = 0 /\ ends[N] = Len(All)
      /\ \A i \in 1..N : /\ ends[i] = ends[i - 1] + Len(seqs[i])
                         /\ \A r \in 1..Len(seqs[i]) : All[ends[i - 1] + r] = seqs[i][r]
  BY <1>2, <1>5, Zenon DEF Ends
<1> DEFINE E(k) == IF k * PartSize <= w THEN k * PartSize ELSE w
           Known == {k \in Nat : k <= N => ends[k] = E(k)}
<1>7. \A k \in 0..(N - 1) : Len(seqs[k + 1]) = Fill(k, w)
  <2>1. \A k \in 0..(N - 1) : k + 1 \in 1..N
    BY <1>1
  <2> QED
    BY <1>2, <2>1 DEF Filled, N
<1>8. 0 \in Known
  BY <1>6, OutMultiStreamAssumption
<1>9. ASSUME NEW k \in Nat, k \in Known PROVE k + 1 \in Known
  <2>1. SUFFICES ASSUME k + 1 <= N PROVE ends[k + 1] = E(k + 1)
    OBVIOUS
  <2> HIDE DEF Known
  <2>2. k + 1 \in 1..N /\ k \in 0..(N - 1) /\ (k + 1) - 1 = k /\ k <= N
    BY <1>1, <2>1
  <2>3. ends[k + 1] = ends[k] + Len(seqs[k + 1])
    BY <1>6, <2>2
  <2>4. ends[k + 1] = E(k) + Fill(k, w)
    BY <1>7, <1>9, <2>2, <2>3 DEF Known
  <2>5. (k + 1) * PartSize = k * PartSize + PartSize /\ k * PartSize \in Nat
    BY Behind
  <2> HIDE DEF Known
  <2> QED
    BY <2>4, <2>5, OutMultiStreamAssumption DEF Fill, FillAt
<1>10. Nat \subseteq Known
  <2> HIDE DEF Known
  <2> QED
    BY <1>8, <1>9, Counting
<1>11. \A k \in 0..N : ends[k] = E(k)
  BY <1>1, <1>10
<1> HIDE DEF Known
<1>12. Len(All) = w
  BY <1>1, <1>6, <1>11 DEF N
<1>13. ASSUME NEW k \in 0..(N - 1), NEW r \in 1..PartSize, k * PartSize + r <= w
       PROVE  All[k * PartSize + r] = ps[k + 1].data[r]
  <2>1. k \in Nat /\ k + 1 \in 1..N /\ k \in 0..N /\ (k + 1) - 1 = k
    BY <1>1
  <2>2. k * PartSize \in Nat
    BY <2>1, Behind
  <2>3. E(k) = k * PartSize /\ r \in 1..Fill(k, w)
    BY <1>13, <2>2, OutMultiStreamAssumption DEF Fill, FillAt
  <2> HIDE DEF E
  <2>4. ends[k] = k * PartSize /\ Len(seqs[k + 1]) = Fill(k, w) /\ seqs[k + 1] = ps[k + 1].data
    BY <1>2, <1>7, <1>11, <2>1, <2>3
  <2> QED
    BY <1>6, <2>1, <2>3, <2>4
<1> QED
  BY <1>4, <1>12, <1>13 DEF All, N

\* Bytes that are those of the filled parts are the joined parts.
LEMMA JoinedIs ==
  ASSUME NEW ps, Good(ps), NEW w \in Nat, w <= Len(ps) * PartSize, Filled(ps, w),
         NEW s \in Seq(Byte), Len(s) = w,
         \A k \in 0..(Len(ps) - 1) : \A r \in 1..PartSize :
               k * PartSize + r <= w => s[k * PartSize + r] = ps[k + 1].data[r]
  PROVE  Joined(ps) = s
<1> DEFINE t == Joined(ps)
<1>1. /\ t \in Seq(Byte) /\ Len(t) = w
      /\ \A k \in 0..(Len(ps) - 1) : \A r \in 1..PartSize :
               k * PartSize + r <= w => t[k * PartSize + r] = ps[k + 1].data[r]
  BY JoinedFilled
<1>2. Len(ps) \in Nat
  BY DEF Good
<1> HIDE DEF t
<1>3. ASSUME NEW p \in 1..w PROVE t[p] = s[p]
  <2>1. p \in Nat /\ 1 <= p /\ p <= Len(ps) * PartSize
    <3>1. Len(ps) * PartSize \in Nat
      BY <1>2, Behind
    <3> QED
      BY <3>1
  <2>2. PICK k \in 0..(Len(ps) - 1), r \in 1..PartSize : p = k * PartSize + r
    BY <1>2, <2>1, Place
  <2>3. k * PartSize + r <= w
    BY <2>2
  <2> QED
    BY <1>1, <2>2, <2>3, Zenon
<1>4. t = s
  BY <1>1, <1>3
<1> QED
  BY <1>4 DEF t

\* No part, no bytes.
LEMMA NoParts == Filled(<<>>, 0) /\ Joined(<<>>) = <<>>
<1>1. Len(<<>>) = 0 /\ DOMAIN <<>> = {}
  OBVIOUS
<1>2. Filled(<<>>, 0)
  BY <1>1 DEF Filled
<1>3. [i \in DOMAIN <<>> |-> <<>>[i].data] = <<>>
  OBVIOUS
<1>4. Joined(<<>>) = <<>>
  BY <1>3, EmptySeq DEF Joined, FlattenSeq
<1> QED
  BY <1>2, <1>4

\* Without a Write() at work the parts hold all the stream has.
LEMMA AtRestFull ==
  ASSUME IInv, Whole, ~broken, input = <<>>
  PROVE  Filled(parts, size)
<1>1. PICK w \in Nat : Upto(w)
  BY Zenon DEF Whole
<1>2. w = size
  BY <1>1, Zenon DEF Upto
<1> QED
  BY <1>1, <1>2, Zenon DEF Upto

\* Parts with the same bytes, open or not, are joined to the same.
LEMMA SameData ==
  ASSUME NEW ps, NEW qs, DOMAIN ps = DOMAIN qs, \A i \in DOMAIN ps : ps[i].data = qs[i].data
  PROVE  Joined(ps) = Joined(qs)
<1>1. [i \in DOMAIN ps |-> ps[i].data] = [i \in DOMAIN qs |-> qs[i].data]
  OBVIOUS
<1> QED
  BY <1>1, Zenon DEF Joined

\* A stream of another size has parts filled with the bytes that are left.
LEMMA ResizedFilled ==
  ASSUME Good(parts), NEW w \in Nat, w <= Len(parts) * PartSize, Filled(parts, w),
         NEW n \in Nat, NEW v \in Nat,
         v = IF w <= PartsFor(n) * PartSize THEN w ELSE PartsFor(n) * PartSize
  PROVE  Filled(Resized(n), v)
<1> DEFINE K == PartsFor(n)
           L == Len(parts)
           rs == Resized(n)
<1>1. K \in Nat /\ L \in Nat
  <2>1. L \in Nat
    BY DEF Good
  <2>2. K \in Nat
    BY Needed, Zenon
  <2> QED
    BY <2>1, <2>2
<1>2. Len(rs) = K /\ \A i \in 1..K : rs[i] = IF i <= L THEN parts[i] ELSE NewPart
  <2>1. Len(rs) = K
    BY Resizing
  <2>2. rs = [i \in 1..K |-> IF i <= L THEN parts[i] ELSE NewPart]
    BY DEF Resized
  <2> HIDE DEF K, L, rs
  <2> QED
    BY <2>1, <2>2
<1>3. SUFFICES ASSUME NEW k \in 0..(K - 1) PROVE Len(rs[k + 1].data) = Fill(k, v)
  <2> HIDE DEF K, rs
  <2> QED
    BY <1>2 DEF Filled, rs
<1> HIDE DEF K, L, rs
<1>4. k \in Nat /\ k + 1 \in 1..K /\ k < K
  BY <1>1
<1>5. /\ k * PartSize \in Nat /\ K * PartSize \in Nat /\ k * PartSize + PartSize <= K * PartSize
  BY <1>1, <1>4, Behind
<1>6. Fill(k, v) = Fill(k, w)
  BY <1>5, OutMultiStreamAssumption DEF Fill, FillAt, K
<1>7. CASE k < L
  <2>1. rs[k + 1] = parts[k + 1] /\ k \in 0..(L - 1)
    BY <1>1, <1>2, <1>4, <1>7
  <2> QED
    BY <1>6, <2>1 DEF Filled, L
<1>8. CASE L <= k
  <2>1. rs[k + 1] = NewPart
    BY <1>1, <1>2, <1>4, <1>8
  <2>2. Len(NewPart.data) = 0
    BY DEF NewPart
  <2>3. L * PartSize <= k * PartSize /\ L * PartSize \in Nat
    <3>1. CASE L = k
      BY <1>5, <3>1
    <3>2. CASE L < k
      <4>1. L * PartSize + PartSize <= k * PartSize /\ L * PartSize \in Nat
        BY <1>1, <1>4, <3>2, Behind
      <4> QED
        BY <1>5, <4>1, OutMultiStreamAssumption
    <3> QED
      BY <1>1, <1>4, <1>8, <3>1, <3>2
  <2>4. Fill(k, w) = 0
    BY <1>5, <2>3, OutMultiStreamAssumption DEF Fill, FillAt, L
  <2> QED
    BY <1>6, <2>1, <2>2, <2>4
<1> QED
  BY <1>1, <1>4, <1>7, <1>8

\* They are joined to what was there, cut off where they end.
LEMMA ResizedJoined ==
  ASSUME Good(parts), NEW w \in Nat, w <= Len(parts) * PartSize, Filled(parts, w),
         NEW n \in Nat, NEW v \in Nat,
         v = IF w <= PartsFor(n) * PartSize THEN w ELSE PartsFor(n) * PartSize
  PROVE  /\ Joined(Resized(n)) = SubSeq(Joined(parts), 1, v)
         /\ Joined(Resized(n)) \in Seq(Byte) /\ Len(Joined(Resized(n))) = v
<1> DEFINE K == PartsFor(n)
           L == Len(parts)
           rs == Resized(n)
           all == Joined(parts)
           s == SubSeq(all, 1, v)
<1>1. K \in Nat /\ L \in Nat
  <2>1. L \in Nat
    BY DEF Good
  <2>2. K \in Nat
    BY Needed, Zenon
  <2> QED
    BY <2>1, <2>2
<1>2. Good(rs) /\ Len(rs) = K /\ Filled(rs, v)
  BY Resizing, ResizedFilled
<1>3. /\ all \in Seq(Byte) /\ Len(all) = w
      /\ \A k \in 0..(L - 1) : \A r \in 1..PartSize :
            k * PartSize + r <= w => all[k * PartSize + r] = parts[k + 1].data[r]
  BY JoinedFilled
<1>4. \A i \in 1..K : i <= L => rs[i] = parts[i]
  BY DEF Resized
<1>5. v <= w /\ v <= K * PartSize /\ w <= L * PartSize
  <2>1. K * PartSize \in Nat
    BY <1>1, Behind
  <2> QED
    BY <2>1 DEF K
<1> HIDE DEF all, K, L, rs
<1>6. s \in Seq(Byte) /\ Len(s) = v /\ \A p \in 1..v : s[p] = all[p]
  <2>1. \A p \in 1..v : all[p] \in Byte
    BY <1>3, <1>5
  <2>2. s \in Seq(Byte) /\ Len(s) = v
    BY <2>1, SubSeqProperties
  <2>3. s = [p \in 1..v |-> all[p]]
    BY <1>3, <1>5
  <2> HIDE DEF s
  <2> QED
    BY <2>2, <2>3
<1> HIDE DEF s
<1>7. ASSUME NEW k \in 0..(Len(rs) - 1), NEW r \in 1..PartSize, k * PartSize + r <= v
      PROVE  s[k * PartSize + r] = rs[k + 1].data[r]
  <2>1. k \in Nat /\ k + 1 \in 1..K
    BY <1>1, <1>2
  <2>2. k \in Nat /\ k + 1 \in 1..K /\ k * PartSize \in Nat /\ L * PartSize \in Nat
    BY <1>1, <2>1, Behind, Zenon
  <2>3. k * PartSize < L * PartSize
    BY <1>5, <1>7, <2>2, OutMultiStreamAssumption
  <2>4. k < L
    BY <1>1, <2>2, <2>3, Fewer
  <2>5. rs[k + 1] = parts[k + 1] /\ k \in 0..(L - 1)
    BY <1>1, <1>4, <2>2, <2>4
  <2>6. k * PartSize + r \in 1..v
    BY <1>7, <2>2, OutMultiStreamAssumption
  <2>7. k * PartSize + r <= w
    BY <1>5, <2>6
  <2> QED
    BY <1>3, <1>6, <2>5, <2>6, <2>7
<1>8. Joined(rs) = s
  BY <1>2, <1>5, <1>6, <1>7, JoinedIs
<1> QED
  BY <1>6, <1>8 DEF rs, s, all

----------------------------------------------------------------------------
(* A turn of the loop of Write(). *)

\* The part it goes on in holds all bytes before the position.
LEMMA GoingOn ==
  ASSUME IInv, Fresh, ~broken, WriteChunk, NEW w \in Nat, Upto(w)
  PROVE  LET part == parts[Index + 1]
         IN  /\ DataWhenOpened(part) = part.data
             /\ Len(part.data) = Fill(Index, w)
             /\ PartOffset <= Fill(Index, w)
             /\ offset = Index * PartSize + PartOffset
<1>1. Index \in Nat /\ Index < Len(parts) /\ PartOffset \in Nat /\ ChunkSize \in Nat
      /\ ChunkSize >= 1 /\ PartOffset + ChunkSize <= PartSize
  BY Going DEF WriteChunk
<1>2. Len(parts) \in Nat /\ DOMAIN parts = 1..Len(parts) /\ offset \in Nat
  BY Values
<1> DEFINE part == parts[Index + 1]
<1>3. Len(part.data) = Fill(Index, w)
  <2>1. Index \in 0..(Len(parts) - 1)
    BY <1>1, <1>2
  <2> QED
    BY <2>1 DEF Upto, Filled
<1>4. offset = Index * PartSize + PartOffset
  <2>1. Index * PartSize \in Nat /\ PartSize * Index = Index * PartSize
    BY <1>1, OutMultiStreamAssumption
  <2> QED
    BY <1>1, <1>2, <2>1 DEF PartOffset
<1>5. PartOffset <= Fill(Index, w)
  <2>1. Index * PartSize \in Nat
    BY <1>1, Behind
  <2>2. offset <= w
    BY Zenon DEF Upto
  <2> QED
    BY <1>1, <1>2, <1>4, <2>1, <2>2, OutMultiStreamAssumption DEF Fill, FillAt
<1>6. DataWhenOpened(part) = part.data
  <2>1. Index + 1 \in DOMAIN parts
    BY <1>1, <1>2
  <2>2. opened
    BY DEF IInv, Quiet, WriteChunk
  <2>3. kind = "file" /\ ~part.open => part.data = <<>>
    BY <2>1, <2>2 DEF Fresh
  <2>4. kind \in {"file", "mem"}
    BY DEF IInv, Core, Scalars
  <2> QED
    BY <2>3, <2>4 DEF DataWhenOpened
<1> QED
  BY <1>3, <1>4, <1>5, <1>6

----------------------------------------------------------------------------
(* Bytes stored in a part are stored in the whole. *)

\* What is in bytes that were laid over others.
LEMMA OverlaidAt ==
  ASSUME NEW s \in Seq(Byte), NEW data \in Seq(Byte), NEW off \in Nat,
         NEW i \in Nat, i >= 1, i <= off + Len(data) \/ i <= Len(s)
  PROVE  Overlay(s, off, data)[i] = IF i > off /\ i <= off + Len(data) THEN data[i - off]
                                    ELSE IF i <= Len(s) THEN s[i] ELSE 0
<1> DEFINE end == off + Len(data)
           n == IF end > Len(s) THEN end ELSE Len(s)
           at(k) == IF k > off /\ k <= end THEN data[k - off]
                    ELSE IF k <= Len(s) THEN s[k] ELSE 0
<1>1. i \in 1..n
  OBVIOUS
<1>2. Overlay(s, off, data) = [k \in 1..n |-> at(k)]
  BY DEF Overlay
<1>3. Overlay(s, off, data)[i] = at(i)
  <2> HIDE DEF n, at, end
  <2> QED
    BY <1>1, <1>2, Zenon
<1> QED
  BY <1>3

\* What a part of a list holds.
LEMMA DataOf ==
  ASSUME NEW ps, Good(ps), NEW i \in 1..Len(ps)
  PROVE  ps[i].data \in Seq(Byte)
<1>1. ps \in Seq(Part)
  BY DEF Good
<1>2. ps[i] \in Part
  BY <1>1
<1>3. \A part \in Part : part.data \in Seq(Byte)
  BY DEF Part
<1> QED
  BY <1>2, <1>3

\* qs are the parts ps with data stored in the part j + 1 from off on.
StoredIn(ps, qs, j, off, data) ==
    /\ Good(ps) /\ Good(qs) /\ Len(qs) = Len(ps)
    /\ j \in 0..(Len(ps) - 1) /\ off \in Nat
    /\ data \in Seq(Byte) /\ Len(data) >= 1 /\ off + Len(data) <= PartSize
    /\ \A i \in 1..Len(ps) : i # j + 1 => qs[i] = ps[i]
    /\ qs[j + 1].data = Overlay(ps[j + 1].data, off, data)

\* Bytes stored in the part j + 1, with no hole before them, are stored in the
\* whole, and the parts are filled as before.
LEMMA Storing ==
  ASSUME NEW ps, NEW qs, NEW j, NEW off, NEW data, StoredIn(ps, qs, j, off, data),
         NEW w \in Nat, w <= Len(ps) * PartSize, Filled(ps, w), off <= Fill(j, w),
         NEW n \in Nat, n = j * PartSize + off, n <= w,
         NEW v, v = IF n + Len(data) > w THEN n + Len(data) ELSE w
  PROVE  /\ Filled(qs, v) /\ v <= Len(qs) * PartSize
         /\ Joined(qs) = Overlay(Joined(ps), n, data)
<1> SUFFICES ASSUME Good(ps), Good(qs), Len(qs) = Len(ps), j \in 0..(Len(ps) - 1), off \in Nat,
                    data \in Seq(Byte), Len(data) >= 1, off + Len(data) <= PartSize,
                    \A i \in 1..Len(ps) : i # j + 1 => qs[i] = ps[i],
                    qs[j + 1].data = Overlay(ps[j + 1].data, off, data)
             PROVE  /\ Filled(qs, v) /\ v <= Len(qs) * PartSize
                    /\ Joined(qs) = Overlay(Joined(ps), n, data)
  BY Zenon DEF StoredIn
<1> DEFINE m == Len(data)
           L == Len(ps)
           d == ps[j + 1].data
           start == j * PartSize
           all == Joined(ps)
           s == Overlay(all, n, data)
<1>1. m \in Nat /\ L \in Nat /\ j \in Nat /\ j + 1 \in 1..L /\ j < L /\ PartSize \in Nat
  <2>1. L \in Nat
    BY DEF Good
  <2> HIDE DEF L
  <2>2. j \in Nat /\ j + 1 \in 1..L /\ j < L
    BY <2>1 DEF L
  <2> QED
    BY <2>1, <2>2, OutMultiStreamAssumption
<1>2. start \in Nat /\ start + PartSize <= L * PartSize /\ L * PartSize \in Nat
  <2> HIDE DEF L
  <2> QED
    BY <1>1, Behind, Zenon
<1>3. d \in Seq(Byte) /\ Len(d) = Fill(j, w)
  <2>1. d \in Seq(Byte)
    <3> HIDE DEF L
    <3> QED
      BY <1>1, DataOf DEF L
  <2>2. Len(d) = Fill(j, w)
    BY Zenon DEF Filled
  <2> QED
    BY <2>1, <2>2
<1>4. /\ all \in Seq(Byte) /\ Len(all) = w
      /\ \A k \in 0..(L - 1) : \A r \in 1..PartSize :
            k * PartSize + r <= w => all[k * PartSize + r] = ps[k + 1].data[r]
  BY JoinedFilled, Zenon
<1> HIDE DEF all, L, d, m, start
<1>5. /\ w \in Nat /\ off \in Nat /\ n \in Nat /\ m \in Nat /\ start \in Nat /\ PartSize \in Nat
      /\ m >= 1 /\ off + m <= PartSize /\ n = start + off /\ n <= w
      /\ off <= FillAt(start, w) /\ v = IF n + m > w THEN n + m ELSE w
      /\ w <= L * PartSize
  BY <1>1, <1>2, Zenon DEF start, m, Fill, L
<1>6. v \in Nat /\ v <= L * PartSize
  <2> DEFINE l == L * PartSize
  <2>1. l \in Nat /\ start + PartSize <= l /\ w <= l
    BY <1>5, <1>2
  <2> HIDE DEF l
  <2>2. v \in Nat /\ v <= l
    BY ONLY <1>5, <2>1
  <2> QED
    BY <2>2 DEF l
<1>7. s \in Seq(Byte) /\ Len(s) = v
  BY <1>1, <1>4, Overlaid DEF m
<1> HIDE DEF s
<1>8. ASSUME NEW k \in 0..(L - 1), k # j
      PROVE  /\ k \in Nat /\ k * PartSize \in Nat /\ qs[k + 1] = ps[k + 1]
             /\ k * PartSize + PartSize <= start \/ start + PartSize <= k * PartSize
  <2>1. k \in Nat /\ k + 1 \in 1..L /\ k + 1 # j + 1
    BY <1>1, <1>8
  <2>2. k < j \/ j < k
    BY <1>1, <1>8
  <2>3. k * PartSize \in Nat /\ (k < j => k * PartSize + PartSize <= start)
    BY <1>1, <2>1, Behind DEF start
  <2>4. j < k => start + PartSize <= k * PartSize
    BY <1>1, <2>1, Behind DEF start
  <2> QED
    BY <2>1, <2>2, <2>3, <2>4, Zenon DEF L
<1>9. Filled(qs, v)
  <2>1. SUFFICES ASSUME NEW k \in 0..(L - 1) PROVE Len(qs[k + 1].data) = Fill(k, v)
    BY DEF Filled, L
  <2>2. CASE k = j
    <3>1. Len(Overlay(d, off, data)) = IF off + m > Fill(j, w) THEN off + m ELSE Fill(j, w)
      BY <1>3, Overlaid DEF m
    <3>2. Len(qs[k + 1].data) = IF off + m > Fill(j, w) THEN off + m ELSE Fill(j, w)
      BY <2>2, <3>1 DEF d
    <3>3. (IF off + m > FillAt(start, w) THEN off + m ELSE FillAt(start, w)) = FillAt(start, v)
      BY ONLY <1>5 DEF FillAt
    <3> QED
      BY <2>2, <3>2, <3>3, Zenon DEF Fill, start
  <2>3. CASE k # j
    <3> DEFINE kstart == k * PartSize
    <3>1. /\ kstart \in Nat /\ qs[k + 1] = ps[k + 1]
          /\ kstart + PartSize <= start \/ start + PartSize <= kstart
      BY <1>8, <2>3
    <3> HIDE DEF kstart
    <3>2. FillAt(kstart, v) = FillAt(kstart, w)
      BY ONLY <1>5, <3>1 DEF FillAt
    <3>3. Len(ps[k + 1].data) = Fill(k, w)
      BY Zenon DEF Filled, L
    <3> QED
      BY <3>1, <3>2, <3>3, Zenon DEF Fill, kstart
  <2> QED
    BY <2>2, <2>3
<1>10. ASSUME NEW k \in 0..(L - 1), NEW r \in 1..PartSize, k * PartSize + r <= v
      PROVE  s[k * PartSize + r] = qs[k + 1].data[r]
  <2> DEFINE kstart == k * PartSize
             p == kstart + r
  <2>1. kstart \in Nat
    <3>1. k \in Nat
      BY <1>1
    <3> QED
      BY <3>1, Behind, Zenon
  <2>2. r \in Nat /\ 1 <= r /\ r <= PartSize /\ p <= v
    BY <1>1, <1>10
  <2> HIDE DEF kstart
  <2>3. p \in Nat /\ p >= 1 /\ (p <= n + m \/ p <= w)
    BY ONLY <1>5, <2>1, <2>2
  <2>4. s[p] = IF p > n /\ p <= n + m THEN data[p - n] ELSE all[p]
    <3> HIDE DEF p
    <3>1. s[p] = IF p > n /\ p <= n + m THEN data[p - n] ELSE IF p <= w THEN all[p] ELSE 0
      <4>1. Overlay(all, n, data)[p] = IF p > n /\ p <= n + Len(data) THEN data[p - n]
                                       ELSE IF p <= Len(all) THEN all[p] ELSE 0
        <5>1. p \in Nat /\ p >= 1 /\ (p <= n + Len(data) \/ p <= Len(all)) /\ n \in Nat
          BY <1>5, <1>4, <2>3, Zenon DEF m
        <5>2. all \in Seq(Byte) /\ data \in Seq(Byte)
          BY <1>4
        <5> QED
          BY ONLY <5>1, <5>2, OverlaidAt
      <4> QED
        BY <1>4, <4>1, Zenon DEF m, s
    <3>2. ~(p > n /\ p <= n + m) => p <= w
      BY ONLY <1>5, <2>3
    <3> QED
      BY <3>1, <3>2, Zenon
  <2>5. CASE k = j
    <3>1. kstart = start
      BY <2>5 DEF kstart, start
    <3>2. qs[k + 1].data = Overlay(d, off, data)
      BY <2>5 DEF d
    <3>3. /\ p > n <=> r > off
          /\ p <= n + m <=> r <= off + m
          /\ p - n = r - off
      BY ONLY <1>5, <2>2, <3>1
    <3>4. r <= off + m \/ r <= FillAt(start, w)
      BY ONLY <1>5, <2>2, <3>1 DEF FillAt
    <3>5. Overlay(d, off, data)[r] = IF r > off /\ r <= off + m THEN data[r - off]
                                     ELSE IF r <= FillAt(start, w) THEN d[r] ELSE 0
      <4>1. Len(d) = FillAt(start, w)
        BY <1>3, Zenon DEF Fill, start
      <4> QED
        <5>1. r \in Nat /\ r >= 1 /\ (r <= off + Len(data) \/ r <= Len(d)) /\ off \in Nat
          BY <1>5, <2>2, <3>4, <4>1, Zenon DEF m
        <5>2. d \in Seq(Byte) /\ data \in Seq(Byte)
          BY <1>3
        <5>3. Overlay(d, off, data)[r] = IF r > off /\ r <= off + Len(data) THEN data[r - off]
                                         ELSE IF r <= Len(d) THEN d[r] ELSE 0
          BY ONLY <5>1, <5>2, OverlaidAt
        <5> QED
          BY <4>1, <5>3, Zenon DEF m
    <3>6. r <= FillAt(start, w) => p <= w
      BY ONLY <1>5, <2>2, <3>1 DEF FillAt
    <3>7. r <= FillAt(start, w) => all[p] = d[r]
      BY <1>4, <2>5, <3>6, Zenon DEF d, kstart
    <3>8. ~(r > off /\ r <= off + m) => r <= FillAt(start, w)
      BY ONLY <1>5, <2>2, <3>4 DEF FillAt
    <3>9. s[p] = Overlay(d, off, data)[r]
      <4> HIDE DEF p
      <4> QED
        BY <2>4, <3>3, <3>5, <3>7, <3>8, Zenon
    <3> QED
      BY <3>2, <3>9, Zenon DEF kstart
  <2>6. CASE k # j
    <3>1. qs[k + 1] = ps[k + 1] /\ (kstart + PartSize <= start \/ start + PartSize <= kstart)
      BY <1>8, <2>6, Zenon DEF kstart
    <3>2. ~(p > n /\ p <= n + m) /\ p <= w
      <4>1. CASE kstart + PartSize <= start
        BY ONLY <1>5, <2>1, <2>2, <4>1
      <4>2. CASE start + PartSize <= kstart
        BY ONLY <1>5, <2>1, <2>2, <4>2
      <4> QED
        BY <3>1, <4>1, <4>2, Zenon
    <3>3. all[p] = ps[k + 1].data[r]
      BY <1>4, <3>2, Zenon DEF kstart
    <3> QED
      BY <2>4, <3>1, <3>2, <3>3, Zenon DEF kstart
  <2> QED
    BY <2>5, <2>6
<1>11. Joined(qs) = s
  <2>1. \A k \in 0..(Len(qs) - 1) : \A r \in 1..PartSize :
           k * PartSize + r <= v => s[k * PartSize + r] = qs[k + 1].data[r]
    BY <1>10, Zenon DEF L
  <2> QED
    BY <1>6, <1>7, <1>9, <2>1, JoinedIs, Zenon DEF L
<1> QED
  BY <1>6, <1>9, <1>11 DEF s, all, L

\* A turn of the loop stores its bytes in the whole stream.
LEMMA ChunkJoined ==
  ASSUME IInv, Fresh, ~broken, WriteChunk, NEW w \in Nat, Upto(w),
         NEW v, v = IF offset + ChunkSize > w THEN offset + ChunkSize ELSE w
  PROVE  Filled(parts', v) /\ Joined(parts') = Overlay(Joined(parts), offset, Chunk)
<1> DEFINE part == parts[Index + 1]
           o == Overlay(part.data, PartOffset, Chunk)
           new == [data |-> o, open |-> TRUE]
<1>1. /\ Index \in Nat /\ Index < Len(parts) /\ PartOffset \in Nat
      /\ ChunkSize \in Nat /\ ChunkSize >= 1 /\ PartOffset + ChunkSize <= PartSize
  BY Going DEF WriteChunk
<1>2. /\ offset \in Nat /\ Good(parts) /\ Len(parts) \in Nat /\ DOMAIN parts = 1..Len(parts)
      /\ size \in Nat /\ size <= Len(parts) * PartSize
  BY Values, Zenon
<1>3. DataWhenOpened(part) = part.data /\ PartOffset <= Fill(Index, w)
      /\ offset = Index * PartSize + PartOffset
  BY GoingOn, Zenon
<1>4. Chunk \in Seq(Byte) /\ Len(Chunk) = ChunkSize
  BY NextChunk, Zenon
<1>5. Good(parts') /\ Len(parts') = Len(parts)
  <2>1. Good(parts')
    BY WriteChunkKeeps, Zenon DEF Core
  <2>2. Len(parts') = Len(parts)
    BY <1>2 DEF WriteChunk, Good
  <2> QED
    BY <2>1, <2>2
<1>6. parts' = [parts EXCEPT ![Index + 1] = new]
  BY <1>3, Zenon DEF WriteChunk
<1>7. Index \in 0..(Len(parts) - 1) /\ Index + 1 \in DOMAIN parts
  BY <1>1, <1>2
<1>8. \A i \in 1..Len(parts) : i # Index + 1 => parts'[i] = parts[i]
  <2> HIDE DEF new
  <2> QED
    BY <1>2, <1>6, Zenon
<1>9. parts'[Index + 1].data = o
  <2> HIDE DEF o
  <2>1. parts'[Index + 1] = new
    <3> HIDE DEF new
    <3> QED
      BY <1>6, <1>7, Zenon
  <2> QED
    BY <2>1
<1>10. w <= Len(parts) * PartSize /\ Filled(parts, w) /\ offset <= w
  <2>1. Filled(parts, w) /\ offset <= w /\ w <= size
    BY Zenon DEF Upto
  <2>2. Len(parts) * PartSize \in Nat
    BY <1>2, Behind, Zenon
  <2> DEFINE l == Len(parts) * PartSize
  <2>3. w <= l
    <3>1. w <= size /\ size <= l /\ size \in Nat /\ l \in Nat
      BY <1>2, <2>1, <2>2
    <3> HIDE DEF l
    <3> QED
      BY ONLY <3>1, w \in Nat
  <2> QED
    BY <2>1, <2>3
<1>11. Len(Chunk) >= 1 /\ PartOffset + Len(Chunk) <= PartSize
       /\ v = IF offset + Len(Chunk) > w THEN offset + Len(Chunk) ELSE w
  BY <1>1, <1>4
<1> HIDE DEF new
<1>12. StoredIn(parts, parts', Index, PartOffset, Chunk)
  BY <1>1, <1>2, <1>4, <1>5, <1>7, <1>8, <1>9, <1>11, Zenon DEF StoredIn
<1> HIDE DEF part, o
<1>13. Filled(parts', v) /\ Joined(parts') = Overlay(Joined(parts), offset, Chunk)
  BY <1>2, <1>3, <1>10, <1>11, <1>12, Storing
<1> QED
  BY <1>13

----------------------------------------------------------------------------
(* What the calls leave in the parts. *)

\* A new stream, or one that was erased.
LEMMA EmptyWhole ==
  ASSUME parts = <<>>, size = 0, offset = 0
  PROVE  Whole /\ Fresh /\ AllClosed
<1>1. Upto(0)
  BY NoParts DEF Upto
<1>2. DOMAIN parts = {}
  OBVIOUS
<1> QED
  BY <1>1, <1>2 DEF Whole, Fresh, AllClosed

\* The same after a step.
LEMMA EmptiedWhole ==
  ASSUME parts' = <<>>, size' = 0, offset' = 0
  PROVE  Whole' /\ Fresh' /\ AllClosed'
<1>1. Upto(0)'
  BY NoParts DEF Upto
<1>2. DOMAIN parts' = {}
  OBVIOUS
<1> QED
  BY <1>1, <1>2 DEF Whole, Fresh, AllClosed

\* No part is open in a stream that is closed.
LEMMA NextAllClosed == IInv /\ AllClosed /\ Next => AllClosed'
<1> SUFFICES ASSUME IInv, AllClosed, Next PROVE AllClosed'
  OBVIOUS
<1>1. CASE Open \/ Seek \/ SetSize \/ WriteChunk \/ WriteFails
  BY <1>1 DEF Open, Seek, SetSize, WriteChunk, WriteFails, IInv, Quiet, AllClosed
<1>2. CASE Close
  <2>1. \A part : Fitting(part) => ~ClosePart(part).open
    BY DEF Fitting, Part, ClosePart
  <2>2. parts' = [i \in DOMAIN parts |-> ClosePart(parts[i])]
        /\ \A i \in DOMAIN parts : Fitting(parts[i])
    BY <1>2 DEF Close, IInv, Core, Good
  <2> QED
    BY <2>1, <2>2 DEF AllClosed
<1>3. CASE Erase
  <2>1. CASE parts' = <<>>
    BY <2>1 DEF AllClosed
  <2>2. ASSUME NEW stuck \in DOMAIN parts,
               parts' = [i \in DOMAIN parts |-> IF i < stuck THEN NewPart ELSE parts[i]]
        PROVE  AllClosed'
    BY <1>3, <2>2 DEF Erase, AllClosed, NewPart
  <2> QED
    BY <1>3, <2>1, <2>2 DEF Erase
<1>4. ASSUME NEW data \in Inputs, WriteCall(data) PROVE AllClosed'
  <2>1. CASE Clear
    BY <2>1 DEF Clear, AllClosed
  <2>2. CASE ~Clear
    BY <1>4, <2>2, Zenon DEF WriteCall, AllClosed
  <2> QED
    BY <2>1, <2>2
<1>5. CASE OpenPartFails
  BY <1>5 DEF OpenPartFails, Clear, AllClosed
<1> QED
  BY <1>1, <1>2, <1>3, <1>4, <1>5 DEF Next, WriteStep

\* The file of a part that is not open is empty, unless the content is lost.
LEMMA NextFresh == IInv /\ Fresh /\ Next => Fresh'
<1> SUFFICES ASSUME IInv, Fresh, Next PROVE Fresh'
  OBVIOUS
<1>1. DOMAIN parts = 1..Len(parts) /\ Len(parts) \in Nat
  BY Values
<1>2. CASE Open
  <2>1. ~broken' /\ kind' = "file" => parts' = <<>>
    BY <1>2, Zenon DEF Open
  <2>2. DOMAIN <<>> = {}
    OBVIOUS
  <2> QED
    BY <2>1, <2>2, Zenon DEF Fresh
<1>3. CASE Close \/ Erase
  BY <1>3 DEF Close, Erase, Fresh
<1>4. ASSUME NEW n \in Nat, parts' = Resized(n), kind' = kind, opened, ~broken' => ~broken
      PROVE  Fresh'
  <2>1. SUFFICES ASSUME kind = "file", ~broken, NEW i \in DOMAIN parts', ~parts'[i].open
                 PROVE  parts'[i].data = <<>>
    BY <1>4, Zenon DEF Fresh
  <2>2. parts'[i] = NewPart \/ (i \in DOMAIN parts /\ parts'[i] = parts[i])
    <3>1. PartsFor(n) \in Nat
      BY Needed, Zenon
    <3>2. parts' = [k \in 1..PartsFor(n) |-> IF k <= Len(parts) THEN parts[k] ELSE NewPart]
      BY <1>4 DEF Resized
    <3> QED
      BY <1>1, <3>1, <3>2
  <2>3. NewPart.data = <<>>
    BY DEF NewPart
  <2> QED
    BY <1>4, <2>1, <2>2, <2>3, Zenon DEF Fresh
<1>5. ASSUME NEW data \in Inputs, WriteCall(data) PROVE Fresh'
  <2>1. CASE Clear
    BY <2>1 DEF Clear, Fresh
  <2>2. CASE offset + Len(data) > size /\ ~Clear
    <3>1. parts' = Resized(offset + Len(data)) /\ kind' = kind /\ opened /\ broken' = broken
      BY <1>5, <2>2 DEF WriteCall
    <3>2. offset + Len(data) \in Nat
      <4>1. data \in Seq(Byte) /\ Len(data) \in Nat
        BY InputsTyped
      <4> QED
        BY <4>1, Values
    <3> QED
      BY <1>4, <3>1, <3>2
  <2>3. CASE ~(offset + Len(data) > size) /\ ~Clear
    BY <1>5, <2>3 DEF WriteCall, Fresh
  <2> QED
    BY <2>1, <2>2, <2>3
<1>6. CASE WriteChunk
  <2>1. Index \in Nat /\ Index < Len(parts)
    BY <1>6, Going DEF WriteChunk
  <2>2. Index + 1 \in DOMAIN parts /\ DOMAIN parts' = DOMAIN parts
    BY <1>1, <1>6, <2>1 DEF WriteChunk
  <2>3. \A i \in DOMAIN parts : parts'[i] = parts[i] \/ parts'[i].open = TRUE
    BY <1>6, <2>2 DEF WriteChunk
  <2>4. kind' = kind /\ opened' = opened /\ broken' = broken
    BY <1>6 DEF WriteChunk
  <2> QED
    BY <2>2, <2>3, <2>4, Zenon DEF Fresh
<1>7. CASE OpenPartFails
  BY <1>7 DEF OpenPartFails, Clear, Fresh
<1>8. CASE WriteFails
  BY <1>8 DEF WriteFails, Fresh
<1>9. CASE Seek
  BY <1>9 DEF Seek, Fresh
<1>10. CASE SetSize
  <2>1. parts' = Resized(offset) /\ kind' = kind /\ opened /\ (~broken' => ~broken)
        /\ offset \in Nat
    BY <1>10, Values DEF SetSize
  <2> QED
    BY <1>4, <2>1
<1> QED
  BY <1>2, <1>3, <1>5, <1>6, <1>7, <1>8, <1>9, <1>10 DEF Next, WriteStep

----------------------------------------------------------------------------
\* A call of Write() that makes room leaves the bytes as they are.
LEMMA CallJoined ==
  ASSUME IInv, Whole, ~broken, NEW data \in Inputs, WriteCall(data), ~Clear
  PROVE  Whole' /\ Joined(parts') = Joined(parts) /\ data \in Seq(Byte)
<1> DEFINE end == offset + Len(data)
<1>1. /\ size \in Nat /\ offset \in Nat /\ offset <= size
      /\ Good(parts) /\ Len(parts) \in Nat /\ size <= Len(parts) * PartSize
  BY Values
<1>2. data \in Seq(Byte) /\ Len(data) \in Nat
  BY InputsTyped
<1>3. Filled(parts, size)
  BY AtRestFull DEF WriteCall
<1>4. /\ data # <<>> /\ input' = data /\ offset' = offset /\ broken' = broken
      /\ parts' = IF end > size THEN Resized(end) ELSE parts
      /\ size' = IF end > size THEN end ELSE size
  BY DEF WriteCall
<1>5. CASE end > size
  <2>1. end \in Nat /\ end <= PartsFor(end) * PartSize /\ PartsFor(end) \in Nat
    <3>1. end \in Nat
      BY <1>1, <1>2
    <3> HIDE DEF end
    <3> QED
      BY <3>1, Needed, Zenon
  <2>2. size = IF size <= PartsFor(end) * PartSize THEN size ELSE PartsFor(end) * PartSize
    <3> DEFINE l == PartsFor(end) * PartSize
    <3>1. l \in Nat /\ end <= l
      BY <2>1, Behind
    <3> HIDE DEF l
    <3>2. size <= l
      BY <1>1, <1>5, <2>1, <3>1
    <3> QED
      BY <3>2 DEF l
  <2> HIDE DEF end
  <2>3. Filled(Resized(end), size) /\ Joined(Resized(end)) = SubSeq(Joined(parts), 1, size)
    BY <1>1, <1>3, <2>1, <2>2, ResizedFilled, ResizedJoined, Zenon
  <2>4. Joined(parts) \in Seq(Byte) /\ Len(Joined(parts)) = size
    BY <1>1, <1>3, JoinedFilled, Zenon
  <2>5. SubSeq(Joined(parts), 1, size) = Joined(parts)
    <3> DEFINE s == Joined(parts)
    <3> HIDE DEF s
    <3>1. SubSeq(s, 1, Len(s)) = s
      BY <2>4 DEF s
    <3> QED
      BY <2>4, <3>1 DEF s
  <2>6. parts' = Resized(end) /\ size' = end
    BY <1>4, <1>5
  <2>7. PICK w \in Nat : w = size
    BY <1>1
  <2>8. Upto(w)'
    <3>1. input' # <<>> /\ offset' + Len(input') = size'
      BY <1>4, <2>6 DEF end
    <3>2. offset' <= w /\ w <= size'
      BY <1>1, <1>4, <1>5, <2>1, <2>6, <2>7
    <3>3. Filled(parts', w)
      BY <2>3, <2>6, <2>7
    <3> QED
      BY <3>1, <3>2, <3>3, Zenon DEF Upto
  <2> QED
    BY <1>2, <2>3, <2>5, <2>6, <2>8, Zenon DEF Whole
<1>6. CASE ~(end > size)
  <2>1. PICK w \in Nat : w = size
    BY <1>1
  <2>2. parts' = parts /\ size' = size /\ offset' = offset
    BY <1>4, <1>6
  <2>3. Upto(w)'
    BY <1>1, <1>3, <2>1, <2>2 DEF Upto
  <2> QED
    BY <1>2, <2>2, <2>3, Zenon DEF Whole
<1> QED
  BY <1>5, <1>6

\* A turn of the loop stores its bytes, and what is stored fills the parts.
LEMMA ChunkWhole ==
  ASSUME IInv, Whole, Fresh, ~broken, WriteChunk
  PROVE  Whole' /\ Joined(parts') = Overlay(Joined(parts), offset, Chunk)
<1>1. PICK w \in Nat : Upto(w)
  BY Zenon DEF Whole
<1>2. /\ offset \in Nat /\ size \in Nat /\ Len(input) \in Nat /\ offset + Len(input) <= size
      /\ ChunkSize \in Nat /\ ChunkSize <= Len(input)
  BY Going, Values DEF WriteChunk, IInv, Core, Room
<1>3. /\ offset' = offset + ChunkSize /\ size' = size /\ broken' = broken
      /\ input' = RestOfInput /\ Len(RestOfInput) = Len(input) - ChunkSize
      /\ RestOfInput \in Seq(Byte)
  BY NextChunk, Zenon DEF WriteChunk
<1>4. PICK v \in Nat : v = IF offset + ChunkSize > w THEN offset + ChunkSize ELSE w
  BY <1>2
<1>5. Filled(parts', v) /\ Joined(parts') = Overlay(Joined(parts), offset, Chunk)
  BY <1>1, <1>4, ChunkJoined
<1>6. Upto(v)'
  <2>1. offset <= w /\ w <= size /\ (w = size \/ offset + Len(input) = size)
    BY <1>1, Zenon DEF Upto
  <2>2. offset' <= v /\ v <= size'
    BY <1>2, <1>3, <1>4, <2>1
  <2>3. v = size' \/ offset' + Len(input') = size'
    BY <1>2, <1>3, <1>4, <2>1
  <2>4. input' = <<>> => v = size'
    <3>1. input' = <<>> => ChunkSize = Len(input)
      BY <1>2, <1>3
    <3> QED
      BY <1>2, <1>3, <1>4, <2>1, <3>1
  <2> QED
    BY <1>5, <2>2, <2>3, <2>4, Zenon DEF Upto
<1> QED
  BY <1>5, <1>6, Zenon DEF Whole

\* SetSize() that finds what is left to end at the position has cut off the rest.
LEMMA CutJoined ==
  ASSUME IInv, Whole, ~broken, SetSize
  PROVE  ~broken' => Whole' /\ Joined(parts') = SubSeq(Joined(parts), 1, offset)
<1> SUFFICES ASSUME ~broken'
             PROVE  Whole' /\ Joined(parts') = SubSeq(Joined(parts), 1, offset)
  OBVIOUS
<1>1. /\ size \in Nat /\ offset \in Nat /\ Good(parts) /\ size <= Len(parts) * PartSize
  BY Values
<1>2. Filled(parts, size)
  BY AtRestFull DEF SetSize
<1>3. /\ parts' = Resized(offset) /\ size' = offset /\ offset' = offset
      /\ Len(Joined(Resized(offset))) = offset
  <2>1. parts' = Resized(offset) /\ size' = offset /\ offset' = offset
        /\ ~(Len(Joined(parts')) # offset)
    BY Zenon DEF SetSize
  <2> QED
    BY <2>1, Zenon
<1>4. PICK v \in Nat :
         v = IF size <= PartsFor(offset) * PartSize THEN size ELSE PartsFor(offset) * PartSize
  <2>1. PartsFor(offset) * PartSize \in Nat
    BY <1>1, Needed, Behind
  <2> QED
    BY <1>1, <2>1
<1>5. /\ Filled(Resized(offset), v)
      /\ Joined(Resized(offset)) = SubSeq(Joined(parts), 1, v)
      /\ Len(Joined(Resized(offset))) = v
  BY <1>1, <1>2, <1>4, ResizedFilled, ResizedJoined
<1>6. v = offset
  BY <1>3, <1>5
<1>7. Upto(v)'
  BY <1>1, <1>3, <1>5, <1>6 DEF Upto
<1> QED
  BY <1>3, <1>5, <1>6, <1>7, Zenon DEF Whole

\* A stream at rest that keeps its size and its bytes.
LEMMA IdleWhole ==
  ASSUME IInv, Whole, ~broken, input = <<>>, size' = size, offset' \in 0..size,
         DOMAIN parts' = DOMAIN parts, Len(parts') = Len(parts),
         \A i \in DOMAIN parts : parts'[i].data = parts[i].data
  PROVE  Whole' /\ Joined(parts') = Joined(parts)
<1>1. /\ size \in Nat /\ Len(parts) \in Nat /\ DOMAIN parts = 1..Len(parts)
  BY Values
<1>2. PICK w \in Nat : w = size
  BY <1>1
<1>3. Filled(parts', w)
  <2>1. \A k \in 0..(Len(parts) - 1) : k + 1 \in DOMAIN parts
    BY <1>1
  <2> QED
    BY AtRestFull, <1>2, <2>1, Zenon DEF Filled
<1>4. Upto(w)'
  BY <1>1, <1>2, <1>3 DEF Upto
<1>5. Joined(parts') = Joined(parts)
  BY SameData
<1> QED
  BY <1>4, <1>5, Zenon DEF Whole

----------------------------------------------------------------------------
(* Every step is one of the flat stream. *)

\* What a step has to do: leave the parts filled, and be a step of the flat stream.
FlatStep == Whole' /\ Flat!Next

\* The content is lost, or all of it is erased.
LEMMA Lost == broken' = TRUE => FlatStep
BY DEF FlatStep, Whole, Flat!Next, Flat!Fails

\* The stream is emptied.
LEMMA Emptied ==
  ASSUME parts' = <<>>, size' = 0, offset' = 0, input' = <<>>, broken' = FALSE,
         opened' = FALSE \/ opened' = opened
  PROVE  FlatStep
<1>1. Whole'
  BY EmptiedWhole
<1>2. Joined(parts') = <<>>
  BY NoParts
<1>3. Flat!Erase
  BY <1>2 DEF Flat!Erase
<1> QED
  BY <1>1, <1>3 DEF FlatStep, Flat!Next

\* Each action is one of the flat stream.
LEMMA NextFlat ==
  ASSUME Contents, Next
  PROVE  FlatStep
<1> USE DEF Contents
<1>1. broken \in BOOLEAN /\ broken' \in BOOLEAN
  BY NextFlags, Zenon DEF IInv, Flags
<1> SUFFICES ASSUME broken' = FALSE PROVE FlatStep
  BY <1>1, Lost
<1>2. CASE Open
  <2>1. broken = FALSE /\ UNCHANGED <<parts, size, input>> /\ offset' = 0 /\ input = <<>>
        /\ ~opened /\ opened' = TRUE
    BY <1>1, <1>2, Zenon DEF Open, IInv, Quiet
  <2>2. Whole' /\ Joined(parts') = Joined(parts)
    BY <2>1, IdleWhole, Values
  <2>3. Flat!Open
    BY <2>1, <2>2 DEF Flat!Open
  <2> QED
    BY <2>1, <2>2, <2>3 DEF FlatStep, Flat!Next
<1>3. CASE Close
  <2>1. /\ broken = FALSE /\ UNCHANGED <<size, input>> /\ offset' = 0 /\ input = <<>>
        /\ opened /\ opened' = FALSE
        /\ parts' = [i \in DOMAIN parts |-> ClosePart(parts[i])]
    BY <1>3, Zenon DEF Close
  <2>2. /\ DOMAIN parts' = DOMAIN parts /\ Len(parts') = Len(parts)
        /\ \A i \in DOMAIN parts : parts'[i].data = parts[i].data
    <3>1. \A part : Fitting(part) => ClosePart(part).data = part.data
      BY DEF Fitting, Part, ClosePart
    <3>2. \A i \in DOMAIN parts : Fitting(parts[i])
      BY DEF IInv, Core, Good
    <3>3. Len(parts) \in Nat /\ DOMAIN parts = 1..Len(parts)
      BY Values
    <3> QED
      BY <2>1, <3>1, <3>2, <3>3
  <2>3. Whole' /\ Joined(parts') = Joined(parts)
    BY <2>1, <2>2, IdleWhole, Values
  <2>4. Flat!Close
    BY <2>1, <2>3 DEF Flat!Close
  <2> QED
    BY <2>1, <2>3, <2>4 DEF FlatStep, Flat!Next
<1>4. CASE Erase
  <2>1. parts' = <<>> /\ size' = 0 /\ offset' = 0 /\ input' = <<>> /\ opened' = opened
    BY <1>4, Zenon DEF Erase, IInv, Quiet
  <2> QED
    BY <2>1, Emptied
<1>5. ASSUME Clear PROVE FlatStep
  <2>1. parts' = <<>> /\ size' = 0 /\ offset' = 0 /\ input' = <<>> /\ opened' = FALSE
    BY <1>5, Zenon DEF Clear, OffsetAfterClear
  <2> QED
    BY <2>1, Emptied
<1>6. ASSUME NEW data \in Inputs, WriteCall(data), ~Clear PROVE FlatStep
  <2>1. broken = FALSE /\ opened /\ input = <<>> /\ input' = data
        /\ UNCHANGED <<offset, opened, broken>>
    BY <1>6, Zenon DEF WriteCall
  <2>2. Whole' /\ Joined(parts') = Joined(parts) /\ data \in Seq(Byte)
    BY <1>6, <2>1, CallJoined
  <2>3. Flat!WriteCall
    BY <2>1, <2>2 DEF Flat!WriteCall
  <2> QED
    BY <2>1, <2>2, <2>3 DEF FlatStep, Flat!Next
<1>7. CASE WriteChunk
  <2>1. broken = FALSE /\ input # <<>> /\ input' = RestOfInput /\ offset' = offset + ChunkSize
        /\ UNCHANGED <<opened, broken>>
    BY <1>7, Zenon DEF WriteChunk
  <2>2. opened
    BY <2>1, Zenon DEF IInv, Quiet
  <2>3. Whole' /\ Joined(parts') = Overlay(Joined(parts), offset, Chunk)
    BY <1>7, <2>1, ChunkWhole
  <2>4. ChunkSize \in 1..Len(input)
    BY <2>1, Going, Values
  <2>5. Flat!Store
    <3>1. Flat!Overlay(Joined(parts), offset, Chunk) = Overlay(Joined(parts), offset, Chunk)
      BY DEF Flat!Overlay, Overlay
    <3> QED
      BY <2>1, <2>2, <2>3, <2>4, <3>1, Zenon DEF Flat!Store, Chunk, RestOfInput
  <2> QED
    BY <2>1, <2>3, <2>5 DEF FlatStep, Flat!Next
<1>8. CASE WriteFails
  BY <1>8 DEF WriteFails
<1>9. CASE Seek
  <2>1. broken = FALSE /\ opened /\ input = <<>> /\ UNCHANGED <<parts, size, opened, input, broken>>
        /\ offset' \in 0..size
    BY <1>9, Zenon DEF Seek
  <2>2. Whole' /\ Joined(parts') = Joined(parts)
    BY <2>1, IdleWhole, Values
  <2>3. Len(Joined(parts)) = size
    BY <2>1, AtRestFull, JoinedFilled, Values
  <2>4. Flat!Seek
    BY <2>1, <2>2, <2>3 DEF Flat!Seek
  <2> QED
    BY <2>1, <2>2, <2>4 DEF FlatStep, Flat!Next
<1>10. CASE SetSize
  <2>1. broken = FALSE /\ opened /\ input = <<>> /\ UNCHANGED <<offset, opened, input>>
    BY <1>1, <1>10, Zenon DEF SetSize
  <2>2. Whole' /\ Joined(parts') = SubSeq(Joined(parts), 1, offset)
    BY <1>10, <2>1, CutJoined
  <2>3. Flat!Cut
    BY <2>1, <2>2 DEF Flat!Cut
  <2> QED
    BY <2>1, <2>2, <2>3 DEF FlatStep, Flat!Next
<1> QED
  BY <1>2, <1>3, <1>4, <1>5, <1>6, <1>7, <1>8, <1>9, <1>10, Zenon DEF Next, WriteStep, OpenPartFails

----------------------------------------------------------------------------
\* A new stream is a new flat stream.
LEMMA InitContents == Init => Contents /\ Flat!Init
<1> SUFFICES ASSUME Init PROVE Contents /\ Flat!Init
  OBVIOUS
<1>1. parts = <<>> /\ size = 0 /\ offset = 0 /\ input = <<>> /\ opened = FALSE /\ broken = FALSE
  BY Zenon DEF Init
<1>2. Contents
  BY <1>1, InitInv, EmptyWhole DEF Contents
<1>3. Flat!Init
  BY <1>1, NoParts DEF Flat!Init
<1> QED
  BY <1>2, <1>3

\* Every step keeps what the parts hold, and is a step of the flat stream or none.
LEMMA NextContents == Contents /\ [Next]_vars => Contents' /\ [Flat!Next]_(Flat!vars)
<1> SUFFICES ASSUME Contents, [Next]_vars PROVE Contents' /\ [Flat!Next]_(Flat!vars)
  OBVIOUS
<1>1. CASE Next
  <2>1. IInv' /\ Fresh' /\ AllClosed'
    BY <1>1, NextInv, NextFresh, NextAllClosed DEF Contents
  <2>2. Whole' /\ Flat!Next
    BY <1>1, NextFlat DEF FlatStep
  <2> QED
    BY <2>1, <2>2 DEF Contents
<1>2. CASE UNCHANGED vars
  <2>1. UNCHANGED Flat!vars
    BY <1>2 DEF vars, Flat!vars
  <2>2. IInv'
    BY <1>2 DEF Contents, IInv, Core, Flags, Quiet, Scalars, Room, Good, Enough, vars
  <2>3. Whole' /\ Fresh' /\ AllClosed'
    BY <1>2 DEF Contents, Whole, Upto, Fresh, AllClosed, vars
  <2> QED
    BY <2>1, <2>2, <2>3 DEF Contents
<1> QED
  BY <1>1, <1>2

\* Between two calls the parts hold exactly _size bytes, what copyContent() makes
\* room for, and no part of a closed stream is open, whatever was written, sought,
\* cut off or lost before.
THEOREM WholeContentHolds == Spec => []WholeContent
<1>1. Contents => WholeContent
  <2> SUFFICES ASSUME Contents PROVE WholeContent
    OBVIOUS
  <2>1. ~broken /\ input = <<>> => Len(Joined(parts)) = size
    BY AtRestFull, JoinedFilled, Values DEF Contents
  <2> QED
    BY <2>1 DEF WholeContent, Contents, AllClosed
<1>2. Spec => []Contents
  BY InitContents, NextContents, PTL DEF Spec
<1> QED
  BY <1>1, <1>2, PTL

\* The volumes, joined, are the one stream the archive writes: each call of the
\* multi-volume stream does to its parts what the call of a flat stream does to its
\* bytes, for any bytes and any size of a part.
THEOREM Implements == Spec => FlatSpec
<1>1. Spec => []Contents
  BY InitContents, NextContents, PTL DEF Spec
<1> QED
  BY <1>1, InitContents, NextContents, PTL DEF Spec, FlatSpec, Flat!Spec
=============================================================================
