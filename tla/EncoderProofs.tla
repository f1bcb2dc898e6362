----------------------------- MODULE EncoderProofs -----------------------------
(***************************************************************************)
(* The encoder keeps its threads apart and gives its streams back, and an  *)
(* archive it succeeds with holds everything that was added, for any       *)
(* number of threads, paths, directories and streams.                      *)
(***************************************************************************)
EXTENDS Encoder, SequenceTheorems, WellFoundedInduction, TLAPS

\* The types the first part needs: what the items are does not matter to it.
FlagsOK ==
    /\ mutex \in Threads \cup {NoThread}
    /\ result \in HResult /\ answer \in HResult
    /\ pc \in [Threads -> {"idle", "abort"} \cup OpenPhases \cup CompressPhases]
    /\ returned \in [Threads -> {"none", "true", "false", "thrown"}]

\* The mutex is held by the thread that is in open(), which an aborted encoder
\* does not begin.
OneOpener ==
    /\ \A t \in Threads : pc[t] \in OpenPhases <=> mutex = t
    /\ mutex # NoThread => result # "E_ABORT"

\* _compressing says whether a thread is in compress(), and there is one at most.
OneCompressor ==
    /\ compressing <=> \E t \in Threads : Compressing(t)
    /\ \A t, u \in Threads : Compressing(t) /\ Compressing(u) => t = u

\* _source, as far as the proof needs it.
SourceOK == DOMAIN source = {"index", "item", "stream"}

IInv == FlagsOK /\ SourceOK /\ OneOpener /\ OneCompressor /\ AbortedHoldsNothing

----------------------------------------------------------------------------
\* A new encoder.
LEMMA InitInv == Init => IInv
BY EncoderAssumption DEF Init, IInv, FlagsOK, OneOpener, OneCompressor, Compressing,
   AbortedHoldsNothing, HResult, OpenPhases, CompressPhases, UpdatePhases, NoSource, SourceOK

\* The end of open(), whether it failed or not.
LEMMA OpenOutEffect ==
  ASSUME NEW t \in Threads, OpenOut(t)
  PROVE  /\ pc[t] = "openOut" /\ mutex' = NoThread
         /\ \E outcome \in {"true", "thrown"} : Return(t, outcome)
         /\ UNCHANGED <<compressing, result, source, answer>>
         /\ outOpen => outOpen'
<1>1. outOpen => outOpen'
  <2>1. PICK out \in {TRUE, outOpen} : outOpen' = out
    BY Zenon DEF OpenOut
  <2> QED
    BY <2>1, Zenon
<1> QED
  BY <1>1, Zenon DEF OpenOut

\* An abort() that has the mutex.
LEMMA AbortEffect ==
  ASSUME NEW t \in Threads, Abort(t)
  PROVE  /\ pc[t] = "abort" /\ mutex = NoThread /\ mutex' = NoThread
         /\ result' = "E_ABORT"
         /\ Return(t, "none")
         /\ UNCHANGED <<compressing, answer>>
         /\ compressing => UNCHANGED <<outOpen, source>>
         /\ ~compressing => ~outOpen' /\ source' = CloseSource(source)
<1>1. compressing => UNCHANGED <<outOpen, source>>
  BY DEF Abort, AbortLeavesStreams
<1>2. ~compressing => ~outOpen' /\ source' = CloseSource(source)
  BY DEF Abort, AbortLeavesStreams
<1>3. UNCHANGED <<compressing, answer, mutex>>
  BY DEF Abort, flagVars
<1> QED
  BY <1>1, <1>2, <1>3 DEF Abort, Unlocked

\* What a thread is doing, and the results, keep their types.
LEMMA NextFlags == IInv /\ Next => FlagsOK'
<1> SUFFICES ASSUME IInv, Next PROVE FlagsOK'
  OBVIOUS
<1> USE EncoderAssumption DEF IInv, FlagsOK, HResult, OpenPhases, CompressPhases, UpdatePhases,
      Next, Add, Call, Step, AddPath, AddStream, OpenRefused, OpenStart, OpenScan,
      CompressRefused, CompressStart, GetUpdateItemInfo, GetProperty, GetStream, ReadItem,
      SetOperationResult, ReportProgress, Finish, CompressEnd, AbortCall,
      Goto, GoOn, Return, Unlocked, Answer, AboutItem, Stopped, flagVars, threadVars
<1>1. mutex' \in Threads \cup {NoThread}
  BY OpenOutEffect, AbortEffect, SMTT(30)
<1>2. result' \in HResult
  BY OpenOutEffect, AbortEffect, SMTT(30)
<1>3. answer' \in HResult
  BY OpenOutEffect, AbortEffect, SMTT(30)
<1>4. pc' \in [Threads -> {"idle", "abort"} \cup OpenPhases \cup CompressPhases]
  BY OpenOutEffect, AbortEffect, SMTT(30)
<1>5. returned' \in [Threads -> {"none", "true", "false", "thrown"}]
  BY OpenOutEffect, AbortEffect, SMTT(30)
<1> QED
  BY <1>1, <1>2, <1>3, <1>4, <1>5

\* The mutex, _opening and _compressing keep the calls apart.
LEMMA NextApart == IInv /\ Next => OneOpener' /\ OneCompressor'
<1> SUFFICES ASSUME IInv, Next PROVE OneOpener' /\ OneCompressor'
  OBVIOUS
<1> USE EncoderAssumption DEF IInv, FlagsOK, OneOpener, OneCompressor, Compressing, HResult,
      OpenPhases, CompressPhases, UpdatePhases,
      Next, Add, Call, Step, AddPath, AddStream, OpenRefused, OpenStart, OpenScan,
      CompressRefused, CompressStart, GetUpdateItemInfo, GetProperty, GetStream, ReadItem,
      SetOperationResult, ReportProgress, Finish, CompressEnd, AbortCall,
      Goto, GoOn, Return, Unlocked, Answer, AboutItem, Stopped, flagVars, threadVars,
      OpenMayStart, CompressMayStart
<1>1. \A t \in Threads : pc'[t] \in OpenPhases <=> mutex' = t
  BY OpenOutEffect, AbortEffect, SMTT(30)
<1>2. mutex' # NoThread => result' # "E_ABORT"
  BY OpenOutEffect, AbortEffect, SMTT(30)
<1>3. compressing' <=> \E t \in Threads : pc'[t] \in CompressPhases
  BY OpenOutEffect, AbortEffect, SMTT(30)
<1>4. \A t, u \in Threads : pc'[t] \in CompressPhases /\ pc'[u] \in CompressPhases => t = u
  BY OpenOutEffect, AbortEffect, SMTT(30)
<1> QED
  BY <1>1, <1>2, <1>3, <1>4

\* What becomes of _source: it is set up for an item by a call of the archive,
\* and closed by abort() and at the end of an item or of compress().
SourceStep ==
    \/ source' = source /\ (compressing => compressing')
    \/ source' \in {CloseSource(source), SourceAtStart}
    \/ compressing' /\ \E i, x : source' \in {SourceAt(i), [SourceAt(i) EXCEPT !.stream = x]}

\* Nothing else becomes of it.
LEMMA SourceMoves ==
  ASSUME IInv, Next
  PROVE  SourceStep
<1> USE DEF SourceStep
<1>1. ASSUME NEW t \in Threads, Call(t) PROVE SourceStep
  BY <1>1 DEF Call, OpenRefused, OpenStart, CompressRefused, CompressStart, AbortCall, flagVars
<1>2. ASSUME NEW t \in Threads, OpenScan(t) \/ OpenOut(t) \/ Abort(t) PROVE SourceStep
  BY <1>2, OpenOutEffect, AbortEffect DEF OpenScan
<1>3. ASSUME NEW t \in Threads, GetUpdateItemInfo(t) \/ GetProperty(t) \/ GetStream(t)
      PROVE  SourceStep
  <2>1. compressing /\ compressing'
    BY <1>3 DEF GetUpdateItemInfo, GetProperty, GetStream, flagVars, IInv, OneCompressor,
       Compressing, CompressPhases, UpdatePhases
  <2>2. CASE GetUpdateItemInfo(t) \/ GetProperty(t)
    <3>1. \E i : source' \in {SourceAt(i), source}
      BY <2>2 DEF GetUpdateItemInfo, GetProperty, AboutItem, Stopped
    <3> QED
      BY <2>1, <3>1
  <2>3. CASE GetStream(t)
    <3>1. source' = source \/ \E i, x : source' = [SourceAt(i) EXCEPT !.stream = x]
      BY <2>3 DEF GetStream, Stopped
    <3> QED
      BY <2>1, <3>1
  <2> QED
    BY <1>3, <2>2, <2>3
<1>4. ASSUME NEW t \in Threads,
             \/ ReadItem(t) \/ SetOperationResult(t) \/ ReportProgress(t) \/ Finish(t)
             \/ CompressEnd(t)
      PROVE  SourceStep
  BY <1>4 DEF ReadItem, SetOperationResult, ReportProgress, Finish, CompressEnd, flagVars,
     SourceAfterCompress
<1>5. Add => SourceStep
  BY DEF Add, AddPath, AddStream, flagVars
<1> QED
  BY <1>1, <1>2, <1>3, <1>4, <1>5 DEF Next, Step

\* abort() and the end of the operation it interrupts share the duty of closing
\* the streams.
LEMMA NextHolds == IInv /\ Next => SourceOK' /\ AbortedHoldsNothing'
<1> SUFFICES ASSUME IInv, Next PROVE SourceOK' /\ AbortedHoldsNothing'
  OBVIOUS
<1> USE EncoderAssumption DEF IInv, FlagsOK, OneOpener, OneCompressor, Compressing, HResult,
      AbortedHoldsNothing, OpenPhases, CompressPhases, UpdatePhases,
      Next, Add, Call, Step, AddPath, AddStream, OpenRefused, OpenStart, OpenScan,
      CompressRefused, CompressStart, GetUpdateItemInfo, GetProperty, GetStream, ReadItem,
      SetOperationResult, ReportProgress, Finish, CompressEnd, AbortCall,
      Goto, GoOn, Return, Unlocked, Answer, AboutItem, Stopped, flagVars, threadVars,
      OpenMayStart, CompressMayStart, OutAfterCompress
<1>1. SourceOK'
  BY SourceMoves DEF SourceStep, SourceOK, SourceAt, CloseSource, SourceAtStart
<1>2. source'.stream = "open" => compressing'
  <2>1. CloseSource(source).stream = "none"
    BY DEF SourceOK, CloseSource
  <2>2. SourceAtStart.stream # "open"
    BY DEF SourceAtStart
  <2> QED
    BY <2>1, <2>2, SourceMoves DEF SourceStep
<1>3. result' = "E_ABORT" /\ ~compressing' /\ Unlocked' => ~outOpen'
  BY OpenOutEffect, AbortEffect, SMTT(30)
<1> QED
  BY <1>1, <1>2, <1>3

\* The invariant of the module.
LEMMA Invariance == Spec => []IInv
<1>1. IInv /\ UNCHANGED vars => IInv'
  BY DEF IInv, FlagsOK, SourceOK, OneOpener, OneCompressor, Compressing, AbortedHoldsNothing,
     Unlocked, vars, itemVars, flagVars, updateVars, threadVars
<1> QED
  BY <1>1, InitInv, NextFlags, NextApart, NextHolds, PTL DEF Spec, IInv

----------------------------------------------------------------------------
\* What an aborted encoder had open it has closed, unless a thread is still in
\* compress(), which will.
THEOREM AbortedHoldsNothingHolds == Spec => []AbortedHoldsNothing
<1>1. IInv => AbortedHoldsNothing
  BY DEF IInv
<1> QED
  BY <1>1, Invariance, PTL

\* The out-stream is closed by whoever is not compressing only when nobody is.
THEOREM NeverClosedUnderWriterHolds == Spec => NeverClosedUnderWriter
<1> DEFINE Kept == \A t \in Threads : {pc[t], pc'[t]} \subseteq UpdatePhases /\ outOpen => outOpen'
<1>1. IInv /\ Next => Kept
  <2> SUFFICES ASSUME IInv, Next PROVE Kept
    OBVIOUS
  <2>1. ASSUME NEW t \in Threads, Abort(t) PROVE Kept
    <3>1. compressing => outOpen' = outOpen
      BY <2>1, AbortEffect
    <3>2. ~compressing => \A u \in Threads : pc[u] \notin UpdatePhases
      BY DEF IInv, OneCompressor, Compressing, CompressPhases
    <3> QED
      BY <3>1, <3>2
  <2>2. ASSUME NEW t \in Threads, CompressEnd(t) PROVE Kept
    <3>1. \A u \in Threads \ {t} : pc[u] \notin UpdatePhases
      BY <2>2 DEF CompressEnd, IInv, OneCompressor, Compressing, CompressPhases, UpdatePhases
    <3>2. pc[t] \notin UpdatePhases
      BY <2>2 DEF CompressEnd, UpdatePhases
    <3> QED
      BY <3>1, <3>2
  <2>3. ASSUME NEW t \in Threads, OpenOut(t) PROVE Kept
    BY <2>3, OpenOutEffect
  <2>4. \/ Add
        \/ \E t \in Threads :
              \/ Call(t) \/ OpenScan(t) \/ GetUpdateItemInfo(t) \/ GetProperty(t) \/ GetStream(t)
              \/ ReadItem(t) \/ SetOperationResult(t) \/ ReportProgress(t) \/ Finish(t)
        => outOpen' = outOpen
    BY DEF Add, AddPath, AddStream, Call, OpenRefused, OpenStart, CompressRefused, CompressStart,
       AbortCall, OpenScan, GetUpdateItemInfo, GetProperty, GetStream, ReadItem,
       SetOperationResult, ReportProgress, Finish
  <2> QED
    BY <2>1, <2>2, <2>3, <2>4 DEF Next, Step
<1>2. UNCHANGED vars => Kept
  BY DEF vars
<1> QED
  BY <1>1, <1>2, Invariance, PTL DEF Spec, NeverClosedUnderWriter

\* After an abort open() and compress() return false, and never throw.
THEOREM AbortIsFinalHolds == Spec => AbortIsFinal
<1> DEFINE Final ==
      result = "E_ABORT" =>
          /\ result' = "E_ABORT"
          /\ \A t \in Threads :
                (Compressing(t) \/ pc[t] = "idle") /\ pc'[t] = "idle" =>
                    returned'[t] \in {returned[t], "false"}
<1>1. IInv /\ Next => Final
  BY OpenOutEffect, AbortEffect, SMTT(30), EncoderAssumption DEF IInv, FlagsOK, HResult,
     Compressing, OpenPhases, CompressPhases, UpdatePhases,
     Next, Add, Call, Step, AddPath, AddStream, OpenRefused, OpenStart, OpenScan,
     CompressRefused, CompressStart, GetUpdateItemInfo, GetProperty, GetStream, ReadItem,
     SetOperationResult, ReportProgress, Finish, CompressEnd, AbortCall,
     Goto, GoOn, Return, Unlocked, Answer, AboutItem, Stopped, flagVars, threadVars,
     OpenMayStart, CompressMayStart, CompressSucceeded
<1>2. UNCHANGED vars => Final
  BY DEF vars, threadVars
<1> QED
  BY <1>1, <1>2, Invariance, PTL DEF Spec, AbortIsFinal

----------------------------------------------------------------------------
(* Counting up, and what a recursion computes. *)

\* What holds of 0, and of every number up to N if it holds of the one before.
LEMMA CountingUp ==
  ASSUME NEW N \in Nat, NEW S, 0 \in S, \A n \in 1..N : n - 1 \in S => n \in S
  PROVE  \A n \in 0..N : n \in S
<1> DEFINE T == {n \in 0..N : n \notin S}
           R == OpToRel(<, Nat)
<1> SUFFICES ASSUME T # {} PROVE FALSE
  OBVIOUS
<1>1. IsWellFoundedOn(R, Nat)
  BY NatLessThanWellFounded
<1>2. \A m, n \in Nat : m < n => <<m, n>> \in R
  BY DEF OpToRel
<1>3. T \subseteq Nat
  OBVIOUS
<1> HIDE DEF R
<1>4. PICK n \in T : \A m \in T : ~ (<<m, n>> \in R)
  <2> HIDE DEF T
  <2> QED
    BY <1>1, <1>3, WFMin
<1>5. n \in 1..N /\ n \notin S /\ n - 1 \in Nat /\ n - 1 \in 0..N /\ n - 1 < n
  BY <1>4
<1>6. n - 1 \notin T
  BY <1>2, <1>3, <1>4, <1>5
<1> QED
  BY <1>5, <1>6

\* A function that begins with a, and goes on by the steps.
Goes(f, a, step, X, n) ==
    f \in [0..n -> X] /\ f[0] = a /\ \A i \in 1..n : f[i] = step[i][f[i - 1]]

\* There is one.
LEMMA Recursion ==
  ASSUME NEW X, NEW a \in X, NEW N \in Nat, NEW step \in [1..N -> [X -> X]]
  PROVE  \E f : Goes(f, a, step, X, N)
<1> DEFINE S == {n \in 0..N : \E f : Goes(f, a, step, X, n)}
<1>1. 0 \in S
  <2> DEFINE f == [i \in 0..0 |-> a]
  <2>1. f \in [0..0 -> X] /\ f[0] = a /\ ~ \E i : i \in 1..0
    OBVIOUS
  <2> HIDE DEF f
  <2>2. Goes(f, a, step, X, 0)
    BY <2>1, Zenon DEF Goes
  <2> QED
    BY <2>2
<1>2. ASSUME NEW n \in 1..N, n - 1 \in S PROVE n \in S
  <2>1. PICK f : Goes(f, a, step, X, n - 1)
    BY <1>2
  <2>2. f \in [0..(n - 1) -> X] /\ f[0] = a /\ \A i \in 1..(n - 1) : f[i] = step[i][f[i - 1]]
    BY <2>1 DEF Goes
  <2> DEFINE new == step[n][f[n - 1]]
             g == [i \in 0..n |-> IF i = n THEN new ELSE f[i]]
  <2>3. new \in X
    <3>1. f[n - 1] \in X /\ step[n] \in [X -> X]
      BY <2>2
    <3> QED
      BY <3>1
  <2> HIDE DEF new
  <2>4. g \in [0..n -> X] /\ g[0] = a
    BY <2>2, <2>3
  <2>5. ASSUME NEW i \in 1..n PROVE g[i] = step[i][g[i - 1]]
    <3>1. g[i - 1] = f[i - 1]
      OBVIOUS
    <3>2. CASE i = n
      <4>1. g[i] = new
        BY <3>2
      <4> HIDE DEF g
      <4> QED
        BY <3>1, <3>2, <4>1, Zenon DEF new
    <3>3. CASE i # n
      <4>1. g[i] = f[i] /\ i \in 1..(n - 1)
        BY <3>3
      <4> HIDE DEF g
      <4> QED
        BY <2>2, <3>1, <4>1, Zenon
    <3> QED
      BY <3>2, <3>3
  <2> HIDE DEF g
  <2>6. Goes(g, a, step, X, n)
    BY <2>4, <2>5 DEF Goes
  <2> QED
    BY <2>6
<1>3. N \in 0..N
  OBVIOUS
<1> HIDE DEF S
<1>4. N \in S
  BY <1>1, <1>2, <1>3, CountingUp
<1> QED
  BY <1>4 DEF S

----------------------------------------------------------------------------
(* What processAddedPaths() makes of the paths. *)

\* Where the items of each directory end.
Ends(dirs, e) ==
    /\ e \in [0..Len(dirs) -> Nat] /\ e[0] = 0
    /\ \A i \in 1..Len(dirs) : e[i] = e[i - 1] + dirs[i].count

\* The directories hold n files.
Hold(dirs, n) == \E e : Ends(dirs, e) /\ e[Len(dirs)] = n

Done == [dirs : Seq(SubDir), files : Seq(Files), count : Nat]

\* What was counted is what is in the lists.
Exact == {done \in Done : \E n \in Nat : /\ Hold(done.dirs, n)
                                         /\ done.count = n + Len(done.files)}

\* One directory more.
LEMMA OneMore ==
  ASSUME NEW dirs \in Seq(SubDir), NEW n \in Nat, Hold(dirs, n), NEW d \in SubDir
  PROVE  Hold(Append(dirs, d), n + d.count)
<1> DEFINE N == Len(dirs)
           new == Append(dirs, d)
<1>1. N \in Nat /\ d.count \in Nat
  <2>1. MaxDirFiles \in Nat
    BY EncoderAssumption
  <2> QED
    BY <2>1 DEF SubDir
<1>2. Len(new) = N + 1 /\ new[N + 1] = d /\ \A i \in 1..N : new[i] = dirs[i]
  OBVIOUS
<1>3. PICK e : Ends(dirs, e) /\ e[N] = n
  BY DEF Hold
<1>4. e \in [0..N -> Nat] /\ e[0] = 0 /\ \A i \in 1..N : e[i] = e[i - 1] + dirs[i].count
  BY <1>3 DEF Ends
<1> HIDE DEF N, new
<1> DEFINE g == [i \in 0..(N + 1) |-> IF i = N + 1 THEN n + d.count ELSE e[i]]
<1>5. g \in [0..(N + 1) -> Nat] /\ g[0] = 0 /\ g[N + 1] = n + d.count
  BY <1>1, <1>4
<1>6. ASSUME NEW i \in 1..(N + 1) PROVE g[i] = g[i - 1] + new[i].count
  <2>1. CASE i = N + 1
    <3>1. g[i] = n + d.count /\ g[i - 1] = e[N]
      BY <1>1, <2>1
    <3> HIDE DEF g
    <3> QED
      BY <1>2, <1>3, <2>1, <3>1, Zenon
  <2>2. CASE i # N + 1
    <3>1. g[i] = e[i] /\ g[i - 1] = e[i - 1] /\ i \in 1..N
      BY <1>1, <2>2
    <3> HIDE DEF g
    <3> QED
      BY <1>2, <1>4, <3>1, Zenon
  <2> QED
    BY <2>1, <2>2
<1> HIDE DEF g
<1>7. Ends(new, g) /\ g[Len(new)] = n + d.count
  BY <1>2, <1>5, <1>6, Zenon DEF Ends
<1> QED
  BY <1>7 DEF Hold, new

\* No directory holds nothing.
LEMMA NoDirs == Hold(<<>>, 0)
<1> DEFINE e == [i \in 0..0 |-> 0]
<1>1. e \in [0..0 -> Nat] /\ e[0] = 0 /\ Len(<<>>) = 0 /\ ~ \E i : i \in 1..0
  OBVIOUS
<1> HIDE DEF e
<1>2. Ends(<<>>, e) /\ e[Len(<<>>)] = 0
  BY <1>1, Zenon DEF Ends
<1> QED
  BY <1>2 DEF Hold

\* A path is counted as what it adds to the lists.
LEMMA AddItemsExact ==
  ASSUME NEW done \in Exact, NEW path \in Dirs \cup Files,
         NEW listing \in [Dirs -> 0..MaxDirFiles]
  PROVE  AddItems(done, path, listing) \in Exact
<1> DEFINE dirs == done.dirs
           fs == done.files
           new == AddItems(done, path, listing)
<1>1. done \in Done /\ dirs \in Seq(SubDir) /\ fs \in Seq(Files) /\ done.count \in Nat
  BY DEF Exact, Done
<1>2. PICK n \in Nat : Hold(dirs, n) /\ done.count = n + Len(fs)
  BY DEF Exact
<1> HIDE DEF dirs, fs
<1>3. CASE path \in Files
  <2>1. new = [dirs |-> dirs, files |-> Append(fs, path), count |-> done.count + 1]
    BY <1>3 DEF AddItems, dirs, fs
  <2>2. Append(fs, path) \in Seq(Files) /\ Len(Append(fs, path)) = Len(fs) + 1 /\ Len(fs) \in Nat
    BY <1>1, <1>3
  <2> HIDE DEF new
  <2>3. /\ new.dirs = dirs /\ new.files = Append(fs, path) /\ new.count = done.count + 1
        /\ new \in Done
    BY <1>1, <2>1, <2>2 DEF Done
  <2>4. new.count = n + Len(new.files)
    BY <1>2, <2>2, <2>3
  <2> QED
    BY <1>2, <2>3, <2>4 DEF Exact, new
<1>4. CASE path \notin Files /\ listing[path] > 0
  <2> DEFINE d == [dir |-> path, count |-> listing[path]]
  <2>1. new = [dirs |-> Append(dirs, d), files |-> fs, count |-> done.count + listing[path]]
    BY <1>4 DEF AddItems, dirs, fs
  <2>2. d \in SubDir /\ d.count = listing[path] /\ listing[path] \in Nat
    <3>1. path \in Dirs /\ listing[path] \in 0..MaxDirFiles /\ MaxDirFiles \in Nat
      BY <1>4, EncoderAssumption
    <3>2. listing[path] \in 1..MaxDirFiles
      BY <1>4, <3>1
    <3> QED
      BY <3>1, <3>2 DEF SubDir
  <2> HIDE DEF d, new
  <2>3. Append(dirs, d) \in Seq(SubDir)
    BY <1>1, <2>2
  <2>4. /\ new.dirs = Append(dirs, d) /\ new.files = fs
        /\ new.count = done.count + listing[path] /\ new \in Done
    BY <1>1, <2>1, <2>2, <2>3 DEF Done
  <2>5. Hold(Append(dirs, d), n + d.count)
    BY <1>1, <1>2, <2>2, OneMore
  <2>6. n + d.count \in Nat /\ new.count = (n + d.count) + Len(new.files)
    BY <1>1, <1>2, <2>2, <2>4
  <2> QED
    BY <2>4, <2>5, <2>6 DEF Exact, new
<1>5. CASE path \notin Files /\ ~(listing[path] > 0)
  BY <1>5 DEF AddItems
<1> QED
  BY <1>3, <1>4, <1>5

\* So is a beginning of the list of paths.
LEMMA ProcessedExact ==
  ASSUME paths \in Seq(Dirs \cup Files), NEW n \in 0..Len(paths),
         NEW listing \in [Dirs -> 0..MaxDirFiles]
  PROVE  Processed(n, listing) \in Exact
<1> DEFINE a == [dirs |-> <<>>, files |-> <<>>, count |-> 0]
           step == [i \in 1..n |-> [x \in Exact |-> AddItems(x, paths[i], listing)]]
           Turned(f) == [i \in 0..n |-> IF i = 0 THEN a ELSE AddItems(f[i - 1], paths[i], listing)]
           done == CHOOSE f : f = Turned(f)
<1>1. n \in Nat /\ \A i \in 1..n : paths[i] \in Dirs \cup Files
  OBVIOUS
<1>2. a \in Exact
  <2>1. a \in Done /\ a.dirs = <<>> /\ a.count = 0 + Len(a.files) /\ 0 \in Nat
    BY DEF Done
  <2> HIDE DEF a
  <2> QED
    BY <2>1, NoDirs, Zenon DEF Exact
<1>3. Processed(n, listing) = done[n]
  BY Zenon DEF Processed
<1> HIDE DEF a
<1>4. step \in [1..n -> [Exact -> Exact]]
  BY <1>1, AddItemsExact
<1>5. PICK f : Goes(f, a, step, Exact, n)
  <2> HIDE DEF step
  <2> QED
    BY <1>1, <1>2, <1>4, Recursion
<1>6. f = Turned(f)
  <2>1. /\ f \in [0..n -> Exact] /\ f[0] = a
        /\ \A i \in 1..n : f[i] = step[i][f[i - 1]]
    BY <1>5 DEF Goes
  <2>2. ASSUME NEW i \in 1..n PROVE f[i] = AddItems(f[i - 1], paths[i], listing)
    <3>1. f[i - 1] \in Exact
      BY <1>1, <2>1
    <3>2. step[i][f[i - 1]] = AddItems(f[i - 1], paths[i], listing)
      BY <3>1
    <3> QED
      BY <2>1, <3>2, Zenon
  <2>3. ASSUME NEW i \in 0..n
        PROVE  f[i] = IF i = 0 THEN a ELSE AddItems(f[i - 1], paths[i], listing)
    <3>1. CASE i = 0
      BY <2>1, <3>1, Zenon
    <3>2. CASE i # 0
      <4>1. i \in 1..n
        BY <3>2
      <4> QED
        BY <2>2, <3>2, <4>1, Zenon
    <3> QED
      BY <3>1, <3>2
  <2> QED
    BY <2>1, <2>3
<1> HIDE DEF Turned
<1>7. done = Turned(done)
  BY <1>6, Zenon
<1> HIDE DEF done, step
<1>8. done[0] = a /\ \A i \in 1..n : done[i] = AddItems(done[i - 1], paths[i], listing)
  <2>1. \A i \in 0..n : done[i] = IF i = 0 THEN a ELSE AddItems(done[i - 1], paths[i], listing)
    BY <1>7, Zenon DEF Turned
  <2>2. 0 \in 0..n /\ \A i \in 1..n : i \in 0..n /\ i # 0
    BY <1>1
  <2> QED
    BY <2>1, <2>2, Zenon
<1> DEFINE S == {i \in 0..n : done[i] \in Exact}
<1>9. 0 \in S
  BY <1>1, <1>2, <1>8
<1>10. ASSUME NEW i \in 1..n, i - 1 \in S PROVE i \in S
  <2>1. done[i - 1] \in Exact /\ paths[i] \in Dirs \cup Files
    BY <1>1, <1>10
  <2>2. AddItems(done[i - 1], paths[i], listing) \in Exact
    BY <2>1, AddItemsExact
  <2>3. done[i] \in Exact
    BY <1>8, <2>2, Zenon
  <2> QED
    BY <1>1, <2>3
<1>11. n \in S
  <2>1. n \in 0..n
    BY <1>1
  <2> HIDE DEF S
  <2> QED
    BY <1>1, <1>9, <1>10, <2>1, CountingUp
<1> QED
  BY <1>3, <1>11

----------------------------------------------------------------------------
(* The items in a row: those of the directories, the files and the streams. *)

\* The lists of the directories' items.
DirLists(dirs) == [i \in DOMAIN dirs |-> [k \in 1..dirs[i].count |-> <<dirs[i].dir, k - 1>>]]

\* A row of the items of the first n directories.
Row(s, dirs, e, n) ==
    /\ s \in Seq(Item) /\ Len(s) = e[n]
    /\ \A i \in 1..n : \A k \in 1..dirs[i].count : s[e[i - 1] + k] = <<dirs[i].dir, k - 1>>

\* What is known of a directory.
LEMMA DirFacts ==
  ASSUME NEW dirs \in Seq(SubDir), NEW i \in 1..Len(dirs)
  PROVE  /\ dirs[i].dir \in Dirs /\ dirs[i].count \in 1..MaxDirFiles /\ dirs[i].count \in Nat
         /\ DirLists(dirs)[i] \in Seq(Item) /\ Len(DirLists(dirs)[i]) = dirs[i].count
         /\ \A k \in 1..dirs[i].count : DirLists(dirs)[i][k] = <<dirs[i].dir, k - 1>>
<1> DEFINE dir == dirs[i].dir
           count == dirs[i].count
           list == [k \in 1..count |-> <<dir, k - 1>>]
<1>1. dir \in Dirs /\ count \in 1..MaxDirFiles /\ count \in Nat /\ MaxDirFiles \in Nat
  <2>1. dirs[i] \in SubDir /\ MaxDirFiles \in Nat
    BY EncoderAssumption
  <2> QED
    BY <2>1 DEF SubDir
<1>2. DirLists(dirs)[i] = list
  <2>1. i \in DOMAIN dirs
    OBVIOUS
  <2> QED
    BY <2>1, Zenon DEF DirLists
<1> HIDE DEF dir, count
<1>3. \A k \in 1..count : <<dir, k - 1>> \in Item
  <2> SUFFICES ASSUME NEW k \in 1..count PROVE <<dir, k - 1>> \in Item
    OBVIOUS
  <2>1. k - 1 \in 0..MaxDirFiles
    BY <1>1
  <2> QED
    BY <1>1, <2>1 DEF Item
<1>4. list \in Seq(Item) /\ Len(list) = count /\ \A k \in 1..count : list[k] = <<dir, k - 1>>
  BY <1>1, <1>3
<1> HIDE DEF list
<1> QED
  BY <1>1, <1>2, <1>4, Zenon DEF dir, count

\* The ends are numbers, each as much behind the one before as its directory holds.
LEMMA EndsFacts ==
  ASSUME NEW dirs \in Seq(SubDir), NEW e, Ends(dirs, e)
  PROVE  /\ Len(dirs) \in Nat /\ e[0] = 0
         /\ \A i \in 0..Len(dirs) : e[i] \in Nat
         /\ \A i \in 1..Len(dirs) : /\ dirs[i].count \in Nat /\ e[i - 1] \in Nat /\ e[i] \in Nat
                                    /\ e[i] = e[i - 1] + dirs[i].count
<1>1. Len(dirs) \in Nat
  OBVIOUS
<1> DEFINE N == Len(dirs)
<1> HIDE DEF N
<1>2. /\ e \in [0..N -> Nat] /\ e[0] = 0
      /\ \A i \in 1..N : e[i] = e[i - 1] + dirs[i].count
  BY DEF Ends, N
<1>3. \A i \in 0..N : e[i] \in Nat
  BY ONLY <1>2
<1>4. \A i \in 1..N : i \in 0..N /\ i - 1 \in 0..N
  BY ONLY <1>1 DEF N
<1>5. \A i \in 1..N : dirs[i].count \in Nat
  BY DirFacts DEF N
<1> QED
  BY <1>1, <1>2, <1>3, <1>4, <1>5, Zenon DEF N

\* They are in order.
LEMMA EndsGrow ==
  ASSUME NEW dirs \in Seq(SubDir), NEW e, Ends(dirs, e),
         NEW n \in 0..Len(dirs), NEW i \in 0..n
  PROVE  e[i] <= e[n]
<1> DEFINE N == Len(dirs)
           S == {m \in 0..n : e[n - m] <= e[n]}
<1>1. /\ N \in Nat /\ n \in 0..N
      /\ \A j \in 0..N : e[j] \in Nat
      /\ \A j \in 1..N : /\ dirs[j].count \in Nat /\ e[j - 1] \in Nat /\ e[j] \in Nat
                         /\ e[j] = e[j - 1] + dirs[j].count
  BY EndsFacts
<1> HIDE DEF N
<1>2. 0 \in S
  BY ONLY <1>1
<1>3. ASSUME NEW m \in 1..n, m - 1 \in S PROVE m \in S
  <2> DEFINE j == n - m + 1
  <2>1. j \in 1..N /\ n - (m - 1) = j /\ n - m = j - 1 /\ m \in 0..n
    BY ONLY <1>1, m \in 1..n
  <2>2. e[j] <= e[n]
    BY <1>3, <2>1
  <2> HIDE DEF j
  <2>3. dirs[j].count \in Nat /\ e[j - 1] \in Nat /\ e[j] = e[j - 1] + dirs[j].count
    BY <1>1, <2>1, Zenon
  <2>4. e[n] \in Nat
    BY <1>1, Zenon
  <2>5. e[j - 1] <= e[n]
    BY ONLY <2>2, <2>3, <2>4
  <2> QED
    BY <2>1, <2>5
<1> HIDE DEF S
<1>4. n - i \in S
  <2>1. n \in Nat /\ n - i \in 0..n
    BY ONLY <1>1, i \in 0..n
  <2> QED
    BY <1>2, <1>3, <2>1, CountingUp
<1>5. e[n - (n - i)] <= e[n]
  BY <1>4 DEF S
<1>6. n - (n - i) = i
  BY ONLY <1>1, i \in 0..n
<1> QED
  BY <1>5, <1>6

\* A place in the row is one of it.
LEMMA InRow ==
  ASSUME NEW dirs \in Seq(SubDir), NEW e, Ends(dirs, e), NEW n \in 0..Len(dirs),
         NEW i \in 1..n, NEW k \in 1..dirs[i].count
  PROVE  e[i - 1] + k \in 1..e[n]
<1> DEFINE N == Len(dirs)
           count == dirs[i].count
<1>1. e[i] <= e[n]
  <2>1. i \in 0..n
    OBVIOUS
  <2> QED
    BY <2>1, EndsGrow
<1>2. N \in Nat /\ e[n] \in Nat
  BY EndsFacts
<1> HIDE DEF N
<1>3. i \in 1..N
  BY ONLY <1>2, n \in 0..N, i \in 1..n, N = Len(dirs) DEF N
<1>4. count \in Nat /\ e[i - 1] \in Nat /\ e[i] = e[i - 1] + count
  BY <1>3, EndsFacts DEF N
<1>5. k \in 1..count
  OBVIOUS
<1> DEFINE before == e[i - 1]
           last == e[n]
<1>6. before \in Nat /\ last \in Nat /\ count \in Nat /\ before + count <= last
  BY <1>1, <1>2, <1>4
<1> HIDE DEF count, before, last
<1>7. before + k \in 1..last
  BY ONLY <1>5, <1>6
<1> QED
  BY <1>7 DEF before, last

\* Two rows, one after the other.
LEMMA Together ==
  ASSUME NEW X, NEW s \in Seq(X), NEW u \in Seq(X)
  PROVE  /\ s \o u \in Seq(X) /\ Len(s \o u) = Len(s) + Len(u)
         /\ Len(s) \in Nat /\ Len(u) \in Nat
         /\ \A p \in 1..Len(s) : (s \o u)[p] = s[p]
         /\ \A k \in 1..Len(u) : (s \o u)[Len(s) + k] = u[k]
OBVIOUS

\* A directory more in the row.
LEMMA RowGrows ==
  ASSUME NEW dirs \in Seq(SubDir), NEW e, Ends(dirs, e), NEW n \in 1..Len(dirs),
         NEW s, Row(s, dirs, e, n - 1)
  PROVE  Row(s \o DirLists(dirs)[n], dirs, e, n)
<1> DEFINE list == DirLists(dirs)[n]
           new == s \o list
<1>1. /\ e[n] = e[n - 1] + dirs[n].count /\ e[n - 1] \in Nat /\ e[n] \in Nat
      /\ n \in Nat /\ n - 1 \in 0..Len(dirs)
  BY EndsFacts
<1>2. /\ s \in Seq(Item) /\ Len(s) = e[n - 1]
      /\ \A i \in 1..(n - 1) : \A k \in 1..dirs[i].count :
            s[e[i - 1] + k] = <<dirs[i].dir, k - 1>>
  BY DEF Row
<1>3. /\ list \in Seq(Item) /\ Len(list) = dirs[n].count
      /\ \A k \in 1..dirs[n].count : list[k] = <<dirs[n].dir, k - 1>>
  BY DirFacts
<1> HIDE DEF list
<1>4. /\ new \in Seq(Item) /\ Len(new) = Len(s) + Len(list)
      /\ \A p \in 1..Len(s) : new[p] = s[p]
      /\ \A k \in 1..Len(list) : new[Len(s) + k] = list[k]
  <2>1. s \in Seq(Item) /\ list \in Seq(Item)
    BY <1>2, <1>3
  <2> QED
    BY ONLY <2>1, Together
<1> HIDE DEF new
<1>5. ASSUME NEW i \in 1..n, NEW k \in 1..dirs[i].count
      PROVE  new[e[i - 1] + k] = <<dirs[i].dir, k - 1>>
  <2>1. CASE i = n
    BY <1>2, <1>3, <1>4, <2>1, Zenon
  <2>2. CASE i # n
    <3>1. i \in 1..(n - 1)
      BY ONLY <1>1, <2>2, i \in 1..n
    <3>2. e[i - 1] + k \in 1..e[n - 1]
      BY <1>1, <3>1, InRow
    <3> QED
      BY <1>2, <1>4, <3>1, <3>2, Zenon
  <2> QED
    BY <2>1, <2>2
<1>6. Len(new) = e[n]
  BY <1>1, <1>2, <1>3, <1>4, Zenon
<1> QED
  BY <1>4, <1>5, <1>6 DEF Row, new, list

\* What FlattenSeq() makes of the lists of the directories.
Joined(lists, f, i) == IF i = 1 THEN lists[i] ELSE f[i - 1] \o lists[i]

\* It is the row of all of them.
LEMMA Flattened ==
  ASSUME NEW dirs \in Seq(SubDir), NEW e, Ends(dirs, e)
  PROVE  Row(FlattenSeq(DirLists(dirs)), dirs, e, Len(dirs))
<1> DEFINE N == Len(dirs)
           lists == DirLists(dirs)
           flatten == CHOOSE f : f = [i \in 1..N |-> Joined(lists, f, i)]
<1>1. N \in Nat /\ Len(lists) = N
  BY DEF DirLists
<1>2. e[0] = 0
  BY DEF Ends
<1>3. \A i \in 1..N : lists[i] \in Seq(Item)
  BY DirFacts
<1>4. Row(<<>>, dirs, e, 0)
  <2>1. <<>> \in Seq(Item) /\ Len(<<>>) = 0 /\ ~ \E i : i \in 1..0
    OBVIOUS
  <2> QED
    BY <1>2, <2>1, Zenon DEF Row
<1>5. CASE N = 0
  <2>1. lists = <<>>
    BY <1>5 DEF DirLists
  <2>2. FlattenSeq(lists) = <<>>
    BY <1>1, <1>5, <2>1 DEF FlattenSeq
  <2> QED
    BY <1>4, <1>5, <2>2
<1>6. CASE N # 0
  <2> DEFINE step == [i \in 1..N |-> [s \in Seq(Item) |-> s \o lists[i]]]
  <2>1. FlattenSeq(lists) = flatten[N]
    BY <1>1, <1>6, Zenon DEF FlattenSeq, Joined
  <2> HIDE DEF lists
  <2>2. step \in [1..N -> [Seq(Item) -> Seq(Item)]]
    BY <1>3
  <2>3. PICK g : Goes(g, <<>>, step, Seq(Item), N)
    <3>1. <<>> \in Seq(Item)
      OBVIOUS
    <3> HIDE DEF step
    <3> QED
      BY <1>1, <2>2, <3>1, Recursion
  <2>4. /\ g \in [0..N -> Seq(Item)] /\ g[0] = <<>>
        /\ \A i \in 1..N : g[i] = step[i][g[i - 1]]
    BY <2>3 DEF Goes
  <2>5. ASSUME NEW i \in 1..N PROVE g[i] = g[i - 1] \o lists[i]
    <3>1. g[i - 1] \in Seq(Item)
      BY <1>1, <2>4
    <3>2. step[i][g[i - 1]] = g[i - 1] \o lists[i]
      BY <3>1
    <3> QED
      BY <2>4, <3>2, Zenon
  <2> HIDE DEF step, N
  <2> DEFINE f0 == [i \in 1..N |-> g[i]]
  <2>6. f0 = [i \in 1..N |-> Joined(lists, f0, i)]
    <3>1. ASSUME NEW i \in 1..N PROVE g[i] = Joined(lists, f0, i)
      <4>1. CASE i = 1
        <5>1. g[1] = <<>> \o lists[1] /\ lists[1] \in Seq(Item)
          <6>1. g[i] = g[i - 1] \o lists[i] /\ lists[i] \in Seq(Item)
            BY <1>3, <2>5, Zenon
          <6>2. i - 1 = 0
            BY <4>1
          <6> QED
            BY <2>4, <4>1, <6>1, <6>2, Zenon
        <5>2. g[1] = lists[1]
          BY <5>1
        <5> QED
          BY <4>1, <5>2, Zenon DEF Joined
      <4>2. CASE i # 1
        <5>1. f0[i - 1] = g[i - 1]
          BY <1>1, <4>2
        <5> HIDE DEF f0
        <5> QED
          BY <2>5, <4>2, <5>1, Zenon DEF Joined
      <4> QED
        BY <4>1, <4>2
    <3> QED
      BY <3>1
  <2> HIDE DEF f0
  <2>7. flatten = [i \in 1..N |-> Joined(lists, flatten, i)]
    BY <2>6, Zenon
  <2> HIDE DEF flatten
  <2>8. /\ flatten[1] = lists[1]
        /\ \A i \in 1..N : i # 1 => flatten[i] = flatten[i - 1] \o lists[i]
    <3>1. \A i \in 1..N : flatten[i] = Joined(lists, flatten, i)
      BY <2>7, Zenon
    <3>2. 1 \in 1..N
      BY <1>1, <1>6
    <3> QED
      BY <3>1, <3>2, Zenon DEF Joined
  <2> DEFINE S == {n \in 0..N : n # 0 => Row(flatten[n], dirs, e, n)}
  <2>9. 0 \in S
    BY <1>1
  <2>10. ASSUME NEW n \in 1..N, n - 1 \in S PROVE n \in S
    <3>1. Row(flatten[n], dirs, e, n)
      <4>1. CASE n = 1
        <5>1. Row(<<>> \o DirLists(dirs)[1], dirs, e, 1)
          <6>1. 1 \in 1..Len(dirs) /\ 1 - 1 = 0
            BY <4>1 DEF N
          <6> QED
            BY <1>4, <6>1, RowGrows
        <5>2. <<>> \o lists[1] = lists[1]
          <6>1. lists[1] \in Seq(Item)
            BY <1>3, <4>1
          <6> QED
            BY <6>1
        <5> QED
          BY <2>8, <4>1, <5>1, <5>2, Zenon DEF lists
      <4>2. CASE n # 1
        <5>1. Row(flatten[n - 1], dirs, e, n - 1)
          BY <1>1, <2>10, <4>2
        <5>2. n \in 1..Len(dirs)
          BY DEF N
        <5>3. Row(flatten[n - 1] \o DirLists(dirs)[n], dirs, e, n)
          BY <5>1, <5>2, RowGrows
        <5> QED
          BY <2>8, <4>2, <5>3, Zenon DEF lists
      <4> QED
        BY <4>1, <4>2
    <3> QED
      BY <1>1, <3>1
  <2>11. N \in S
    <3>1. N \in 0..N
      BY <1>1
    <3> HIDE DEF S
    <3> QED
      BY <1>1, <2>9, <2>10, <3>1, CountingUp
  <2>12. Row(flatten[N], dirs, e, N)
    BY <1>6, <2>11
  <2> QED
    BY <2>1, <2>12, Zenon DEF N, lists
<1> QED
  BY <1>5, <1>6

\* The lists are what open() counted.
Listed ==
    /\ subDirs \in Seq(SubDir) /\ files \in Seq(Files) /\ streams \in Seq(Streams)
    /\ itemsCount \in 1..MaxItems
    /\ \E n \in Nat : Hold(subDirs, n) /\ itemsCount = n + Len(files) + Len(streams)

\* Where the items are in the row.
LEMMA AllItemsListed ==
  ASSUME subDirs \in Seq(SubDir), files \in Seq(Files), streams \in Seq(Streams),
         NEW e, Ends(subDirs, e)
  PROVE  /\ AllItems \in Seq(Item)
         /\ Len(AllItems) = e[Len(subDirs)] + Len(files) + Len(streams)
         /\ \A i \in 1..Len(subDirs) : \A k \in 1..subDirs[i].count :
               AllItems[e[i - 1] + k] = <<subDirs[i].dir, k - 1>>
         /\ \A k \in 1..Len(files) : AllItems[e[Len(subDirs)] + k] = <<files[k], 0>>
         /\ \A k \in 1..Len(streams) :
               AllItems[e[Len(subDirs)] + Len(files) + k] = <<streams[k], 0>>
<1> DEFINE D == FlattenSeq(DirLists(subDirs))
           F == [i \in DOMAIN files |-> <<files[i], 0>>]
           S == [i \in DOMAIN streams |-> <<streams[i], 0>>]
           N == Len(subDirs)
<1>1. AllItems = (D \o F) \o S
  BY Zenon DEF AllItems, DirLists
<1>2. Row(D, subDirs, e, N)
  BY Flattened
<1>3. /\ D \in Seq(Item) /\ Len(D) = e[N]
      /\ \A i \in 1..N : \A k \in 1..subDirs[i].count : D[e[i - 1] + k] = <<subDirs[i].dir, k - 1>>
  BY <1>2, Zenon DEF Row
<1>4. N \in Nat /\ N \in 0..N /\ e[N] \in Nat
  BY EndsFacts
<1>5. F \in Seq(Item) /\ Len(F) = Len(files) /\ \A k \in 1..Len(files) : F[k] = <<files[k], 0>>
  <2>1. \A k \in 1..Len(files) : files[k] \in Files
    OBVIOUS
  <2>2. \A k \in 1..Len(files) : <<files[k], 0>> \in Item
    BY <2>1 DEF Item
  <2> QED
    BY <2>2
<1>6. S \in Seq(Item) /\ Len(S) = Len(streams)
      /\ \A k \in 1..Len(streams) : S[k] = <<streams[k], 0>>
  <2>1. \A k \in 1..Len(streams) : streams[k] \in Streams
    OBVIOUS
  <2>2. \A k \in 1..Len(streams) : <<streams[k], 0>> \in Item
    BY <2>1 DEF Item
  <2> QED
    BY <2>2
<1>7. Len(files) \in Nat /\ Len(streams) \in Nat
  OBVIOUS
<1> HIDE DEF D, F, S
<1> DEFINE DF == D \o F
           all == DF \o S
<1>8. /\ DF \in Seq(Item) /\ Len(DF) = e[N] + Len(files)
      /\ \A p \in 1..e[N] : DF[p] = D[p]
      /\ \A k \in 1..Len(files) : DF[e[N] + k] = F[k]
  <2>1. /\ DF \in Seq(Item) /\ Len(DF) = Len(D) + Len(F)
        /\ \A p \in 1..Len(D) : DF[p] = D[p]
        /\ \A k \in 1..Len(F) : DF[Len(D) + k] = F[k]
    <3>1. D \in Seq(Item) /\ F \in Seq(Item)
      BY <1>3, <1>5
    <3> QED
      BY ONLY <3>1, Together
  <2> HIDE DEF DF
  <2> QED
    BY <1>3, <1>5, <2>1, Zenon
<1> HIDE DEF DF
<1>9. /\ all \in Seq(Item) /\ Len(all) = e[N] + Len(files) + Len(streams)
      /\ \A p \in 1..(e[N] + Len(files)) : all[p] = DF[p]
      /\ \A k \in 1..Len(streams) : all[e[N] + Len(files) + k] = S[k]
  <2>1. /\ all \in Seq(Item) /\ Len(all) = Len(DF) + Len(S)
        /\ \A p \in 1..Len(DF) : all[p] = DF[p]
        /\ \A k \in 1..Len(S) : all[Len(DF) + k] = S[k]
    <3>1. DF \in Seq(Item) /\ S \in Seq(Item)
      BY <1>6, <1>8
    <3> QED
      BY ONLY <3>1, Together
  <2> HIDE DEF all
  <2> QED
    BY <1>6, <1>8, <2>1, Zenon
<1> HIDE DEF all
<1>10. ASSUME NEW i \in 1..N, NEW k \in 1..subDirs[i].count
       PROVE  all[e[i - 1] + k] = <<subDirs[i].dir, k - 1>>
  <2>1. e[i - 1] + k \in 1..e[N]
    BY <1>4, InRow
  <2>2. e[i - 1] + k \in 1..(e[N] + Len(files))
    BY ONLY <1>4, <1>7, <2>1
  <2> QED
    BY <1>3, <1>8, <1>9, <2>1, <2>2, Zenon
<1>11. ASSUME NEW k \in 1..Len(files) PROVE all[e[N] + k] = <<files[k], 0>>
  <2>1. e[N] + k \in 1..(e[N] + Len(files))
    BY ONLY <1>4, <1>7, k \in 1..Len(files)
  <2> QED
    BY <1>5, <1>8, <1>9, <2>1, Zenon
<1>12. ASSUME NEW k \in 1..Len(streams) PROVE all[e[N] + Len(files) + k] = <<streams[k], 0>>
  BY <1>6, <1>9, Zenon
<1>13. AllItems = all
  BY <1>1 DEF DF, all
<1> QED
  BY <1>9, <1>10, <1>11, <1>12, <1>13, Zenon

----------------------------------------------------------------------------
(* setupSource() finds the items in that order. *)

\* Where the loop may be: at an item, or with what is left of the index.
At == [left : Nat, item : Item \cup {NoItem}]

\* The loop has passed i directories on its way to an index.
Passed(at, index, e, i) ==
    /\ at \in At
    /\ \/ at.item # NoItem /\ at.item = AllItems[index + 1]
       \/ at.item = NoItem /\ index = e[i] + at.left

\* No item is none of them.
LEMMA ItemIsSome == NoItem \notin Item
BY DEF NoItem, Item

\* The loop goes on.
LEMMA PassGoesOn ==
  ASSUME subDirs \in Seq(SubDir), files \in Seq(Files), streams \in Seq(Streams),
         NEW e, Ends(subDirs, e), NEW index \in Nat, NEW i \in 1..Len(subDirs),
         NEW at, Passed(at, index, e, i - 1)
  PROVE  Passed(Pass(at, subDirs[i]), index, e, i)
<1> DEFINE new == Pass(at, subDirs[i])
           dir == subDirs[i].dir
           count == subDirs[i].count
           left == at.left
<1>1. /\ at \in At /\ left \in Nat
      /\ \/ at.item # NoItem /\ at.item = AllItems[index + 1]
         \/ at.item = NoItem /\ index = e[i - 1] + left
  BY DEF Passed, At
<1>2. dir \in Dirs /\ count \in 1..MaxDirFiles /\ count \in Nat /\ MaxDirFiles \in Nat
  BY DirFacts, EncoderAssumption
<1>3. e[i] = e[i - 1] + count /\ e[i] \in Nat /\ e[i - 1] \in Nat
  BY EndsFacts
<1> HIDE DEF left, dir, count
<1>4. CASE at.item # NoItem
  <2>1. new = at
    BY <1>4, Zenon DEF Pass
  <2> QED
    BY <1>1, <1>4, <2>1, Zenon DEF Passed
<1>5. CASE at.item = NoItem /\ left < count
  <2> DEFINE item == <<dir, left>>
  <2>1. new = [left |-> left, item |-> item]
    BY <1>5, Zenon DEF Pass, left, dir, count
  <2>2. item \in Item
    <3>1. left \in 0..MaxDirFiles
      BY <1>1, <1>2, <1>5
    <3> QED
      BY <1>2, <3>1 DEF Item
  <2>3. item = AllItems[index + 1]
    <3>1. left + 1 \in 1..count /\ (left + 1) - 1 = left /\ e[i - 1] + (left + 1) = index + 1
      <4> DEFINE before == e[i - 1]
      <4>1. /\ left \in Nat /\ index = before + left /\ left < count
            /\ before \in Nat /\ count \in Nat
        BY <1>1, <1>2, <1>3, <1>5, Zenon
      <4> HIDE DEF before
      <4>2. left + 1 \in 1..count /\ (left + 1) - 1 = left /\ before + (left + 1) = index + 1
        BY ONLY <4>1
      <4> QED
        BY <4>2 DEF before
    <3>2. \A k \in 1..count : AllItems[e[i - 1] + k] = <<dir, k - 1>>
      BY AllItemsListed DEF count, dir
    <3> QED
      BY <3>1, <3>2, Zenon
  <2>4. item # NoItem
    BY <2>2, ItemIsSome, Zenon
  <2> HIDE DEF item, new
  <2>5. new \in At /\ new.item = item
    BY <1>1, <2>1, <2>2 DEF At
  <2> QED
    BY <2>3, <2>4, <2>5, Zenon DEF Passed, new
<1>6. CASE at.item = NoItem /\ ~(left < count)
  <2>1. new = [left |-> left - count, item |-> NoItem]
    BY <1>6, Zenon DEF Pass, left, dir, count
  <2>2. left - count \in Nat
    BY <1>1, <1>2, <1>6
  <2> HIDE DEF new
  <2>3. new \in At /\ new.item = NoItem /\ new.left = left - count
    BY <2>1, <2>2 DEF At
  <2>4. index = e[i] + new.left
    BY <1>1, <1>2, <1>3, <1>6, <2>3
  <2> QED
    BY <2>3, <2>4, Zenon DEF Passed, new
<1> QED
  BY <1>4, <1>5, <1>6

\* The item of an index is the one in its place.
LEMMA LocatedListed ==
  ASSUME Listed, NEW index \in 0..(itemsCount - 1)
  PROVE  Located(index) = AllItems[index + 1] /\ Located(index) \in Item
<1> DEFINE N == Len(subDirs)
           a == [left |-> index, item |-> NoItem]
           step == [i \in 1..N |-> [at \in At |-> Pass(at, subDirs[i])]]
           walk == CHOOSE f : f = [i \in 0..N |-> IF i = 0 THEN a ELSE Pass(f[i - 1], subDirs[i])]
<1>1. /\ subDirs \in Seq(SubDir) /\ files \in Seq(Files) /\ streams \in Seq(Streams)
      /\ N \in Nat /\ itemsCount \in Nat /\ index \in Nat
  BY EncoderAssumption DEF Listed
<1>2. PICK e : Ends(subDirs, e) /\ itemsCount = e[N] + Len(files) + Len(streams)
  BY DEF Listed, Hold
<1>3. e[N] \in Nat /\ e[0] = 0
  BY <1>1, <1>2, EndsFacts
<1>4. Located(index) = IF walk[N].item # NoItem THEN walk[N].item ELSE InFiles(walk[N].left)
  BY Zenon DEF Located
<1>5. a \in At
  BY <1>1 DEF At
<1>6. ASSUME NEW at \in At, NEW i \in 1..N PROVE Pass(at, subDirs[i]) \in At
  <2> DEFINE left == at.left
             dir == subDirs[i].dir
             count == subDirs[i].count
  <2>1. left \in Nat /\ dir \in Dirs /\ count \in 1..MaxDirFiles /\ MaxDirFiles \in Nat
    BY <1>1, DirFacts, EncoderAssumption DEF At
  <2>2. CASE left < count
    <3>1. left \in 0..MaxDirFiles
      BY <2>1, <2>2
    <3>2. <<dir, left>> \in Item
      BY <2>1, <3>1 DEF Item
    <3> QED
      BY <2>1, <2>2, <3>2 DEF Pass, At
  <2>3. CASE ~(left < count)
    <3>1. left - count \in Nat
      BY <2>1, <2>3
    <3> QED
      BY <2>1, <2>3, <3>1 DEF Pass, At
  <2> QED
    BY <2>2, <2>3
<1> HIDE DEF a
<1>7. PICK g : Goes(g, a, step, At, N)
  <2>1. step \in [1..N -> [At -> At]]
    BY <1>6
  <2> HIDE DEF step
  <2> QED
    BY <1>1, <1>5, <2>1, Recursion
<1>8. g = [i \in 0..N |-> IF i = 0 THEN a ELSE Pass(g[i - 1], subDirs[i])]
  <2>1. g \in [0..N -> At] /\ g[0] = a /\ \A i \in 1..N : g[i] = step[i][g[i - 1]]
    BY <1>7 DEF Goes
  <2>2. ASSUME NEW i \in 1..N PROVE g[i] = Pass(g[i - 1], subDirs[i])
    <3>1. g[i - 1] \in At
      BY <1>1, <2>1
    <3>2. step[i][g[i - 1]] = Pass(g[i - 1], subDirs[i])
      BY <3>1
    <3> QED
      BY <2>1, <3>2, Zenon
  <2>3. ASSUME NEW i \in 0..N
        PROVE  g[i] = IF i = 0 THEN a ELSE Pass(g[i - 1], subDirs[i])
    <3>1. CASE i = 0
      BY <2>1, <3>1, Zenon
    <3>2. CASE i # 0
      <4>1. i \in 1..N
        BY <3>2
      <4> QED
        BY <2>2, <3>2, <4>1, Zenon
    <3> QED
      BY <3>1, <3>2
  <2> QED
    BY <2>1, <2>3
<1>9. walk = [i \in 0..N |-> IF i = 0 THEN a ELSE Pass(walk[i - 1], subDirs[i])]
  BY <1>8, Zenon
<1> HIDE DEF walk, step
<1>10. walk[0] = a /\ \A i \in 1..N : walk[i] = Pass(walk[i - 1], subDirs[i])
  <2>1. \A i \in 0..N : walk[i] = IF i = 0 THEN a ELSE Pass(walk[i - 1], subDirs[i])
    BY <1>9, Zenon
  <2>2. 0 \in 0..N /\ \A i \in 1..N : i \in 0..N /\ i # 0
    BY <1>1
  <2> QED
    BY <2>1, <2>2, Zenon
<1> DEFINE S == {i \in 0..N : Passed(walk[i], index, e, i)}
<1>11. 0 \in S
  <2>1. a.item = NoItem /\ a.left = index
    BY DEF a
  <2>2. index = e[0] + a.left
    BY <1>1, <1>3, <2>1
  <2>3. Passed(a, index, e, 0)
    BY <1>5, <2>1, <2>2, Zenon DEF Passed
  <2> QED
    BY <1>1, <1>10, <2>3
<1>12. ASSUME NEW i \in 1..N, i - 1 \in S PROVE i \in S
  <2>1. Passed(walk[i - 1], index, e, i - 1)
    BY <1>12
  <2>2. Passed(Pass(walk[i - 1], subDirs[i]), index, e, i)
    BY <1>1, <1>2, <2>1, PassGoesOn
  <2>3. Passed(walk[i], index, e, i)
    BY <1>10, <2>2, Zenon
  <2> QED
    BY <1>1, <2>3
<1>13. N \in S
  <2>1. N \in 0..N
    BY <1>1
  <2> HIDE DEF S, N
  <2> QED
    BY <1>1, <1>11, <1>12, <2>1, CountingUp
<1>14. Passed(walk[N], index, e, N)
  BY <1>13
<1>15. CASE walk[N].item # NoItem
  <2>1. walk[N].item = AllItems[index + 1] /\ walk[N] \in At
    BY <1>14, <1>15, Zenon DEF Passed
  <2>2. walk[N].item \in Item
    BY <1>15, <2>1 DEF At
  <2> QED
    BY <1>4, <1>15, <2>1, <2>2, Zenon
<1>16. CASE walk[N].item = NoItem
  <2> DEFINE left == walk[N].left
             F == Len(files)
  <2>1. left \in Nat /\ index = e[N] + left
    BY <1>14, <1>16 DEF Passed, At
  <2>2. Located(index) = InFiles(left)
    BY <1>4, <1>16, Zenon
  <2>3. e[N] \in Nat /\ F \in Nat /\ Len(streams) \in Nat
    BY <1>1, <1>3
  <2>4. left < F + Len(streams)
    <3> DEFINE dirItems == e[N]
               rest == Len(streams)
    <3>1. /\ dirItems \in Nat /\ F \in Nat /\ rest \in Nat /\ left \in Nat
          /\ index = dirItems + left /\ itemsCount = dirItems + F + rest
      BY <1>2, <2>1, <2>3
    <3>2. index \in 0..(itemsCount - 1)
      OBVIOUS
    <3> HIDE DEF dirItems, rest, left, F
    <3>3. left < F + rest
      BY ONLY <3>1, <3>2
    <3> QED
      BY <3>3 DEF rest
  <2> HIDE DEF F
  <2> HIDE DEF left, walk
  <2>5. /\ AllItems \in Seq(Item) /\ Len(AllItems) = itemsCount
        /\ \A k \in 1..F : AllItems[e[N] + k] = <<files[k], 0>>
        /\ \A k \in 1..Len(streams) : AllItems[e[N] + F + k] = <<streams[k], 0>>
    BY <1>1, <1>2, AllItemsListed DEF F
  <2>6. AllItems[index + 1] \in Item
    BY <1>1, <2>5
  <2>7. CASE left < F
    <3>1. left + 1 \in 1..F /\ e[N] + (left + 1) = index + 1
      BY <2>1, <2>3, <2>7
    <3>2. InFiles(left) = <<files[left + 1], 0>>
      BY <2>7, Zenon DEF InFiles, F
    <3> QED
      BY <2>2, <2>5, <2>6, <3>1, <3>2, Zenon
  <2>8. CASE ~(left < F)
    <3>1. left - F + 1 \in 1..Len(streams) /\ e[N] + F + (left - F + 1) = index + 1
      BY <2>1, <2>3, <2>4, <2>8
    <3>2. InFiles(left) = <<streams[left - F + 1], 0>>
      BY <2>8, Zenon DEF InFiles, F
    <3> QED
      BY <2>2, <2>5, <2>6, <3>1, <3>2, Zenon
  <2> QED
    BY <2>7, <2>8
<1> QED
  BY <1>15, <1>16

----------------------------------------------------------------------------
(* The archive is told what was added. *)

\* The parts of TypeOK that the steps disturb.
BooleansOK ==
    archive \in BOOLEAN /\ opening \in BOOLEAN /\ compressing \in BOOLEAN /\ outOpen \in BOOLEAN

ListsOK ==
    /\ paths \in Seq(Dirs \cup Files) /\ files \in Seq(Files)
    /\ subDirs \in Seq(SubDir) /\ streams \in Seq(Streams)
    /\ itemsCount \in 0..MaxItems

Source == [index : 0..MaxItems, item : Item \cup {NoItem}, stream : {"none", "closed", "open"}]

UpdateOK ==
    /\ next \in 0..itemsCount
    /\ names \in Seq(Item) /\ contents \in Seq(Item \cup {NoItem})
    /\ todo \in SUBSET (0..MaxItems)

\* Once open() has counted the items the lists do not change, and nothing is
\* compressed before.
Settled ==
    /\ archive \/ (\E t \in Threads : pc[t] = "openOut") => Listed
    /\ ~archive => next = 0
    /\ \A t \in Threads : pc[t] \in OpenPhases => opening /\ ~archive
    /\ \A t \in Threads : Compressing(t) => archive

\* After an archive the out-stream is never opened again.
Spent == archives \in Nat /\ (archives > 0 => ~outOpen /\ archive)

IsItem(k, item) == k \in 0..(itemsCount - 1) /\ item = AllItems[k + 1]

\* The items before the next one were named.
Named == Len(names) = next /\ \A k \in 1..next : names[k] = AllItems[k]

\* The items that are not left to read were read.
Read ==
    /\ todo \subseteq 0..(itemsCount - 1)
    /\ Len(contents) = itemsCount
    /\ \A k \in 0..(itemsCount - 1) : k \notin todo => contents[k + 1] = AllItems[k + 1]

\* What a call of compress() has done when it is where it is.
Stage(t) ==
    /\ Named /\ Read
    /\ pc[t] \in {"info", "property"} =>
          next < itemsCount /\ todo = 0..(itemsCount - 1) /\ IsItem(source.index, source.item)
    /\ pc[t] \in {"streams", "read", "readDone", "finish"} => next = itemsCount
    /\ pc[t] = "streams" /\ source.index \in todo => IsItem(source.index, source.item)
    /\ pc[t] \in {"read", "readDone"} =>
          source.index \in todo /\ IsItem(source.index, contents[source.index + 1])
    /\ pc[t] = "finish" => todo = {}
    /\ pc[t] = "compressEnd" /\ answer = "S_OK" => next = itemsCount /\ todo = {} /\ archives = 0

Staged == \A t \in Threads : Compressing(t) => Stage(t)

CInv == BooleansOK /\ ListsOK /\ source \in Source /\ UpdateOK /\ Settled /\ Spent /\ Staged

\* The types are all there.
LEMMA TypeParts == IInv /\ CInv => TypeOK
BY DEF IInv, FlagsOK, CInv, BooleansOK, ListsOK, Source, UpdateOK, Spent, TypeOK

\* A new encoder.
LEMMA InitCounts == Init => CInv
<1> SUFFICES ASSUME Init PROVE CInv
  OBVIOUS
<1> USE EncoderAssumption DEF Init
<1>1. BooleansOK
  BY DEF BooleansOK
<1>2. ListsOK
  <2>1. <<>> \in Seq(Dirs \cup Files) /\ <<>> \in Seq(Files)
    OBVIOUS
  <2>2. <<>> \in Seq(SubDir) /\ <<>> \in Seq(Streams)
    OBVIOUS
  <2> QED
    BY <2>1, <2>2 DEF ListsOK
<1>3. source \in Source
  BY DEF Source, NoSource
<1>4. UpdateOK
  <2>1. <<>> \in Seq(Item) /\ <<>> \in Seq(Item \cup {NoItem})
    OBVIOUS
  <2> QED
    BY <2>1 DEF UpdateOK
<1>5. Settled /\ Staged /\ Spent
  BY DEF Settled, Staged, Spent, OpenPhases, Compressing, CompressPhases, UpdatePhases
<1> QED
  BY <1>1, <1>2, <1>3, <1>4, <1>5 DEF CInv

\* The row of items hangs on the lists.
LEMMA SameItems ==
  ASSUME UNCHANGED itemVars
  PROVE  /\ AllItems' = AllItems
         /\ Listed => Listed'
         /\ ListsOK => ListsOK'
<1>1. AllItems' = AllItems
  BY DEF AllItems, itemVars
<1>2. Listed => Listed'
  BY DEF Listed, itemVars
<1>3. ListsOK => ListsOK'
  BY DEF ListsOK, itemVars
<1> QED
  BY <1>1, <1>2, <1>3

\* _source as it is set up for an item.
LEMMA SourceOfItem ==
  ASSUME Listed, source \in Source, NEW k \in 0..(itemsCount - 1),
         source.index = k => IsItem(source.index, source.item)
  PROVE  SourceAt(k) \in Source /\ SourceAt(k).index = k /\ SourceAt(k).item = AllItems[k + 1]
<1>1. Located(k) = AllItems[k + 1] /\ Located(k) \in Item
  BY LocatedListed
<1>2. itemsCount \in 1..MaxItems /\ MaxItems \in Nat /\ k \in 0..MaxItems
  BY EncoderAssumption DEF Listed
<1>3. CASE source.index = k
  BY <1>3 DEF SourceAt, IsItem
<1>4. CASE source.index # k
  <2> DEFINE stream == IF Located(k)[1] \in Streams THEN "closed" ELSE "none"
             item == Located(k)
  <2>1. SourceAt(k) = [index |-> k, item |-> item, stream |-> stream]
    BY <1>4, Zenon DEF SourceAt
  <2>2. stream \in {"none", "closed", "open"}
    OBVIOUS
  <2> HIDE DEF stream, item
  <2>3. SourceAt(k) \in Source /\ SourceAt(k).index = k /\ SourceAt(k).item = item
    <3>1. item \in Item
      BY <1>1 DEF item
    <3> QED
      BY <1>2, <2>1, <2>2, <3>1 DEF Source
  <2> QED
    BY <1>1, <2>3, Zenon DEF item
<1> QED
  BY <1>3, <1>4

\* _source as it is set up in the beginning.
LEMMA SourceOfFirst ==
  ASSUME Listed
  PROVE  /\ SourceAtStart \in Source
         /\ SourceAtStart.index = 0 /\ SourceAtStart.item = AllItems[1]
<1>1. itemsCount \in 1..MaxItems /\ MaxItems \in Nat /\ 0 \in 0..(itemsCount - 1) /\ 0 + 1 = 1
  BY EncoderAssumption DEF Listed
<1>2. Located(0) = AllItems[1] /\ Located(0) \in Item
  BY <1>1, LocatedListed
<1> DEFINE stream == IF Located(0)[1] \in Streams THEN "closed" ELSE "none"
           item == Located(0)
<1>3. SourceAtStart = [index |-> 0, item |-> item, stream |-> stream]
  BY Zenon DEF SourceAtStart
<1>4. stream \in {"none", "closed", "open"}
  OBVIOUS
<1> HIDE DEF stream, item
<1>5. SourceAtStart \in Source /\ SourceAtStart.index = 0 /\ SourceAtStart.item = item
  <2>1. item \in Item
    BY <1>2 DEF item
  <2> QED
    BY <1>1, <1>3, <1>4, <2>1 DEF Source
<1> QED
  BY <1>2, <1>5, Zenon DEF item

\* _source when it is closed, or the stream of it opened.
LEMMA SourceStays ==
  ASSUME NEW src \in Source, NEW x \in {"none", "closed", "open"}
  PROVE  /\ CloseSource(src) \in Source /\ CloseSource(src).index = src.index
         /\ [src EXCEPT !.stream = x] \in Source
         /\ [src EXCEPT !.stream = x].index = src.index
         /\ [src EXCEPT !.stream = x].item = src.item
BY DEF Source, CloseSource

\* What a call has done is not undone by others.
LEMMA StageKept ==
  ASSUME NEW t \in Threads, Compressing(t)', pc'[t] = pc[t], Staged,
         UNCHANGED <<itemVars, updateVars, answer, archives, source>>
  PROVE  Stage(t)'
<1>1. AllItems' = AllItems
  BY SameItems
<1>2. Compressing(t) /\ itemsCount' = itemsCount
  BY DEF Compressing, itemVars
<1>3. Stage(t)
  BY <1>2 DEF Staged
<1> QED
  BY <1>1, <1>2, <1>3 DEF Stage, Named, Read, IsItem, updateVars

\* Nobody is in compress() before there is an archive, nor when _compressing is not
\* set.
LEMMA NobodyCompresses ==
  ASSUME IInv, Settled, ~archive \/ ~compressing
  PROVE  \A t \in Threads : ~Compressing(t)
BY DEF IInv, OneCompressor, Settled

\* What is added is not counted yet.
LEMMA AddCounts == IInv /\ CInv /\ Add => CInv'
<1> SUFFICES ASSUME IInv, CInv, Add PROVE CInv'
  OBVIOUS
<1>1. /\ ~archive /\ \A t \in Threads : pc[t] \notin OpenPhases
      /\ UNCHANGED <<flagVars, updateVars, threadVars, subDirs, files, itemsCount, outOpen, source>>
  BY EncoderAssumption DEF Add, AddPath, AddStream, AddIsHeard, Unlocked, IInv, OneOpener
<1>2. BooleansOK'
  BY <1>1 DEF CInv, BooleansOK, flagVars
<1>3. ListsOK'
  <2>1. ASSUME NEW p \in Dirs \cup Files, AddPath(p) PROVE ListsOK'
    BY <2>1 DEF AddPath, CInv, ListsOK
  <2>2. ASSUME NEW s \in Streams, AddStream(s) PROVE ListsOK'
    BY <2>2 DEF AddStream, CInv, ListsOK
  <2> QED
    BY <2>1, <2>2 DEF Add
<1>4. source' \in Source /\ UpdateOK' /\ Spent'
  BY <1>1 DEF CInv, UpdateOK, Spent, flagVars, updateVars
<1>5. \A t \in Threads : ~Compressing(t)'
  <2>1. \A t \in Threads : ~Compressing(t)
    BY <1>1, NobodyCompresses DEF CInv
  <2> QED
    BY <1>1, <2>1 DEF Compressing, threadVars
<1>6. Settled' /\ Staged'
  BY <1>1, <1>5 DEF CInv, Settled, Staged, flagVars, updateVars, threadVars, OpenPhases
<1> QED
  BY <1>2, <1>3, <1>4, <1>6 DEF CInv

\* The paths become lists of items, as many as are counted.
LEMMA OpenScanCounts ==
  ASSUME IInv, CInv, NEW t \in Threads, OpenScan(t)
  PROVE  CInv'
<1>1. /\ pc[t] = "scan" /\ ~archive /\ next = 0 /\ opening
      /\ UNCHANGED <<updateVars, archive, opening, compressing, archives, streams, outOpen, source>>
  BY DEF OpenScan, CInv, Settled, OpenPhases
<1>2. MaxItems \in Nat /\ MaxItems >= 1
  BY EncoderAssumption
<1>3. BooleansOK' /\ source' \in Source /\ Spent'
  BY <1>1 DEF CInv, BooleansOK, Spent
<1>4. \A u \in Threads : ~Compressing(u)'
  <2>1. \A u \in Threads : ~Compressing(u)
    BY <1>1, NobodyCompresses DEF CInv
  <2>2. pc'[t] \in {"idle", "openOut"} /\ \A u \in Threads \ {t} : pc'[u] = pc[u]
    BY DEF OpenScan, GoOn, Return, Goto, IInv, FlagsOK
  <2> QED
    BY <2>1, <2>2 DEF Compressing, CompressPhases, UpdatePhases
<1>5. Staged'
  BY <1>4 DEF Staged
<1>6. \A u \in Threads : pc'[u] \in OpenPhases => pc[u] \in OpenPhases
  BY <1>1 DEF OpenScan, GoOn, Return, Goto, IInv, FlagsOK, OpenPhases
<1>7. (\A u \in Threads : pc'[u] \in OpenPhases => opening' /\ ~archive')
      /\ (\A u \in Threads : Compressing(u)' => archive') /\ (~archive' => next' = 0)
  BY <1>1, <1>4, <1>6 DEF updateVars
<1>8. PICK listing \in [Dirs -> 0..MaxDirFiles] :
          \/ LET done == Processed(Len(paths), listing)
                 count == done.count + Len(streams)
             IN  /\ subDirs' = done.dirs /\ files' = done.files
                 /\ paths' = <<>>
                 /\ IF IsSupported(count)
                    THEN itemsCount' = count /\ GoOn(t, "openOut") /\ UNCHANGED mutex
                    ELSE /\ mutex' = NoThread /\ UNCHANGED itemsCount
                         /\ Return(t, IF count = 0 THEN "false" ELSE "thrown")
          \/ /\ \E read \in DOMAIN paths :
                   LET done == Processed(read - 1, listing)
                   IN  subDirs' = done.dirs /\ files' = done.files
             /\ Return(t, "thrown")
             /\ UNCHANGED <<paths, itemsCount>>
  BY Zenon DEF OpenScan
<1>9. /\ paths \in Seq(Dirs \cup Files) /\ streams \in Seq(Streams) /\ itemsCount \in 0..MaxItems
      /\ Len(paths) \in 0..Len(paths)
  BY DEF CInv, ListsOK
<1>10. \A u \in Threads : pc[u] \in OpenPhases => u = t
  BY <1>1, EncoderAssumption DEF IInv, OneOpener, OpenPhases
<1>11. ListsOK' /\ UpdateOK' /\ Settled'
  <2>1. CASE \E read \in DOMAIN paths :
                /\ subDirs' = Processed(read - 1, listing).dirs
                /\ files' = Processed(read - 1, listing).files
                /\ Return(t, "thrown") /\ UNCHANGED <<paths, itemsCount>>
    <3>1. PICK read \in DOMAIN paths :
                /\ subDirs' = Processed(read - 1, listing).dirs
                /\ files' = Processed(read - 1, listing).files
                /\ Return(t, "thrown") /\ UNCHANGED <<paths, itemsCount>>
      BY <2>1
    <3>2. read - 1 \in 0..Len(paths)
      BY <1>9
    <3>3. Processed(read - 1, listing) \in Exact
      BY <1>9, <3>2, ProcessedExact
    <3>4. subDirs' \in Seq(SubDir) /\ files' \in Seq(Files)
      BY <3>1, <3>3 DEF Exact, Done
    <3>5. pc'[t] = "idle" /\ \A u \in Threads \ {t} : pc'[u] = pc[u]
      BY <3>1 DEF Return, Goto, IInv, FlagsOK
    <3>6. ~ \E u \in Threads : pc'[u] = "openOut"
      BY <1>10, <3>5 DEF OpenPhases
    <3> QED
      BY <1>1, <1>7, <1>9, <3>1, <3>4, <3>6 DEF ListsOK, UpdateOK, Settled, CInv, updateVars
  <2>2. CASE LET done == Processed(Len(paths), listing)
                 count == done.count + Len(streams)
             IN  /\ subDirs' = done.dirs /\ files' = done.files
                 /\ paths' = <<>>
                 /\ IF IsSupported(count)
                    THEN itemsCount' = count /\ GoOn(t, "openOut") /\ UNCHANGED mutex
                    ELSE /\ mutex' = NoThread /\ UNCHANGED itemsCount
                         /\ Return(t, IF count = 0 THEN "false" ELSE "thrown")
    <3> DEFINE done == Processed(Len(paths), listing)
               count == done.count + Len(streams)
    <3>1. done \in Exact
      BY <1>9, ProcessedExact
    <3> HIDE DEF done
    <3>2. /\ done.dirs \in Seq(SubDir) /\ done.files \in Seq(Files) /\ done.count \in Nat
          /\ \E n \in Nat : Hold(done.dirs, n) /\ done.count = n + Len(done.files)
      BY <3>1 DEF Exact, Done
    <3>3. /\ subDirs' = done.dirs /\ files' = done.files /\ paths' = <<>>
          /\ <<>> \in Seq(Dirs \cup Files)
      BY <2>2 DEF done
    <3>4. CASE IsSupported(count)
      <4>1. itemsCount' = count /\ count \in 1..MaxItems
        BY <2>2, <3>4 DEF done, IsSupported
      <4>2. streams' = streams
        BY <1>1
      <4> HIDE DEF count
      <4>3. Listed'
        <5>1. PICK n \in Nat : Hold(subDirs', n) /\ done.count = n + Len(files')
          BY <3>2, <3>3
        <5>2. itemsCount' = n + Len(files') + Len(streams')
          BY <4>1, <4>2, <5>1 DEF count
        <5>3. Hold(subDirs, n)'
          BY <5>1 DEF Hold, Ends
        <5> QED
          BY <1>9, <3>2, <3>3, <4>1, <4>2, <5>2, <5>3 DEF Listed
      <4>4. ListsOK'
        BY <1>2, <1>9, <3>2, <3>3, <4>1, <4>2 DEF ListsOK
      <4>5. UpdateOK'
        BY <1>1, <4>1 DEF UpdateOK, CInv, updateVars
      <4> QED
        BY <1>7, <4>3, <4>4, <4>5 DEF Settled
    <3>5. CASE ~IsSupported(count)
      <4>1. itemsCount' = itemsCount /\ \E outcome : Return(t, outcome)
        BY <2>2, <3>5 DEF done
      <4>2. pc'[t] = "idle" /\ \A u \in Threads \ {t} : pc'[u] = pc[u]
        BY <4>1 DEF Return, Goto, IInv, FlagsOK
      <4>3. ~ \E u \in Threads : pc'[u] = "openOut"
        BY <1>10, <4>2 DEF OpenPhases
      <4>4. ListsOK'
        BY <1>1, <1>9, <3>2, <3>3, <4>1 DEF ListsOK
      <4>5. UpdateOK'
        BY <1>1, <4>1 DEF UpdateOK, CInv, updateVars
      <4> QED
        BY <1>1, <1>7, <4>3, <4>4, <4>5 DEF Settled
    <3> QED
      BY <3>4, <3>5
  <2> QED
    BY <1>8, <2>1, <2>2
<1> QED
  BY <1>3, <1>5, <1>11 DEF CInv

\* The archive is created when the items are counted.
LEMMA OpenOutCounts ==
  ASSUME IInv, CInv, NEW t \in Threads, OpenOut(t)
  PROVE  CInv'
<1>1. /\ pc[t] = "openOut" /\ ~archive /\ opening /\ Listed
      /\ UNCHANGED <<itemVars, updateVars, compressing, archives, source>>
  BY DEF OpenOut, CInv, Settled, OpenPhases
<1>2. pc'[t] = "idle" /\ \A u \in Threads \ {t} : pc'[u] = pc[u]
  BY DEF OpenOut, Return, Goto, IInv, FlagsOK
<1>3. BooleansOK'
  <2>1. opening' \in BOOLEAN
    BY Zenon DEF OpenOut, CInv, BooleansOK
  <2>2. archive' \in BOOLEAN
    BY Zenon DEF OpenOut
  <2>3. outOpen' \in BOOLEAN
    <3>1. outOpen' = TRUE \/ \E out \in {TRUE, outOpen} : outOpen' = out
      BY Zenon DEF OpenOut
    <3> QED
      BY <3>1 DEF CInv, BooleansOK
  <2> QED
    BY <1>1, <2>1, <2>2, <2>3 DEF CInv, BooleansOK
<1>4. \A u \in Threads : ~Compressing(u)'
  <2>1. \A u \in Threads : ~Compressing(u)
    BY <1>1, NobodyCompresses DEF CInv
  <2> QED
    BY <1>2, <2>1 DEF Compressing, CompressPhases, UpdatePhases
<1>5. \A u \in Threads : pc'[u] \notin OpenPhases
  <2>1. \A u \in Threads : pc[u] \in OpenPhases => u = t
    BY <1>1, EncoderAssumption DEF IInv, OneOpener, OpenPhases
  <2> QED
    BY <1>2, <2>1 DEF OpenPhases
<1>6. Settled' /\ Staged'
  BY <1>1, <1>4, <1>5, SameItems DEF Settled, Staged, CInv, updateVars
<1>7. ListsOK' /\ source' \in Source /\ UpdateOK' /\ Spent'
  BY <1>1, SameItems DEF CInv, UpdateOK, Spent, updateVars, itemVars
<1> QED
  BY <1>3, <1>6, <1>7 DEF CInv

\* The calls that leave the items alone.
LEMMA RestCounts ==
  ASSUME IInv, CInv, NEW t \in Threads,
         OpenRefused(t) \/ OpenStart(t) \/ CompressRefused(t) \/ AbortCall(t) \/ Abort(t)
  PROVE  CInv'
<1>1. /\ UNCHANGED <<itemVars, updateVars, archive, compressing, archives, answer>>
      /\ \A u \in Threads \ {t} : pc'[u] = pc[u]
      /\ pc'[t] \in {"idle", "scan", "abort"} /\ pc[t] \in {"idle", "abort"}
      /\ pc'[t] = "scan" => opening' /\ ~archive'
  BY AbortEffect DEF OpenRefused, OpenStart, CompressRefused, AbortCall, Abort, flagVars,
     OpenMayStart, GoOn, Return, Goto, IInv, FlagsOK
<1>2. opening' \in {opening, TRUE} /\ outOpen' \in {outOpen, FALSE}
  BY DEF OpenRefused, OpenStart, CompressRefused, AbortCall, Abort, flagVars
<1>3. /\ source' \in {source, CloseSource(source)}
      /\ compressing => source' = source
  BY AbortEffect DEF OpenRefused, OpenStart, CompressRefused, AbortCall, flagVars
<1>4. BooleansOK'
  BY <1>1, <1>2 DEF CInv, BooleansOK
<1>5. source' \in Source
  BY <1>3, SourceStays DEF CInv
<1>6. ListsOK' /\ UpdateOK' /\ Spent'
  <2>1. outOpen' => outOpen
    BY <1>2, Zenon
  <2> QED
    BY <1>1, <2>1, SameItems DEF CInv, UpdateOK, Spent, updateVars, itemVars
<1>7. Settled'
  <2>1. opening => opening'
    BY <1>2
  <2>2. \A u \in Threads : pc'[u] \in OpenPhases \/ Compressing(u)' => u # t \/ pc'[t] = "scan"
    BY <1>1 DEF OpenPhases, Compressing, CompressPhases, UpdatePhases
  <2> QED
    BY <1>1, <2>1, <2>2, SameItems DEF Settled, CInv, updateVars, OpenPhases, Compressing,
       CompressPhases, UpdatePhases
<1>8. Staged'
  <2> SUFFICES ASSUME NEW u \in Threads, Compressing(u)' PROVE Stage(u)'
    BY DEF Staged
  <2>1. u # t /\ pc'[u] = pc[u]
    BY <1>1 DEF Compressing, CompressPhases, UpdatePhases
  <2>2. compressing
    BY <2>1 DEF IInv, OneCompressor, Compressing
  <2> QED
    BY <1>1, <1>3, <2>1, <2>2, StageKept DEF CInv
<1> QED
  BY <1>4, <1>5, <1>6, <1>7, <1>8 DEF CInv

----------------------------------------------------------------------------
\* A step of compress() that keeps to its own state.
LEMMA CompressKeeps ==
  ASSUME IInv, CInv, Next, NEW t \in Threads, Compressing(t)',
         UNCHANGED <<itemVars, flagVars>>, outOpen' = outOpen,
         \A u \in Threads \ {t} : pc'[u] = pc[u],
         source' \in Source, UpdateOK', Stage(t)'
  PROVE  CInv'
<1>1. ListsOK' /\ BooleansOK' /\ Spent'
  BY SameItems DEF CInv, BooleansOK, Spent, flagVars
<1>2. archive
  <2>1. compressing
    BY NextApart DEF OneCompressor, flagVars
  <2> QED
    BY <2>1 DEF IInv, OneCompressor, CInv, Settled
<1>3. Settled'
  <2>1. pc'[t] \notin OpenPhases
    BY DEF Compressing, OpenPhases, CompressPhases, UpdatePhases
  <2> QED
    BY <1>2, <2>1, SameItems DEF CInv, Settled, flagVars
<1>4. Staged'
  BY NextApart DEF Staged, OneCompressor
<1> QED
  BY <1>1, <1>3, <1>4 DEF CInv

\* How a call of the archive is answered.
LEMMA AnswerEffect ==
  ASSUME IInv, NEW t \in Threads, NEW hresult, NEW phase, Answer(t, hresult, phase)
  PROVE  /\ answer' = hresult
         /\ hresult = "S_OK" => pc'[t] = phase
         /\ hresult # "S_OK" => pc'[t] = "compressEnd"
         /\ \A u \in Threads \ {t} : pc'[u] = pc[u]
BY DEF Answer, GoOn, Goto, IInv, FlagsOK

\* What a thread in compress() can rely on.
LEMMA AtWork ==
  ASSUME IInv, CInv, NEW t \in Threads, Compressing(t)
  PROVE  /\ Listed /\ archive /\ compressing /\ Stage(t) /\ Named /\ Read
         /\ itemsCount \in 1..MaxItems /\ MaxItems \in Nat /\ next \in 0..itemsCount
         /\ source \in Source /\ names \in Seq(Item) /\ contents \in Seq(Item \cup {NoItem})
         /\ todo \in SUBSET (0..MaxItems) /\ AllItems \in Seq(Item)
         /\ Len(AllItems) = itemsCount
<1>1. Listed /\ archive /\ compressing /\ Stage(t) /\ Named /\ Read
  BY DEF CInv, Settled, Staged, Stage, IInv, OneCompressor
<1>2. itemsCount \in 1..MaxItems /\ MaxItems \in Nat
  BY <1>1, EncoderAssumption DEF Listed
<1>3. AllItems \in Seq(Item) /\ Len(AllItems) = itemsCount
  <2>1. PICK e : /\ Ends(subDirs, e)
                 /\ itemsCount = e[Len(subDirs)] + Len(files) + Len(streams)
    BY <1>1 DEF Listed, Hold
  <2> QED
    BY <1>1, <2>1, AllItemsListed DEF Listed
<1> QED
  BY <1>1, <1>2, <1>3 DEF CInv, UpdateOK

\* The archive asks what an item is.
LEMMA InfoCounts ==
  ASSUME IInv, CInv, Next, NEW t \in Threads, GetUpdateItemInfo(t)
  PROVE  CInv'
<1>1. /\ pc[t] = "info" /\ Compressing(t)
      /\ UNCHANGED <<itemVars, flagVars, updateVars, outOpen>>
      /\ AboutItem(t, next, "property") \/ Stopped(t)
  BY DEF GetUpdateItemInfo, Compressing, CompressPhases, UpdatePhases
<1>2. /\ next < itemsCount /\ todo = 0..(itemsCount - 1) /\ IsItem(source.index, source.item)
      /\ Named /\ Read /\ Listed /\ source \in Source /\ next \in 0..itemsCount
      /\ itemsCount \in 1..MaxItems
  BY <1>1, AtWork DEF Stage
<1>3. next \in 0..(itemsCount - 1)
  BY ONLY <1>2
<1>4. AllItems' = AllItems /\ itemsCount' = itemsCount
  BY <1>1, SameItems DEF itemVars
<1>5. Named' /\ Read' /\ UpdateOK'
  BY <1>1, <1>2, <1>4 DEF Named, Read, updateVars, UpdateOK, CInv
<1>6. CASE Stopped(t)
  <2>1. /\ source' = source /\ answer' # "S_OK" /\ pc'[t] = "compressEnd"
        /\ \A u \in Threads \ {t} : pc'[u] = pc[u]
    BY <1>6, AnswerEffect DEF Stopped
  <2>2. Stage(t)'
    BY <1>5, <2>1 DEF Stage
  <2> QED
    BY <1>1, <1>2, <1>5, <2>1, <2>2, CompressKeeps DEF Compressing, CompressPhases
<1>7. CASE AboutItem(t, next, "property")
  <2>1. /\ source' = SourceAt(next)
        /\ \/ answer' = "S_OK" /\ pc'[t] = "property"
           \/ answer' = "E_FAIL" /\ pc'[t] = "compressEnd"
        /\ \A u \in Threads \ {t} : pc'[u] = pc[u]
    BY <1>7, AnswerEffect DEF AboutItem
  <2>2. source' \in Source /\ source'.index = next /\ source'.item = AllItems[next + 1]
    BY <1>2, <1>3, <2>1, SourceOfItem
  <2>3. Stage(t)'
    BY <1>1, <1>2, <1>3, <1>4, <1>5, <2>1, <2>2 DEF Stage, IsItem, updateVars
  <2> QED
    BY <1>1, <1>5, <2>1, <2>2, <2>3, CompressKeeps DEF Compressing, CompressPhases, UpdatePhases
<1> QED
  BY <1>1, <1>6, <1>7

\* It takes the item's name.
LEMMA PropertyCounts ==
  ASSUME IInv, CInv, Next, NEW t \in Threads, GetProperty(t)
  PROVE  CInv'
<1>1. /\ pc[t] = "property" /\ Compressing(t)
      /\ UNCHANGED <<itemVars, flagVars, todo, contents, outOpen>>
      /\ \/ /\ AboutItem(t, next, IF next + 1 = itemsCount THEN "streams" ELSE "info")
            /\ names' = Append(names, source'.item)
            /\ next' = next + 1
         \/ Stopped(t) /\ UNCHANGED <<names, next>>
  BY DEF GetProperty, Compressing, CompressPhases, UpdatePhases
<1>2. /\ next < itemsCount /\ todo = 0..(itemsCount - 1) /\ IsItem(source.index, source.item)
      /\ Named /\ Read /\ Listed /\ source \in Source /\ next \in 0..itemsCount
      /\ itemsCount \in 1..MaxItems /\ names \in Seq(Item)
      /\ AllItems \in Seq(Item) /\ Len(AllItems) = itemsCount
  BY <1>1, AtWork DEF Stage
<1>3. next \in 0..(itemsCount - 1) /\ next + 1 \in 1..itemsCount /\ next \in Nat
  BY ONLY <1>2
<1>4. AllItems' = AllItems /\ itemsCount' = itemsCount
  BY <1>1, SameItems DEF itemVars
<1>5. Read'
  BY <1>1, <1>2, <1>4 DEF Read
<1>6. CASE Stopped(t) /\ UNCHANGED <<names, next>>
  <2>1. /\ source' = source /\ answer' # "S_OK" /\ pc'[t] = "compressEnd"
        /\ \A u \in Threads \ {t} : pc'[u] = pc[u]
    BY <1>6, AnswerEffect DEF Stopped
  <2>2. Named' /\ UpdateOK'
    BY <1>1, <1>2, <1>4, <1>6 DEF Named, UpdateOK, CInv
  <2>3. Stage(t)'
    BY <1>5, <2>1, <2>2 DEF Stage
  <2> QED
    BY <1>1, <1>2, <2>1, <2>2, <2>3, CompressKeeps DEF Compressing, CompressPhases
<1>7. CASE /\ AboutItem(t, next, IF next + 1 = itemsCount THEN "streams" ELSE "info")
           /\ names' = Append(names, source'.item)
           /\ next' = next + 1
  <2>1. /\ source' = SourceAt(next)
        /\ \/ answer' = "S_OK" /\ pc'[t] = IF next + 1 = itemsCount THEN "streams" ELSE "info"
           \/ answer' = "E_FAIL" /\ pc'[t] = "compressEnd"
        /\ \A u \in Threads \ {t} : pc'[u] = pc[u]
    BY <1>7, AnswerEffect DEF AboutItem
  <2>2. source' \in Source /\ source'.index = next /\ source'.item = AllItems[next + 1]
    BY <1>2, <1>3, <2>1, SourceOfItem
  <2>3. AllItems[next + 1] \in Item
    BY <1>2, <1>3
  <2>4. /\ names' \in Seq(Item) /\ Len(names') = Len(names) + 1
        /\ names'[Len(names) + 1] = AllItems[next + 1]
        /\ \A k \in 1..Len(names) : names'[k] = names[k]
    BY <1>2, <1>7, <2>2, <2>3
  <2>5. Named'
    <3>1. Len(names) = next /\ \A k \in 1..next : names[k] = AllItems[k]
      BY <1>2 DEF Named
    <3>2. ASSUME NEW k \in 1..(next + 1) PROVE names'[k] = AllItems[k]
      <4>1. k \in 1..next \/ k = next + 1
        BY <1>3
      <4> QED
        BY <2>4, <3>1, <4>1, Zenon
    <3> QED
      BY <1>3, <1>4, <1>7, <2>4, <3>1, <3>2 DEF Named
  <2>6. UpdateOK'
    BY <1>1, <1>3, <1>4, <1>7, <2>4 DEF UpdateOK, CInv
  <2>7. Stage(t)'
    <3>1. CASE next + 1 = itemsCount
      BY <1>1, <1>2, <1>3, <1>4, <1>5, <1>7, <2>1, <2>2, <2>5, <3>1 DEF Stage, IsItem
    <3>2. CASE next + 1 # itemsCount
      <4>1. next' < itemsCount
        <5>1. next' = next + 1 /\ itemsCount \in Nat
          BY <1>2, <1>7
        <5> QED
          BY ONLY <1>3, <3>2, <5>1
      <4> QED
        BY <1>1, <1>2, <1>3, <1>4, <1>5, <1>7, <2>1, <2>2, <2>5, <3>2, <4>1 DEF Stage, IsItem
    <3> QED
      BY <3>1, <3>2
  <2> QED
    BY <1>1, <2>1, <2>2, <2>6, <2>7, CompressKeeps DEF Compressing, CompressPhases, UpdatePhases
<1> QED
  BY <1>1, <1>6, <1>7

\* It opens an item that is left to read.
LEMMA StreamCounts ==
  ASSUME IInv, CInv, Next, NEW t \in Threads, GetStream(t)
  PROVE  CInv'
<1>1. /\ pc[t] = "streams" /\ Compressing(t)
      /\ UNCHANGED <<itemVars, flagVars, next, names, todo, outOpen>>
  BY DEF GetStream, Compressing, CompressPhases, UpdatePhases
<1>2. PICK i \in todo :
        \/ /\ source' = [SourceAt(i) EXCEPT !.stream = "open"]
           /\ Answer(t, "S_OK", "read") \/ Answer(t, "E_FAIL", "read")
           /\ contents' = [contents EXCEPT ![i + 1] = source'.item]
        \/ /\ source' = [SourceAt(i) EXCEPT !.stream = "closed"]
           /\ Answer(t, "E_FAIL", "read")
           /\ UNCHANGED contents
        \/ Stopped(t) /\ UNCHANGED contents
  BY DEF GetStream
<1>3. /\ next = itemsCount /\ Named /\ Read /\ Listed /\ source \in Source
      /\ source.index \in todo => IsItem(source.index, source.item)
      /\ itemsCount \in 1..MaxItems /\ contents \in Seq(Item \cup {NoItem})
      /\ AllItems \in Seq(Item) /\ Len(AllItems) = itemsCount
  BY <1>1, AtWork DEF Stage
<1>4. i \in 0..(itemsCount - 1) /\ i + 1 \in 1..itemsCount /\ Len(contents) = itemsCount
  BY <1>3 DEF Read
<1>5. AllItems' = AllItems /\ itemsCount' = itemsCount
  BY <1>1, SameItems DEF itemVars
<1>6. Named'
  BY <1>1, <1>3, <1>5 DEF Named
<1> DEFINE src == SourceAt(i)
<1>7. src \in Source /\ src.index = i /\ src.item = AllItems[i + 1]
  BY <1>3, <1>4, SourceOfItem
<1> HIDE DEF src
<1>8. CASE \/ /\ source' = [src EXCEPT !.stream = "closed"]
              /\ Answer(t, "E_FAIL", "read")
              /\ UNCHANGED contents
           \/ Stopped(t) /\ UNCHANGED contents
  <2>1. /\ source' \in {source, [src EXCEPT !.stream = "closed"]} /\ contents' = contents
        /\ answer' # "S_OK" /\ pc'[t] = "compressEnd"
        /\ \A u \in Threads \ {t} : pc'[u] = pc[u]
    BY <1>8, AnswerEffect DEF Stopped
  <2>2. source' \in Source
    BY <1>3, <1>7, <2>1, SourceStays
  <2>3. Read' /\ UpdateOK'
    BY <1>1, <1>3, <1>5, <2>1 DEF Read, UpdateOK, CInv
  <2>4. Stage(t)'
    BY <1>6, <2>1, <2>3 DEF Stage
  <2> QED
    BY <1>1, <2>1, <2>2, <2>3, <2>4, CompressKeeps DEF Compressing, CompressPhases
<1>9. CASE /\ source' = [src EXCEPT !.stream = "open"]
           /\ Answer(t, "S_OK", "read") \/ Answer(t, "E_FAIL", "read")
           /\ contents' = [contents EXCEPT ![i + 1] = source'.item]
  <2>1. /\ \/ answer' = "S_OK" /\ pc'[t] = "read"
           \/ answer' = "E_FAIL" /\ pc'[t] = "compressEnd"
        /\ \A u \in Threads \ {t} : pc'[u] = pc[u]
    BY <1>9, AnswerEffect
  <2>2. source' \in Source /\ source'.index = i /\ source'.item = AllItems[i + 1]
    BY <1>7, <1>9, SourceStays, Zenon
  <2>3. AllItems[i + 1] \in Item
    BY <1>3, <1>4
  <2>4. /\ contents' \in Seq(Item \cup {NoItem}) /\ Len(contents') = itemsCount
        /\ contents'[i + 1] = AllItems[i + 1]
        /\ \A k \in 1..itemsCount : k # i + 1 => contents'[k] = contents[k]
    <3>1. contents' = [contents EXCEPT ![i + 1] = AllItems[i + 1]]
      BY <1>9, <2>2, Zenon
    <3> QED
      BY <1>3, <1>4, <2>3, <3>1
  <2>5. Read'
    <3>1. todo \subseteq 0..(itemsCount - 1)
      BY <1>3 DEF Read
    <3>2. ASSUME NEW k \in 0..(itemsCount - 1), k \notin todo
          PROVE  contents'[k + 1] = AllItems[k + 1]
      <4>1. contents[k + 1] = AllItems[k + 1]
        BY <1>3, <3>2 DEF Read
      <4>2. k + 1 \in 1..itemsCount /\ k + 1 # i + 1
        BY <1>3, <1>4, <3>2
      <4> QED
        BY <2>4, <4>1, <4>2, Zenon
    <3> QED
      BY <1>1, <1>5, <2>4, <3>1, <3>2 DEF Read
  <2>6. UpdateOK'
    BY <1>1, <1>5, <2>4 DEF UpdateOK, CInv
  <2>7. Stage(t)'
    BY <1>1, <1>3, <1>4, <1>5, <1>6, <2>1, <2>2, <2>4, <2>5 DEF Stage, IsItem
  <2> QED
    BY <1>1, <2>1, <2>2, <2>6, <2>7, CompressKeeps DEF Compressing, CompressPhases, UpdatePhases
<1> QED
  BY <1>2, <1>8, <1>9 DEF src

\* It reads the item, and reports as it goes.
LEMMA ReadCounts ==
  ASSUME IInv, CInv, Next, NEW t \in Threads, ReadItem(t) \/ ReportProgress(t)
  PROVE  CInv'
<1>1. /\ pc[t] \in {"streams", "read"} /\ Compressing(t)
      /\ UNCHANGED <<itemVars, flagVars, updateVars, outOpen, source>>
  BY DEF ReadItem, ReportProgress, Compressing, CompressPhases, UpdatePhases
<1>2. /\ \/ answer' = "S_OK" /\ pc[t] = "read" /\ pc'[t] = "readDone"
         \/ answer' # "S_OK" /\ pc'[t] = "compressEnd"
      /\ \A u \in Threads \ {t} : pc'[u] = pc[u]
  BY AnswerEffect DEF ReadItem, ReportProgress
<1>3. Stage(t) /\ source \in Source
  BY <1>1, AtWork
<1>4. AllItems' = AllItems /\ itemsCount' = itemsCount
  BY <1>1, SameItems DEF itemVars
<1>5. Stage(t)'
  BY <1>1, <1>2, <1>3, <1>4 DEF Stage, Named, Read, IsItem, updateVars
<1>6. UpdateOK' /\ source' \in Source
  BY <1>1, <1>3, <1>4 DEF CInv, UpdateOK, updateVars
<1> QED
  BY <1>1, <1>2, <1>5, <1>6, CompressKeeps DEF Compressing, CompressPhases, UpdatePhases

\* What was read is not read again.
LEMMA ResultCounts ==
  ASSUME IInv, CInv, Next, NEW t \in Threads, SetOperationResult(t)
  PROVE  CInv'
<1>1. /\ pc[t] = "readDone" /\ Compressing(t)
      /\ UNCHANGED <<itemVars, flagVars, next, names, contents, outOpen>>
      /\ source' \in {source, CloseSource(source)} /\ todo' = todo \ {source.index}
      /\ Answer(t, result', IF todo' = {} THEN "finish" ELSE "streams")
  BY DEF SetOperationResult, Remaining, Compressing, CompressPhases, UpdatePhases
<1>2. /\ \/ answer' = "S_OK" /\ pc'[t] = IF todo' = {} THEN "finish" ELSE "streams"
         \/ answer' # "S_OK" /\ pc'[t] = "compressEnd"
      /\ \A u \in Threads \ {t} : pc'[u] = pc[u]
  BY <1>1, AnswerEffect
<1>3. /\ source \in Source /\ Named /\ Read /\ next = itemsCount /\ itemsCount \in 1..MaxItems
      /\ source.index \in todo /\ IsItem(source.index, contents[source.index + 1])
      /\ todo \in SUBSET (0..MaxItems)
  BY <1>1, AtWork DEF Stage
<1>4. AllItems' = AllItems /\ itemsCount' = itemsCount
  BY <1>1, SameItems DEF itemVars
<1>5. source' \in Source /\ source'.index = source.index
  BY <1>1, <1>3, SourceStays
<1>6. Named' /\ UpdateOK'
  BY <1>1, <1>3, <1>4 DEF Named, UpdateOK, CInv
<1>7. Read'
  BY <1>1, <1>3, <1>4 DEF Read, IsItem
<1>8. Stage(t)'
  BY <1>1, <1>2, <1>3, <1>4, <1>5, <1>6, <1>7 DEF Stage
<1> QED
  BY <1>1, <1>2, <1>5, <1>6, <1>8, CompressKeeps DEF Compressing, CompressPhases, UpdatePhases

\* The archive is written when there is an out-stream to write to.
LEMMA FinishCounts ==
  ASSUME IInv, CInv, Next, NEW t \in Threads, Finish(t)
  PROVE  CInv'
<1>1. /\ pc[t] = "finish" /\ Compressing(t) /\ pc'[t] = "compressEnd"
      /\ UNCHANGED <<itemVars, flagVars, updateVars, outOpen, source>>
      /\ answer' = "E_FAIL" \/ (answer' = "S_OK" /\ outOpen)
      /\ \A u \in Threads \ {t} : pc'[u] = pc[u]
  BY DEF Finish, GoOn, Goto, IInv, FlagsOK, Compressing, CompressPhases, UpdatePhases
<1>2. Stage(t) /\ source \in Source
  BY <1>1, AtWork
<1>3. AllItems' = AllItems /\ itemsCount' = itemsCount
  BY <1>1, SameItems DEF itemVars
<1>4. answer' = "S_OK" => archives = 0 /\ archives' = 0
  <2>1. outOpen => archives = 0
    BY DEF CInv, Spent
  <2> QED
    BY <1>1, <2>1 DEF flagVars
<1>5. Stage(t)'
  BY <1>1, <1>2, <1>3, <1>4 DEF Stage, Named, Read, updateVars
<1>6. UpdateOK' /\ source' \in Source
  BY <1>1, <1>2, <1>3 DEF CInv, UpdateOK, updateVars
<1> QED
  BY <1>1, <1>5, <1>6, CompressKeeps DEF Compressing, CompressPhases

\* compress() begins with the first item.
LEMMA StartCounts ==
  ASSUME IInv, CInv, Next, NEW t \in Threads, CompressStart(t)
  PROVE  CInv'
<1>1. /\ archive /\ ~compressing /\ pc[t] = "idle"
      /\ UNCHANGED <<itemVars, mutex, archive, opening, archives, outOpen>>
      /\ source' = SourceAtStart
  BY DEF CompressStart, CompressMayStart
<1>2. Listed /\ itemsCount \in 1..MaxItems /\ MaxItems \in Nat /\ ListsOK'
  BY <1>1, SameItems, EncoderAssumption DEF CInv, Settled, Listed
<1>3. /\ source' \in Source /\ source'.index = 0 /\ source'.item = AllItems[1]
  BY <1>1, <1>2, SourceOfFirst
<1>4. AllItems' = AllItems /\ itemsCount' = itemsCount
  BY <1>1, SameItems DEF itemVars
<1>5. \A u \in Threads : ~Compressing(u)
  BY <1>1, NobodyCompresses DEF CInv
<1>6. Spent' /\ (opening' \in BOOLEAN /\ archive' \in BOOLEAN /\ outOpen' \in BOOLEAN)
  BY <1>1 DEF CInv, Spent, BooleansOK
<1>7. CASE /\ compressing' = TRUE /\ GoOn(t, "info")
           /\ next' = 0 /\ names' = <<>>
           /\ todo' = 0..(itemsCount - 1)
           /\ contents' = [i \in 1..itemsCount |-> NoItem]
  <2>1. pc'[t] = "info" /\ \A u \in Threads \ {t} : pc'[u] = pc[u]
    BY <1>7 DEF GoOn, Goto, IInv, FlagsOK
  <2>2. Named'
    <3>1. Len(<<>>) = 0 /\ ~ \E k : k \in 1..0
      OBVIOUS
    <3> QED
      BY <1>7, <3>1, Zenon DEF Named
  <2>3. contents' \in Seq(Item \cup {NoItem}) /\ Len(contents') = itemsCount
    <3>1. itemsCount \in Nat
      BY <1>2
    <3> QED
      BY <1>7, <3>1
  <2>4. Read'
    BY <1>4, <1>7, <2>3 DEF Read
  <2>5. UpdateOK'
    <3>1. names' \in Seq(Item)
      BY <1>7
    <3> QED
      BY <1>2, <1>4, <1>7, <2>3, <3>1 DEF UpdateOK
  <2>6. Stage(t)'
    <3>1. IsItem(source.index, source.item)'
      BY <1>2, <1>3, <1>4 DEF IsItem
    <3> QED
      BY <1>2, <1>4, <1>7, <2>1, <2>2, <2>4, <3>1 DEF Stage
  <2>7. Staged'
    <3> SUFFICES ASSUME NEW u \in Threads, Compressing(u)' PROVE Stage(u)'
      BY DEF Staged
    <3>1. u = t
      BY <1>5, <2>1 DEF Compressing
    <3> QED
      BY <2>6, <3>1
  <2>8. Settled'
    <3>1. pc'[t] \notin OpenPhases
      BY <2>1 DEF OpenPhases
    <3> QED
      BY <1>1, <1>2, <2>1, <3>1, SameItems DEF Settled, CInv, OpenPhases
  <2> QED
    BY <1>2, <1>3, <1>6, <1>7, <2>5, <2>7, <2>8 DEF CInv, BooleansOK
<1>8. CASE UNCHANGED <<compressing, updateVars>> /\ \E outcome : Return(t, outcome)
  <2>1. pc'[t] = "idle" /\ \A u \in Threads \ {t} : pc'[u] = pc[u]
    BY <1>8 DEF Return, Goto, IInv, FlagsOK
  <2>2. \A u \in Threads : ~Compressing(u)'
    BY <1>5, <2>1 DEF Compressing, CompressPhases, UpdatePhases
  <2>3. UpdateOK'
    BY <1>4, <1>8 DEF UpdateOK, CInv, updateVars
  <2>4. Settled' /\ Staged'
    BY <1>1, <1>2, <1>8, <2>1, <2>2, SameItems DEF Settled, Staged, CInv, updateVars, OpenPhases
  <2> QED
    BY <1>2, <1>3, <1>6, <1>8, <2>3, <2>4 DEF CInv, BooleansOK
<1> QED
  BY <1>7, <1>8, Zenon DEF CompressStart

\* At the end of compress() the out-stream is closed.
LEMMA EndCounts ==
  ASSUME IInv, CInv, Next, NEW t \in Threads, CompressEnd(t)
  PROVE  CInv'
<1>1. /\ pc[t] = "compressEnd" /\ Compressing(t) /\ compressing' = FALSE /\ outOpen' = FALSE
      /\ source' = CloseSource(source)
      /\ UNCHANGED <<itemVars, updateVars, archive, opening>>
      /\ archives' \in {archives, archives + 1}
      /\ pc'[t] = "idle" /\ \A u \in Threads \ {t} : pc'[u] = pc[u]
  BY DEF CompressEnd, OutAfterCompress, SourceAfterCompress, Return, Goto, IInv, FlagsOK,
     Compressing, CompressPhases
<1>2. archive /\ source \in Source
  BY <1>1, AtWork
<1>3. \A u \in Threads : ~Compressing(u)'
  BY <1>1 DEF IInv, OneCompressor, Compressing, CompressPhases, UpdatePhases
<1>4. source' \in Source
  BY <1>1, <1>2, SourceStays
<1>5. ListsOK' /\ UpdateOK'
  BY <1>1, SameItems DEF CInv, UpdateOK, updateVars, itemVars
<1>6. BooleansOK' /\ Spent'
  <2>1. BooleansOK'
    BY <1>1 DEF CInv, BooleansOK
  <2>2. archives' \in Nat /\ archive' /\ ~outOpen'
    <3>1. archives \in Nat
      BY DEF CInv, Spent
    <3>2. archives' \in Nat
      BY <1>1, <3>1
    <3> QED
      BY <1>1, <1>2, <3>2, Zenon
  <2> QED
    BY <2>1, <2>2 DEF Spent
<1>7. Settled' /\ Staged'
  BY <1>1, <1>2, <1>3, SameItems DEF CInv, Settled, Staged, updateVars, OpenPhases
<1> QED
  BY <1>4, <1>5, <1>6, <1>7 DEF CInv

----------------------------------------------------------------------------
\* The archive is told what was added, whatever the threads do.
LEMMA NextCounts == IInv /\ CInv /\ Next => CInv'
<1> SUFFICES ASSUME IInv, CInv, Next PROVE CInv'
  OBVIOUS
<1>1. ASSUME NEW t \in Threads, Call(t) PROVE CInv'
  BY <1>1, RestCounts, StartCounts DEF Call
<1>2. ASSUME NEW t \in Threads, Step(t) PROVE CInv'
  BY <1>2, RestCounts, OpenScanCounts, OpenOutCounts, InfoCounts, PropertyCounts, StreamCounts,
     ReadCounts, ResultCounts, FinishCounts, EndCounts DEF Step
<1> QED
  BY <1>1, <1>2, AddCounts DEF Next

\* The invariant, with what the archive was told.
LEMMA Counts == Spec => [](IInv /\ CInv)
<1>1. CInv /\ UNCHANGED vars => CInv'
  <2> SUFFICES ASSUME CInv, UNCHANGED vars PROVE CInv'
    OBVIOUS
  <2>1. UNCHANGED <<itemVars, flagVars, updateVars, threadVars, result, outOpen, source, answer>>
    BY DEF vars
  <2>2. ASSUME NEW t \in Threads, Compressing(t)' PROVE Stage(t)'
    BY <2>1, <2>2, StageKept DEF flagVars, threadVars, CInv
  <2>3. ListsOK' /\ UpdateOK' /\ BooleansOK' /\ Spent' /\ source' \in Source
    BY <2>1, SameItems DEF CInv, UpdateOK, BooleansOK, Spent, flagVars, updateVars, itemVars
  <2>4. Settled'
    BY <2>1, SameItems DEF CInv, Settled, Compressing, flagVars, updateVars, threadVars
  <2> QED
    BY <2>2, <2>3, <2>4 DEF CInv, Staged
<1> QED
  BY <1>1, InitCounts, NextCounts, Invariance, PTL DEF Spec

\* What the variables hold.
THEOREM TypeCorrect == Spec => []TypeOK
BY Counts, TypeParts, PTL

\* Two rows of the same items are one.
LEMMA SameRow ==
  ASSUME NEW X, NEW s \in Seq(X), NEW u \in Seq(X), Len(s) = Len(u),
         \A k \in 1..Len(u) : s[k] = u[k]
  PROVE  s = u
OBVIOUS

\* compress() succeeds once, with an archive of everything that was added.
THEOREM ArchiveCompleteHolds == Spec => ArchiveComplete
<1> DEFINE Complete ==
      archives' > archives => archives = 0 /\ names = AllItems /\ contents = AllItems
<1>1. IInv /\ CInv /\ Next => Complete
  <2> SUFFICES ASSUME IInv, CInv, Next, archives' > archives
               PROVE  archives = 0 /\ names = AllItems /\ contents = AllItems
    OBVIOUS
  <2>1. archives \in Nat
    BY DEF CInv, Spent
  <2>2. PICK t \in Threads : CompressEnd(t)
    <3>1. archives' # archives
      BY <2>1
    <3> QED
      BY <3>1 DEF Next, Add, Call, Step, AddPath, AddStream, OpenRefused, OpenStart, OpenScan,
         OpenOut, CompressRefused, CompressStart, GetUpdateItemInfo, GetProperty, GetStream,
         ReadItem, SetOperationResult, ReportProgress, Finish, AbortCall, Abort, flagVars
  <2>3. pc[t] = "compressEnd" /\ answer = "S_OK"
    BY <2>1, <2>2 DEF CompressEnd, CompressSucceeded
  <2>4. /\ archives = 0 /\ next = itemsCount /\ todo = {} /\ Named /\ Read
        /\ itemsCount \in 1..MaxItems /\ names \in Seq(Item)
        /\ contents \in Seq(Item \cup {NoItem})
        /\ AllItems \in Seq(Item) /\ Len(AllItems) = itemsCount
    BY <2>3, AtWork DEF Stage, Compressing, CompressPhases
  <2>5. Len(names) = Len(AllItems) /\ \A k \in 1..Len(AllItems) : names[k] = AllItems[k]
    BY <2>4 DEF Named
  <2>6. /\ Len(contents) = Len(AllItems)
        /\ \A k \in 1..Len(AllItems) : contents[k] = AllItems[k]
    <3>1. Len(contents) = itemsCount
          /\ \A k \in 0..(itemsCount - 1) : contents[k + 1] = AllItems[k + 1]
      BY <2>4 DEF Read
    <3>2. ASSUME NEW k \in 1..itemsCount PROVE contents[k] = AllItems[k]
      <4>1. k - 1 \in 0..(itemsCount - 1) /\ (k - 1) + 1 = k
        BY <2>4
      <4> QED
        BY <3>1, <4>1, Zenon
    <3> QED
      BY <2>4, <3>1, <3>2
  <2>7. names = AllItems
    BY <2>4, <2>5, SameRow
  <2>8. contents = AllItems
    <3>1. AllItems \in Seq(Item \cup {NoItem})
      BY <2>4
    <3> QED
      BY <2>4, <2>6, <3>1, SameRow
  <2> QED
    BY <2>4, <2>7, <2>8
<1>2. UNCHANGED vars /\ IInv /\ CInv => Complete
  BY DEF vars, flagVars, CInv, Spent
<1> QED
  BY <1>1, <1>2, Counts, PTL DEF Spec, ArchiveComplete
=============================================================================
