---------------------------- MODULE NodeAsyncProofs ----------------------------
(***************************************************************************)
(* Safety of the asynchronous operations of a decoder in Node.js, for any  *)
(* destinations and items and any number of operations, reports and        *)
(* changes of the progress function.                                       *)
(***************************************************************************)
EXTENDS NodeAsync, TLAPS

\* Operations are used in order, and one that is at work is so on the pool.
InOrder == \A op \in Operations : op > operations => phase[op] = "unused"

\* The pool reports of the operation it is working on, which stays until the
\* report is over.
PoolReports ==
    onProgress["pool"] # "no" => asyncData \in Operations /\ phase[asyncData] = "working"

\* An operation whose promise was settled is closed, and no callback is owed.
SettledClosed ==
    \A op \in Operations :
        promise[op] # "pending" => phase[op] \in {"closing", "deleted"} /\ ~requested[op]

SInv ==
    /\ OneOperation /\ ScriptOnLoop /\ NothingMissed
    /\ InOrder /\ PoolReports /\ SettledClosed

IInv == TypeOK /\ SInv

----------------------------------------------------------------------------
\* A new decoder has no operation.
LEMMA InitInv == Init => IInv
<1> SUFFICES ASSUME Init PROVE IInv
  OBVIOUS
<1> USE DEF Init
<1>1. NoPath \in Paths /\ NoNews \in News
  BY NodeAsyncAssumption DEF Paths, News, NoNews
<1>2. TypeOK
  <2>1. /\ asyncData \in Operations \cup {NoOperation}
        /\ operations \in 0..MaxOperations /\ delegates \in 0..MaxDelegates
    BY NodeAsyncAssumption
  <2>0. function \in BOOLEAN /\ delegate \in BOOLEAN /\ blocked \in BOOLEAN
    BY Zenon
  <2>2. news \in News /\ running \in Threads \cup {"none"}
    BY <1>1
  <2>3. /\ phase \in [Operations ->
                   {"unused", "queued", "working", "done", "thrown", "closing", "deleted"}]
        /\ promise \in [Operations -> {"pending", "resolved", "rejected"}]
        /\ callback \in [Operations -> BOOLEAN] /\ requested \in [Operations -> BOOLEAN]
    OBVIOUS
  <2>4. /\ data \in [Operations -> News] /\ taken \in [Operations -> News]
        /\ asked \in [Operations -> Paths] /\ used \in [Operations -> Paths]
    BY <1>1
  <2>5. /\ onProgress \in [Threads -> {"no", "called", "path", "progress", "script"}]
        /\ report \in [Threads -> News]
    BY <1>1
  <2> QED
    BY <2>0, <2>1, <2>2, <2>3, <2>4, <2>5 DEF TypeOK
<1>3. SInv
  BY NodeAsyncAssumption DEF SInv, OneOperation, ScriptOnLoop, NothingMissed, InOrder, PoolReports,
     SettledClosed, Operations, NoOperation, Threads
<1> QED
  BY <1>2, <1>3 DEF IInv

----------------------------------------------------------------------------
\* What onProgress() may be called with.
LEMMA ReportsType ==
  ASSUME TypeOK, NEW t \in Threads, Reports(t), news' \in News
  PROVE /\ onProgress' \in [Threads -> {"no", "called", "path", "progress", "script"}]
        /\ report' \in [Threads -> News]
BY DEF Reports, TypeOK

\* What the decoder reports next.
LEMMA AdvanceType == ASSUME TypeOK, Advance PROVE news' \in News
<1>1. PICK item \in Items : news' = [path |-> item, progress |-> news.progress + 1]
  BY DEF Advance
<1>2. item \in Paths
  BY DEF Paths
<1>3. news.progress + 1 \in 0..MaxReports
  BY NodeAsyncAssumption DEF Advance, TypeOK, News
<1> QED
  BY <1>1, <1>2, <1>3 DEF News

\* onProgress() writes news to the AsyncData.
LEMMA OnProgressType ==
  ASSUME TypeOK, OneOperation, NEW t \in Threads, OnProgress(t)
  PROVE TypeOK'
<1> USE DEF TypeOK
<1>1. /\ onProgress' \in [Threads -> {"no", "called", "path", "progress", "script"}]
      /\ UNCHANGED <<asyncData, object, coder, async, callback, taken, blocked, operations, used>>
  BY DEF OnProgress
<1>2. NoNews \in News
  BY NodeAsyncAssumption DEF NoNews, News, Paths
<1>3. report' \in [Threads -> News]
  BY <1>2 DEF OnProgress
<1>4. data' \in [Operations -> News]
  <2>1. CASE onProgress[t] = "called" /\ asyncData # NoOperation
             /\ data' = [data EXCEPT ![asyncData].path = report[t].path]
    <3>1. asyncData \in Operations /\ data[asyncData] \in News /\ report[t] \in News
      BY <2>1
    <3>2. [data[asyncData] EXCEPT !.path = report[t].path] \in News
      BY <3>1 DEF News
    <3> QED
      BY <2>1, <3>1, <3>2
  <2>2. CASE /\ onProgress[t] = "path"
             /\ data' = [data EXCEPT ![asyncData].progress = report[t].progress]
    <3>1. asyncData \in Operations /\ data[asyncData] \in News /\ report[t] \in News
      BY <2>2 DEF OneOperation
    <3>2. [data[asyncData] EXCEPT !.progress = report[t].progress] \in News
      BY <3>1 DEF News
    <3> QED
      BY <2>2, <3>1, <3>2
  <2>3. CASE UNCHANGED data
    BY <2>3
  <2> QED
    BY <2>1, <2>2, <2>3 DEF OnProgress
<1>5. requested' \in [Operations -> BOOLEAN]
  BY DEF OnProgress
<1> QED
  BY <1>1, <1>3, <1>4, <1>5 DEF object, coder, async

\* Every step keeps the type.
LEMMA NextType == TypeOK /\ OneOperation /\ [Next]_vars => TypeOK'
<1> SUFFICES ASSUME TypeOK, OneOperation, [Next]_vars PROVE TypeOK'
  OBVIOUS
<1> USE NodeAsyncAssumption DEF TypeOK, object, coder, async, shared
<1>0. NoNews \in News /\ NoPath \in Paths /\ Destinations \subseteq Paths
  BY DEF NoNews, News, Paths
<1>1. ASSUME NEW path \in Destinations \cup {NoPath}, ExtractAsync(path) PROVE TypeOK'
  <2>1. operations' \in Operations /\ operations' \in 0..MaxOperations
    BY <1>1 DEF ExtractAsync, Operations
  <2>2. path \in Paths /\ [path |-> path, progress |-> 0] \in News
    BY <1>0 DEF News
  <2> QED
    BY <1>1, <2>1, <2>2 DEF ExtractAsync, Goto, InUseAfterStart
<1>2. ASSUME ExtractSync PROVE TypeOK'
  BY <1>2, <1>0 DEF ExtractSync, Threads
<1>3. ASSUME SyncStep PROVE TypeOK'
  <2>1. CASE running' = "none" /\ UNCHANGED <<news, delegate, onProgress, report>>
    BY <1>3, <2>1 DEF SyncStep
  <2>2. CASE Advance /\ UNCHANGED <<running, delegate>> /\ Reports("loop")
    BY <1>3, <2>2, AdvanceType, ReportsType DEF SyncStep, Threads
  <2> QED
    BY <1>3, <2>1, <2>2 DEF SyncStep
<1>4. ASSUME NEW set \in BOOLEAN, SetProgressDelegate(set) PROVE TypeOK'
  <2>1. /\ onProgress' \in [Threads -> {"no", "called", "path", "progress", "script"}]
        /\ report' \in [Threads -> News]
    BY <1>4, ReportsType DEF SetProgressDelegate, Threads
  <2> QED
    BY <1>4, <2>1 DEF SetProgressDelegate
<1>5. ASSUME AbortFromReport PROVE TypeOK'
  BY <1>5 DEF AbortFromReport
<1>6. ASSUME NEW t \in Threads, OnProgress(t) PROVE TypeOK'
  BY <1>6, OnProgressType
<1>7. ASSUME NEW op \in Operations, WorkBegin(op) PROVE TypeOK'
  <2>1. data[op].path \in Paths
    BY DEF News
  <2> QED
    BY <1>7, <1>0, <2>1 DEF WorkBegin, Goto, Threads
<1>8. ASSUME NEW op \in Operations, WorkReport(op) PROVE TypeOK'
  BY <1>8, AdvanceType, ReportsType DEF WorkReport, Threads
<1>9. ASSUME NEW op \in Operations, WorkEnd(op) PROVE TypeOK'
  BY <1>9 DEF WorkEnd, Goto
<1>10. ASSUME NEW op \in Operations, Progress(op) PROVE TypeOK'
  BY <1>10 DEF Progress
<1>11. ASSUME NEW op \in Operations, Complete(op) PROVE TypeOK'
  BY <1>11, <1>0 DEF Complete, Goto, InUseAfter, Outcome, PhaseAfterComplete
<1>12. ASSUME NEW op \in Operations, Close(op) PROVE TypeOK'
  BY <1>12 DEF Close, Goto
<1>13. CASE UNCHANGED vars
  BY <1>13 DEF vars
<1> QED
  BY <1>1, <1>2, <1>3, <1>4, <1>5, <1>6, <1>7, <1>8, <1>9, <1>10, <1>11, <1>12, <1>13
  DEF Next, Pool, Loop, ScriptCalls, Threads

----------------------------------------------------------------------------
\* Every step keeps the invariant: reports of the pool come only while its
\* operation is in _asyncData, and Complete() waits for the loop to be free.
LEMMA NextInv == IInv /\ [Next]_vars => SInv'
<1> SUFFICES ASSUME TypeOK, SInv, [Next]_vars PROVE SInv'
  BY DEF IInv
<1> USE NodeAsyncAssumption DEF TypeOK, SInv, OneOperation, ScriptOnLoop, NothingMissed,
      InOrder, PoolReports, SettledClosed, object, coder, async, shared, Threads, NoOperation
<1>0. NoOperation \notin Operations
  BY DEF Operations
<1>1. ASSUME NEW path \in Destinations \cup {NoPath}, ExtractAsync(path) PROVE SInv'
  <2>1. /\ operations' \in Operations /\ operations' > operations
        /\ asyncData = NoOperation /\ asyncData' = operations'
        /\ phase' = [phase EXCEPT ![operations'] = "queued"]
        /\ data'[operations'] = taken'[operations']
        /\ UNCHANGED <<onProgress, promise, requested>>
    BY <1>1 DEF ExtractAsync, Operations, Goto, InUseAfterStart
  <2>2. phase[operations'] = "unused" /\ onProgress["pool"] = "no"
    BY <2>1, <1>0
  <2>3. OneOperation' /\ ScriptOnLoop' /\ PoolReports'
    BY <1>0, <1>1, <2>1, <2>2 DEF ExtractAsync, Script, LoopFree
  <2>4. NothingMissed'
    BY <2>1
  <2>5. InOrder' /\ SettledClosed'
    BY <2>1, <2>2 DEF Operations
  <2> QED
    BY <2>3, <2>4, <2>5
<1>2. ASSUME ExtractSync PROVE SInv'
  BY <1>2 DEF ExtractSync, Operations
<1>3. ASSUME SyncStep PROVE SInv'
  BY <1>3 DEF SyncStep, Reports
<1>4. ASSUME NEW set \in BOOLEAN, SetProgressDelegate(set) PROVE SInv'
  <2>1. UNCHANGED <<asyncData, phase, promise, operations, data, taken, requested>>
    BY <1>4 DEF SetProgressDelegate
  <2>2. /\ onProgress["loop"] = "no"
        /\ \/ onProgress' = onProgress
           \/ onProgress' = [onProgress EXCEPT !["loop"] = "called"]
    BY <1>4 DEF SetProgressDelegate, Reports, LoopFree
  <2>3. onProgress'["pool"] = onProgress["pool"]
    BY <2>2
  <2>4. OneOperation' /\ NothingMissed'
    BY <2>1, <2>2
  <2> QED
    BY <2>1, <2>3, <2>4
<1>5. ASSUME AbortFromReport PROVE SInv'
  BY <1>5 DEF AbortFromReport
<1>6. ASSUME NEW t \in Threads, OnProgress(t) PROVE SInv'
  <2>1. UNCHANGED <<asyncData, phase, promise, taken, operations>>
    BY <1>6 DEF OnProgress
  <2>2. OneOperation'
    BY <1>6, <2>1 DEF OnProgress
  <2>3. ScriptOnLoop' /\ PoolReports'
    BY <1>0, <1>6, <2>1 DEF OnProgress
  <2>4. NothingMissed'
    <3> SUFFICES ASSUME NEW op \in Operations, asyncData = op, taken[op] # data'[op],
                        ~requested'[op]
                 PROVE \E u \in Threads : onProgress'[u] \in {"path", "progress"}
      BY <2>1
    <3>1. CASE onProgress'[t] \in {"path", "progress"}
      BY <3>1
    <3>2. CASE onProgress[t] = "progress" /\ requested' = [requested EXCEPT ![asyncData] = TRUE]
      BY <3>2
    <3>3. CASE onProgress[t] \in {"called", "script"} /\ onProgress'[t] \in {"no", "script"}
      <4>1. data' = data /\ requested' = requested
        BY <1>6, <3>3 DEF OnProgress
      <4>2. PICK u \in Threads : onProgress[u] \in {"path", "progress"}
        BY <4>1
      <4>3. u # t /\ onProgress'[u] = onProgress[u]
        BY <1>6, <3>3, <4>2 DEF OnProgress
      <4> QED
        BY <4>2, <4>3
    <3> QED
      BY <1>6, <3>1, <3>2, <3>3 DEF OnProgress
  <2>5. InOrder' /\ SettledClosed'
    BY <1>6, <2>1 DEF OnProgress
  <2> QED
    BY <2>2, <2>3, <2>4, <2>5
<1>7. ASSUME NEW op \in Operations, WorkBegin(op) PROVE SInv'
  BY <1>7 DEF WorkBegin, Goto
<1>8. ASSUME NEW op \in Operations, WorkReport(op) PROVE SInv'
  BY <1>8 DEF WorkReport, Reports
<1>9. ASSUME NEW op \in Operations, WorkEnd(op) PROVE SInv'
  BY <1>9 DEF WorkEnd, Goto
<1>10. ASSUME NEW op \in Operations, Progress(op) PROVE SInv'
  BY <1>10 DEF Progress
<1>11. ASSUME NEW op \in Operations, Complete(op) PROVE SInv'
  <2>1. /\ asyncData = op /\ asyncData' = NoOperation /\ phase[op] \in {"done", "thrown"}
        /\ onProgress["pool"] = "no" /\ onProgress["loop"] = "no"
        /\ phase' = [phase EXCEPT ![op] = "closing"]
        /\ requested' = [requested EXCEPT ![op] = FALSE]
        /\ UNCHANGED <<onProgress, operations>>
    BY <1>11 DEF Complete, Goto, InUseAfter, PhaseAfterComplete, LoopFree
  <2>2. \A o \in Operations \ {op} : promise'[o] = promise[o]
    BY <1>11 DEF Complete
  <2>3. OneOperation' /\ ScriptOnLoop' /\ PoolReports' /\ NothingMissed'
    BY <1>0, <2>1
  <2>4. InOrder' /\ SettledClosed'
    BY <2>1, <2>2
  <2> QED
    BY <2>3, <2>4
<1>12. ASSUME NEW op \in Operations, Close(op) PROVE SInv'
  BY <1>12 DEF Close, Goto
<1>13. CASE UNCHANGED vars
  BY <1>13 DEF vars
<1> QED
  BY <1>1, <1>2, <1>3, <1>4, <1>5, <1>6, <1>7, <1>8, <1>9, <1>10, <1>11, <1>12, <1>13
  DEF Next, Pool, Loop, ScriptCalls

\* The invariant holds in every state of a behaviour.
LEMMA Invariance == Spec => []IInv
<1>1. IInv /\ [Next]_vars => IInv'
  BY NextType, NextInv DEF IInv, SInv
<1> QED
  BY InitInv, <1>1, PTL DEF Spec

----------------------------------------------------------------------------
\* Every variable stays in its type: in particular onProgress() only writes to
\* an AsyncData that exists.
THEOREM TypeCorrect == Spec => []TypeOK
<1>1. IInv => TypeOK
  BY DEF IInv
<1> QED
  BY Invariance, <1>1, PTL

\* _asyncData is the one operation that is queued, at work or not completed, and
\* no report finds it gone.
THEOREM OneOperationHolds == Spec => []OneOperation
<1>1. IInv => OneOperation
  BY DEF IInv, SInv
<1> QED
  BY Invariance, <1>1, PTL

\* The script's function is called on the thread of the loop only.
THEOREM ScriptOnLoopHolds == Spec => []ScriptOnLoop
<1>1. IInv => ScriptOnLoop
  BY DEF IInv, SInv
<1> QED
  BY Invariance, <1>1, PTL

\* The loop takes all that was written to an AsyncData in use, or is going to.
THEOREM NothingMissedHolds == Spec => []NothingMissed
<1>1. IInv => NothingMissed
  BY DEF IInv, SInv
<1> QED
  BY Invariance, <1>1, PTL

\* A promise is settled once, by what became of its operation, and nothing is
\* reported of the operation after that.
THEOREM SettledOnceHolds == Spec => SettledOnce
<1> DEFINE Once(op) ==
      /\ promise[op] # promise'[op] =>
            /\ promise[op] = "pending"
            /\ promise'[op] = IF phase[op] = "thrown" THEN "rejected" ELSE "resolved"
      /\ promise[op] # "pending" => ~requested'[op]
<1>1. ASSUME IInv, IInv', Next PROVE \A op \in Operations : Once(op)
  <2> USE <1>1 DEF IInv, SInv, TypeOK, SettledClosed, async, shared
  <2>1. ASSUME NEW o \in Operations, Complete(o) PROVE \A op \in Operations : Once(op)
    BY <2>1 DEF Complete, Outcome
  <2>2. ASSUME UNCHANGED promise PROVE \A op \in Operations : Once(op)
    BY <2>2
  <2> QED
    BY <2>1, <2>2 DEF Next, Pool, Loop, ScriptCalls, ExtractAsync, ExtractSync, SyncStep,
       SetProgressDelegate, AbortFromReport, OnProgress, WorkBegin, WorkReport, WorkEnd,
       Progress, Close
<1>2. IInv /\ IInv' /\ [Next]_vars => [\A op \in Operations : Once(op)]_vars
  BY <1>1
<1> QED
  BY Invariance, <1>2, PTL DEF Spec, SettledOnce
=============================================================================
