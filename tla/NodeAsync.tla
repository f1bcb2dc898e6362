------------------------------- MODULE NodeAsync -------------------------------
(***************************************************************************)
(* A decoder in Node.js: script, on the thread of the event loop, has the  *)
(* decoder extract at once or asynchronously, by a thread of libuv's pool, *)
(* and gets a promise for the latter.  What the decoder reports goes       *)
(* through the AsyncData of the operation to the loop, which calls the     *)
(* progress function of the script.  (Encoder has the same code twice.)    *)
(*                                                                         *)
(* libuv is external: uv_async_send() asks the loop for a callback, any    *)
(* number of requests may come to one; an operation that is done has a     *)
(* callback on the loop, in any order with those; a handle that is closing *)
(* has only its close callback left.  Of the decoder there is what it      *)
(* reports (module Progress) and that it runs one operation at a time      *)
(* (module Decoder).                                                       *)
(*                                                                         *)
(* onProgress() is several steps: it writes to the AsyncData without a     *)
(* mutex, on whichever thread reports.                                     *)
(***************************************************************************)
EXTENDS Naturals

CONSTANTS
    Destinations,   \* where script extracts to
    Items,          \* paths of items
    NoPath,         \* the empty path
    MaxOperations,  \* bound: operations begun
    MaxReports,     \* bound: reports of an operation
    MaxDelegates    \* bound: how often script sets or removes its function

ASSUME NodeAsyncAssumption ==
    /\ NoPath \notin Destinations \cup Items
    /\ MaxOperations \in Nat /\ MaxReports \in Nat /\ MaxDelegates \in Nat

Operations == 1..MaxOperations
NoOperation == 0

Paths == Destinations \cup Items \cup {NoPath}
News == [path : Paths, progress : 0..MaxReports]
NoNews == [path |-> NoPath, progress |-> 0]

\* The thread of the event loop and the one of the pool.
Threads == {"loop", "pool"}

VARIABLES
    asyncData,      \* _asyncData of the Decoder object, or NoOperation
    function,       \* whether its _progressCallback is set
    delegate,       \* whether the decoder reports to the Decoder object
    news,           \* path and progress of the decoder
    running,        \* the thread in the operation of the decoder, or "none"
    phase,          \* where each asynchronous operation is
    data,           \* path and progress of its AsyncData
    callback,       \* its progressCallback: whether it is set
    requested,      \* whether the loop owes its _async a callback
    promise,        \* how its promise was settled
    onProgress,     \* where each thread is in onProgress()
    report,         \* what it was called with
    blocked,        \* whether the loop waits for a mutex it holds itself
    operations,     \* operations begun, synchronous ones included
    delegates,      \* how often the function was set or removed
    asked,          \* history: the path an operation was given
    used,           \* history: the path the decoder was called with
    taken           \* history: what the loop last took from the AsyncData

coder == <<news, running>>
object == <<function, delegate, delegates>>
async == <<phase, promise, asked>>
shared == <<data, callback, requested, taken>>
vars == <<asyncData, object, coder, async, shared, onProgress, report, blocked, operations, used>>

Init ==
    /\ asyncData = NoOperation /\ function = FALSE /\ delegate = FALSE
    /\ news = NoNews /\ running = "none"
    /\ phase = [op \in Operations |-> "unused"]
    /\ data = [op \in Operations |-> NoNews]
    /\ callback = [op \in Operations |-> FALSE]
    /\ requested = [op \in Operations |-> FALSE]
    /\ promise = [op \in Operations |-> "pending"]
    /\ onProgress = [t \in Threads |-> "no"] /\ report = [t \in Threads |-> NoNews]
    /\ blocked = FALSE
    /\ operations = 0 /\ delegates = 0
    /\ asked = [op \in Operations |-> NoPath] /\ used = [op \in Operations |-> NoPath]
    /\ taken = [op \in Operations |-> NoNews]

----------------------------------------------------------------------------
\* Whether the loop is free for the next callback or the next script.
LoopFree == running # "loop" /\ onProgress["loop"] = "no" /\ ~blocked

\* Script runs from the loop, or in a progress function called by onProgress().
Script == ~blocked /\ (LoopFree \/ onProgress["loop"] = "script")

Goto(op, p) == phase' = [phase EXCEPT ![op] = p]

\* The decoder has something to report: with a delegate, onProgress() follows.
Reports(t) ==
    IF delegate'
    THEN /\ onProgress' = [onProgress EXCEPT ![t] = "called"]
         /\ report' = [report EXCEPT ![t] = news']
    ELSE UNCHANGED <<onProgress, report>>

Advance ==
    /\ news.progress < MaxReports
    /\ \E item \in Items : news' = [path |-> item, progress |-> news.progress + 1]

----------------------------------------------------------------------------
\* _asyncData after an operation was queued.
InUseAfterStart_Unset(op) == asyncData
InUseAfterStart(op) == op

\* extractAsync(), and openAsync() or testAsync() with no path; it throws while
\* the previous operation is not completed.
ExtractAsync(path) ==
    /\ Script /\ asyncData = NoOperation
    /\ operations < MaxOperations /\ operations' = operations + 1
    /\ LET op == operations' IN
          /\ asyncData' = InUseAfterStart(op)
          /\ Goto(op, "queued")
          /\ data' = [data EXCEPT ![op] = [path |-> path, progress |-> 0]]
          /\ taken' = [taken EXCEPT ![op] = [path |-> path, progress |-> 0]]
          /\ asked' = [asked EXCEPT ![op] = path]
          /\ callback' = [callback EXCEPT ![op] = function]
    /\ UNCHANGED <<object, coder, promise, requested, onProgress, report, blocked, used>>

\* extract() on the loop, up to where the decoder begins.
\* bound: a progress function does not extract on the loop itself; within an
\* operation the decoder would refuse.
ExtractSync ==
    /\ LoopFree /\ asyncData = NoOperation
    /\ operations < MaxOperations /\ operations' = operations + 1
    /\ running' = "loop" /\ news' = NoNews
    /\ UNCHANGED <<asyncData, object, async, shared, onProgress, report, blocked, used>>

\* The operation on the loop reports, or returns.
SyncStep ==
    /\ running = "loop" /\ onProgress["loop"] = "no" /\ ~blocked
    /\ \/ Advance /\ UNCHANGED <<running, delegate>> /\ Reports("loop")
       \/ running' = "none" /\ UNCHANGED <<news, delegate, onProgress, report>>
    /\ UNCHANGED <<asyncData, function, delegates, async, shared, blocked, operations, used>>

\* SetProgressDelegate() sets the function in both places; the decoder reports
\* at once if it has any progress, on this thread.
\* bound: a progress function does not set another one.
SetProgressDelegate(set) ==
    /\ LoopFree
    /\ delegates < MaxDelegates /\ delegates' = delegates + 1
    /\ callback' = IF asyncData = NoOperation THEN callback
                   ELSE [callback EXCEPT ![asyncData] = set]
    /\ function' = set /\ delegate' = set
    /\ UNCHANGED coder
    /\ IF news.progress > 0 THEN Reports("loop") ELSE UNCHANGED <<onProgress, report>>
    /\ UNCHANGED <<asyncData, async, data, requested, taken, blocked, operations, used>>

\* Abort() of an operation on the loop, by the function it calls: the loop holds
\* the mutex of the decoder's callback already.  (Any other abort() only ends
\* the operation sooner.)
AbortFromReport ==
    /\ Script /\ running = "loop" /\ onProgress["loop"] = "script"
    /\ blocked' = TRUE
    /\ UNCHANGED <<asyncData, object, coder, async, shared, onProgress, report, operations, used>>

----------------------------------------------------------------------------
\* Decoder::onProgress() on the thread t: into the AsyncData if there is one,
\* else straight to the function.
OnProgress_SendsFirst(t) ==
    /\ asyncData # NoOperation /\ callback[asyncData]
    /\ \/ /\ onProgress[t] = "called"
          /\ onProgress' = [onProgress EXCEPT ![t] = "progress"]
          /\ requested' = [requested EXCEPT ![asyncData] = TRUE]
          /\ UNCHANGED data
       \/ /\ onProgress[t] = "progress"
          /\ onProgress' = [onProgress EXCEPT ![t] = "no"]
          /\ data' = [data EXCEPT ![asyncData] = report[t]]
          /\ UNCHANGED requested
    /\ UNCHANGED <<asyncData, object, coder, async, callback, taken, report, blocked,
                   operations, used>>

OnProgress(t) ==
    /\ t = "loop" => ~blocked
    /\ LET step(from, to) == /\ onProgress[t] = from
                             /\ onProgress' = [onProgress EXCEPT ![t] = to]
                             /\ report' = IF to = "no" THEN [report EXCEPT ![t] = NoNews]
                                          ELSE report
       IN
       \/ /\ asyncData # NoOperation /\ callback[asyncData]
          /\ step("called", "path")
          /\ data' = [data EXCEPT ![asyncData].path = report[t].path]
          /\ UNCHANGED requested
       \/ /\ step("path", "progress")
          /\ data' = [data EXCEPT ![asyncData].progress = report[t].progress]
          /\ UNCHANGED requested
       \/ /\ step("progress", "no")
          /\ requested' = [requested EXCEPT ![asyncData] = @ \/ phase[asyncData] # "closing"]
          /\ UNCHANGED data
       \/ /\ IF asyncData = NoOperation THEN ~function ELSE ~callback[asyncData]
          /\ step("called", "no")
          /\ UNCHANGED <<data, requested>>
       \/ /\ asyncData = NoOperation /\ function
          /\ step("called", "script")
          /\ UNCHANGED <<data, requested>>
       \/ step("script", "no") /\ UNCHANGED <<data, requested>>
    /\ UNCHANGED <<asyncData, object, coder, async, callback, taken, blocked, operations, used>>

----------------------------------------------------------------------------
\* AsyncData::Work(), on the pool: the decoder is called, and refuses if it is in
\* an operation already.
WorkBegin(op) ==
    /\ phase[op] = "queued"
    /\ IF running = "none"
       THEN /\ Goto(op, "working")
            /\ running' = "pool" /\ news' = NoNews
            /\ used' = [used EXCEPT ![op] = data[op].path]
       ELSE Goto(op, "done") /\ UNCHANGED <<coder, used>>
    /\ UNCHANGED <<asyncData, object, promise, asked, shared, onProgress, report, blocked,
                   operations>>

WorkReport(op) ==
    /\ phase[op] = "working" /\ onProgress["pool"] = "no"
    /\ Advance /\ UNCHANGED <<running, object>> /\ Reports("pool")
    /\ UNCHANGED <<asyncData, async, shared, blocked, operations, used>>

\* The decoder returns, or throws what Work() keeps in exceptionString.
WorkEnd(op) ==
    /\ phase[op] = "working" /\ onProgress["pool"] = "no"
    /\ \E outcome \in {"done", "thrown"} : Goto(op, outcome)
    /\ running' = "none"
    /\ UNCHANGED <<asyncData, object, news, promise, asked, shared, onProgress, report,
                   blocked, operations, used>>

----------------------------------------------------------------------------
\* AsyncData::Progress(), the callback the loop owes.
Progress(op) ==
    /\ LoopFree /\ requested[op]
    /\ requested' = [requested EXCEPT ![op] = FALSE]
    /\ taken' = [taken EXCEPT ![op] = data[op]]
    /\ UNCHANGED <<asyncData, object, coder, async, data, callback, onProgress, report,
                   blocked, operations, used>>

\* What the promise of an operation is settled with.
Outcome_Resolved(op) == "resolved"
Outcome(op) == IF phase[op] = "thrown" THEN "rejected" ELSE "resolved"

\* _asyncData after close().
InUseAfter_Kept(op) == asyncData
InUseAfter(op) == IF asyncData = op THEN NoOperation ELSE asyncData

\* close() has uv_close() call Close().
PhaseAfterComplete_Leaked == "thrown"
PhaseAfterComplete == "closing"

\* AsyncData::Complete() and AsyncData::close(), which leaves nothing in the
\* AsyncData.
Complete(op) ==
    /\ LoopFree /\ phase[op] \in {"done", "thrown"}
    /\ asyncData' = InUseAfter(op)
    /\ promise' = [promise EXCEPT ![op] = Outcome(op)]
    /\ Goto(op, PhaseAfterComplete)
    /\ data' = [data EXCEPT ![op] = NoNews] /\ taken' = [taken EXCEPT ![op] = NoNews]
    /\ asked' = [asked EXCEPT ![op] = NoPath] /\ used' = [used EXCEPT ![op] = NoPath]
    /\ callback' = [callback EXCEPT ![op] = FALSE]
    /\ requested' = [requested EXCEPT ![op] = FALSE]
    /\ UNCHANGED <<object, coder, onProgress, report, blocked, operations>>

\* AsyncData::Close(): the AsyncData is deleted.
Close(op) ==
    /\ LoopFree /\ phase[op] = "closing"
    /\ Goto(op, "deleted")
    /\ UNCHANGED <<asyncData, object, coder, promise, asked, shared, onProgress, report,
                   blocked, operations, used>>

----------------------------------------------------------------------------
Pool == OnProgress("pool") \/ \E op \in Operations : WorkBegin(op) \/ WorkReport(op) \/ WorkEnd(op)

Loop ==
    \/ OnProgress("loop") \/ SyncStep
    \/ \E op \in Operations : Progress(op) \/ Complete(op) \/ Close(op)

ScriptCalls ==
    \/ \E path \in Destinations \cup {NoPath} : ExtractAsync(path)
    \/ ExtractSync
    \/ \E set \in BOOLEAN : SetProgressDelegate(set)
    \/ AbortFromReport

Next == Pool \/ Loop \/ ScriptCalls

Spec == Init /\ [][Next]_vars

\* The pool gets to what is queued, the loop to its callbacks, and a progress
\* function returns.
FairSpec == Spec /\ WF_vars(Pool) /\ WF_vars(Loop)

----------------------------------------------------------------------------
TypeOK ==
    /\ asyncData \in Operations \cup {NoOperation}
    /\ function \in BOOLEAN /\ delegate \in BOOLEAN /\ blocked \in BOOLEAN
    /\ news \in News /\ running \in Threads \cup {"none"}
    /\ phase \in [Operations ->
                     {"unused", "queued", "working", "done", "thrown", "closing", "deleted"}]
    /\ data \in [Operations -> News] /\ taken \in [Operations -> News]
    /\ callback \in [Operations -> BOOLEAN] /\ requested \in [Operations -> BOOLEAN]
    /\ promise \in [Operations -> {"pending", "resolved", "rejected"}]
    /\ onProgress \in [Threads -> {"no", "called", "path", "progress", "script"}]
    /\ report \in [Threads -> News]
    /\ operations \in 0..MaxOperations /\ delegates \in 0..MaxDelegates
    /\ asked \in [Operations -> Paths] /\ used \in [Operations -> Paths]

\* _asyncData is the operation that is queued, at work or not completed yet, if
\* there is one: there are never two, no report gets to an AsyncData that is
\* closed or deleted, and none finds it gone between two of its steps.
OneOperation ==
    /\ \A op \in Operations :
          asyncData = op <=> phase[op] \in {"queued", "working", "done", "thrown"}
    /\ \A t \in Threads : onProgress[t] \in {"path", "progress"} => asyncData # NoOperation

\* The script's function is called on the thread of the loop only: a report of
\* the pool finds an _asyncData.
ScriptOnLoop == onProgress["pool"] # "script"

\* Nothing that was written to the AsyncData of an operation is missed by the
\* loop, however many requests come to one callback: it was taken, or a callback
\* is owed, or the thread that wrote it has yet to ask for one.
NothingMissed ==
    \A op \in Operations :
        asyncData = op /\ taken[op] # data[op] =>
            requested[op] \/ \E t \in Threads : onProgress[t] \in {"path", "progress"}

\* A promise is settled once, by what became of its operation, and the script
\* hears nothing of the operation after that.
SettledOnce ==
    [][\A op \in Operations :
          /\ promise[op] # promise'[op] =>
                /\ promise[op] = "pending"
                /\ promise'[op] = IF phase[op] = "thrown" THEN "rejected" ELSE "resolved"
          /\ promise[op] # "pending" => ~requested'[op]]_vars

\* Every asynchronous operation settles its promise and is deleted, as long as
\* no progress function aborts an operation on the loop.
PromisesSettle ==
    \A op \in Operations :
        phase[op] = "queued" ~> (phase[op] = "deleted" /\ promise[op] # "pending") \/ blocked

\* An operation extracts to the path it was given.  The code does not keep this:
\* the path the pool has yet to read is the one onProgress() writes to.
DestinationKept ==
    \A op \in Operations : phase[op] = "working" => used[op] = asked[op]
=============================================================================
