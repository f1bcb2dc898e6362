------------------------------- MODULE Decoder -------------------------------
(***************************************************************************)
(* The decoder of PLzmaSDK: DecoderImpl, the OpenCallback it opens an      *)
(* archive with and the ExtractCallback of every extract() or test(), used *)
(* by several threads at once.                                             *)
(*                                                                         *)
(* An action is one critical section of a mutex, or one unlocked call into *)
(* the archive or the stream between two of them.  The code takes a        *)
(* callback's mutex inside the decoder's (abort()) and never the other way *)
(* round, as long as no progress delegate calls the decoder: the critical  *)
(* sections are then atomic.                                               *)
(*                                                                         *)
(* A thread runs at most one operation, so the ExtractCallback of an       *)
(* operation is named by its thread.                                       *)
(***************************************************************************)
EXTENDS Naturals, FiniteSets

CONSTANTS
    Threads,        \* the threads that open, extract and test
    NoThread,       \* a null CMyComPtr<ExtractCallback>
    ItemsCount,     \* items of the archive
    MaxAborts       \* bound: how many times abort() is called

ASSUME DecoderAssumption ==
    /\ NoThread \notin Threads
    /\ ItemsCount \in Nat \ {0}
    /\ MaxAborts \in Nat

VARIABLES
    opened, opening, aborted,   \* the flags of DecoderImpl
    openCallback,               \* _openCallback: its _result and _itemsCount
    extractCallback,            \* _extractCallback: whose, or NoThread
    streamOpen,                 \* whether _stream is open
    pc,                         \* where each thread is
    callback,                   \* the ExtractCallback of each thread
    archiveResult,              \* what Open() or Extract() returned to a thread
    returned,                   \* how a thread's last operation ended
    abortCalls,                 \* history: calls of abort() so far
    late                        \* history: threads that began an operation on
                                \* an already aborted decoder

decoderVars == <<opened, opening, aborted, openCallback, extractCallback, streamOpen>>
threadVars == <<pc, callback, archiveResult, returned>>
historyVars == <<abortCalls, late>>
vars == <<decoderVars, threadVars, historyVars>>

----------------------------------------------------------------------------
HResult == {"S_OK", "E_ABORT", "E_FAIL"}

\* Open() runs through these, in this order.
OpenPhases == {"openStream", "openCallback", "archiveOpen", "openResult", "openCommit"}

\* The phases of ExtractCallback::process(): before, inside and after the
\* archive's Extract().
ArchivePhases == {"getStream", "prepare", "decode", "setGood", "setBad"}
ExtractPhases == {"processBegin"} \cup ArchivePhases \cup {"extracted"}
ProcessPhases == ExtractPhases \cup {"processCommit"}

\* The phases in which the archive reads the input stream.
ReadPhases == {"archiveOpen"} \cup ArchivePhases

\* An ExtractCallback: _result, _currentOutStream and the requested items the
\* archive has not finished.  (_exception only says which exception process()
\* throws.)
Callback == [result : HResult,
             out : {"none", "closed", "open"},
             left : 0..ItemsCount]

NewCallback == [result |-> "S_OK", out |-> "none", left |-> 0]

Init ==
    /\ opened = FALSE /\ opening = FALSE /\ aborted = FALSE
    /\ openCallback = [result |-> "S_OK", items |-> 0]
    /\ extractCallback = NoThread
    /\ streamOpen = FALSE
    /\ pc = [t \in Threads |-> "idle"]
    /\ callback = [t \in Threads |-> NewCallback]
    /\ archiveResult = [t \in Threads |-> "S_OK"]
    /\ returned = [t \in Threads |-> "none"]
    /\ abortCalls = 0
    /\ late = {}

----------------------------------------------------------------------------
Goto(t, phase) == pc' = [pc EXCEPT ![t] = phase]

\* The operation of t ends: by a return or by an exception.  Its local HRESULT
\* goes with it.
Return(t, outcome) ==
    /\ Goto(t, "idle")
    /\ returned' = [returned EXCEPT ![t] = outcome]
    /\ archiveResult' = [archiveResult EXCEPT ![t] = "S_OK"]

GoOn(t, phase) == Goto(t, phase) /\ UNCHANGED <<returned, archiveResult>>

\* The call of t is refused where it begins.
Refuse(t, outcome) ==
    /\ pc[t] = "idle"
    /\ Return(t, outcome)
    /\ UNCHANGED <<decoderVars, historyVars, callback>>

\* t begins an operation.  A thread that does so on an aborted decoder is late.
Admit(t, phase) ==
    /\ pc[t] = "idle"
    /\ Goto(t, phase)
    /\ returned' = [returned EXCEPT ![t] = "none"]
    /\ late' = IF aborted THEN late \cup {t} ELSE late
    /\ UNCHANGED abortCalls

----------------------------------------------------------------------------
\* DecoderImpl::open()

OpenMayStart_IfClosed == ~opened
OpenMayStart == ~(opened \/ opening)

\* open() of an open decoder, of one whose open() has not come back, or of an
\* archive of a type that was not compiled in.
OpenRefused(t) ==
    \/ ~OpenMayStart /\ Refuse(t, IF opened THEN "true" ELSE "false")
    \/ OpenMayStart /\ Refuse(t, "thrown")

OpenStart(t) ==
    /\ OpenMayStart
    /\ Admit(t, "openStream")
    /\ openCallback' = [result |-> "S_OK", items |-> 0]
    /\ opening' = TRUE
    /\ UNCHANGED <<opened, aborted, extractCallback, streamOpen, callback, archiveResult>>

\* _stream->open(): an exception leaves open() with _opening still set.
OpenStream(t) ==
    /\ pc[t] = "openStream"
    /\ \/ GoOn(t, "openCallback") /\ streamOpen' = TRUE
       \/ ~streamOpen /\ Return(t, "thrown") /\ UNCHANGED streamOpen
    /\ UNCHANGED <<opened, opening, aborted, openCallback, extractCallback,
                   callback, historyVars>>

\* OpenCallback::open(), first critical section.
OpenCallbackStart(t) ==
    /\ pc[t] = "openCallback"
    /\ Goto(t, IF openCallback.result = "S_OK" THEN "archiveOpen" ELSE "openCommit")
    /\ archiveResult' = [archiveResult EXCEPT ![t] = openCallback.result]
    /\ UNCHANGED <<decoderVars, callback, returned, historyVars>>

\* IInArchive::Open() reads the stream.  It sees an abort only if it asks for
\* the password.
ArchiveOpen(t) ==
    /\ pc[t] = "archiveOpen"
    /\ Goto(t, "openResult")
    /\ \E result \in {"S_OK", "E_FAIL", openCallback.result} :
          /\ result = "S_OK" => streamOpen
          /\ archiveResult' = [archiveResult EXCEPT ![t] = result]
    /\ UNCHANGED <<decoderVars, callback, returned, historyVars>>

OpenSucceeded_Unlocked(t) == archiveResult[t] = "S_OK"
OpenSucceeded(t) == archiveResult[t] = "S_OK" /\ openCallback.result = "S_OK"

\* OpenCallback::open(), second critical section: true, false when aborted, and
\* an exception otherwise, which again leaves _opening set.
OpenCallbackResult(t) ==
    /\ pc[t] = "openResult"
    /\ IF OpenSucceeded(t)
       THEN /\ openCallback' = [openCallback EXCEPT !.items = ItemsCount]
            /\ GoOn(t, "openCommit")
       ELSE IF "E_ABORT" \in {archiveResult[t], openCallback.result}
       THEN /\ openCallback' = [openCallback EXCEPT !.items = 0]
            /\ archiveResult' = [archiveResult EXCEPT ![t] = "E_ABORT"]
            /\ Goto(t, "openCommit")
            /\ UNCHANGED returned
       ELSE /\ Return(t, "thrown")
            /\ UNCHANGED openCallback
    /\ UNCHANGED <<opened, opening, aborted, extractCallback, streamOpen,
                   callback, historyVars>>

StreamAfterOperation_Kept == streamOpen
StreamAfterOperation == streamOpen /\ ~aborted

\* The end of DecoderImpl::open(), back under the decoder's mutex.
OpenCommit(t) ==
    /\ pc[t] = "openCommit"
    /\ opened' = (archiveResult[t] = "S_OK")
    /\ opening' = FALSE
    /\ streamOpen' = StreamAfterOperation
    /\ Return(t, IF opened' THEN "true" ELSE "false")
    /\ UNCHANGED <<aborted, openCallback, extractCallback, callback, historyVars>>

----------------------------------------------------------------------------
\* DecoderImpl::process(), the body of extract() and test()

ProcessMayStart_IfOpened == opened
ProcessMayStart == opened /\ extractCallback = NoThread

\* Several items of an xz archive are an exception before anything is locked.
ProcessRefused(t) ==
    \/ ~ProcessMayStart /\ Refuse(t, "false")
    \/ Refuse(t, "thrown")

ProcessStart(t) ==
    /\ ProcessMayStart
    /\ Admit(t, "processBegin")
    /\ extractCallback' = t
    /\ callback' = [callback EXCEPT ![t] = NewCallback]
    /\ UNCHANGED <<opened, opening, aborted, openCallback, streamOpen, archiveResult>>

\* The first critical section of ExtractCallback::process(): it does not look
\* at _result.  The archive may refuse to tell its properties: an exception.
ProcessBegin(t) ==
    /\ pc[t] = "processBegin"
    /\ \/ \E n \in 0..ItemsCount :
             /\ callback' = [callback EXCEPT ![t].left = n]
             /\ GoOn(t, IF n = 0 THEN "extracted" ELSE "getStream")
       \/ Return(t, "thrown") /\ UNCHANGED callback
    /\ UNCHANGED <<decoderVars, historyVars>>

\* A callback of t hands result to the archive, which stops unless it is S_OK.
Answer(t, result, next) ==
    /\ Goto(t, IF result = "S_OK" THEN next ELSE "extracted")
    /\ archiveResult' = [archiveResult EXCEPT ![t] = result]
    /\ UNCHANGED <<decoderVars, returned, historyVars>>

\* A callback of t catches an exception: E_FAIL, with _result as it was.
Catch(t) ==
    /\ callback[t].result = "S_OK"
    /\ Answer(t, "E_FAIL", "extracted")

\* SetTotal(), SetCompleted() and SetRatioInfo(), called between and within
\* items: they stop an aborted extraction; the progress delegate may throw.
ReportProgress(t) ==
    /\ pc[t] \in {"getStream", "decode"}
    /\ \/ callback[t].result # "S_OK" /\ Answer(t, callback[t].result, pc[t])
       \/ Catch(t)
    /\ UNCHANGED callback

\* GetStream(): a closed out-stream for a file, none for a directory, a skipped
\* item or one the solid archive passes by.  An exception may come before the
\* out-stream or, from the delegate that hears of its path, after it.
GetStream(t) ==
    /\ pc[t] = "getStream"
    /\ IF callback[t].result = "S_OK"
       THEN /\ \E out \in {"none", "closed"} :
                  callback' = [callback EXCEPT ![t].out = out]
            /\ Answer(t, "S_OK", "prepare") \/ Catch(t)
       ELSE /\ Answer(t, callback[t].result, "prepare")
            /\ UNCHANGED callback

\* PrepareOperation(): opens the out-stream, which may throw.
PrepareOperation(t) ==
    /\ pc[t] = "prepare"
    /\ \/ /\ Answer(t, callback[t].result, "decode")
          /\ IF callback[t].result = "S_OK" /\ callback[t].out = "closed"
             THEN callback' = [callback EXCEPT ![t].out = "open"]
             ELSE UNCHANGED callback
       \/ callback[t].out = "closed" /\ Catch(t) /\ UNCHANGED callback

\* The archive reads and decodes an item: well, badly, or so that Extract()
\* itself fails.
Decode(t) ==
    /\ pc[t] = "decode"
    /\ \/ streamOpen /\ GoOn(t, "setGood") /\ UNCHANGED decoderVars
       \/ GoOn(t, "setBad") /\ UNCHANGED decoderVars
       \/ Answer(t, "E_FAIL", "extracted")
    /\ UNCHANGED <<callback, historyVars>>

AfterItem_Overwrites(cb, good) ==
    [cb EXCEPT !.out = "none",
               !.left = @ - 1,
               !.result = IF good THEN @ ELSE "E_FAIL"]

AfterItem_CountsTwice(cb, good) ==
    [cb EXCEPT !.out = "none", !.left = @ - 2]

AfterItem_NotCounted(cb, good) == [cb EXCEPT !.out = "none"]

\* SetOperationResult() closes the item's out-stream; a bad item is an error
\* unless the extraction was aborted before.
AfterItem(cb, good) ==
    [cb EXCEPT !.out = "none",
               !.left = @ - 1,
               !.result = IF @ = "S_OK" /\ ~good THEN "E_FAIL" ELSE @]

SetOperationResult(t) ==
    /\ pc[t] \in {"setGood", "setBad"}
    /\ LET after == AfterItem(callback[t], pc[t] = "setGood")
       IN  /\ callback' = [callback EXCEPT ![t] = after]
           /\ Answer(t, after.result, IF after.left = 0 THEN "extracted" ELSE "getStream")

CloseOut_Forgotten(cb) == cb
CloseOut(cb) == [cb EXCEPT !.out = "none"]

\* The last critical section of ExtractCallback::process(): aborted, it returns;
\* failed, it throws, and process() of the decoder is left without a commit.
ExtractEnd(t) ==
    /\ pc[t] = "extracted"
    /\ callback' = [callback EXCEPT ![t] = CloseOut(@)]
    /\ IF \/ "E_ABORT" \in {archiveResult[t], callback[t].result}
          \/ archiveResult[t] = "S_OK" /\ callback[t].result = "S_OK"
       THEN GoOn(t, "processCommit")
       ELSE Return(t, "thrown")
    /\ UNCHANGED <<decoderVars, historyVars>>

\* The end of DecoderImpl::process(), back under the decoder's mutex: it drops
\* whatever callback is registered and returns true, aborted or not.
ProcessCommit(t) ==
    /\ pc[t] = "processCommit"
    /\ extractCallback' = NoThread
    /\ streamOpen' = StreamAfterOperation
    /\ Return(t, "true")
    /\ UNCHANGED <<opened, opening, aborted, openCallback, callback, historyVars>>

----------------------------------------------------------------------------
AbortLeavesStream_ToExtraction == extractCallback # NoThread
AbortLeavesStream == opening \/ extractCallback # NoThread

\* DecoderImpl::abort() with OpenCallback::abort() and ExtractCallback::abort():
\* the registered callback is dropped, and the stream is closed at once only
\* if no open() and no registered extraction is there to close it.  (A null
\* _openCallback is left alone by the code; OpenStart replaces it anyway.)  Any
\* thread may call it: it is one step, so its caller needs no state.
AbortCallbacks ==
    /\ openCallback' = [result |-> "E_ABORT", items |-> 0]
    /\ callback' = [t \in Threads |-> IF t = extractCallback
                                      THEN [callback[t] EXCEPT !.result = "E_ABORT"]
                                      ELSE callback[t]]
    /\ extractCallback' = NoThread

Abort ==
    /\ abortCalls < MaxAborts
    /\ abortCalls' = abortCalls + 1
    /\ aborted' = TRUE
    /\ AbortCallbacks
    /\ streamOpen' = (streamOpen /\ AbortLeavesStream)
    /\ UNCHANGED <<opened, opening, pc, archiveResult, returned, late>>

\* DecoderImpl::count()
Count == IF opened THEN openCallback.items ELSE 0

----------------------------------------------------------------------------
OpenStep(t) ==
    \/ OpenStream(t)
    \/ OpenCallbackStart(t)
    \/ ArchiveOpen(t)
    \/ OpenCallbackResult(t)
    \/ OpenCommit(t)

ProcessStep(t) ==
    \/ ProcessBegin(t)
    \/ ReportProgress(t)
    \/ GetStream(t)
    \/ PrepareOperation(t)
    \/ Decode(t)
    \/ SetOperationResult(t)
    \/ ExtractEnd(t)
    \/ ProcessCommit(t)

\* A call of an idle thread.
Call(t) ==
    \/ OpenRefused(t)
    \/ OpenStart(t)
    \/ ProcessRefused(t)
    \/ ProcessStart(t)

Next ==
    \/ \E t \in Threads : Call(t) \/ OpenStep(t) \/ ProcessStep(t)
    \/ Abort

\* A thread that runs an operation goes on with it: no step of it waits for
\* more than the end of another critical section.
Fairness == \A t \in Threads : WF_vars(OpenStep(t) \/ ProcessStep(t))

Spec == Init /\ [][Next]_vars

FairSpec == Spec /\ Fairness

----------------------------------------------------------------------------
\* Where everything lives.
TypeOK ==
    /\ opened \in BOOLEAN /\ opening \in BOOLEAN /\ aborted \in BOOLEAN
    /\ openCallback \in [result : HResult, items : {0, ItemsCount}]
    /\ extractCallback \in Threads \cup {NoThread}
    /\ streamOpen \in BOOLEAN
    /\ pc \in [Threads -> {"idle"} \cup OpenPhases \cup ProcessPhases]
    /\ callback \in [Threads -> Callback]
    /\ archiveResult \in [Threads -> HResult]
    /\ returned \in [Threads -> {"none", "true", "false", "thrown"}]
    /\ abortCalls \in 0..MaxAborts
    /\ late \in SUBSET Threads

Opening(t) == pc[t] \in OpenPhases
Processing(t) == pc[t] \in ProcessPhases

\* The archive is opened by one thread at a time, and no thread extracts from it
\* meanwhile: _opened and _opening guard _openCallback, which the threads use
\* without the decoder's mutex.
OneOpener ==
    \A t, u \in Threads :
        Opening(t) => /\ opening /\ ~opened
                      /\ Opening(u) => u = t
                      /\ ~Processing(u)

\* Until the decoder is aborted, the archive serves one extraction at a time,
\* the one registered in _extractCallback.
OneExtraction ==
    ~aborted => \A t \in Threads : Processing(t) => extractCallback = t

\* The stream stays open under a thread that is in the archive, as long as
\* abort() was called at most once and no operation was begun after it.
ReadersHaveStream ==
    abortCalls <= 1 /\ late = {} =>
        \A t \in Threads : pc[t] \in ReadPhases => streamOpen

\* No abort is lost: an operation begun before the abort has E_ABORT as its
\* _result from then on, whatever its items and callbacks do later.
AbortReachesAll ==
    aborted => \A t \in Threads \ late :
        /\ Opening(t) => openCallback.result = "E_ABORT"
        /\ Processing(t) => callback[t].result = "E_ABORT"

\* An aborted decoder shows no items, even if the abort met an open() whose
\* archive had just been opened; only an open() begun later brings them back.
CountAfterAbort == aborted /\ late = {} => Count = 0

\* An extraction that returns or throws has closed and released its out-stream.
OutClosedOnReturn ==
    \A t \in Threads : ~Processing(t) => callback[t].out = "none"

\* Every operation of every thread comes back.
OperationReturns == \A t \in Threads : pc[t] # "idle" ~> pc[t] = "idle"

\* An operation that runs on an aborted decoder closes the stream when it ends,
\* unless it ends by an exception.
AbortedStreamCloses ==
    \A t \in Threads :
        aborted /\ pc[t] # "idle" ~> ~streamOpen \/ returned[t] = "thrown"

\* No step closes the stream while a thread is in the archive.  The code does
\* not keep this: a second abort() finds no registered callback and closes the
\* stream under the extraction the first one asked to stop; and the end of an
\* aborted extraction closes it under one that was let in after the abort.
NeverClosedUnderReader ==
    [][\A t \in Threads :
          {pc[t], pc'[t]} \subseteq ReadPhases /\ streamOpen => streamOpen']_vars
=============================================================================
