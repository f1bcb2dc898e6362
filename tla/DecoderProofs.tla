---------------------------- MODULE DecoderProofs ----------------------------
(***************************************************************************)
(* Safety of the decoder for any set of threads, any number of items and   *)
(* any number of aborts.                                                   *)
(***************************************************************************)
EXTENDS Decoder, TLAPS

\* abort() is remembered, and only operations that begin after it are late.
AbortHistory ==
    /\ aborted <=> abortCalls > 0
    /\ ~aborted => late = {}

\* What holds of the archive: only an opened decoder extracts, and at most one
\* extraction that is not late runs, even after the abort unregistered it.
Extractions ==
    /\ extractCallback # NoThread => opened
    /\ \A t \in Threads : Processing(t) => opened
    /\ \A t, u \in Threads \ late : Processing(t) /\ Processing(u) => t = u

\* The stream: open from _stream->open() on, and left open by the first abort
\* under the operation that is going to close it.
StreamHeld ==
    /\ ~aborted /\ opened => streamOpen
    /\ ~aborted => \A t \in Threads : Opening(t) /\ pc[t] # "openStream" => streamOpen
    /\ abortCalls <= 1 /\ late = {} =>
          \A t \in Threads :
             pc[t] \in ReadPhases \cup {"openCallback", "processBegin"} => streamOpen

\* The items of an aborted archive.
AbortedOpen ==
    aborted /\ late = {} => openCallback.result = "E_ABORT" /\ openCallback.items = 0

\* What is known of an ExtractCallback at each phase of its operation.
CallbackPhases ==
    \A t \in Threads :
        /\ pc[t] \in ArchivePhases => callback[t].left > 0
        /\ pc[t] \notin ArchivePhases \cup {"extracted"} => callback[t].out = "none"

----------------------------------------------------------------------------
\* The type invariant is inductive together with what each phase knows of its
\* ExtractCallback: SetOperationResult() counts down what CallbackPhases keeps
\* positive.
TypeInv == TypeOK /\ CallbackPhases

\* A new decoder is of its type.
LEMMA InitType == Init => TypeInv
<1> SUFFICES ASSUME Init PROVE TypeInv
  OBVIOUS
<1>1. NewCallback \in Callback
  BY DecoderAssumption DEF NewCallback, Callback, HResult
<1>2. openCallback \in [result : HResult, items : {0, ItemsCount}]
  BY DEF Init, HResult
<1>3. /\ opened \in BOOLEAN /\ opening \in BOOLEAN
      /\ aborted \in BOOLEAN /\ streamOpen \in BOOLEAN
  BY DEF Init
<1>4. pc \in [Threads -> {"idle"} \cup OpenPhases \cup ProcessPhases]
  BY DEF Init
<1>5. callback \in [Threads -> Callback]
  BY <1>1 DEF Init
<1>6. /\ archiveResult \in [Threads -> HResult]
      /\ returned \in [Threads -> {"none", "true", "false", "thrown"}]
  BY DEF Init, HResult
<1>7. /\ extractCallback \in Threads \cup {NoThread}
      /\ abortCalls \in 0..MaxAborts
      /\ late \in SUBSET Threads
  BY DecoderAssumption DEF Init
<1>8. CallbackPhases
  BY DEF Init, CallbackPhases, ArchivePhases, NewCallback
<1> QED
  BY <1>2, <1>3, <1>4, <1>5, <1>6, <1>7, <1>8 DEF TypeInv, TypeOK

\* Every critical section and every call of the archive keeps the type.
LEMMA NextType == TypeInv /\ [Next]_vars => TypeInv'
<1> SUFFICES ASSUME TypeInv, [Next]_vars PROVE TypeInv'
  OBVIOUS
<1> USE DecoderAssumption DEF TypeInv, TypeOK, CallbackPhases, HResult,
      decoderVars, historyVars, OpenPhases, ProcessPhases, ExtractPhases, ArchivePhases
<1>1. ASSUME NEW t \in Threads, OpenRefused(t) PROVE TypeInv'
  BY <1>1 DEF OpenRefused, Refuse, Return, Goto
<1>2. ASSUME NEW t \in Threads, OpenStart(t) PROVE TypeInv'
  BY <1>2 DEF OpenStart, OpenMayStart, Admit, Goto
<1>3. ASSUME NEW t \in Threads, OpenStream(t) PROVE TypeInv'
<2>1. pc' \in [Threads -> {"idle"} \cup OpenPhases \cup ProcessPhases]
    BY <1>3 DEF OpenStream, Return, GoOn, Goto
  <2>2. CallbackPhases'
    BY <1>3 DEF OpenStream, Return, GoOn, Goto
  <2>3. /\ archiveResult' \in [Threads -> HResult]
        /\ returned' \in [Threads -> {"none", "true", "false", "thrown"}]
    BY <1>3 DEF OpenStream, Return, GoOn
  <2> QED
    BY <1>3, <2>1, <2>2, <2>3 DEF OpenStream
<1>4. ASSUME NEW t \in Threads, OpenCallbackStart(t) PROVE TypeInv'
  BY <1>4 DEF OpenCallbackStart, Goto
<1>5. ASSUME NEW t \in Threads, ArchiveOpen(t) PROVE TypeInv'
  BY <1>5 DEF ArchiveOpen, Goto
<1>6. ASSUME NEW t \in Threads, OpenCallbackResult(t) PROVE TypeInv'
  BY <1>6 DEF OpenCallbackResult, OpenSucceeded, Return, GoOn, Goto
<1>7. ASSUME NEW t \in Threads, OpenCommit(t) PROVE TypeInv'
  BY <1>7 DEF OpenCommit, StreamAfterOperation, Return, Goto
<1>8. ASSUME NEW t \in Threads, ProcessRefused(t) PROVE TypeInv'
  BY <1>8 DEF ProcessRefused, Refuse, Return, Goto
<1>9. ASSUME NEW t \in Threads, ProcessStart(t) PROVE TypeInv'
  BY <1>9 DEF ProcessStart, ProcessMayStart, Admit, NewCallback, Goto, Callback
<1>10. ASSUME NEW t \in Threads, ProcessBegin(t) PROVE TypeInv'
  <2>1. \A n \in 0..ItemsCount : [callback[t] EXCEPT !.left = n] \in Callback
    BY DEF Callback
  <2>2. callback' \in [Threads -> Callback]
    BY <1>10, <2>1 DEF ProcessBegin
  <2>3. CallbackPhases'
    BY <1>10 DEF ProcessBegin, Return, GoOn, Goto, Callback
  <2>4. archiveResult' \in [Threads -> HResult]
    BY <1>10 DEF ProcessBegin, Return, GoOn, Goto, Callback
  <2> QED
    BY <1>10, <2>2, <2>3, <2>4 DEF ProcessBegin, Return, GoOn, Goto
<1>11. ASSUME NEW t \in Threads, ReportProgress(t) PROVE TypeInv'
  <2>2. callback' \in [Threads -> Callback]
    BY <1>11 DEF ReportProgress, Answer, Catch
  <2>3. CallbackPhases'
    BY <1>11 DEF ReportProgress, Catch, Answer, Goto, Callback
  <2>4. archiveResult' \in [Threads -> HResult]
    BY <1>11 DEF ReportProgress, Catch, Answer, Goto, Callback
  <2> QED
    BY <1>11, <2>2, <2>3, <2>4 DEF ReportProgress, Catch, Answer, Goto
<1>12. ASSUME NEW t \in Threads, GetStream(t) PROVE TypeInv'
  <2>1. \A out \in {"none", "closed"} : [callback[t] EXCEPT !.out = out] \in Callback
    BY DEF Callback
  <2>2. callback' \in [Threads -> Callback]
    BY <1>12, <2>1 DEF GetStream, Answer, Catch
  <2>3. CallbackPhases'
    BY <1>12 DEF GetStream, Catch, Answer, Goto, Callback
  <2>4. archiveResult' \in [Threads -> HResult]
    BY <1>12 DEF GetStream, Catch, Answer, Goto, Callback
  <2> QED
    BY <1>12, <2>2, <2>3, <2>4 DEF GetStream, Catch, Answer, Goto
<1>13. ASSUME NEW t \in Threads, PrepareOperation(t) PROVE TypeInv'
  <2>1. [callback[t] EXCEPT !.out = "open"] \in Callback
    BY DEF Callback
  <2>2. callback' \in [Threads -> Callback]
    BY <1>13, <2>1 DEF PrepareOperation, Answer, Catch
  <2>3. CallbackPhases'
    BY <1>13 DEF PrepareOperation, Catch, Answer, Goto, Callback
  <2>4. archiveResult' \in [Threads -> HResult]
    BY <1>13 DEF PrepareOperation, Catch, Answer, Goto, Callback
  <2>5. pc' \in [Threads -> {"idle"} \cup OpenPhases \cup ProcessPhases]
    BY <1>13 DEF PrepareOperation, Catch, Answer, Goto
  <2>6. UNCHANGED <<decoderVars, returned, historyVars>>
    BY <1>13 DEF PrepareOperation, Catch, Answer
  <2> QED
    BY <2>2, <2>3, <2>4, <2>5, <2>6
<1>14. ASSUME NEW t \in Threads, Decode(t) PROVE TypeInv'
  <2>2. callback' \in [Threads -> Callback]
    BY <1>14 DEF Decode
  <2>3. CallbackPhases'
    BY <1>14 DEF Decode, Answer, GoOn, Goto, Callback
  <2>4. archiveResult' \in [Threads -> HResult]
    BY <1>14 DEF Decode, Answer, GoOn, Goto, Callback
  <2> QED
    BY <1>14, <2>2, <2>3, <2>4 DEF Decode, Answer, GoOn, Goto
<1>15. ASSUME NEW t \in Threads, SetOperationResult(t) PROVE TypeInv'
  <2>0. callback[t] \in Callback /\ callback[t].left - 1 \in 0..ItemsCount
    BY <1>15 DEF SetOperationResult, Callback
  <2>1. AfterItem(callback[t], pc[t] = "setGood") \in Callback
    BY <2>0 DEF AfterItem, Callback
  <2>2. callback' \in [Threads -> Callback]
    BY <1>15, <2>1 DEF SetOperationResult
  <2>3. CallbackPhases'
    BY <1>15 DEF SetOperationResult, AfterItem, Answer, Goto, Callback
  <2>4. archiveResult' \in [Threads -> HResult]
    BY <1>15 DEF SetOperationResult, AfterItem, Answer, Goto, Callback
  <2> QED
    BY <1>15, <2>2, <2>3, <2>4 DEF SetOperationResult, AfterItem, Answer, Goto
<1>16. ASSUME NEW t \in Threads, ExtractEnd(t) PROVE TypeInv'
  <2>1. CloseOut(callback[t]) \in Callback
    BY DEF CloseOut, Callback
  <2>2. callback' \in [Threads -> Callback]
    BY <1>16, <2>1 DEF ExtractEnd
  <2>3. CallbackPhases'
    BY <1>16 DEF ExtractEnd, CloseOut, Return, GoOn, Goto, Callback
  <2>4. archiveResult' \in [Threads -> HResult]
    <3>1. archiveResult' \in {archiveResult, [archiveResult EXCEPT ![t] = "S_OK"]}
      BY <1>16, Zenon DEF ExtractEnd, Return, GoOn
    <3>2. "S_OK" \in HResult /\ archiveResult \in [Threads -> HResult]
      BY DEF HResult
    <3> HIDE DEF HResult, TypeInv
    <3> QED
      BY ONLY <3>1, <3>2, SMT
  <2> QED
    BY <1>16, <2>2, <2>3, <2>4 DEF ExtractEnd, CloseOut, Return, GoOn, Goto
<1>17. ASSUME NEW t \in Threads, ProcessCommit(t) PROVE TypeInv'
  BY <1>17 DEF ProcessCommit, StreamAfterOperation, Return, Goto
<1>18. CASE Abort
  BY <1>18 DEF Abort, AbortCallbacks, AbortLeavesStream, Callback
<1>19. CASE UNCHANGED vars
  BY <1>19 DEF vars, threadVars
<1> QED
  BY <1>1, <1>2, <1>3, <1>4, <1>5, <1>6, <1>7, <1>8, <1>9, <1>10,
     <1>11, <1>12, <1>13, <1>14, <1>15, <1>16, <1>17, <1>18, <1>19
     DEF Next, Call, OpenStep, ProcessStep

----------------------------------------------------------------------------
\* The safety invariants and what they rest on.
SInv ==
    /\ AbortHistory
    /\ OneOpener
    /\ OneExtraction
    /\ Extractions
    /\ AbortReachesAll
    /\ StreamHeld
    /\ AbortedOpen

\* The steps of an extraction between its admission and its commit.
ExtractStep(t) ==
    \/ ProcessBegin(t)
    \/ ReportProgress(t)
    \/ GetStream(t)
    \/ PrepareOperation(t)
    \/ Decode(t)
    \/ SetOperationResult(t)
    \/ ExtractEnd(t)

\* All that the invariants need to know of such a step: it touches nothing of
\* the decoder, enters the archive only from processBegin and keeps E_ABORT.
LEMMA ExtractStepEffect ==
    ASSUME TypeOK, NEW t \in Threads, ExtractStep(t)
    PROVE  /\ UNCHANGED <<decoderVars, historyVars>>
           /\ Processing(t)
           /\ Processing(t)' \/ pc'[t] = "idle"
           /\ pc'[t] \in ReadPhases => pc[t] \in ReadPhases \cup {"processBegin"}
           /\ pc'[t] # "processBegin"
           /\ callback[t].result = "E_ABORT" => callback'[t].result = "E_ABORT"
           /\ \A u \in Threads \ {t} : pc'[u] = pc[u] /\ callback'[u] = callback[u]
<1> USE DEF TypeOK, Callback, Processing, ProcessPhases, ExtractPhases, ReadPhases,
      ArchivePhases
<1>1. CASE ProcessBegin(t)
  BY <1>1 DEF ProcessBegin, Return, GoOn, Goto
<1>2. CASE ReportProgress(t)
  BY <1>2 DEF ReportProgress, Catch, Answer, Goto, historyVars
<1>3. CASE GetStream(t)
  BY <1>3 DEF GetStream, Catch, Answer, Goto
<1>4. CASE PrepareOperation(t)
  BY <1>4 DEF PrepareOperation, Catch, Answer, Goto
<1>5. CASE Decode(t)
  BY <1>5 DEF Decode, Answer, GoOn, Goto
<1>6. CASE SetOperationResult(t)
  BY <1>6 DEF SetOperationResult, AfterItem, Answer, Goto
<1>7. CASE ExtractEnd(t)
  BY <1>7 DEF ExtractEnd, CloseOut, Return, GoOn, Goto
<1> QED
  BY <1>1, <1>2, <1>3, <1>4, <1>5, <1>6, <1>7 DEF ExtractStep

\* A new decoder has no operation and no abort behind it.
LEMMA InitSafety == Init => SInv
BY DecoderAssumption DEF Init, SInv, AbortHistory, OneOpener, OneExtraction, Extractions,
   AbortReachesAll, StreamHeld, AbortedOpen, Opening, Processing, OpenPhases,
   ProcessPhases, ExtractPhases, ArchivePhases, ReadPhases

\* Every step keeps the safety properties and what they lean on.  The steps that
\* matter are those of DecoderImpl itself; the ones inside an extraction go by
\* ExtractStepEffect.
LEMMA NextSafety == TypeInv /\ SInv /\ [Next]_vars => SInv'
<1> SUFFICES ASSUME TypeInv, SInv, [Next]_vars PROVE SInv'
  OBVIOUS
<1>0. TypeOK
  BY DEF TypeInv
<1> USE DecoderAssumption, <1>0 DEF TypeOK, SInv, Opening, Processing,
      AbortHistory, OneOpener, OneExtraction, Extractions, AbortReachesAll,
      StreamHeld, AbortedOpen,
      OpenPhases, ProcessPhases, ExtractPhases, ArchivePhases, ReadPhases
<1>1. ASSUME NEW t \in Threads, OpenRefused(t) \/ ProcessRefused(t) PROVE SInv'
  BY <1>1 DEF OpenRefused, ProcessRefused, Refuse, Return, Goto, decoderVars, historyVars
<1>3. ASSUME NEW t \in Threads, OpenStart(t) PROVE SInv'
  BY <1>3 DEF OpenStart, OpenMayStart, Admit, Goto
<1>4. ASSUME NEW t \in Threads, OpenStream(t) PROVE SInv'
  BY <1>4 DEF OpenStream, Return, GoOn, Goto, historyVars
<1>5. ASSUME NEW t \in Threads, OpenCallbackStart(t) PROVE SInv'
  BY <1>5 DEF OpenCallbackStart, Goto, decoderVars, historyVars
<1>6. ASSUME NEW t \in Threads, ArchiveOpen(t) PROVE SInv'
  BY <1>6 DEF ArchiveOpen, Goto, decoderVars, historyVars
<1>7. ASSUME NEW t \in Threads, OpenCallbackResult(t) PROVE SInv'
  BY <1>7 DEF OpenCallbackResult, OpenSucceeded, Return, GoOn, Goto, historyVars
<1>8. ASSUME NEW t \in Threads, OpenCommit(t) PROVE SInv'
  BY <1>8 DEF OpenCommit, StreamAfterOperation, Return, Goto, historyVars
<1>9. ASSUME NEW t \in Threads, ProcessStart(t) PROVE SInv'
  BY <1>9 DEF ProcessStart, ProcessMayStart, Admit, Goto
<1>10. ASSUME NEW t \in Threads, ProcessCommit(t) PROVE SInv'
  BY <1>10 DEF ProcessCommit, StreamAfterOperation, Return, Goto, historyVars
<1>11. ASSUME NEW t \in Threads, ExtractStep(t) PROVE SInv'
  BY <1>11, ExtractStepEffect DEF decoderVars, historyVars
<1>12. CASE Abort
  BY <1>12 DEF Abort, AbortCallbacks, AbortLeavesStream, Callback
<1>13. CASE UNCHANGED vars
  BY <1>13 DEF vars, decoderVars, threadVars, historyVars
<1> QED
  BY <1>1, <1>3, <1>4, <1>5, <1>6, <1>7, <1>8, <1>9, <1>10, <1>11, <1>12, <1>13
     DEF Next, Call, OpenStep, ProcessStep, ExtractStep

----------------------------------------------------------------------------
\* The inductive invariant of the decoder.
IInv == TypeInv /\ SInv

\* It holds from the creation of the decoder on.
LEMMA Inductive == Spec => []IInv
<1>1. Init => IInv
  BY InitType, InitSafety DEF IInv
<1>2. IInv /\ [Next]_vars => IInv'
  BY NextType, NextSafety DEF IInv
<1> QED
  BY <1>1, <1>2, PTL DEF Spec

\* The state of the decoder, of its callbacks and of its threads stays within
\* its type, and no extraction counts more items than it was given: the left of
\* SetOperationResult() never goes below zero.
THEOREM TypeCorrect == Spec => []TypeOK
<1>1. IInv => TypeOK
  BY DEF IInv, TypeInv
<1> QED
  BY <1>1, Inductive, PTL

\* Whatever number of threads call open() and extract(): the archive is opened
\* by one at a time and by none while it extracts.
THEOREM OneOpenerHolds == Spec => []OneOpener
<1>1. IInv => OneOpener
  BY DEF IInv, SInv
<1> QED
  BY <1>1, Inductive, PTL

\* Before the first abort() the extraction in progress is the registered one.
THEOREM OneExtractionHolds == Spec => []OneExtraction
<1>1. IInv => OneExtraction
  BY DEF IInv, SInv
<1> QED
  BY <1>1, Inductive, PTL

\* A single abort() never closes the stream under the threads it interrupts.
THEOREM ReadersHaveStreamHolds == Spec => []ReadersHaveStream
<1>1. IInv => ReadersHaveStream
  BY DEF IInv, SInv, StreamHeld, ReadersHaveStream
<1> QED
  BY <1>1, Inductive, PTL

\* No abort() is lost, however often it is called and however many operations
\* run: every operation that was there before keeps E_ABORT.
THEOREM AbortReachesAllHolds == Spec => []AbortReachesAll
<1>1. IInv => AbortReachesAll
  BY DEF IInv, SInv
<1> QED
  BY <1>1, Inductive, PTL

\* count() is 0 from the abort on, even when the abort raced the end of open().
THEOREM CountAfterAbortHolds == Spec => []CountAfterAbort
<1>1. IInv => CountAfterAbort
  BY DEF IInv, SInv, AbortedOpen, CountAfterAbort, Count
<1> QED
  BY <1>1, Inductive, PTL

\* extract() and test() come back, normally or by an exception, with their
\* out-stream closed.
THEOREM OutClosedOnReturnHolds == Spec => []OutClosedOnReturn
<1>1. IInv => OutClosedOnReturn
  BY DEF IInv, TypeInv, CallbackPhases, OutClosedOnReturn, Processing,
         ProcessPhases, ExtractPhases
<1> QED
  BY <1>1, Inductive, PTL
=============================================================================
