------------------------------- MODULE Encoder -------------------------------
(***************************************************************************)
(* The encoder of PLzmaSDK: EncoderImpl, which collects paths and streams, *)
(* turns them into items in open(), and is itself the callback that hands  *)
(* the items to the archive in compress().                                 *)
(*                                                                         *)
(* One mutex guards everything.  open() holds it from beginning to end, so *)
(* that the calls of other threads wait; compress() gives it back while    *)
(* the archive works, and every call the archive makes takes it.  An       *)
(* action is a critical section of that mutex, a part of the long one of   *)
(* open(), or a step of the archive between two of its calls.              *)
(*                                                                         *)
(* The archive is the 7-zip code under UpdateItems(): it asks for every    *)
(* item by its index, then for the streams of the items in an order of its *)
(* own, and writes the out-stream.                                         *)
(***************************************************************************)
EXTENDS Naturals, FiniteSets, Sequences, SequencesExt

CONSTANTS
    Threads,        \* the threads that open, compress and abort
    NoThread,       \* nobody
    Dirs,           \* the directories that may be added
    Files,          \* the files that may be added
    Streams,        \* the in-streams that may be added, by archive path
    MaxDirFiles,    \* bound: how many files a directory holds
    MaxItems        \* the items the type supports: 1 for xz, else 2^32 - 2

ASSUME EncoderAssumption ==
    /\ NoThread \notin Threads
    /\ Dirs \cap Files = {} /\ Dirs \cap Streams = {} /\ Files \cap Streams = {}
    /\ MaxDirFiles \in Nat
    /\ MaxItems \in Nat \ {0}

VARIABLES
    mutex,                          \* the thread in open(), or NoThread
    archive,                        \* whether _archive was created
    opening, compressing,           \* _opening and _compressing
    result,                         \* _result
    outOpen,                        \* whether _stream is open
    paths, subDirs, files, streams, \* what was added, and what became of it
    itemsCount,                     \* _itemsCount
    source,                         \* _source: the item at hand
    pc, returned,                   \* where each thread is, how its call ended
    next, names, todo, contents,    \* the archive: the item it asks for, the
                                    \* names it was told, the items to read and
                                    \* what it read for each of them
    answer,                         \* what UpdateItems() is going to return
    archives                        \* history: compress() calls that succeeded

itemVars == <<paths, subDirs, files, streams, itemsCount>>
flagVars == <<mutex, archive, opening, compressing, archives>>
updateVars == <<next, names, todo, contents>>
threadVars == <<pc, returned>>
vars == <<itemVars, flagVars, updateVars, threadVars, result, outOpen, source, answer>>

----------------------------------------------------------------------------
HResult == {"S_OK", "E_ABORT", "E_FAIL"}

OpenPhases == {"scan", "openOut"}
UpdatePhases == {"info", "property", "streams", "read", "readDone", "finish"}
CompressPhases == UpdatePhases \cup {"compressEnd"}

\* An item is a file of a directory, a file or a stream; <<>> is none of them.
NoItem == <<>>
Item == (Dirs \X (0..MaxDirFiles)) \cup ((Files \cup Streams) \X {0})

SubDir == [dir : Dirs, count : 1..MaxDirFiles]

\* _source: the index it was set up for, the item there (cleared by close())
\* and the stream it reads.
NoSource == [index |-> 0, item |-> NoItem, stream |-> "none"]

Init ==
    /\ mutex = NoThread
    /\ archive = FALSE /\ opening = FALSE /\ compressing = FALSE
    /\ result = "S_OK"
    /\ outOpen = FALSE
    /\ paths = <<>> /\ subDirs = <<>> /\ files = <<>> /\ streams = <<>>
    /\ itemsCount = 0
    /\ source = NoSource
    /\ pc = [t \in Threads |-> "idle"]
    /\ returned = [t \in Threads |-> "none"]
    /\ next = 0 /\ names = <<>> /\ todo = {} /\ contents = <<>>
    /\ answer = "S_OK"
    /\ archives = 0

----------------------------------------------------------------------------
Goto(t, phase) == pc' = [pc EXCEPT ![t] = phase]

GoOn(t, phase) == Goto(t, phase) /\ UNCHANGED returned

Return(t, outcome) ==
    /\ Goto(t, "idle")
    /\ returned' = [returned EXCEPT ![t] = outcome]

\* A critical section can begin.
Unlocked == mutex = NoThread

----------------------------------------------------------------------------
\* add() of a path and of a stream

AddIsHeard == ~(archive \/ opening \/ result = "E_ABORT")

\* A path that was added before is an exception; a call that comes too late is
\* silently ignored.  Neither changes anything.
AddPath(p) ==
    /\ Unlocked /\ AddIsHeard
    /\ p \notin Range(paths)
    /\ paths' = Append(paths, p)
    /\ UNCHANGED <<flagVars, updateVars, threadVars, subDirs, files, streams,
                   itemsCount, result, outOpen, source, answer>>

AddStream(s) ==
    /\ Unlocked /\ AddIsHeard
    /\ s \notin Range(streams)
    /\ streams' = Append(streams, s)
    /\ UNCHANGED <<flagVars, updateVars, threadVars, paths, subDirs, files,
                   itemsCount, result, outOpen, source, answer>>

----------------------------------------------------------------------------
\* EncoderImpl::open()

OpenMayStart == ~(archive \/ opening \/ compressing \/ result = "E_ABORT")

OpenRefused(t) ==
    /\ pc[t] = "idle" /\ Unlocked
    /\ ~OpenMayStart
    /\ Return(t, "false")
    /\ UNCHANGED <<itemVars, flagVars, updateVars, result, outOpen, source, answer>>

OpenStart(t) ==
    /\ pc[t] = "idle" /\ Unlocked
    /\ OpenMayStart
    /\ mutex' = t
    /\ opening' = TRUE
    /\ GoOn(t, "scan")
    /\ UNCHANGED <<itemVars, updateVars, archive, compressing, archives, result,
                   outOpen, source, answer>>

\* A path in processAddedPaths(): a file is an item, a directory as many as it
\* holds; one that holds none is dropped.
AddItems(done, path, listing) ==
    IF path \in Files
    THEN [dirs |-> done.dirs, files |-> Append(done.files, path), count |-> done.count + 1]
    ELSE IF listing[path] > 0
    THEN [dirs |-> Append(done.dirs, [dir |-> path, count |-> listing[path]]),
          files |-> done.files, count |-> done.count + listing[path]]
    ELSE done

\* What it makes of the first n paths.
Processed(n, listing) ==
    LET done[i \in 0..n] == IF i = 0 THEN [dirs |-> <<>>, files |-> <<>>, count |-> 0]
                            ELSE AddItems(done[i - 1], paths[i], listing)
    IN  done[n]

IsSupported(count) == count \in 1..MaxItems

\* With nothing to compress open() returns false, with more than the type
\* supports it throws, and so it does at a path that cannot be read, after the
\* paths before it.  In all three _opening stays set.
OpenScan(t) ==
    /\ pc[t] = "scan"
    /\ \E listing \in [Dirs -> 0..MaxDirFiles] :
          \/ LET done == Processed(Len(paths), listing)
                 count == done.count + Len(streams)
             IN  /\ subDirs' = done.dirs /\ files' = done.files
                 /\ paths' = <<>>
                 /\ IF IsSupported(count)
                    THEN /\ itemsCount' = count
                         /\ GoOn(t, "openOut")
                         /\ UNCHANGED mutex
                    ELSE /\ mutex' = NoThread
                         /\ Return(t, IF count = 0 THEN "false" ELSE "thrown")
                         /\ UNCHANGED itemsCount
          \/ /\ \E read \in DOMAIN paths :
                   LET done == Processed(read - 1, listing)
                   IN  subDirs' = done.dirs /\ files' = done.files
             /\ mutex' = NoThread
             /\ Return(t, "thrown")
             /\ UNCHANGED <<paths, itemsCount>>
    /\ UNCHANGED <<updateVars, archive, opening, compressing, archives, streams,
                   result, outOpen, source, answer>>

\* _stream->open(), the creation of the archive and its settings: each of them
\* may throw and leave what the ones before it did.
OpenOut(t) ==
    /\ pc[t] = "openOut"
    /\ mutex' = NoThread
    /\ \/ /\ outOpen' = TRUE /\ archive' = TRUE /\ opening' = FALSE
          /\ Return(t, "true")
       \/ /\ \E created \in BOOLEAN, out \in {TRUE, outOpen} :
                /\ created => out
                /\ archive' = created /\ outOpen' = out
          /\ Return(t, "thrown")
          /\ UNCHANGED opening
    /\ UNCHANGED <<itemVars, updateVars, compressing, archives, result, source, answer>>

----------------------------------------------------------------------------
\* setupSource()

\* The index that is left behind the directories is one of a file or a stream.
InFiles(index) ==
    IF index < Len(files) THEN <<files[index + 1], 0>>
    ELSE <<streams[index - Len(files) + 1], 0>>

\* A directory in the loop of setupSource(): it has the item, or the index goes on
\* behind it.
Pass_OffByOne(at, subDir) ==
    IF at.item # NoItem THEN at
    ELSE IF at.left <= subDir.count
    THEN [left |-> at.left, item |-> <<subDir.dir, at.left>>]
    ELSE [left |-> at.left - subDir.count, item |-> NoItem]

Pass(at, subDir) ==
    IF at.item # NoItem THEN at
    ELSE IF at.left < subDir.count
    THEN [left |-> at.left, item |-> <<subDir.dir, at.left>>]
    ELSE [left |-> at.left - subDir.count, item |-> NoItem]

\* Walks the lists as the code does.
Located(index) ==
    LET walk[i \in 0..Len(subDirs)] == IF i = 0 THEN [left |-> index, item |-> NoItem]
                                       ELSE Pass(walk[i - 1], subDirs[i])
        at == walk[Len(subDirs)]
    IN  IF at.item # NoItem THEN at.item ELSE InFiles(at.left)

\* _source for an index: what it is if it was set up for that index, closed or
\* not, and otherwise the item's.  A stream's size is found by opening it.
SourceAt(index) ==
    IF source.index = index THEN source
    ELSE [index |-> index,
          item |-> Located(index),
          stream |-> IF Located(index)[1] \in Streams THEN "closed" ELSE "none"]

\* A stream that cannot be opened is an exception, one that cannot be sought
\* an error.
SetupMayFail(index) == source.index # index /\ Located(index)[1] \in Streams

CloseSource(src) == [src EXCEPT !.item = NoItem, !.stream = "none"]

----------------------------------------------------------------------------
\* EncoderImpl::compress()

CompressMayStart == archive /\ ~opening /\ ~compressing /\ result # "E_ABORT"

CompressRefused(t) ==
    /\ pc[t] = "idle" /\ Unlocked
    /\ ~CompressMayStart
    /\ Return(t, "false")
    /\ UNCHANGED <<itemVars, flagVars, updateVars, result, outOpen, source, answer>>

\* _source is forced to be set up anew for the first item.
SourceAtStart ==
    [index |-> 0, item |-> Located(0),
     stream |-> IF Located(0)[1] \in Streams THEN "closed" ELSE "none"]

CompressStart(t) ==
    /\ pc[t] = "idle" /\ Unlocked
    /\ CompressMayStart
    /\ source' = SourceAtStart
    /\ \/ /\ compressing' = TRUE
          /\ GoOn(t, "info")
          /\ next' = 0 /\ names' = <<>>
          /\ todo' = 0..(itemsCount - 1)
          /\ contents' = [i \in 1..itemsCount |-> NoItem]
          /\ answer' = "S_OK"
       \/ /\ Located(0)[1] \in Streams
          /\ \E outcome \in {"false", "thrown"} : Return(t, outcome)
          /\ UNCHANGED <<compressing, updateVars, answer>>
    /\ UNCHANGED <<itemVars, mutex, archive, opening, archives, result, outOpen>>

\* A call of the archive is answered: it stops at anything but S_OK.
Answer(t, hresult, phase) ==
    /\ GoOn(t, IF hresult = "S_OK" THEN phase ELSE "compressEnd")
    /\ answer' = hresult

\* SetTotal() and SetCompleted(), called between and within items: they stop an
\* aborted update; the progress delegate may throw.
ReportProgress(t) ==
    /\ pc[t] \in {"streams", "read"} /\ Unlocked
    /\ \/ result # "S_OK" /\ Answer(t, result, pc[t])
       \/ result = "S_OK" /\ Answer(t, "E_FAIL", pc[t])
    /\ UNCHANGED <<itemVars, flagVars, updateVars, result, outOpen, source>>

\* A call of the archive that is about an item sets _source up for it: it goes
\* on, or fails with an exception or with an error that stays in _result.
AboutItem(t, index, phase) ==
    /\ result = "S_OK"
    /\ source' = SourceAt(index)
    /\ \/ Answer(t, "S_OK", phase) /\ UNCHANGED result
       \/ /\ SetupMayFail(index)
          /\ Answer(t, "E_FAIL", phase)
          /\ result' \in {"S_OK", "E_FAIL"}

\* Any call is answered by the error the encoder already has.
Stopped(t) ==
    /\ result # "S_OK"
    /\ Answer(t, result, pc[t])
    /\ UNCHANGED <<result, source>>

GetUpdateItemInfo(t) ==
    /\ pc[t] = "info" /\ Unlocked
    /\ AboutItem(t, next, "property") \/ Stopped(t)
    /\ UNCHANGED <<itemVars, flagVars, updateVars, outOpen>>

GetProperty(t) ==
    /\ pc[t] = "property" /\ Unlocked
    /\ \/ /\ AboutItem(t, next, IF next + 1 = itemsCount THEN "streams" ELSE "info")
          /\ names' = Append(names, source'.item)
          /\ next' = next + 1
       \/ Stopped(t) /\ UNCHANGED <<names, next>>
    /\ UNCHANGED <<itemVars, flagVars, todo, contents, outOpen>>

\* GetStream() opens the stream of an item, which may throw; the delegate that
\* hears of the path may throw after that.
GetStream(t) ==
    /\ pc[t] = "streams" /\ Unlocked
    /\ \E i \in todo :
          \/ /\ result = "S_OK"
             /\ source' = [SourceAt(i) EXCEPT !.stream = "open"]
             /\ \/ Answer(t, "S_OK", "read")
                \/ Answer(t, "E_FAIL", "read")
             /\ contents' = [contents EXCEPT ![i + 1] = source'.item]
             /\ UNCHANGED result
          \/ /\ result = "S_OK"
             /\ source' = [SourceAt(i) EXCEPT !.stream = "closed"]
             /\ Answer(t, "E_FAIL", "read")
             /\ result' \in {"S_OK"} \cup {r \in {"E_FAIL"} : SetupMayFail(i)}
             /\ UNCHANGED contents
          \/ Stopped(t) /\ UNCHANGED contents
    /\ UNCHANGED <<itemVars, flagVars, next, names, todo, outOpen>>

\* The archive reads the item, compresses it and writes the out-stream.
ReadItem(t) ==
    /\ pc[t] = "read"
    /\ \/ outOpen /\ source.stream = "open" /\ Answer(t, "S_OK", "readDone")
       \/ Answer(t, "E_FAIL", "readDone")
    /\ UNCHANGED <<itemVars, flagVars, updateVars, result, outOpen, source>>

Remaining_All == todo
Remaining == todo \ {source.index}

\* SetOperationResult() closes the item, unless the update is to stop; an item
\* that went wrong is an error unless the update was aborted before.
SetOperationResult(t) ==
    /\ pc[t] = "readDone" /\ Unlocked
    /\ \E good \in BOOLEAN :
          /\ result' = IF result = "S_OK" /\ ~good THEN "E_FAIL" ELSE result
          /\ source' = IF result = "S_OK" THEN CloseSource(source) ELSE source
          /\ todo' = Remaining
          /\ Answer(t, result', IF todo' = {} THEN "finish" ELSE "streams")
    /\ UNCHANGED <<itemVars, flagVars, next, names, contents, outOpen>>

\* The archive writes its headers.
Finish(t) ==
    /\ pc[t] = "finish"
    /\ GoOn(t, "compressEnd")
    /\ answer' \in {"E_FAIL"} \cup {r \in {"S_OK"} : outOpen}
    /\ UNCHANGED <<itemVars, flagVars, updateVars, result, outOpen, source>>

CompressSucceeded_Unchecked == answer = "S_OK"
CompressSucceeded == answer = "S_OK" /\ result = "S_OK"

OutAfterCompress == FALSE

SourceAfterCompress == CloseSource(source)

\* The end of compress(), with the mutex again.
CompressEnd(t) ==
    /\ pc[t] = "compressEnd" /\ Unlocked
    /\ compressing' = FALSE
    /\ outOpen' = OutAfterCompress
    /\ source' = SourceAfterCompress
    /\ Return(t, IF CompressSucceeded THEN "true"
                 ELSE IF "E_ABORT" \in {answer, result} THEN "false"
                 ELSE "thrown")
    /\ archives' = IF CompressSucceeded THEN archives + 1 ELSE archives
    /\ UNCHANGED <<itemVars, updateVars, mutex, archive, opening, result, answer>>

----------------------------------------------------------------------------
\* EncoderImpl::abort(): the caller may have to wait for the mutex.

AbortCall(t) ==
    /\ pc[t] = "idle"
    /\ GoOn(t, "abort")
    /\ UNCHANGED <<itemVars, flagVars, updateVars, result, outOpen, source, answer>>

AbortLeavesStreams_Never == FALSE
AbortLeavesStreams_Always == TRUE
AbortLeavesStreams == compressing

Abort(t) ==
    /\ pc[t] = "abort" /\ Unlocked
    /\ result' = "E_ABORT"
    /\ IF AbortLeavesStreams
       THEN UNCHANGED <<outOpen, source>>
       ELSE outOpen' = FALSE /\ source' = CloseSource(source)
    /\ Return(t, "none")
    /\ UNCHANGED <<itemVars, flagVars, updateVars, answer>>

----------------------------------------------------------------------------
Add ==
    \/ \E p \in Dirs \cup Files : AddPath(p)
    \/ \E s \in Streams : AddStream(s)

Call(t) ==
    \/ OpenRefused(t)
    \/ OpenStart(t)
    \/ CompressRefused(t)
    \/ CompressStart(t)
    \/ AbortCall(t)

Step(t) ==
    \/ OpenScan(t)
    \/ OpenOut(t)
    \/ GetUpdateItemInfo(t)
    \/ GetProperty(t)
    \/ GetStream(t)
    \/ ReadItem(t)
    \/ SetOperationResult(t)
    \/ ReportProgress(t)
    \/ Finish(t)
    \/ CompressEnd(t)
    \/ Abort(t)

Next ==
    \/ Add
    \/ \E t \in Threads : Call(t) \/ Step(t)

\* A thread goes on with its call whenever the mutex lets it.
Fairness == \A t \in Threads : WF_vars(Step(t))

Spec == Init /\ [][Next]_vars

FairSpec == Spec /\ Fairness

----------------------------------------------------------------------------
\* The items in the order in which open() counted them.
AllItems ==
    FlattenSeq([i \in DOMAIN subDirs |->
                   [k \in 1..subDirs[i].count |-> <<subDirs[i].dir, k - 1>>]])
    \o [i \in DOMAIN files |-> <<files[i], 0>>]
    \o [i \in DOMAIN streams |-> <<streams[i], 0>>]

\* Where everything lives.
TypeOK ==
    /\ mutex \in Threads \cup {NoThread}
    /\ archive \in BOOLEAN /\ opening \in BOOLEAN /\ compressing \in BOOLEAN
    /\ result \in HResult /\ answer \in HResult
    /\ outOpen \in BOOLEAN
    /\ paths \in Seq(Dirs \cup Files) /\ files \in Seq(Files)
    /\ subDirs \in Seq(SubDir) /\ streams \in Seq(Streams)
    /\ itemsCount \in 0..MaxItems
    /\ source \in [index : 0..MaxItems, item : Item \cup {NoItem},
                   stream : {"none", "closed", "open"}]
    /\ pc \in [Threads -> {"idle", "abort"} \cup OpenPhases \cup CompressPhases]
    /\ returned \in [Threads -> {"none", "true", "false", "thrown"}]
    /\ next \in 0..itemsCount
    /\ names \in Seq(Item) /\ contents \in Seq(Item \cup {NoItem})
    /\ todo \in SUBSET (0..MaxItems)
    /\ archives \in Nat

Compressing(t) == pc[t] \in CompressPhases

\* The in-stream of an item is open only while compress() runs, whether the item
\* was finished, failed or was interrupted; and then an aborted encoder has closed
\* the out-stream as well: abort() and the end of the operation it interrupts
\* share that duty.
AbortedHoldsNothing ==
    /\ source.stream = "open" => compressing
    /\ result = "E_ABORT" /\ ~compressing /\ Unlocked => ~outOpen

\* An archive compress() succeeds with has all the items that were added, in
\* their order, each under its own name and with its own data; and there is one
\* at most, because the out-stream can take no other.
ArchiveComplete ==
    [][archives' > archives =>
          archives = 0 /\ names = AllItems /\ contents = AllItems]_vars

\* abort() does not close the out-stream under the archive that writes it.
NeverClosedUnderWriter ==
    [][\A t \in Threads : {pc[t], pc'[t]} \subseteq UpdatePhases /\ outOpen => outOpen']_vars

\* An abort is final: nothing overwrites it, and from then on open() and
\* compress() only return false, without an exception.
AbortIsFinal ==
    [][result = "E_ABORT" =>
          /\ result' = "E_ABORT"
          /\ \A t \in Threads :
                (Compressing(t) \/ pc[t] = "idle") /\ pc'[t] = "idle" =>
                    returned'[t] \in {returned[t], "false"}]_vars

\* Every call comes back, those that wait for a long open() included.
CallsReturn == \A t \in Threads : pc[t] # "idle" ~> pc[t] = "idle"

\* An open() that abort() is called upon before it is done does not succeed.
\* The code does not keep this: open() holds the mutex abort() waits for, and
\* the result it looks at in the middle cannot have changed.
AbortStopsOpening ==
    [][\A t, u \in Threads :
          /\ pc[t] \in OpenPhases /\ pc'[t] = "idle"
          /\ pc[u] = "abort"
          => returned'[t] # "true"]_vars
=============================================================================
