---------------------------- MODULE ExtractBatches ----------------------------
(***************************************************************************)
(* ExtractCallback::process(): the items to extract are sorted and handed  *)
(* to the archive in batches of BatchSize indices.  A 7z archive packs     *)
(* items into folders that can only be decoded from their first item: it   *)
(* goes through the items of a folder one by one, asks the callback for a  *)
(* stream for each, and says whether the item is wanted or to be skipped.  *)
(*                                                                         *)
(* One operation, from its call to its return; Decoder has what other      *)
(* threads do in the meantime.                                             *)
(***************************************************************************)
EXTENDS Naturals, Sequences, SequencesExt

CONSTANTS
    ItemsCount,     \* items of the archive
    BatchSize,      \* maxIndicies
    MaxSelection,   \* bound: how many items a caller selects
    NoFolder        \* the folder of an item without data

ASSUME ExtractBatchesAssumption ==
    /\ ItemsCount \in Nat /\ BatchSize \in Nat \ {0} /\ MaxSelection \in Nat
    /\ NoFolder \notin Nat

VARIABLES
    folderStart,    \* per item of the archive: the first item of its folder
    selection,      \* indices of the items the caller passed, in his order
    toStreams,      \* the caller passed an out-stream with each item
    items,          \* _itemsArray or _itemsMap
    itemIndex,      \* how many of the items went into a batch
    first, last,    \* _extractingFirstIndex, _extractingLastIndex
    partsCount,     \* the batches the progress was told to expect
    partNumber,     \* the batches it was told to have begun
    batch,          \* indices of the batch the archive has not come to yet
    wanted,         \* indices it wants of the items it goes through
    file,           \* the item it is at
    extracted,      \* history: the items extracted, in order
    served,         \* history: places of the selection whose stream got an item
    phase,          \* where process() is
    returned        \* how it ended; "no" until then

selected == <<folderStart, selection, toStreams>>
archive == <<batch, wanted, file>>
history == <<extracted, served>>
vars == <<selected, items, itemIndex, first, last, partsCount, partNumber,
          archive, history, phase, returned>>

Items == 0..(ItemsCount - 1)

\* A folder is a row of neighbours; it is named by the first of them.
Layouts ==
    {f \in [Items -> Items \cup {NoFolder}] :
        \A i \in Items : f[i] # NoFolder =>
            f[i] <= i /\ \A j \in f[i]..i : f[j] = f[i]}

\* kpidSolid: some folder holds more than one item.
Solid == \E i \in Items : folderStart[i] \notin {NoFolder, i}

Init ==
    /\ folderStart \in Layouts
    /\ selection \in BoundedSeq(Items, MaxSelection)
    /\ toStreams \in BOOLEAN
    /\ items = selection
    /\ itemIndex = 0 /\ first = 0 /\ last = 0
    /\ partsCount = 1 /\ partNumber = 0
    /\ batch = <<>> /\ wanted = <<>> /\ file = 0
    /\ extracted = <<>> /\ served = {}
    /\ phase = "called" /\ returned = "no"

----------------------------------------------------------------------------
\* Numbers in ascending order: the place of each is how many are not behind it.
Place(s, j) == Cardinality({i \in DOMAIN s : s[i] < s[j] \/ (s[i] = s[j] /\ i <= j)})
Ascending(s) == [k \in DOMAIN s |-> s[CHOOSE j \in DOMAIN s : Place(s, j) = k]]

\* Vector::sort() by the index of the item.
Sorted_Not(s) == s
Sorted(s) == Ascending(s)

\* How many batches are announced for n items.
PartsFor_RoundedDown(n) == IF n < BatchSize THEN 1 ELSE n \div BatchSize

PartsFor(n) ==
    LET whole == IF n < BatchSize THEN 1 ELSE n \div BatchSize
    IN IF n > whole * BatchSize THEN whole + 1 ELSE whole

Return(r) == phase' = "done" /\ returned' = r

\* process() up to its loop.  The archive may fail to tell whether it is solid.
Begin ==
    /\ phase = "called"
    /\ \/ /\ items' = Sorted(items)
          /\ partsCount' = PartsFor(Len(items)) /\ partNumber' = 0
          /\ phase' = "batch" /\ UNCHANGED returned
       \/ Return("thrown") /\ UNCHANGED <<items, partsCount, partNumber>>
    /\ UNCHANGED <<selected, itemIndex, first, last, archive, history>>

\* The indices of the next batch.
BatchAt(n) ==
    SubSeq(items, n + 1, IF n + BatchSize < Len(items) THEN n + BatchSize ELSE Len(items))

\* The first and the last index of a batch; 0 for an empty one.
FirstOf_Last(b) == IF b = <<>> THEN 0 ELSE Last(b)
FirstOf(b) == IF b = <<>> THEN 0 ELSE Head(b)
LastOf(b) == IF b = <<>> THEN 0 ELSE Last(b)

\* The loop of process() down to the call of the archive, which is left out for
\* an empty batch.
StartBatch ==
    /\ phase = "batch"
    /\ batch' = BatchAt(itemIndex)
    /\ itemIndex' = itemIndex + Len(batch')
    /\ first' = FirstOf(batch') /\ last' = LastOf(batch')
    /\ partNumber' = partNumber + 1
    /\ phase' = "archive"
    /\ UNCHANGED <<selected, items, partsCount, wanted, file, history, returned>>

\* The first n indices of the batch can be got in one run through a folder.
InOneRun(n) ==
    \A k \in 2..n : /\ folderStart[batch[k]] = folderStart[batch[1]]
                    /\ folderStart[batch[k]] # NoFolder
                    /\ batch[k - 1] < batch[k]

RunLength_ToLast == Len(batch) - 1

RunLength == CHOOSE n \in 1..Len(batch) :
                InOneRun(n) /\ (n < Len(batch) => ~InOneRun(n + 1))

\* CHandler::Extract() takes the longest run the batch begins with and goes to
\* the first item of its folder.
StartRun ==
    /\ phase = "archive" /\ wanted = <<>> /\ batch # <<>>
    /\ wanted' = SubSeq(batch, 1, RunLength)
    /\ batch' = SubSeq(batch, RunLength + 1, Len(batch))
    /\ file' = IF folderStart[batch[1]] = NoFolder THEN batch[1] ELSE folderStart[batch[1]]
    /\ UNCHANGED <<selected, items, itemIndex, first, last, partsCount, partNumber,
                   history, phase, returned>>

\* GetStream() gives no stream for an item outside the batch of a solid archive.
InBatch(index) == Solid => first <= index /\ index <= last

\* Whether the archive asks to have its item extracted.
IsWanted(index) == Head(wanted) = index

\* getExtractStream(): the stream is found by a binary search for the index;
\* which one it is, if the item was passed twice, is open.
Serve(index) ==
    IF toStreams
    THEN \E s \in DOMAIN selection : selection[s] = index /\ served' = served \cup {s}
    ELSE UNCHANGED served

\* The archive goes through its item: GetStream(), PrepareOperation(), the data,
\* SetOperationResult().
Item ==
    /\ phase = "archive" /\ wanted # <<>>
    /\ IF IsWanted(file) /\ InBatch(file)
       THEN extracted' = Append(extracted, file) /\ Serve(file)
       ELSE UNCHANGED history
    /\ wanted' = IF Head(wanted) = file THEN Tail(wanted) ELSE wanted
    /\ file' = file + 1
    /\ UNCHANGED <<selected, items, itemIndex, first, last, partsCount, partNumber,
                   batch, phase, returned>>

\* The data is bad, a stream cannot be written, or the operation is aborted:
\* the archive gives up and process() throws, or returns if it was aborted.
Fail ==
    /\ phase = "archive" /\ (wanted # <<>> \/ batch # <<>>)
    /\ \E r \in {"thrown", "aborted"} : Return(r)
    /\ UNCHANGED <<selected, items, itemIndex, first, last, partsCount, partNumber,
                   archive, history>>

\* The loop goes on while there are items.
IsLast_OneEarly == itemIndex + 1 >= Len(items)
IsLast == itemIndex >= Len(items)

\* The archive is through with the batch.
EndBatch ==
    /\ phase = "archive" /\ wanted = <<>> /\ batch = <<>>
    /\ IF IsLast THEN Return("ok") ELSE phase' = "batch" /\ UNCHANGED returned
    /\ UNCHANGED <<selected, items, itemIndex, first, last, partsCount, partNumber,
                   archive, history>>

GoOn == Begin \/ StartBatch \/ StartRun \/ Item \/ EndBatch

Next == GoOn \/ Fail

Spec == Init /\ [][Next]_vars

\* The thread that extracts runs, and so does the archive it runs in.  Nothing
\* has to fail.
FairSpec == Spec /\ WF_vars(GoOn)

----------------------------------------------------------------------------
TypeOK ==
    /\ folderStart \in Layouts
    /\ selection \in Seq(Items) /\ items \in Seq(Items) /\ toStreams \in BOOLEAN
    /\ itemIndex \in 0..Len(items) /\ first \in Items \cup {0} /\ last \in Items \cup {0}
    /\ partsCount \in Nat \ {0} /\ partNumber \in Nat
    /\ batch \in Seq(Items) /\ wanted \in Seq(Items) /\ file \in 0..ItemsCount
    /\ extracted \in Seq(Items) /\ served \subseteq DOMAIN selection
    /\ phase \in {"called", "batch", "archive", "done"}
    /\ returned \in {"no", "ok", "thrown", "aborted"}

\* What the caller selected, in ascending order.
InOrder == Ascending(selection)

\* At any time the extracted items are the beginning of the selected ones in
\* ascending order: whatever batches, folders and skipping do, nothing is
\* extracted that was not selected, nothing twice, nothing is passed over.
ExtractsInOrder == IsPrefix(extracted, InOrder)

\* An operation that succeeds has extracted all it was asked for: no item is
\* taken for one of another batch and silently left out.
ExtractsAll == returned = "ok" => Len(extracted) = Len(selection)

\* The progress is never told of more batches than announced, and of all of them
\* by the end of an operation that succeeds.
PartsAsAnnounced ==
    /\ partNumber > 0 => partNumber <= partsCount
    /\ returned = "ok" => partNumber = partsCount

\* Once an operation succeeded every stream got its item, unless the caller passed
\* that item twice: then one of its streams may have been left empty.
StreamsServed ==
    returned = "ok" /\ toStreams =>
        \A s \in DOMAIN selection :
            s \in served \/ \E t \in DOMAIN selection \ {s} : selection[t] = selection[s]

\* process() comes back whatever was selected: also for no items at all.
Returns == <>(returned # "no")
=============================================================================
