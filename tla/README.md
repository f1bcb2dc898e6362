# PLzmaSDK in TLA+

A model of the core of PLzmaSDK: the decoder and the encoder as several threads
use them, the callbacks an archive drives, the progress they report, the counted
references that keep a decoder alive, the streams an archive is read from and
written to, and the asynchronous operations of the Node.js addon.  TLC checks the
models on small instances (`*.cfg`); TLAPS proves every safety property the passing
runs check for every instance (`*Proofs.tla`), and that the two multi-volume streams
implement flat ones.  `PROJECT.json` lists the
components, the runs, the lines every definition stands for, the hazards of the
code and the theorems.

Paths below are relative to the repository; `src/plzma_decoder_impl.cpp` and the
like are the SDK's own sources, `src/C`, `src/CPP` and `src/Asm` the 7-zip code
it carries.

## The system

| Component | State | Operations | Talks to |
|---|---|---|---|
| Decoder (`plzma_decoder_impl`) | `_opened`, `_opening`, `_aborted`, `_openCallback`, `_extractCallback`, `_stream`, one mutex | `open`, `extract` (3 forms), `test` (2), `abort`, `count`, `items`, `itemAt` | creates an open callback per `open()` and an extract callback per operation; opens and closes the in-stream |
| Open callback (`plzma_open_callback`) | `_result`, `_itemsCount`, `_archive`, a mutex | `open`, `abort`, item properties | the archive reads the in-stream through it and asks it for the password |
| Extract callback (`plzma_extract_callback`) | `_result`, `_exception`, `_currentOutStream`, `_extracting`, selection and batch, a mutex | `process`, `abort`; called by the archive: `GetStream`, `PrepareOperation`, `SetOperationResult`, progress, password | the archive calls it on the thread that extracts; `abort` comes from another thread |
| Encoder (`plzma_encoder_impl`) | lists of paths, directories, files, streams; `_source`; `_archive`, `_opening`, `_compressing`, `_result`, options, one mutex | `add` (2), `open`, `compress`, `abort`, options; called by the archive: `GetUpdateItemInfo`, `GetProperty`, `GetStream`, `SetOperationResult`, progress, password | is itself the callback of the archive; opens and closes the out-stream and the in-stream of each item |
| Out-streams (`plzma_out_streams`) | file, memory, test, and multi-volume streams: parts, size, offset, open flag, exception | `open`, `close`, `Write`, `Seek`, `SetSize`, `erase`, `copyContent`, `streams` | written by the archive without a lock, opened and closed by the encoder or the extract callback |
| In-streams (`plzma_in_streams`) | file, memory, callback and multi-volume streams | `open`, `close`, `Read`, `Seek`, `erase` | read by the archive without a lock |
| Progress (`plzma_progress`) | delegate, path, parts, completed, total, a mutex | `reset`, `startPart`, `setTotal`, `setCompleted`, `setPath`, `finish`, `setDelegate` | called with the mutex of a callback held; calls the user's delegate |
| Paths, strings, items, memory | values | conversion, normalisation, walk over directories | used by all |
| Reference counts (`libplzma.hpp`, `plzma_private.hpp`, 7-zip's `MyCom.h`) | `_m_RefCount` of each object | `retain`, `release` (with the mutex), `AddRef`, `Release` (without) | `SharedPtr` of the user and of the SDK, `CMyComPtr` of the SDK and of 7-zip |
| Node.js addon (`src/node/module.cpp`) | `_asyncData`, `_progressCallback` per object; `AsyncData` per asynchronous operation: path, progress, libuv handle, promise | one function per method; `Work` on libuv's pool, `Progress`, `Complete`, `Close` on the loop | wraps decoder and encoder; is their progress delegate |
| C bindings, Swift, Objective-C | a sticky exception per object | one function per method | wrap decoder and encoder |
| 7-zip | archives and codecs | `Open`, `Extract`, `UpdateItems` | drives the callbacks and streams |

What is hard:

* **Interleaving.** Every long operation gives its mutex back while the archive
  works.  `abort()` and further operations come in between, and the flags read
  before have to be judged again after.
* **Two locks, one result.** An abort is recorded in the decoder and in its
  callbacks, each under its own mutex; results of items, exceptions and aborts
  race for the same `_result`.
* **Who closes the stream.** `abort()` leaves the stream open when somebody else
  is there to close it, and closes it when nobody is.  Both mistakes are easy: a
  stream closed under its reader, or a stream nobody closes.
* **Partial failure.** Exceptions leave `open()`, `process()` and `compress()`
  half way; `clear()` and `erase()` of a multi-volume stream fail half way.
* **Numbers.** Items are found by counting an index down through three lists,
  volumes by dividing an offset, batches by a limit of 256.
* **Progress delegates** run on the thread that extracts, with a mutex held.
* **One counter, two disciplines.** `retain()` and `release()` count under the
  object's mutex, `AddRef()` and `Release()` without it, on the same plain integer.
* **Two threads, one `AsyncData`.** In Node.js reports come from the pool and from
  the loop, and libuv merges the requests to look at them.

What makes each component correct, in short:

* Decoder: one opener or one extraction at a time, no lost abort, streams open
  under their readers and closed afterwards, every operation returns.
* Encoder: one compression at a time, an archive with exactly the added items, a
  final abort, no stream left open, at most one archive per out-stream.
* Multi-volume out-stream: it behaves as one flat stream, no volume is longer than
  its limit, size and volumes agree.
* Progress: up to the rounding of doubles it never falls within an operation, stays
  in the range from 0 to 1 and ends at 1, and the delegate gets to know its last
  state.
* Batches of the extract callback: every selected item is extracted exactly as
  often as it was selected, in ascending order.
* Multi-volume in-stream: it reads like one stream, whatever position each volume
  was left at.
* Reference counts: no count is lost, nothing is deleted while it is used, and the
  last to leave deletes it.
* Node.js addon: script is called on the thread of the loop only, hears the last
  news, and each promise is settled once.

## Modules

### `Decoder.tla`

One action is a critical section of a mutex, or one unlocked call into the
archive or the stream between two of them.  `abort()` takes the mutex of a
callback inside the mutex of the decoder; no code takes them in the other order
unless a progress delegate calls the decoder, which this module excludes, so each
section is atomic.

| TLA+ | Code |
|---|---|
| `opened`, `opening`, `aborted`, `extractCallback`, `streamOpen` | fields of `DecoderImpl`; `extractCallback` names the thread whose callback is registered |
| `openCallback` | `_result` and `_itemsCount` of the current `OpenCallback` |
| `callback[t]` | the `ExtractCallback` of the operation of `t`: `_result`, `_currentOutStream`, the items left |
| `archiveResult[t]`, `pc[t]`, `returned[t]` | the local `HRESULT`, the place in the code, how the last call ended |
| `OpenStart`, `OpenStream`, `OpenCallbackStart`, `ArchiveOpen`, `OpenCallbackResult`, `OpenCommit` | `DecoderImpl::open` with `OpenCallback::open`, cut where a mutex is taken or given back |
| `ProcessStart`, `ProcessBegin`, `ExtractEnd`, `ProcessCommit` | `DecoderImpl::process` with `ExtractCallback::process` |
| `ReportProgress`, `GetStream`, `PrepareOperation`, `Decode`, `SetOperationResult` | the calls of the archive for an item |
| `Abort` | `DecoderImpl::abort` with the `abort` of both callbacks |

Exceptions are branches of the action they occur in: they end the operation with
`"thrown"` and leave behind what the code leaves behind (`_opening` set, or the
extract callback registered).  Which exception it is, the password and the
properties of items are left out.  The archive is nondeterministic: any number
of items up to `ItemsCount`, good or bad, and any point at which it fails.

### `DecoderLifetime.tla`

What `Decoder` leaves out: the mutexes of the decoder and of its `ExtractCallback`
are state (`lock`), and so are the counters of their references.  Users share the
decoder by counted handles, a worker extracts, and the progress delegate, called
under the callback's mutex, may call `count()` or `abort()` of the decoder.

| TLA+ | Code |
|---|---|
| `count`, `loaded` | `_m_RefCount`; the value a thread has read and is about to write back: `++` and `--` are two steps |
| `registered`, `result`, `aborted` | `_extractCallback` of the decoder, `_result` of the callback, `_aborted` |
| `refs`, `alive`, `torn` | history: who holds a counted pointer, whether the object was deleted, whose counter two threads updated at once |
| `unwound`, `reentered` | history: an exception left `process()`; a delegate called the decoder |
| `UserCalls`, `Retain`, `Release`, `DeleteDecoder` | copies and ends of a `SharedPtr<Decoder>`: `retain()`, `release()`, the destructor |
| `Count`, `Abort` | `count()`, `items()`, `itemAt()`; `abort()` with the pointer it moves out and drops |
| `Start`, `Head`, `Enter`, `ArchiveExtract`, `Report`, `Delegate`, `Leave`, `Commit`, `Drop` | `extract()` and `test()` with `DecoderImpl::process`, `ExtractCallback::process`, the `CMyComPtr` of the archive and `setProgress...`, cut at each update of a counter and each mutex |

A data race on a counter is modelled by what it does: each of the two updates
reads before or after the other has written.  The users call an object only while
they hold a handle; that the SDK keeps to the same is what the module shows.

### `DecoderProofs.tla`, `DecoderLifetimeProofs.tla`

The theorems about these two; see *Proofs*.

### `Encoder.tla`

The encoder has a single mutex.  `open()` keeps it from beginning to end, so
`mutex` names the thread in `open()` and every other critical section needs
`Unlocked`; `compress()` gives it back while the archive works and each call of
the archive takes it.

| TLA+ | Code |
|---|---|
| `paths`, `subDirs`, `files`, `streams`, `itemsCount` | the lists of `EncoderImpl`; a directory is its name and a number of files |
| `source` | `_source`: the index it was set up for, the item, the stream |
| `archive`, `opening`, `compressing`, `result`, `outOpen` | `_archive`, `_opening`, `_compressing`, `_result`, whether `_stream` is open |
| `next`, `names`, `todo`, `contents`, `answer` | the archive: the item it asks for, names it was told, items still to be read, what it read, what `UpdateItems` returns |
| `OpenStart`, `OpenScan`, `OpenOut` | `open()` with `processAddedPaths()` and `applySettings()` |
| `AddItems`, `Processed` | one turn of the loop of `processAddedPaths()`, and what the turns make of the first `n` paths |
| `Pass`, `Located`, `SourceAt`, `CloseSource` | one turn of the loop over directories in `setupSource()`, its walk through the three lists; `setupSource()`, `Source::close()` |
| `CompressStart` ... `CompressEnd` | `compress()` and the callbacks |
| `AbortCall`, `Abort` | `abort()`, which may wait for the mutex |

The names and contents of the archive are items `<<directory, n>>`, `<<file, 0>>`
or `<<stream, 0>>`, so that an archive with an item missing, doubled or swapped
can be told from a good one.  Items are taken to hold at least a byte: a 7z
archive does not ask for the stream of an empty file.

### `EncoderProofs.tla`

The theorems about `Encoder`; see *Proofs*.

### `ByteStream.tla`, `OutMultiStream.tla` and `OutMultiStreamProofs.tla`

`ByteStream` is what an archive expects of the stream it writes: a flat sequence
of bytes with a position.  `OutMultiStream` is `OutMultiStreamBase` over its file
or memory parts, one action per turn of the loop of `Write()`, and implements it:
`FlatSpec` is `ByteStream`'s `Spec` with the joined parts for the content.  The
helper `Joined` is what `copyContent()` computes.

Two history variables delimit what is promised.  `failed` says that a `Write()`
failed in this use: an archive returns the error at once and asks no more until
the encoder closes the stream.  `broken` says that the parts no longer hold what
was written, and is set in exactly four cases, each a behaviour of the code: a
device failed, `erase()` stopped half way, file parts of an earlier use are going
to be truncated one by one when the stream is used again, and `SetSize()` left
the last part longer than it should be.

`OutMultiStreamProofs` has the theorems about the parts and the refinement; see
*Proofs*.

### `ExtractBatches.tla` and `ExtractBatchesProofs.tla`

One extraction, sequentially: what `ExtractCallback::process()` makes of the items
it was passed, and what a 7z archive makes of each batch.

| TLA+ | Code |
|---|---|
| `folderStart` | `FileIndexToFolderIndexMap` and `FolderStartFileIndex`; `Layouts` are the archives `FillLinks()` can produce |
| `items`, `itemIndex`, `first`, `last` | `_itemsArray` or `_itemsMap`, the locals of the loop, `_extractingFirstIndex` and `_extractingLastIndex` |
| `batch`, `wanted`, `file` | what `CHandler::Extract()` has still to come to, the indices of the run through a folder it is in, `_fileIndex` |
| `Begin`, `StartBatch`, `EndBatch`, `Fail` | `process()`, cut before and after the call of the archive |
| `StartRun`, `Item` | one turn of the loop of `CHandler::Extract()`; one item of `CFolderOutStream` with `GetStream()` |

`Sorted` puts each item in its place (`Place`: as many as are smaller, or equal and
before it, come first), which is what `qsort` leaves of equal numbers that nothing
tells apart; the stream of an item is found by a
binary search: which of two equal ones it finds is left open.  `toStreams` tells
the form of `extract()` that takes a stream for each item from the others; to
extract everything is to select every item.

### `Doubles.tla`, `Progress.tla` and `MCProgress.tla`

`Doubles` is the arithmetic of non-negative doubles: each sum, product and quotient is
the double nearest to the exact result, the even one if two are as near.  Numbers are
whole numbers of units of 1 / `Scale`, the unit is the smallest double, and from
`u * Accuracy` on the doubles are the multiples of the spacing `u`.  For the doubles
of the code `Accuracy` is 2^52, the unit 2^-1074 and the spacings are powers of two;
TLC is given fewer bits, the theorems hold for any.  Two things are left out: sizes from
2^53 on, whose conversion to a double rounds once more, and builds that keep
intermediate results in more precision (x87, fused multiply and add).

Every method of `Progress` is an action; `phase` is the place of the operation
that calls them: `DecoderImpl::process()` and `ExtractCallback::process()` for a
decoder, `EncoderImpl::compress()` for an encoder.  `report[t]` is the
`ReportData` a thread copied under the mutex and delivers (`Deliver`) after it gave
it back.  Calls of an operation come one at a time, since the callback holds its
own mutex around them.  (After an abort a new extraction may share the progress
with the one that is ending; that is left out.)

| TLA+ | Code |
|---|---|
| `partsCount`, `partNumber`, `partCompleted`, `partTotal`, `perPart`, `progress`, `path`, `delegate` | the fields of these names |
| `Begin`, `Share`, `UpdatedProgress` | `updateProgress()`: `_perPart * (_partNumber - 1)`, `_perPart * MyMin(...)`, and their sum |
| `PerPart` | `1.0 / partsCount`, rounded: so many parts need not add up to 1.0 |
| `Reset` ... `Finish`, `SetDelegate` | the methods of these names |
| `informed` | history: the delegates that were told path and progress as they are |

`MCProgress` adds the symmetry of users and of delegates for TLC; no property tells
one of them from another.

### `ProgressProofs.tla`

The theorems about `Progress`; see *Proofs*.

### `ByteSource.tla`, `InMultiStream.tla` and `InMultiStreamProofs.tla`

`ByteSource` is what an archive expects of the stream it reads: bytes that stay as
they are while it is open, and a position.  `InMultiStream` is the class of that
name over `CMultiStream`, with its list of volumes, the position each was left at
(`local`; `at` is where it really is), the offsets `Init()` adds up (`OffsetOf`)
and the binary search of `Read()` (`Found`, a sequence of `Turn`s).
It implements `ByteSource` (`FlatSpec`) until it is `broken`, and `close()` mends
it.  It breaks in two cases: `open()` failed at a later volume, so that the earlier ones
are still in the list when it is tried again; and a seek inside `Read()` failed,
after which `CMultiStream` takes the volume to be at its start.

### `NodeAsync.tla` and `NodeAsyncProofs.tla`

A `Decoder` of the Node.js addon.  Script runs on the thread of the event loop and
extracts there, or on a thread of libuv's pool with a promise for the outcome;
what the decoder reports meanwhile goes through the `AsyncData` of the operation
to the loop, which calls the progress function of the script.

| TLA+ | Code |
|---|---|
| `asyncData`, `function`, `delegate` | `_asyncData`, `_progressCallback`, whether the decoder reports to the object |
| `data`, `callback`, `requested`, `promise` | `AsyncData`: path and progress, `progressCallback`, a pending `uv_async_send`, the resolver |
| `phase` | where the operation is: in the queue of libuv, at work, done or thrown, its handle closing, deleted |
| `onProgress`, `report` | where each thread is in `Decoder::onProgress()`, and the arguments |
| `news`, `running` | the decoder: path and progress, the thread in its operation |
| `ExtractAsync`, `ExtractSync`, `SetProgressDelegate`, `AbortFromReport` | what script calls |
| `WorkBegin`, `WorkReport`, `WorkEnd` | `AsyncData::Work` on the pool |
| `OnProgress`, `Progress`, `Complete`, `Close` | the methods of these names |

libuv is external and modelled by what its documentation and the code rely on:
requests of one handle merge, callbacks of a handle that is closing do not come
any more, the loop runs one callback at a time.  The `Encoder` object has a copy
of the same code.

## Runs

| Run | Question | Instance | Outcome |
|---|---|---|---|
| `decoder` | What may an operation rely on while others run and the decoder is aborted? | 2 threads, 2 items, 2 aborts | 52,695 states, passes |
| `decoder_thread_safe` | Does any step close the stream under a thread that reads it? | the same | violated, see *Findings* |
| `decoder_lifetime` | Can a count of references be lost, who deletes the decoder, and do calls come back? | 2 users, a worker, 2 operations with a report each, 3 other calls | 148,510 states, passes |
| `decoder_lifetime_race` | Does the callback outlive the archive's call of it? | 1 abort during an extraction | violated, see *Findings* |
| `encoder` | Is a successful archive complete, an abort final, and nothing left open? | 2 threads, 2 directories of up to 2 files, 1 file, 1 stream, at most 3 items | 302,864 states, passes |
| `encoder_abort_opening` | Can an abort stop an `open()`? | 2 threads, 1 directory, 1 file, 1 stream | violated, see *Findings* |
| `out_multi_stream` | Are the volumes one flat stream? | bytes 0 and 1, volumes of 2 bytes, at most 3 volumes, writes of up to 4 bytes | 192,605 states, passes |
| `extract_batches` | Does an extraction do what was selected, whatever the batches and folders? | 3 items, batches of 2, every selection of up to 5 items, every layout | 960,688 states, passes |
| `progress` | Does the delegate get to know how far the operation is, and does it make sense, although doubles round? | 2 users and 2 delegates (symmetric), 1, 6 or 9 parts of up to 2 units, doubles with 11 bits, 2 extractions or 3 compressions | 5,210,565 states, passes; see *Findings* for its third compression |
| `in_multi_stream` | Do the volumes read like one stream? | 3 volumes of up to 2 bytes, of 3 kinds, reads of 1 or 2 bytes | 182,891 states, passes |
| `node_async` | Does script get its reports and its promises, whatever it does meanwhile? | 3 operations of 2 reports, 1 destination, 1 item, 3 changes of the progress function | 195,863 states, passes |
| `node_destination` | Is a path extracted to the one that was asked for? | the same, smaller | violated, see *Findings* |

Why the bounds are enough.  Two threads show every race of two critical sections,
and `abort()` of the decoder needs no thread of its own since it is one step; two
aborts are needed for the second one, which finds no registered callback.  Two
items give an extraction a first, a last and an in-between.  The encoder's three
kinds of items, with directories of none, one or two files and a limit of three
items, make every branch of `setupSource()` and both refusals of `open()` happen.
Volumes of two bytes have a middle; three of them and writes of four bytes give a
write that starts inside one volume, fills a second and ends in a third, and a
stream that grows one byte too long.  Batches of two with up to five items give no
batch, one, two and three of them, full or not, and with items selected twice the
end of one batch can be the beginning of the next; `BatchSize` stands for 256.
Six is the first number of parts that does not add up to 1.0, nine the first with
which the progress falls where a part begins (from the sixth to the seventh); both are
so with 53 bits as well as with 11.  So `EndsAtOne` and `NeverFalls` need their tolerance on this instance: without
it TLC finds both violated.  Totals of zero and two give parts without data, and
archives that report more than they announced; the second extraction meets what the
first left, and the third compression is the one an encoder cannot count.  Three
volumes of no, one and two bytes give the binary search both directions and empty
volumes anywhere; `MaxSubs` lets one failed `open()` be followed by another.  Two
users and the worker are the three who can be left with the last reference of a
decoder; three calls let one user copy a handle, another drop the last and a third
call or abort come between; a second operation meets what the first left behind.  Of
the reports of an operation one is enough there, since a report changes nothing but
the thread that waits.  In `NodeAsync` the third operation is the first that can
follow both a settled and a running one, two reports show that the second replaces
the first before the loop has looked, and three changes of the function set, remove
and set it again.

`CHECK_DEADLOCK FALSE` is in the configurations of the modules in which the system
may stop: the one extraction of `ExtractBatches` ends, the calls of `DecoderLifetime`
and `NodeAsync` are bounded, and in both a progress function can wait for a mutex
its own thread holds.  Everywhere else TLC looks for deadlocks.

What the properties say, beyond the types:

* `OneOpener`, `OneExtraction`: mutual exclusion that the flags, and not a lock,
  provide.  `OneExtraction` ends with the first abort: `abort()` unregisters an
  extraction that still runs.
* `AbortReachesAll`, `AbortIsFinal`: no abort is lost or overwritten.
* `ReadersHaveStream`, `NeverClosedUnderWriter`: an abort does not close a stream
  in use.  For the decoder this holds of one abort with nothing begun after it.
* `CountAfterAbort`: an abort that races the end of `open()` wins.
* `OutClosedOnReturn`, `AbortedHoldsNothing`, `AbortedStreamCloses`: what has to be
  closed is closed, whatever failed before; the encoder's in-streams too.
* `RacesConfined`: half of the updates of each counter take another mutex than the
  other half, or none.  Still two of them meet only after an `abort()`, or after an
  exception has unwound `process()`.
* `CountsExact`, `DecoderOutlivesUsers`: until that happens the counters are right,
  and whoever deletes the decoder or the callback leaves nobody in it.
* `SilentAfterAbort`: once a callback was told to abort its delegate hears no more.
* `ArchiveComplete`: a `compress()` that succeeds wrote each added item once, in
  order, with its own name and data, and is the first: a second one passes all
  guards of the code and still cannot succeed, because the first closed the stream.
* `PartsFit`, `WholeContent`, `FlatSpec`: volumes, size and content agree, and a
  closed stream has no open part.
* `ExtractsInOrder`, `ExtractsAll`, `StreamsServed`: the items extracted are the
  selected ones, also where a solid archive is skipped through.  An item that was
  passed with two streams may leave one of them empty.
* `PartsAsAnnounced`: the progress is told of as many parts as were announced.
* `NoNewsLost`: whoever is the delegate has been told of the progress as it is, or
  is about to be; this fails if a delegate set late gets no report of its own.
* `NeverFalls`, `EndsAtOne`, `RangeUntilRetried`: what the numbers are worth, up to
  `Tolerance`, two units in the last place of 1.0 (2^-51 for the doubles of the code).
  Within a part the progress never falls at all; where a part begins it may fall by
  that much, since `updateProgress()` multiplies there what it added up before: with
  9 batches by 2^-53 from batch 6 to 7, with 186 from batch 93 to 94.  Six batches
  end at 1 - 2^-53, and 93 at 1 + 2^-52.
* `PlacesKnown`, `SearchFinds`: the bookkeeping of `CMultiStream`, on which
  `FlatSpec` of `InMultiStream` rests.
* `OneOperation`, `ScriptOnLoop`: a report never goes to an `AsyncData` that is
  gone, and never calls script from the pool.
* `NothingMissed`, `SettledOnce`, `PromisesSettle`: requests of libuv may merge and
  the last news still gets through while the operation is in use; each promise is
  settled, and once.
* `OperationReturns`, `CallsReturn`, `WriteReturns`, `Returns`: everything comes
  back.  `CallsReturn` of `DecoderLifetime` leaves out delegates that called the
  decoder, `PromisesSettle` a progress function that aborted an operation on the
  loop: both can wait for ever, and nothing says that they may be written.

Every module has a type invariant, which its proof module proves; a run checks the
one of `Decoder`.

Fairness.  Each thread that is inside an operation goes on with it (`WF` of its
own steps): the scheduler runs every thread, mutexes are held for a bounded time,
and reads and writes of the archive end.  Nothing is assumed of a thread that is
idle: nobody has to call anything.  The archive is not assumed to succeed, and
progress reports that change nothing are stuttering, so an archive that reports
for ever is not an excuse.  `WF` is enough for the encoder, although a step may
have to wait for `open()`: nobody can enter `open()` again and again, because a
second `open()` is refused.  In `ExtractBatches` the thread of the operation goes
on (`WF` of everything but `Fail`): nothing is assumed to fail or not to.
`DecoderLifetime` has `WF` of the steps of each thread: a thread that may wait for
a mutex is not promised to get it while others take it again and again, but calls
and reports are finite, so it does in the end.  `NodeAsync` has `WF(Pool)` and
`WF(Loop)`: libuv gets to what is queued, the loop to its callbacks, and the
progress function returns; script itself has to do nothing.
`Progress` and `InMultiStream` state safety only.

### Findings

* `decoder_thread_safe`, `NeverClosedUnderReader`.  `Decoder::abort` is documented as thread-safe
  (`libplzma.hpp:1286`).  The first `abort()` moves `_extractCallback` away while
  its extraction runs; a second one finds neither `_opening` nor a callback and
  closes the stream the archive is reading on another thread; the `Read()` and
  `Seek()` of a stream take no lock.  An extraction let in after the abort meets
  the same end.  `ReadersHaveStream` states what does hold.
* `encoder_abort_opening`, `AbortStopsOpening`.  `Encoder::open` is documented as abortable
  (`libplzma.hpp:1439`).  It holds the mutex `abort()` takes from its first to its
  last line, so the check for an abort in the middle can see none.

* `decoder_lifetime_race`, `CallbackOutlivesCall`.  `abort()`, documented as thread-safe, moves
  `_extractCallback` out and releases it with the decoder's mutex, by a plain `--`;
  the extraction counts the references of the same object with the callback's mutex
  (`selfPtr`) or none (the archive), plain as well.  If two of these meet, one is
  lost, and the callback is deleted while the archive calls it.  `RacesConfined` and
  `CountsExact` say that nothing of the kind happens without an abort or exception.
* `node_destination`, `DestinationKept`.  `extractAsync(path)` extracts "to a specific path"
  (`NODEJSMODULE.md:514`).  The path waits in `AsyncData::path` until the pool reads
  it, and a report writes the path of an item to the same field: a progress function
  set after `extractAsync()` makes the decoder report what an earlier operation
  left, and the items are extracted below that path.

* `progress`, `RangeUntilRetried`.  A progress callback is documented to get "the total
  progress of the current operation in range [0.0; 1.0]" (`libplzma.h:455`).
  `compress()` calls `startPart()` but never `reset()`, so `_partNumber` goes on
  counting the parts of earlier operations and `updateProgress()` adds 1.0 for each:
  the third `compress()` of an encoder reports 2.0, the next 3.0, before it throws for
  the closed stream.  The property has two clauses: extractions and the first two
  `compress()` keep the range, but for rounding (93 batches report 1 + 2^-52), and
  *every* later `compress()` that gets as far as an update leaves it.  Because the
  second clause says that it always happens, the run passes, and the theorem
  proves the misbehaviour for every value of the constants.

Behaviour worth knowing that no document contradicts, or that needs no model.

Decoder and encoder: an exception, or for the encoder also "nothing to compress",
leaves `_opening` set for good; an exception from an extraction leaves it
registered, and later ones return false; a second `compress()` throws instead of
returning false.  A delegate that was removed may be called once more; one that
calls `abort()` waits for the callback's mutex, which its own thread holds, and one
that calls `count()` waits for an `abort()` that waits for it.  `selfPtr` can be the
last reference of a decoder: `process()` then deletes it with its mutex locked, and
the guard unlocks it afterwards (`plzma_decoder_impl.hpp:85`).  `initialize()`
guards the registration of codecs with a plain static flag (`plzma.cpp:519`).

Streams: a multi-volume stream that is shortened by `SetSize()` keeps a last volume
that is too long; an extraction whose last batch has no data ends with a progress
below 1; a multi-volume in-stream whose `open()` failed has to be closed before it
is opened again.

Node.js: both threads write `AsyncData::path`, a string, without a mutex; the last
report may be lost to `uv_close()`, which drops a pending request; a synchronous
operation whose progress function aborts it blocks the loop;
`Local<Array>::Cast(args[1])` looks like a slip for `args[0]` (`module.cpp:1289`).

## Proofs

`DecoderProofs` proves `Spec => []P` for seven properties of `Decoder`, for any
set of threads, any number of items of the archive and any number of aborts.
Assumed of the constants is only `DecoderAssumption`: `NoThread` is no thread,
`ItemsCount` a positive and `MaxAborts` a natural number.

| Theorem | Property |
|---|---|
| `TypeCorrect` | `TypeOK` |
| `OneOpenerHolds` | `OneOpener` |
| `OneExtractionHolds` | `OneExtraction` |
| `ReadersHaveStreamHolds` | `ReadersHaveStream` |
| `AbortReachesAllHolds` | `AbortReachesAll` |
| `CountAfterAbortHolds` | `CountAfterAbort` |
| `OutClosedOnReturnHolds` | `OutClosedOnReturn` |

None of the properties is inductive alone.  The invariant is `IInv == TypeInv /\
SInv`.  `TypeInv` adds `CallbackPhases`: inside the archive an extraction has an
item left, and outside it has no out-stream; without it `SetOperationResult()`
could count below zero.  `SInv` adds

* `AbortHistory`: the flag `_aborted` agrees with the number of aborts;
* `Extractions`: extractions only run on an opened decoder, and at most one that
  began before the abort runs even after it was unregistered.  It is the reason
  why a single abort cannot make an extraction close the stream of another;
* `StreamHeld`: from which point on the stream is open, and that the first abort
  leaves it open under the operation that will close it;
* `AbortedOpen`: an abort leaves no items behind, even if `open()` is between its
  two critical sections.

`InitType` and `NextType` prove `TypeInv`, `InitSafety` and `NextSafety` the rest,
with one step per action; the seven actions inside an extraction share
`ExtractStepEffect`, which says what the rest of the decoder sees of them.

`ProgressProofs` proves type correctness and the four properties of the run
`progress`, for any threads and delegates, any bounds on parts, totals and operations,
and doubles of any precision.  `DoublesAssumption` says what doubles are: each spacing
divides the larger ones, 1.0 is a double, and a number has more than four spacings
unless it is among the smallest.  `ProgressAssumption` names the thread of the operation
apart from the users, keeps "none" apart from delegates and paths, and wants 1 / n to
be large enough for the full precision, for every number n of parts.  Doubles with
52 bits behind the point fulfil both for every number of parts the code can announce.

| Theorem | Property |
|---|---|
| `TypeCorrect` | `TypeOK` |
| `NoNewsLostHolds` | `NoNewsLost` |
| `EndsAtOneHolds` | `EndsAtOne` |
| `RangeUntilRetriedHolds` | `RangeUntilRetried` |
| `NeverFallsHolds` | `NeverFalls` |

The first part is about doubles.  `NearestNear` and `NearestAccurate` bound what a
rounding loses, absolutely and in proportion; `NearestGrows` says that rounding keeps
the order and `NearestExact` that it leaves a double alone, so a share never exceeds
its part and a sum is never below its terms (`ShareBounds`, `Updates`): within a
part no tolerance is needed.  `PerPartAccurate`, `PlacesAccurate` and `PartsInPlace`
add three roundings up (of 1 / n, of a product, of a sum) and find the end of
each part within `Tolerance` of the beginning of the next, and the last within
`Tolerance` of 1.0.

The invariant is `IInv == TypeOK /\ PartsInv /\ PartInv`.  `PartsInv` counts parts: a
decoder never starts more than it announced, and the part number of an encoder is
bounded by the number of its operations only, which is why `RangeUntilRetried` ends with
the second `compress()`.  `PartInv` places the progress: between parts it is at most
what the begun parts can have reached (`Reached`, for a decoder `EndOf` the last of them), and
within one it is what `updateProgress()` computes.  `UpdateEffect` says it of
`setTotal()`, `setCompleted()` and `finish()` together, `BeginsNear` that what was
reached is above the beginning of the next part by a rounding error at most, and
`BeyondRange` that the third part of an encoder begins beyond the range.  `NoNewsLost`
needs no numbers: it is inductive because a thread that reports something new holds the
only newer news.

`DecoderLifetimeProofs` is about any finite set of users and any number of
operations, reports and calls.  `DecoderLifetimeAssumption` tells the worker, the
users, the names of the pointers and "no thread" apart; that the users are finite is
needed to count references.

| Theorem | Property |
|---|---|
| `TypeCorrect` | `TypeOK` |
| `RacesConfinedHolds` | `RacesConfined` |
| `SilentAfterAbortHolds` | `SilentAfterAbort` |
| `CountsExactHolds` | `CountsExact` |
| `DecoderOutlivesUsersHolds` | `DecoderOutlivesUsers` |

The invariant has two layers.  `SafetyInv` says who holds which mutex in which phase
(`LockInv`: an exception brings `process()` to its end without the mutex) and that
only a user's `abort()` gets past both mutexes (`AbortInv`), from which
`RacesConfined` follows: updates that meet without an abort would need the same
mutex twice.  `CountInv` says what holds until two updates have met: who has a
reference follows from where each thread is (`Holding`), a counter is the cardinality
of its holders (`Exact`) and what a thread has loaded is still the counter
(`Updates`), an object lives as long as it has holders and one thread at most is
deleting it (`Living`), and nobody who is about to be counted is left without a
handle that keeps the decoder alive (`Kept`).
Each part is proved for four groups of steps (`Steps`): the users' handles, the calls
of `count()` and `abort()`, and the two halves of an extraction.

`EncoderProofs` is about any threads, paths, directories, files and streams.
`EncoderAssumption` tells "no thread" from the threads and the kinds of items from
each other, and lets an encoder have an item at least.

| Theorem | Property |
|---|---|
| `TypeCorrect` | `TypeOK` |
| `ArchiveCompleteHolds` | `ArchiveComplete` |
| `AbortedHoldsNothingHolds` | `AbortedHoldsNothing` |
| `NeverClosedUnderWriterHolds` | `NeverClosedUnderWriter` |
| `AbortIsFinalHolds` | `AbortIsFinal` |

`OneOpener` says that the mutex is held by the thread in `open()`, which an aborted
encoder does not begin; `OneCompressor` that `_compressing` is exactly "some thread
is in `compress()`", and one at most.  `AbortedHoldsNothing` is inductive with these:
whoever leaves `compress()` closes the streams if an abort left them to it, and
`SourceMoves` says for all callbacks at once how they open and close the in-stream of
an item.

`ArchiveComplete` needs that `setupSource()` finds what `processAddedPaths()`
counted.  `Ends` says where the items of each directory end, `Hold` how many there
are.  `ProcessedExact` shows that the count and the lists agree after any number of
paths, `AllItemsListed` where each item is in the row of all of them, `PassGoesOn`
that a turn of the loop in `setupSource()` keeps to it, and `LocatedListed` that the
walk ends at the item of the index.  The invariant `CInv` adds to the types that
the lists are as counted from the moment there is an archive (`Settled`), that a
closed out-stream is not opened again (`Spent`), and what a `compress()` has done when
it is where it is (`Stage`): the names of the items before `next` are right
(`Named`), the contents of all items but those in `todo` are (`Read`), and when the
archive was written nothing is left.  TLC checked it on the instance of `encoder`
before.

`OutMultiStreamProofs` is about any bytes, any size of a part and any number of
parts.  `OutMultiStreamAssumption` says that bytes are numbers, 0 is one (what a file
reads as where nothing was written), and a part holds a byte at least.

| Theorem | Property |
|---|---|
| `TypeCorrect` | `TypeOK` |
| `PartsFitHolds` | `PartsFit` |
| `WholeContentHolds` | `WholeContent` |
| `Implements` | `FlatSpec`: every step is one of `ByteStream` or none |

`Enough` states the number of parts as two inequalities, which the solver can work
with where it cannot divide; `Division`, `Needed` and `Cut` connect it to `PartsFor()`
and to the part and offset a `Write()` goes on at.  The invariant adds to it
that every part is a part and fits (`Good`) and that a `Write()` made room for all
it is still going to store (`Room`): so each of its turns finds a part, and what it
overlays stays within it.

The content is a second layer, `Contents`.  `Whole` says that the parts hold a first
number of bytes, each as many as fit before the next has any, and that this number is
the size unless a `Write()` is still on its way there; without it a hole could be
left between two parts.  `Fresh` says that the truncation of a part that is opened late
loses nothing, `AllClosed` that a closed stream has no open part.  `JoinedFilled`
connects this to the joined parts, byte by byte, and `Storing` shows that what is
stored in one part is stored in the whole.

`ExtractBatchesProofs` is about any number of items and layouts of folders, any size
of a batch and any selection.  `ExtractBatchesAssumption` says that a batch
holds an item at least and that "no folder" is no number.

| Theorem | Property |
|---|---|
| `TypeCorrect` | `TypeOK` |
| `ExtractsInOrderHolds` | `ExtractsInOrder` |
| `ExtractsAllHolds` | `ExtractsAll` |
| `PartsAsAnnouncedHolds` | `PartsAsAnnounced` |
| `StreamsServedHolds` | `StreamsServed` |

The heart of the invariant is `Row`: what was extracted, what the archive wants next
and what is left of the batch are, one behind the other, the sorted items up to
`itemIndex`.  `Limits` keeps the archive within the indices of its batch and `Run`
keeps it in front of what it wants, so that it skips no item it was asked for;
`Parts` counts the batches, all full but the last.  `AscendingOrder` shows of the
places that they are a permutation and ascend: `PlaceInside` and `PlaceBefore`
compare numbers of elements, so nothing has to be known of a sort.

`InMultiStreamProofs` is about any number of volumes of any sizes.
`InMultiStreamAssumption` says that there is a volume and that a read may ask for a
byte.

| Theorem | Property |
|---|---|
| `TypeCorrect` | `TypeOK` |
| `PlacesKnownHolds` | `PlacesKnown` |
| `SearchFindsHolds` | `SearchFinds` |
| `Implements` | `FlatSpec`: every step is one of `ByteSource` or none |

The invariant is `IInv == TypeOK /\ Sized /\ Ready /\ OneEach /\ PlacesKnown`:
entries have the sizes of their volumes and lie one behind the other (`Laid`), and
each volume has one entry unless an `open()` failed before.  `PlacesKnown` is
inductive with it: a volume is only read at the place its entry remembers.
`TurnNarrows` shows that a turn of the search keeps the entry of the position in the
range and finds it or leaves the range shorter, `Searched` that it is found before
the turns end, and `EachHasEntry` that no other entry could be.  For the
refinement `ContentHolds` says that the bytes of a volume are in the content from the
offset of its entry on, and `ReadFlat` that a read of a volume is one of the content.

`NodeAsyncProofs` is about any destinations and items and any number of operations,
reports and changes of the progress function.

| Theorem | Property |
|---|---|
| `TypeCorrect` | `TypeOK` |
| `OneOperationHolds` | `OneOperation` |
| `ScriptOnLoopHolds` | `ScriptOnLoop` |
| `NothingMissedHolds` | `NothingMissed` |
| `SettledOnceHolds` | `SettledOnce` |

The three properties are proved together, since types depend on them (a report is
written to an `AsyncData` that exists).  Three conjuncts are added: operations are
used in order, the pool reports of the operation it is working on, and an operation
that was settled is closing and owed no callback.

Recursion.  The joined content of the streams, the items of the encoder, the walk of
`setupSource()`, offsets and turns of the search are recursive functions, and the
library's theorems on induction and on recursive definitions take operators as
parameters, which the provers cannot instantiate.  Two lemmas stand in for them.
`CountingUp` (`Counting`, `LeastNumber`) is induction as a statement about a *set* of
numbers, from the well-foundedness of `<`: to show a fact for all numbers up to
`N` its proof takes the set of those of which it holds.  And that the function of
a recursive definition exists is proved by counting up to it (`Recursion`, `UnfoldsAll`,
`TurnsTaken`, `PilesUp`), after which its equation may be used.  So the theorems
hold for lists of every length.

Only model-checked: liveness (`OperationReturns`, `AbortedStreamCloses`, both
`CallsReturn`, `WriteReturns`, `Returns`, `PromisesSettle`), which rests on fairness
and `ENABLED`.  The properties of the four runs that end in a violation are refuted by TLC's
counterexamples.  Every other property of the runs is a theorem.

## Not modelled

7-zip itself appears as an environment that calls the callbacks in an order it
chooses and may fail anywhere; how it decodes and encodes is out of reach.  Most of
the repository is vendored 7-zip code and the archives of the tests, byte by byte.

Strings, paths, the walk over directories, timestamps and passwords are conversions
of data and file system calls without a protocol between actors: their tests go
through them value by value, and a model would restate them.  The C bindings call
one method each and turn an exception into the sticky one of the object, the Swift
and Objective-C wrappers call those; nothing in them runs concurrently that is not
in the object they wrap.  Of the Node.js addon only the asynchronous machinery is
modelled; constructors, getters, paths, items and streams wrap one call each.
Exceptions are branches; which one it is matters to no property.
Doubles are rounded as `Doubles` says, but the conversion of sizes from 2^53 on and
intermediate results of more precision are left out.
`LIBPLZMA_THREAD_UNSAFE` builds, which leave the mutexes out, are not considered.

## Plan

Done, in this order: `Decoder` with its proofs; `Encoder`; `OutMultiStream` over
`ByteStream`; `ExtractBatches`; `Progress` with its proofs; `InMultiStream` over
`ByteSource`; `DecoderLifetime` with its proofs (mutexes as state, delegates that
call back, counted references); `NodeAsync` with its proofs; the proofs about
`Encoder`, `OutMultiStream`, `ExtractBatches` and `InMultiStream` with the
refinements of the two streams.

What could follow:

1. `DecoderSession`: an abstract decoder (closed, opening, open, extracting,
   aborted) that `Decoder` implements, with the refinement proved.
2. Two extractions that share a `Progress` after an abort.
3. The safety half of `WriteReturns`: a bound on the turns of a `Write()`.
