------------------------------- MODULE Progress -------------------------------
(***************************************************************************)
(* Progress: how far an operation of a decoder or an encoder has come, and *)
(* the delegate that is told of it.  An operation has parts; within a part *)
(* the archive says how much there is to do and how much is done.          *)
(*                                                                         *)
(* Every method is one critical section.  Its report to the delegate is a  *)
(* copy made there and delivered after the mutex was given back, so that   *)
(* other threads may come in between.                                      *)
(*                                                                         *)
(* The operation is driven from one thread at a time, because a callback   *)
(* keeps its own mutex while it is in a method of the progress.  Users set *)
(* the delegate from other threads.                                        *)
(***************************************************************************)
EXTENDS Doubles

CONSTANTS
    Users,          \* threads that set the delegate
    Worker,         \* the thread in the operation
    Delegates,      \* delegates, and callbacks of the C API
    NoDelegate,
    Paths,          \* paths of items
    NoPath,         \* the empty path
    NoReport,
    Counts,         \* bound: numbers of parts of an operation
    Totals,         \* bound: what an archive has to do in a part
    Amounts,        \* bound: what it says it has done of it
    MaxExtractions, \* bound: operations of a decoder
    MaxCompressions \* bound: operations of an encoder

ASSUME ProgressAssumption ==
    /\ Worker \notin Users /\ NoDelegate \notin Delegates /\ NoPath \notin Paths
    /\ Totals \subseteq Nat /\ Amounts \subseteq Nat /\ 0 \in Totals \cap Amounts
    /\ MaxExtractions \in Nat /\ MaxCompressions \in Nat
    /\ 1 \in Counts /\ Counts \subseteq Nat \ {0}
    /\ \A n \in Counts : Accuracy * n <= Scale      \* 1 / n has full accuracy

VARIABLES
    kind,           \* whose progress it is: "decoder" or "encoder"
    delegate,       \* _delegate, _utf8Callback, _wideCallback
    path,           \* _path
    partsCount, partNumber, partCompleted, partTotal, perPart, progress,
    operations,     \* operations begun
    phase,          \* where the operation is
    report,         \* per thread: the report it is about to deliver
    informed        \* history: delegates that were told path and progress as they are

operation == <<operations, phase>>
parts == <<partsCount, partNumber, perPart>>
part == <<partCompleted, partTotal>>
told == <<path, progress>>
vars == <<kind, delegate, told, parts, part, operation, report, informed>>

Threads == Users \cup {Worker}

Report == [delegate : Delegates, path : Paths \cup {NoPath}, progress : Nat]

Init ==
    /\ kind \in {"decoder", "encoder"}
    /\ delegate = NoDelegate
    /\ path = NoPath /\ progress = 0
    /\ partsCount = 1 /\ partNumber = 0 /\ perPart = 0
    /\ partCompleted = 0 /\ partTotal = 0
    /\ operations = 0 /\ phase = "idle"
    /\ report = [t \in Threads |-> NoReport]
    /\ informed = {}

----------------------------------------------------------------------------
Idle(t) == report[t] = NoReport

\* The thread in the operation is at ps and has delivered its report.
At(ps) == phase \in ps /\ Idle(Worker)

Goto(p) == phase' = p /\ UNCHANGED operations

\* updateProgress(): what is done of a part, and of the whole.
Lesser(a, b) == IF a < b THEN a ELSE b

Share_Unlimited(completed, total) == Product(perPart, Quotient(completed, total))
Share(completed, total) == Product(perPart, Lesser(Quotient(completed, total), Scale))

Begin(number) == IF number > 0 THEN Times(perPart, number - 1) ELSE 0

UpdatedProgress(number, completed, total) ==
    IF total > 0 THEN Sum(Begin(number), Share(completed, total)) ELSE Begin(number)

\* reportData(), if there is a delegate to report to.
Copy(d) == IF d = NoDelegate THEN NoReport
           ELSE [delegate |-> d, path |-> path', progress |-> progress']

\* The thread t leaves its critical section with a report, or without.
Reports(t, d, news) == report' = [report EXCEPT ![t] = IF news THEN Copy(d) ELSE NoReport]

\* Whoever was informed is no longer, if there is something new.
Forget == informed' = IF told' = told THEN informed ELSE {}

\* setTotal(), setCompleted() and finish() report a progress that has changed.
HasChanged(old) == progress' # old

Update(number, completed, total) ==
    /\ partNumber' = number /\ partCompleted' = completed /\ partTotal' = total
    /\ progress' = UpdatedProgress(number, completed, total) /\ UNCHANGED path
    /\ Reports(Worker, delegate, HasChanged(progress))
    /\ Forget
    /\ UNCHANGED <<kind, delegate, partsCount, perPart>>

----------------------------------------------------------------------------
\* reset(), called by DecoderImpl::process() and again by
\* ExtractCallback::process().  An encoder does not call it.
Reset ==
    /\ At({"idle", "called"}) /\ kind = "decoder"
    /\ \/ phase = "idle" /\ operations < MaxExtractions
          /\ operations' = operations + 1 /\ phase' = "called"
       \/ phase = "called" /\ Goto("reset")
    /\ path' = NoPath
    /\ partsCount' = 1 /\ partNumber' = 0 /\ perPart' = 0
    /\ partCompleted' = 0 /\ partTotal' = 0
    /\ progress' = 0
    /\ Forget
    /\ UNCHANGED <<kind, delegate, report>>

\* The share of a part in the whole.
PerPart(n) == Quotient(1, n)

SetPartsCount ==
    /\ \/ At({"reset"}) /\ partsCount' \in Counts /\ UNCHANGED operations
       \/ /\ At({"idle"}) /\ kind = "encoder" /\ operations < MaxCompressions
          /\ partsCount' = 1 /\ operations' = operations + 1
    /\ perPart' = PerPart(partsCount')
    /\ phase' = "between"
    /\ UNCHANGED <<kind, delegate, told, partNumber, part, report, informed>>

\* startPart() forgets what was done of the part before.
StartPart ==
    /\ At({"between"})
    /\ partNumber' = partNumber + 1
    /\ partCompleted' = 0 /\ partTotal' = 0
    /\ Goto("started")
    /\ UNCHANGED <<kind, delegate, told, partsCount, perPart, report, informed>>

\* The archive says how much there is to do in the part.
SetTotal ==
    /\ At({"started"})
    /\ \E n \in Totals : Update(partNumber, partCompleted, n)
    /\ Goto("running")

\* The archive says how much of it is done; it may say more than the total.  An
\* encoder that is used again has a closed stream and does nothing.
SetCompleted ==
    /\ At({"running"})
    /\ \E n \in Amounts :
          /\ n >= partCompleted
          /\ kind = "encoder" /\ operations > 1 => n = 0
          /\ Update(partNumber, n, partTotal)
    /\ UNCHANGED operation

\* setPath() always reports.
SetPath ==
    /\ At({"started", "running"})
    /\ path' \in Paths /\ UNCHANGED progress
    /\ Reports(Worker, delegate, TRUE)
    /\ Forget
    /\ UNCHANGED <<kind, delegate, parts, part, operation>>

\* A batch of an extraction is done; a part may have been empty.
EndPart ==
    /\ kind = "decoder" /\ At({"started", "running"}) /\ partNumber < partsCount
    /\ Goto("between")
    /\ UNCHANGED <<kind, delegate, told, parts, part, report, informed>>

CompletedAtEnd_Kept == partCompleted
CompletedAtEnd == partTotal

\* finish(), at the end of an extraction.
Finish ==
    /\ kind = "decoder" /\ At({"started", "running"}) /\ partNumber = partsCount
    /\ Update(partsCount, CompletedAtEnd, partTotal)
    /\ Goto("finished")

\* The operation returns; an encoder does so without finish(), and whoever fails
\* or is aborted may do so anywhere.
Return ==
    /\ At({"called", "reset", "between", "started", "running", "finished"})
    /\ Goto("idle")
    /\ UNCHANGED <<kind, delegate, told, parts, part, report, informed>>

----------------------------------------------------------------------------
\* A delegate set while an operation is on its way is told at once.
IsDue_Never == FALSE
IsDue == progress > 0

\* setDelegate(), setUtf8Callback(), setWideCallback().
SetDelegate(u, d) ==
    /\ Idle(u)
    /\ delegate' = d
    /\ UNCHANGED told
    /\ Reports(u, d, IsDue)
    /\ UNCHANGED <<kind, parts, part, operation, informed>>

\* report(): the delegate gets the copy, whatever happened since it was made.
Deliver(t) ==
    /\ ~Idle(t)
    /\ informed' = IF <<report[t].path, report[t].progress>> = told
                   THEN informed \cup {report[t].delegate} ELSE informed
    /\ report' = [report EXCEPT ![t] = NoReport]
    /\ UNCHANGED <<kind, delegate, told, parts, part, operation>>

Next ==
    \/ Reset \/ SetPartsCount \/ StartPart \/ SetTotal \/ SetCompleted \/ SetPath
    \/ EndPart \/ Finish \/ Return
    \/ \E u \in Users, d \in Delegates \cup {NoDelegate} : SetDelegate(u, d)
    \/ \E t \in Threads : Deliver(t)

Spec == Init /\ [][Next]_vars

----------------------------------------------------------------------------
TypeOK ==
    /\ kind \in {"decoder", "encoder"}
    /\ delegate \in Delegates \cup {NoDelegate}
    /\ path \in Paths \cup {NoPath} /\ progress \in Nat
    /\ partsCount \in Counts /\ partNumber \in Nat /\ perPart \in 0..Scale
    /\ partCompleted \in Amounts \cup Totals /\ partTotal \in Totals
    /\ operations \in Nat
    /\ phase \in {"idle", "called", "reset", "between", "started", "running", "finished"}
    /\ report \in [Threads -> Report \cup {NoReport}]
    /\ informed \subseteq Delegates

\* No news is lost between two threads: once something was reported, the delegate
\* of the moment knows path and progress as they are, or a thread is on its way to
\* tell it.  This is why a delegate that is set late gets a report of its own: the
\* operation reports changes only.
NoNewsLost ==
    delegate # NoDelegate /\ progress > 0 =>
        \/ delegate \in informed
        \/ \E t \in Threads :
              report[t] = [delegate |-> delegate, path |-> path, progress |-> progress]

\* Two units in the last place of 1.0: what rounding may make of a progress.
Tolerance == (2 * Scale) \div Accuracy

\* While a part goes on the progress never falls, although an archive may report
\* more than it announced.  Where the next part begins it may fall by a rounding
\* error, since the parts before are multiplied there and were added up until then;
\* otherwise only a new operation takes it back.
NeverFalls ==
    [][progress' < progress =>
          \/ phase' \in {"called", "reset"}
          \/ phase = "started" /\ progress - progress' <= Tolerance]_vars

\* The progress is 1.0 but for rounding at the end of an extraction whose last batch
\* had any data.
EndsAtOne ==
    phase = "finished" /\ partTotal > 0 =>
        progress <= Scale + Tolerance /\ Scale <= progress + Tolerance

\* The range [0.0; 1.0] the C API promises of every report is kept, but for rounding,
\* by every extraction and by the first two compress() of an encoder.  It is left
\* by every further compress() that gets as far as an update: startPart() goes on
\* counting the parts of the operations before.
InRange(x) == x <= Scale + Tolerance
RangeUntilRetried ==
    /\ kind = "decoder" \/ operations <= 2 =>
          \A t \in Threads : ~Idle(t) => InRange(report[t].progress)
    /\ kind = "encoder" /\ partNumber > 2 /\ phase = "running" => ~InRange(progress)
=============================================================================
