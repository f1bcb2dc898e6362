---------------------------- MODULE DecoderLifetime ----------------------------
(***************************************************************************)
(* How long a decoder and its ExtractCallback live.  Users share the       *)
(* decoder by counted handles, a worker extracts with it, and the progress *)
(* delegate, called under the callback's mutex, may call the decoder back. *)
(*                                                                         *)
(* retain() and release() count under the object's mutex; AddRef() and     *)
(* Release(), which CMyComPtr calls, are a plain ++ and -- on the same     *)
(* counter.  Either is two steps here, the counter loaded and stored back, *)
(* so that two threads without a common mutex can lose an update.  The     *)
(* mutexes are state as well: a thread may wait for one, in vain if it     *)
(* holds it, and an object may be deleted with its mutex locked.  Taking   *)
(* one is a step with the first thing done under it, giving it back one    *)
(* with the last.                                                          *)
(*                                                                         *)
(* The guard of a new process() and its _extractCallback are all that is   *)
(* left of the rest of the decoder (module Decoder).                       *)
(***************************************************************************)
EXTENDS Integers, FiniteSets

CONSTANTS
    Users,          \* the threads that hold handles of the decoder
    Worker,         \* the thread that extracts
    NoThread,       \* the owner of a free mutex
    MaxReports,     \* bound: what an archive reports in an operation
    MaxOperations,  \* bound: operations begun
    MaxCalls        \* bound: other calls begun

ASSUME DecoderLifetimeAssumption ==
    /\ IsFiniteSet(Users)
    /\ Worker \notin Users
    /\ NoThread \notin Users \cup {Worker}
    /\ {"registered", "local", "self", "archive"} \cap (Users \cup {Worker}) = {}
    /\ MaxReports \in Nat /\ MaxOperations \in Nat /\ MaxCalls \in Nat

Threads == Users \cup {Worker}

Objects == {"decoder", "callback"}

VARIABLES
    pc,             \* where each thread is
    lock,           \* the _mutex of each object: the thread that holds it
    count,          \* the _m_RefCount of each object
    loaded,         \* per thread: the counter it is about to store back
    registered,     \* whether _extractCallback of the decoder is set
    result,         \* _result of the ExtractCallback
    aborted,        \* _aborted of the decoder
    reports,        \* reports left to the archive
    operations,     \* operations begun
    calls,          \* other calls begun by users
    refs,           \* history: the pointers that are counted, by who holds them
    alive,          \* history: whether the object was made and not deleted
    torn,           \* history: the objects whose counter two threads updated at once
    unwound,        \* history: an exception has left process()
    reentered       \* history: a delegate has called the decoder

counters == <<count, refs, alive>>
coder == <<registered, result, aborted>>
bounds == <<reports, operations, calls>>
events == <<unwound, reentered>>
vars == <<pc, lock, loaded, torn, counters, coder, bounds, events>>

\* A handle is named by its user; "self" is selfPtr of a process(), "local" its
\* extractCallback, "registered" _extractCallback, "archive" what the archive
\* keeps during Extract(), and a thread the local pointer of its abort().
Holders == [decoder |-> Users \cup {"self"},
            callback |-> Threads \cup {"registered", "local", "self", "archive"}]

Init ==
    /\ \E owners \in (SUBSET Users) \ {{}} :
          /\ refs = [decoder |-> owners, callback |-> {}]
          /\ count = [decoder |-> Cardinality(owners), callback |-> 0]
    /\ alive = [decoder |-> TRUE, callback |-> FALSE]
    /\ lock = [o \in Objects |-> NoThread]
    /\ loaded = [t \in Threads |-> 0]
    /\ pc = [t \in Threads |-> "idle"]
    /\ registered = FALSE /\ result = "S_OK" /\ aborted = FALSE
    /\ reports = 0 /\ operations = 0 /\ calls = 0
    /\ torn = {} /\ unwound = FALSE /\ reentered = FALSE

----------------------------------------------------------------------------
(* What the steps are made of. *)

Move(t, from, to) == pc[t] = from /\ pc' = [pc EXCEPT ![t] = to]

Acquire(t, o) == lock[o] = NoThread /\ lock' = [lock EXCEPT ![o] = t]

GiveBack(o) == lock' = [lock EXCEPT ![o] = NoThread]

\* The phases between the two halves of an update of the counter.
Updating == [decoder |-> {"retainStore", "releaseStore", "selfStore", "selfDropStore"},
             callback |-> {"abortStore", "enterStore", "extractStore", "archiveStore",
                           "leaveStore", "commitStore", "dropStore"}]

\* The first half of ++_m_RefCount or --_m_RefCount.
Load(t, o) ==
    /\ loaded' = [loaded EXCEPT ![t] = count[o]]
    /\ torn' = IF \E u \in Threads \ {t} : pc[u] \in Updating[o] THEN torn \cup {o} ELSE torn

Forget(t) == loaded' = [loaded EXCEPT ![t] = 0]

\* The second half of ++_m_RefCount, for the pointer of who.
StoreIncrement(t, o, who) ==
    /\ count' = [count EXCEPT ![o] = loaded[t] + 1]
    /\ refs' = [refs EXCEPT ![o] = @ \cup {who}]
    /\ Forget(t)
    /\ UNCHANGED <<torn, alive>>

\* The second half of --_m_RefCount in the callback's Release(), which deletes
\* the callback when nothing is left.
DropCallback(t, who) ==
    /\ count' = [count EXCEPT !["callback"] = loaded[t] - 1]
    /\ refs' = [refs EXCEPT !["callback"] = @ \ {who}]
    /\ alive' = [alive EXCEPT !["callback"] = @ /\ loaded[t] # 1]
    /\ Forget(t)
    /\ UNCHANGED torn

UntouchedCounters == UNCHANGED <<loaded, torn, counters>>

\* A method called by a user, or by the delegate of the worker, comes back.
Caller(t) == IF t = Worker THEN "reported" ELSE "idle"

----------------------------------------------------------------------------
(* The users' handles.  A handle is passed on, and a call begun, only while *)
(* some user keeps one.                                                     *)

Keeps(u) == u \in refs["decoder"] /\ pc[u] \notin {"release", "releaseStore"}

Entering == {"retain", "retainStore", "process", "selfStore"}

Call(t, from, to) ==
    /\ Move(t, from, to)
    /\ UNCHANGED <<lock, loaded, torn, counters, coder>>

\* A user calls a method through its handle, takes a copy of another's handle,
\* or gives its own back.
UserCalls(u) ==
    /\ \/ Keeps(u) /\ \E method \in {"count", "abort"} : Call(u, "idle", method)
       \/ u \notin refs["decoder"] /\ (\E v \in Users : Keeps(v)) /\ Call(u, "idle", "retain")
       \/ /\ Keeps(u)
          /\ (\E t \in Threads : pc[t] \in Entering) => \E v \in Users \ {u} : Keeps(v)
          /\ Call(u, "idle", "release")
    /\ calls < MaxCalls /\ calls' = calls + 1
    /\ UNCHANGED <<reports, operations, events>>

\* DecoderImpl::retain()
Retain_Unlocked(u) ==
    /\ \/ Move(u, "retain", "retainStore") /\ Load(u, "decoder") /\ UNCHANGED counters
       \/ Move(u, "retainStore", "idle") /\ StoreIncrement(u, "decoder", u)
    /\ UNCHANGED <<lock, coder, bounds, events>>

Retain(u) ==
    /\ \/ Move(u, "retain", "retainStore") /\ Acquire(u, "decoder")
          /\ Load(u, "decoder") /\ UNCHANGED counters
       \/ Move(u, "retainStore", "idle") /\ GiveBack("decoder")
          /\ StoreIncrement(u, "decoder", u)
    /\ UNCHANGED <<coder, bounds, events>>

\* ~DecoderImpl() gives back _extractCallback.
DeleteDecoder_Only ==
    /\ registered' = FALSE
    /\ alive' = [alive EXCEPT !["decoder"] = FALSE]
    /\ UNCHANGED <<count, refs>>

DeleteDecoder ==
    /\ registered' = FALSE
    /\ count' = [count EXCEPT !["callback"] = IF registered THEN @ - 1 ELSE @]
    /\ refs' = [refs EXCEPT !["callback"] = @ \ {"registered"}]
    /\ alive' = [decoder |-> FALSE,
                 callback |-> alive["callback"] /\ ~(registered /\ count["callback"] = 1)]

\* DecoderImpl::release(): the last one deletes the decoder, unlocked.
Release(u) ==
    /\ \/ Move(u, "release", "releaseStore") /\ Acquire(u, "decoder")
          /\ Load(u, "decoder") /\ UNCHANGED <<counters, registered>>
       \/ /\ Move(u, "releaseStore", IF loaded[u] > 1 THEN "idle" ELSE "delete")
          /\ count' = [count EXCEPT !["decoder"] = loaded[u] - 1]
          /\ refs' = [refs EXCEPT !["decoder"] = @ \ {u}]
          /\ GiveBack("decoder") /\ Forget(u) /\ UNCHANGED <<torn, alive, registered>>
       \/ Move(u, "delete", "idle") /\ DeleteDecoder /\ UNCHANGED <<lock, loaded, torn>>
    /\ UNCHANGED <<result, aborted, bounds, events>>

\* DecoderImpl::count(), and with it every other getter that only locks.
Count(t) ==
    /\ Move(t, "count", Caller(t))
    /\ lock["decoder"] = NoThread
    /\ UntouchedCounters /\ UNCHANGED <<lock, coder, bounds, events>>

\* DecoderImpl::abort(): with the decoder's mutex, the ExtractCallback is moved
\* out, told under its own, and given back without it.
Abort(t) ==
    /\ \/ /\ Move(t, "abort", IF registered THEN "abortCallback" ELSE "abortUnlock")
          /\ Acquire(t, "decoder")
          /\ aborted' = TRUE /\ registered' = FALSE
          /\ refs' = IF registered
                     THEN [refs EXCEPT !["callback"] = (@ \ {"registered"}) \cup {t}]
                     ELSE refs
          /\ UNCHANGED <<loaded, torn, count, alive, result>>
       \/ /\ Move(t, "abortCallback", "abortLoad")
          /\ lock["callback"] = NoThread
          /\ result' = "E_ABORT"
          /\ UntouchedCounters /\ UNCHANGED <<lock, registered, aborted>>
       \/ /\ Move(t, "abortLoad", "abortStore") /\ Load(t, "callback")
          /\ UNCHANGED <<lock, counters, coder>>
       \/ /\ Move(t, "abortStore", "abortUnlock") /\ DropCallback(t, t)
          /\ UNCHANGED <<lock, coder>>
       \/ /\ Move(t, "abortUnlock", Caller(t)) /\ GiveBack("decoder")
          /\ UntouchedCounters /\ UNCHANGED coder
    /\ UNCHANGED <<bounds, events>>

----------------------------------------------------------------------------
(* DecoderImpl::process(), by the worker. *)

\* Someone with a handle has the worker extract or test.
Start ==
    /\ operations < MaxOperations /\ operations' = operations + 1
    /\ \E v \in Users : Keeps(v)
    /\ Call(Worker, "idle", "process")
    /\ reports' = MaxReports
    /\ UNCHANGED <<calls, events>>

\* The head of process(): refused, or the decoder is retained and the callback
\* made, with the references of extractCallback and of _extractCallback.
Head_NotSelfRetained ==
    /\ ~registered /\ Move(Worker, "process", "enter")
    /\ lock["decoder"] = NoThread
    /\ count' = [count EXCEPT !["callback"] = 2]
    /\ refs' = [refs EXCEPT !["callback"] = {"local", "registered"}]
    /\ alive' = [alive EXCEPT !["callback"] = TRUE]
    /\ registered' = TRUE /\ result' = "S_OK"
    /\ UNCHANGED <<lock, loaded, torn, aborted, bounds, events>>

Head ==
    /\ \/ /\ registered /\ lock["decoder"] = NoThread /\ Call(Worker, "process", "idle")
       \/ /\ ~registered /\ Move(Worker, "process", "selfStore")
          /\ Acquire(Worker, "decoder") /\ Load(Worker, "decoder")
          /\ UNCHANGED <<counters, coder>>
       \/ /\ Move(Worker, "selfStore", "enter") /\ GiveBack("decoder")
          /\ count' = [decoder |-> loaded[Worker] + 1, callback |-> 2]
          /\ refs' = [decoder |-> refs["decoder"] \cup {"self"},
                      callback |-> {"local", "registered"}]
          /\ alive' = [alive EXCEPT !["callback"] = TRUE]
          /\ registered' = TRUE /\ result' = "S_OK"
          /\ Forget(Worker) /\ UNCHANGED <<torn, aborted>>
    /\ UNCHANGED <<bounds, events>>

\* ExtractCallback::process() up to Extract() retains the callback.
Enter ==
    /\ \/ Move(Worker, "enter", "enterStore") /\ Acquire(Worker, "callback")
          /\ Load(Worker, "callback") /\ UNCHANGED counters
       \/ Move(Worker, "enterStore", "extractLoad") /\ GiveBack("callback")
          /\ StoreIncrement(Worker, "callback", "self")
    /\ UNCHANGED <<coder, bounds, events>>

\* IInArchive::Extract() keeps a reference of its own, without a mutex.
ArchiveExtract ==
    /\ \/ Move(Worker, "extractLoad", "extractStore")
          /\ Load(Worker, "callback") /\ UNCHANGED <<counters, reports>>
       \/ Move(Worker, "extractStore", "archive")
          /\ StoreIncrement(Worker, "callback", "archive") /\ UNCHANGED reports
       \/ reports > 0 /\ reports' = reports - 1
          /\ Move(Worker, "archive", "report") /\ UntouchedCounters
       \/ Move(Worker, "archive", "archiveStore")
          /\ Load(Worker, "callback") /\ UNCHANGED <<counters, reports>>
       \/ Move(Worker, "archiveStore", "leave")
          /\ DropCallback(Worker, "archive") /\ UNCHANGED reports
    /\ UNCHANGED <<lock, coder, operations, calls, events>>

\* What the archive reports reaches the delegate under the callback's mutex,
\* unless the callback was told to abort.
Report_Unlocked ==
    /\ \/ result = "S_OK" /\ Move(Worker, "report", "delegate")
       \/ result # "S_OK" /\ Move(Worker, "report", "archive")
       \/ Move(Worker, "reported", "archive")
    /\ UntouchedCounters /\ UNCHANGED <<lock, coder, bounds, events>>

Report ==
    /\ \/ result = "S_OK" /\ Move(Worker, "report", "delegate") /\ Acquire(Worker, "callback")
       \/ result # "S_OK" /\ Move(Worker, "report", "archive")
          /\ lock["callback"] = NoThread /\ UNCHANGED lock
       \/ Move(Worker, "reported", "archive") /\ GiveBack("callback")
    /\ UntouchedCounters /\ UNCHANGED <<coder, bounds, events>>

\* The delegate returns, or calls the decoder first.
\* bound: one call in a report.
Delegate ==
    /\ \/ Call(Worker, "delegate", "reported") /\ UNCHANGED reentered
       \/ /\ \E method \in {"count", "abort"} : Call(Worker, "delegate", method)
          /\ reentered' = TRUE
    /\ UNCHANGED <<bounds, unwound>>

\* The rest of ExtractCallback::process(): it returns, when it was aborted in
\* any case, or an exception unwinds the decoder's process() as well.  (One
\* from before Extract() unwinds the same way.)
Leave_Locked ==
    /\ \/ Move(Worker, "leave", "leaveStore") /\ Acquire(Worker, "callback")
          /\ Load(Worker, "callback") /\ UNCHANGED counters
       \/ Move(Worker, "leaveStore", "commit") /\ UNCHANGED lock
          /\ DropCallback(Worker, "self")
    /\ UNCHANGED <<coder, bounds, events>>

Leave ==
    /\ \/ Move(Worker, "leave", "leaveStore") /\ Acquire(Worker, "callback")
          /\ Load(Worker, "callback") /\ UNCHANGED <<counters, unwound>>
       \/ /\ \/ Move(Worker, "leaveStore", "commit") /\ UNCHANGED unwound
             \/ result = "S_OK" /\ Move(Worker, "leaveStore", "drop") /\ unwound' = TRUE
          /\ GiveBack("callback") /\ DropCallback(Worker, "self")
    /\ UNCHANGED <<coder, bounds, reentered>>

\* The tail of process(): _extractCallback, if abort() left it, is moved out
\* and given back.
Commit ==
    /\ \/ registered /\ Move(Worker, "commit", "commitStore") /\ Acquire(Worker, "decoder")
          /\ Load(Worker, "callback") /\ UNCHANGED counters
       \/ ~registered /\ Move(Worker, "commit", "drop") /\ Acquire(Worker, "decoder")
          /\ UntouchedCounters
       \/ Move(Worker, "commitStore", "drop") /\ UNCHANGED lock
          /\ DropCallback(Worker, "registered")
    /\ registered' = FALSE
    /\ UNCHANGED <<result, aborted, bounds, events>>

\* The locals of process() are destroyed, extractCallback, selfPtr and the lock:
\* with the decoder's mutex, or without after an exception.
Drop ==
    /\ \/ Move(Worker, "drop", "dropStore")
          /\ Load(Worker, "callback") /\ UNCHANGED <<lock, counters, registered>>
       \/ Move(Worker, "dropStore", "selfDrop")
          /\ DropCallback(Worker, "local") /\ UNCHANGED <<lock, registered>>
       \/ Move(Worker, "selfDrop", "selfDropStore")
          /\ Load(Worker, "decoder") /\ UNCHANGED <<lock, counters, registered>>
       \/ /\ Move(Worker, "selfDropStore", IF loaded[Worker] = 1 THEN "selfDelete" ELSE "dropped")
          /\ count' = [count EXCEPT !["decoder"] = loaded[Worker] - 1]
          /\ refs' = [refs EXCEPT !["decoder"] = @ \ {"self"}]
          /\ Forget(Worker) /\ UNCHANGED <<lock, torn, alive, registered>>
       \/ Move(Worker, "selfDelete", "dropped")
          /\ DeleteDecoder /\ UNCHANGED <<lock, loaded, torn>>
       \/ /\ Move(Worker, "dropped", "idle")
          /\ IF lock["decoder"] = Worker THEN GiveBack("decoder") ELSE UNCHANGED lock
          /\ UntouchedCounters /\ UNCHANGED registered
    /\ UNCHANGED <<result, aborted, bounds, events>>

Process == Head \/ Enter \/ ArchiveExtract \/ Report \/ Delegate \/ Leave \/ Commit \/ Drop

----------------------------------------------------------------------------
\* What a thread does once it is in a call.
Step(t) ==
    \/ Count(t) \/ Abort(t)
    \/ t \in Users /\ (Retain(t) \/ Release(t))
    \/ t = Worker /\ Process

Next ==
    \/ \E u \in Users : UserCalls(u)
    \/ Start
    \/ \E t \in Threads : Step(t)

Spec == Init /\ [][Next]_vars

\* Every thread runs on when it can, and the delegate comes back.
FairSpec == Spec /\ \A t \in Threads : WF_vars(Step(t))

----------------------------------------------------------------------------
CallPhases == {"idle", "count", "abort", "abortCallback", "abortLoad", "abortStore", "abortUnlock"}
UserPhases == CallPhases \cup {"retain", "retainStore", "release", "releaseStore", "delete"}
WorkerPhases == CallPhases \cup
    {"process", "selfStore", "enter", "enterStore", "extractLoad", "extractStore", "archive",
     "archiveStore", "report", "delegate", "reported", "leave", "leaveStore", "commit",
     "commitStore", "drop", "dropStore", "selfDrop", "selfDropStore", "selfDelete", "dropped"}

TypeOK ==
    /\ pc \in [Threads -> UserPhases \cup WorkerPhases]
    /\ \A u \in Users : pc[u] \in UserPhases
    /\ pc[Worker] \in WorkerPhases
    /\ lock \in [Objects -> Threads \cup {NoThread}]
    /\ count \in [Objects -> Int] /\ loaded \in [Threads -> Int]
    /\ DOMAIN refs = Objects /\ \A o \in Objects : refs[o] \subseteq Holders[o]
    /\ alive \in [Objects -> BOOLEAN]
    /\ registered \in BOOLEAN /\ result \in {"S_OK", "E_ABORT"} /\ aborted \in BOOLEAN
    /\ reports \in 0..MaxReports /\ operations \in 0..MaxOperations /\ calls \in 0..MaxCalls
    /\ torn \subseteq Objects /\ unwound \in BOOLEAN /\ reentered \in BOOLEAN

\* Half of the updates of either counter take another mutex than the rest, or
\* none.  Still two of them meet only where an abort() gives the callback back,
\* or where an exception has unwound process().
RacesConfined ==
    /\ "callback" \in torn => aborted
    /\ "decoder" \in torn => unwound

\* Until two updates have met no count is lost, and no object is deleted while a
\* pointer to it is counted or stays behind when the last is gone: the callback
\* goes with the decoder at the latest, whether its operation returned, was
\* aborted or was unwound.
CountsExact ==
    torn = {} =>
        /\ \A o \in Objects : count[o] = Cardinality(refs[o]) /\ (refs[o] # {} => alive[o])
        /\ alive["decoder"] =>
              refs["decoder"] # {} \/ \E t \in Threads : pc[t] \in {"delete", "selfDelete"}
        /\ alive["callback"] => refs["callback"] # {}
        /\ ~alive["decoder"] => ~alive["callback"]

\* The decoder is deleted by the last who leaves it, although its users may be
\* gone while an operation is running: nobody waits for its mutex or is in one
\* of its methods any more.  The one exception is process() itself, when selfPtr
\* was the last reference: its guard unlocks a mutex that is deleted.
DecoderOutlivesUsers ==
    torn = {} /\ ~alive["decoder"] =>
        /\ \A u \in Users : pc[u] = "idle"
        /\ pc[Worker] \in {"idle", "dropped"}

\* Once a callback was told to abort, the delegate hears nothing more of it: an
\* abort in the middle of a report waits for the delegate.
SilentAfterAbort == result = "E_ABORT" => pc[Worker] \notin {"delegate", "count"}

\* An ExtractCallback lives until the operation has come out of it.
CallbackOutlivesCall ==
    pc[Worker] \in {"archive", "report", "delegate", "reported", "leave"} => alive["callback"]

\* Every call returns, an abort() against a report and a release() against the
\* end of the operation included, as long as no delegate calls the decoder.
CallsReturn == \A t \in Threads : pc[t] # "idle" ~> pc[t] = "idle" \/ reentered

=============================================================================
