------------------------- MODULE DecoderLifetimeProofs -------------------------
(***************************************************************************)
(* The mutexes and the references of a decoder and of its ExtractCallback, *)
(* for any finite set of users and any number of operations, reports and   *)
(* calls.                                                                  *)
(***************************************************************************)
EXTENDS DecoderLifetime, FiniteSetTheorems, TLAPS

\* The phases in which a thread holds the decoder's mutex.
DecoderLocked ==
    {"retainStore", "releaseStore", "selfStore", "commitStore",
     "abortCallback", "abortLoad", "abortStore", "abortUnlock"}

\* The phases after process() came out of the callback; an exception got there
\* without the mutex.
Dropping == {"drop", "dropStore", "selfDrop", "selfDropStore", "selfDelete", "dropped"}

\* The phases in which the worker is in the progress delegate.
InDelegate == {"delegate", "reported"} \cup (CallPhases \ {"idle"})

LockInv ==
    /\ \A t \in Threads : pc[t] \in DecoderLocked => lock["decoder"] = t
    /\ pc[Worker] \in Dropping => unwound \/ lock["decoder"] = Worker
    /\ pc[Worker] \in InDelegate \cup {"enterStore", "leaveStore"} => lock["callback"] = Worker

\* An abort() that got past the mutexes was one of a user: from a report it waits
\* for the callback's mutex for ever.
AbortInv ==
    /\ \A t \in Threads :
          pc[t] \in {"abortCallback", "abortLoad", "abortStore", "abortUnlock"} => aborted
    /\ pc[Worker] \notin {"abortLoad", "abortStore"}

SafetyInv == TypeOK /\ LockInv /\ AbortInv /\ RacesConfined /\ SilentAfterAbort

----------------------------------------------------------------------------
(* What the counters are worth until two updates have met. *)

\* Who has a reference follows from where each thread is.
InCallback ==
    {"extractLoad", "extractStore", "archive", "archiveStore", "report", "leave", "leaveStore"}
        \cup InDelegate
InArchive == {"archive", "archiveStore", "report"} \cup InDelegate
InProcess == InCallback \cup {"enter", "enterStore", "commit", "commitStore", "drop", "dropStore"}

Holding ==
    /\ "self" \in refs["decoder"] <=> pc[Worker] \in InProcess \cup {"selfDrop", "selfDropStore"}
    /\ "local" \in refs["callback"] <=> pc[Worker] \in InProcess
    /\ "self" \in refs["callback"] <=> pc[Worker] \in InCallback
    /\ "archive" \in refs["callback"] <=> pc[Worker] \in InArchive
    /\ "registered" \in refs["callback"] <=> registered \/ pc[Worker] = "commitStore"
    /\ \A t \in Threads :
          t \in refs["callback"] <=> pc[t] \in {"abortCallback", "abortLoad", "abortStore"}
    /\ \A u \in Users :
          /\ pc[u] \in (CallPhases \ {"idle"}) \cup {"release", "releaseStore"}
                => u \in refs["decoder"]
          /\ pc[u] \in {"retain", "retainStore", "delete"} => u \notin refs["decoder"]

\* Nobody who is about to count himself in is left alone.
Kept == (\E t \in Threads : pc[t] \in Entering) => \E v \in Users : Keeps(v)

\* The counters are right.
Exact == \A o \in Objects : IsFiniteSet(refs[o]) /\ count[o] = Cardinality(refs[o])

\* One thread at a time updates a counter, and the count it loaded still holds.
Updates ==
    \A o \in Objects, t \in Threads : pc[t] \in Updating[o] =>
        /\ loaded[t] = count[o]
        /\ \A u \in Threads \ {t} : pc[u] \notin Updating[o]

Deleting == {"delete", "selfDelete"}

Living ==
    /\ \A o \in Objects : refs[o] # {} => alive[o]
    /\ alive["callback"] => refs["callback"] # {}
    /\ alive["decoder"] => refs["decoder"] # {} \/ \E t \in Threads : pc[t] \in Deleting
    /\ ~alive["decoder"] => ~alive["callback"]
    /\ \A t \in Threads : pc[t] \in Deleting =>
          /\ alive["decoder"] /\ refs["decoder"] = {}
          /\ \A u \in Threads \ {t} : pc[u] \notin Deleting

Settled == Holding /\ Kept /\ Exact /\ Updates /\ Living

CountInv == torn = {} => Settled

IInv == SafetyInv /\ CountInv

----------------------------------------------------------------------------
\* Truth values are kept in a function of the objects.
LEMMA TruthPaired ==
  \A x, y \in BOOLEAN : [decoder |-> x, callback |-> y] \in [Objects -> BOOLEAN]
BY DEF Objects

\* The flag of one object set.
LEMMA TruthStored ==
  \A f \in [Objects -> BOOLEAN], x \in BOOLEAN :
     [f EXCEPT !["callback"] = x] \in [Objects -> BOOLEAN]
BY DEF Objects

\* A new decoder, with its first handles.
LEMMA InitSafety == Init => SafetyInv
<1> SUFFICES ASSUME Init PROVE SafetyInv
  OBVIOUS
<1> USE DecoderLifetimeAssumption DEF Init, Threads, Objects
<1>1. TypeOK
  <2>1. PICK owners \in (SUBSET Users) \ {{}} :
           /\ refs = [decoder |-> owners, callback |-> {}]
           /\ count = [decoder |-> Cardinality(owners), callback |-> 0]
    BY Zenon
  <2>2. Cardinality(owners) \in Nat
    BY FS_Subset, FS_CardinalityType
  <2>3. count \in [Objects -> Int]
    BY <2>1, <2>2
  <2>4. DOMAIN refs = Objects /\ \A o \in Objects : refs[o] \subseteq Holders[o]
    BY <2>1 DEF Holders
  <2>5. pc \in [Threads -> UserPhases \cup WorkerPhases] /\ loaded \in [Threads -> Int]
    BY DEF UserPhases, CallPhases
  <2>6. /\ \A u \in Users : pc[u] \in UserPhases
        /\ pc[Worker] \in WorkerPhases
    BY DEF UserPhases, CallPhases, WorkerPhases
  <2>7. registered \in BOOLEAN /\ aborted \in BOOLEAN
    BY Zenon
  <2>10. unwound \in BOOLEAN /\ reentered \in BOOLEAN
    BY Zenon
  <2>11. lock \in [Objects -> Threads \cup {NoThread}]
    OBVIOUS
  <2>12. alive \in [Objects -> BOOLEAN]
    <3>1. alive = [decoder |-> TRUE, callback |-> FALSE]
      OBVIOUS
    <3> QED
      BY <3>1, TruthPaired, Zenon
  <2>8. /\ result \in {"S_OK", "E_ABORT"} /\ torn \subseteq Objects
    OBVIOUS
  <2>9. reports \in 0..MaxReports /\ operations \in 0..MaxOperations /\ calls \in 0..MaxCalls
    OBVIOUS
  <2> QED
    BY <2>3, <2>4, <2>5, <2>6, <2>7, <2>8, <2>9, <2>10, <2>11, <2>12 DEF TypeOK
<1>2. LockInv /\ AbortInv /\ SilentAfterAbort
  BY DEF LockInv, AbortInv, SilentAfterAbort, DecoderLocked, Dropping, InDelegate, CallPhases
<1>3. RacesConfined
  BY DEF RacesConfined
<1> QED
  BY <1>1, <1>2, <1>3 DEF SafetyInv

\* The steps of Next, by what they are about.
UserStep == \E u \in Users : UserCalls(u) \/ Retain(u) \/ Release(u)
CallStep == \E t \in Threads : Count(t) \/ Abort(t)
BeginStep == Start \/ Head \/ Enter \/ ArchiveExtract
EndStep == Report \/ Delegate \/ Leave \/ Commit \/ Drop

\* There are no others.
LEMMA Steps == Next => UserStep \/ CallStep \/ BeginStep \/ EndStep
BY DEF Next, Step, Process, UserStep, CallStep, BeginStep, EndStep

\* Every step keeps the type of each variable.
LEMMA NextType == TypeOK /\ [Next]_vars => TypeOK'
<1> SUFFICES ASSUME TypeOK, Next PROVE TypeOK'
  BY DEF TypeOK, vars, counters, coder, bounds, events
<1> USE DecoderLifetimeAssumption DEF TypeOK, Threads, Objects, Next, Step, Process, UserCalls,
      Start, Retain, Release, Count, Abort, Head, Enter, ArchiveExtract, Report, Delegate,
      Leave, Commit, Drop, Call
<1>1. /\ pc' \in [Threads -> UserPhases \cup WorkerPhases]
      /\ \A u \in Users : pc'[u] \in UserPhases
      /\ pc'[Worker] \in WorkerPhases
  BY SMTT(60) DEF Move, Caller, UserPhases, WorkerPhases, CallPhases
<1>2. lock' \in [Objects -> Threads \cup {NoThread}]
  BY SMTT(30) DEF Acquire, GiveBack, UntouchedCounters
<1>3. count' \in [Objects -> Int]
  BY SMTT(30) DEF StoreIncrement, DropCallback, UntouchedCounters, DeleteDecoder, counters
<1>4. loaded' \in [Threads -> Int]
  BY SMTT(30) DEF Load, Forget, StoreIncrement, DropCallback, UntouchedCounters
<1>5. DOMAIN refs' = Objects /\ \A o \in Objects : refs'[o] \subseteq Holders[o]
  BY SMTT(30) DEF StoreIncrement, DropCallback, UntouchedCounters, DeleteDecoder, counters, Holders
<1>6. alive' \in [Objects -> BOOLEAN]
  <2>1. ASSUME NEW t \in Threads, NEW who, DropCallback(t, who)
        PROVE  alive' \in [Objects -> BOOLEAN]
    <3>1. alive' = [alive EXCEPT !["callback"] = alive["callback"] /\ loaded[t] # 1]
      BY <2>1 DEF DropCallback
    <3>2. (alive["callback"] /\ loaded[t] # 1) \in BOOLEAN /\ alive \in [Objects -> BOOLEAN]
      BY Zenon
    <3> HIDE DEF Objects
    <3> QED
      BY ONLY <3>1, <3>2, TruthStored, Zenon
  <2>2. ASSUME DeleteDecoder PROVE alive' \in [Objects -> BOOLEAN]
    <3> DEFINE b == alive["callback"] /\ ~(registered /\ count["callback"] = 1)
    <3>1. alive' = [decoder |-> FALSE, callback |-> b]
      BY <2>2 DEF DeleteDecoder
    <3>2. FALSE \in BOOLEAN /\ b \in BOOLEAN
      BY Zenon
    <3> HIDE DEF Objects, b
    <3> QED
      BY ONLY <3>1, <3>2, TruthPaired, Zenon
  <2>3. Head => alive' \in [Objects -> BOOLEAN]
    BY DEF counters
  <2> QED
    BY <2>1, <2>2, <2>3 DEF StoreIncrement, UntouchedCounters, counters
<1>7. torn' \subseteq Objects
  BY SMTT(30) DEF Load, StoreIncrement, DropCallback, UntouchedCounters
<1>8. registered' \in BOOLEAN /\ aborted' \in BOOLEAN
  BY ZenonT(30), SMTT(30) DEF coder, DeleteDecoder
<1>9. result' \in {"S_OK", "E_ABORT"}
  BY SMTT(30) DEF coder
<1>10. reports' \in 0..MaxReports /\ operations' \in 0..MaxOperations /\ calls' \in 0..MaxCalls
  BY SMTT(30) DEF bounds
<1>11. unwound' \in BOOLEAN /\ reentered' \in BOOLEAN
  BY ZenonT(30), SMTT(30) DEF events
<1> QED
  BY <1>1, <1>2, <1>3, <1>4, <1>5, <1>6, <1>7, <1>8, <1>9, <1>10, <1>11

\* The mutexes keep the threads apart: a leaf looks at one group of steps.
LEMMA NextSafety == SafetyInv /\ [Next]_vars => SafetyInv'
<1> SUFFICES ASSUME SafetyInv, Next PROVE SafetyInv'
  BY NextType DEF SafetyInv, LockInv, AbortInv, RacesConfined, SilentAfterAbort, TypeOK, Keeps,
     vars, counters, coder, bounds, events
<1> USE DecoderLifetimeAssumption DEF SafetyInv, TypeOK, LockInv, AbortInv, SilentAfterAbort,
      RacesConfined, Threads, Objects, DecoderLocked, Dropping, InDelegate, CallPhases,
      UserPhases, WorkerPhases, Call, Move, Caller, Acquire, GiveBack, UntouchedCounters,
      counters, coder, events
<1>1. UserStep => LockInv' /\ AbortInv' /\ SilentAfterAbort'
  BY SMTT(30) DEF UserStep, UserCalls, Retain, Release
<1>2. CallStep => LockInv' /\ AbortInv' /\ SilentAfterAbort'
  BY SMTT(30) DEF CallStep, Count, Abort
<1>3. BeginStep => LockInv' /\ AbortInv' /\ SilentAfterAbort'
  BY SMTT(30) DEF BeginStep, Start, Head, Enter, ArchiveExtract
<1>4. EndStep => LockInv' /\ AbortInv' /\ SilentAfterAbort'
  BY SMTT(30) DEF EndStep, Report, Delegate, Leave, Commit, Drop
<1>5. UserStep => RacesConfined'
  BY SMTT(30) DEF UserStep, UserCalls, Retain, Release, Load, StoreIncrement, DropCallback, Updating
<1>6. CallStep => RacesConfined'
  BY SMTT(30) DEF CallStep, Count, Abort, Load, StoreIncrement, DropCallback, Updating
<1>7. BeginStep => RacesConfined'
  BY SMTT(30) DEF BeginStep, Start, Head, Enter, ArchiveExtract, Load, StoreIncrement, DropCallback,
     Updating
<1>8. EndStep => RacesConfined'
  BY SMTT(30) DEF EndStep, Report, Delegate, Leave, Commit, Drop, Load, StoreIncrement,
     DropCallback, Updating
<1> HIDE DEF SafetyInv, LockInv, AbortInv, SilentAfterAbort, RacesConfined, TypeOK
<1>9. TypeOK'
  BY NextType DEF SafetyInv
<1> QED
  BY <1>1, <1>2, <1>3, <1>4, <1>5, <1>6, <1>7, <1>8, <1>9, Steps DEF SafetyInv

----------------------------------------------------------------------------
(* Who holds what, step by step. *)

\* Every step takes and gives back the references the phases say.
LEMMA NextHolding ==
  ASSUME SafetyInv, Settled, Next
  PROVE  Holding' /\ Kept'
<1> USE DecoderLifetimeAssumption DEF SafetyInv, LockInv, AbortInv, TypeOK, Threads, Objects,
      Holders, DecoderLocked, Dropping, InDelegate, CallPhases, UserPhases, WorkerPhases,
      Settled, Holding, Kept, Living, Keeps, Entering, Deleting, InCallback, InArchive,
      InProcess, Call, Move, UntouchedCounters, counters
<1>1. UserStep => Holding'
  BY SMTT(30) DEF UserStep, UserCalls, Retain, Release, StoreIncrement, DeleteDecoder, coder, events
<1>2. CallStep => Holding'
  BY SMTT(30) DEF CallStep, Count, Abort, Caller, Acquire, DropCallback, coder
<1>3. BeginStep => Holding'
  BY SMTT(30) DEF BeginStep, Start, Head, Enter, ArchiveExtract, StoreIncrement, DropCallback, coder
<1>4. EndStep => Holding'
  BY SMTT(30) DEF EndStep, Report, Delegate, Leave, Commit, Drop, DropCallback, DeleteDecoder, coder
<1>5. UserStep => Kept'
  BY SMTT(30) DEF UserStep, UserCalls, Retain, Release, StoreIncrement, DeleteDecoder, coder, events
<1>6. CallStep => Kept'
  BY SMTT(30) DEF CallStep, Count, Abort, Caller, Acquire, DropCallback, coder
<1>7. BeginStep => Kept'
  BY SMTT(30) DEF BeginStep, Start, Head, Enter, ArchiveExtract, StoreIncrement, DropCallback, coder
<1>8. EndStep => Kept'
  BY SMTT(30) DEF EndStep, Report, Delegate, Leave, Commit, Drop, DropCallback, DeleteDecoder, coder
<1> HIDE DEF SafetyInv, Settled, Holding, Kept
<1> QED
  BY <1>1, <1>2, <1>3, <1>4, <1>5, <1>6, <1>7, <1>8, Steps

\* The second half of an update stores what the first half loaded, as long as
\* no other update came between them.
LEMMA NextUpdates ==
  ASSUME SafetyInv, Settled, Next, torn' = {}
  PROVE  Updates'
<1> DEFINE Fresh == \A o \in Objects, t \in Threads :
                       pc'[t] \in Updating[o] => loaded'[t] = count'[o]
           Single == \A o \in Objects, t \in Threads : pc'[t] \in Updating[o] =>
                        \A u \in Threads \ {t} : pc'[u] \notin Updating[o]
<1> USE DecoderLifetimeAssumption DEF SafetyInv, LockInv, AbortInv, TypeOK, Threads, Objects,
      Holders, DecoderLocked, Dropping, InDelegate, CallPhases, UserPhases, WorkerPhases,
      Settled, Holding, Kept, Living, Keeps, Entering, Deleting, InCallback, InArchive,
      InProcess, Call, Move, UntouchedCounters, counters
<1>1. UserStep => Fresh
  BY SMTT(30) DEF UserStep, UserCalls, Retain, Release, Load, Forget, StoreIncrement, DropCallback,
     Updates, Updating, Acquire, DeleteDecoder
<1>2. CallStep => Fresh
  BY SMTT(30) DEF CallStep, Count, Abort, Load, Forget, StoreIncrement, DropCallback, Updates,
     Updating, Acquire, Caller
<1>3. BeginStep => Fresh
  BY SMTT(30) DEF BeginStep, Start, Head, Enter, ArchiveExtract, Load, Forget, StoreIncrement,
     DropCallback, Updates, Updating, Acquire
<1>4. EndStep => Fresh
  <2> USE DEF Load, Forget, DropCallback, Updates, Updating, Acquire, coder
  <2>1. Report \/ Delegate => Fresh
    BY SMTT(30) DEF Report, Delegate
  <2>2. Leave => Fresh
    BY SMTT(30) DEF Leave
  <2>3. Commit => Fresh
    BY SMTT(30) DEF Commit
  <2>4. Drop => Fresh
    BY SMTT(30) DEF Drop, DeleteDecoder
  <2> HIDE DEF SafetyInv, Settled, Fresh
  <2> QED
    BY <2>1, <2>2, <2>3, <2>4 DEF EndStep
<1>5. UserStep => Single
  BY SMTT(30) DEF UserStep, UserCalls, Retain, Release, Load, Updates, Updating
<1>6. CallStep => Single
  BY SMTT(30) DEF CallStep, Count, Abort, Load, Updates, Updating, Caller
<1>7. BeginStep => Single
  BY SMTT(30) DEF BeginStep, Start, Head, Enter, ArchiveExtract, Load, Updates, Updating
<1>8. EndStep => Single
  BY SMTT(30) DEF EndStep, Report, Delegate, Leave, Commit, Drop, Load, Updates, Updating
<1> HIDE DEF SafetyInv, Settled, Fresh, Single
<1>9. Fresh /\ Single
  BY <1>1, <1>2, <1>3, <1>4, <1>5, <1>6, <1>7, <1>8, Steps
<1> QED
  BY ONLY <1>9 DEF Updates, Fresh, Single

----------------------------------------------------------------------------
(* What the counters are worth. *)

Sized(S, n) == IsFiniteSet(S) /\ Cardinality(S) = n

\* A pointer more or less is one more or less in the counter.
LEMMA OneMoreOrLess ==
  ASSUME Exact, NEW o \in Objects, NEW x
  PROVE  /\ x \notin refs[o] => Sized(refs[o] \cup {x}, count[o] + 1)
         /\ x \in refs[o] => Sized(refs[o] \ {x}, count[o] - 1)
<1>1. IsFiniteSet(refs[o]) /\ count[o] = Cardinality(refs[o])
  BY DEF Exact
<1>2. x \notin refs[o] => Sized(refs[o] \cup {x}, count[o] + 1)
  BY <1>1, FS_AddElement DEF Sized
<1>3. x \in refs[o] => Sized(refs[o] \ {x}, count[o] - 1)
  BY <1>1, FS_RemoveElement DEF Sized
<1> QED
  BY <1>2, <1>3

\* A pointer that changes hands leaves the counter alone.
LEMMA HandedOn ==
  ASSUME Exact, NEW o \in Objects, NEW x \in refs[o], NEW y, y \notin refs[o]
  PROVE  Sized((refs[o] \ {x}) \cup {y}, count[o])
<1>1. Sized(refs[o] \ {x}, count[o] - 1) /\ y \notin refs[o] \ {x}
  BY OneMoreOrLess
<1>2. count[o] \in Nat
  BY FS_CardinalityType DEF Exact
<1> HIDE DEF Exact
<1>3. Sized((refs[o] \ {x}) \cup {y}, (count[o] - 1) + 1)
  BY <1>1, FS_AddElement DEF Sized
<1> QED
  BY <1>2, <1>3

\* A new callback has two pointers to it.
LEMMA NewCallback == Sized({"local", "registered"}, 2)
<1>1. IsFiniteSet({"local"}) /\ Cardinality({"local"}) = 1 /\ "registered" \notin {"local"}
  BY FS_Singleton
<1>2. {"local", "registered"} = {"local"} \cup {"registered"}
  OBVIOUS
<1> QED
  BY <1>1, <1>2, FS_AddElement DEF Sized

\* The last pointer is the one that finds the counter at 1.
LEMMA OneLeft ==
  ASSUME Exact, NEW o \in Objects, NEW x \in refs[o]
  PROVE  count[o] \in Nat /\ count[o] >= 1 /\ (count[o] = 1 <=> refs[o] \ {x} = {})
<1>1. Sized(refs[o] \ {x}, count[o] - 1)
  BY OneMoreOrLess
<1>2. count[o] \in Nat /\ count[o] - 1 \in Nat
  BY <1>1, FS_CardinalityType DEF Exact, Sized
<1>3. count[o] - 1 = 0 <=> refs[o] \ {x} = {}
  BY <1>1, FS_EmptySet DEF Sized
<1> QED
  BY <1>2, <1>3

\* The callback's counter stays right.
LEMMA CallbackExact ==
  ASSUME SafetyInv, Settled, Next
  PROVE  Sized(refs'["callback"], count'["callback"])
<1>1. /\ \A x : x \notin refs["callback"] => Sized(refs["callback"] \cup {x}, count["callback"] + 1)
      /\ \A x \in refs["callback"] : Sized(refs["callback"] \ {x}, count["callback"] - 1)
  BY OneMoreOrLess DEF Settled, Objects
<1>2. \A t \in Threads : pc[t] \in Updating["callback"] => loaded[t] = count["callback"]
  BY DEF Settled, Updates, Objects
<1>3. Sized(refs["callback"], count["callback"])
  BY DEF Settled, Exact, Objects, Sized
<1>4. \A x \in refs["callback"] : \A y : y \notin refs["callback"] =>
         Sized((refs["callback"] \ {x}) \cup {y}, count["callback"])
  BY HandedOn DEF Settled, Objects
<1>5. \A x : x \notin refs["callback"] => refs["callback"] \ {x} = refs["callback"]
  OBVIOUS
<1> DEFINE Good == Sized(refs'["callback"], count'["callback"])
<1>6. ASSUME NEW t \in Threads, NEW who \in refs["callback"], pc[t] \in Updating["callback"],
             DropCallback(t, who)
      PROVE  Good
  BY <1>1, <1>2, <1>6 DEF DropCallback, SafetyInv, TypeOK, Objects
<1>7. ASSUME NEW t \in Threads, NEW who, who \notin refs["callback"],
             pc[t] \in Updating["callback"], StoreIncrement(t, "callback", who)
      PROVE  Good
  BY <1>1, <1>2, <1>7 DEF StoreIncrement, SafetyInv, TypeOK, Objects
<1>8. ASSUME NEW t \in Threads, pc[t] \in Deleting, DeleteDecoder
      PROVE  Good
  <2>1. pc[Worker] # "commitStore"
    BY <1>8 DEF Settled, Living, Holding, InProcess, Threads
  <2>2. "registered" \in refs["callback"] <=> registered
    BY <2>1 DEF Settled, Holding
  <2> QED
    BY <1>1, <1>3, <1>5, <1>8, <2>2 DEF DeleteDecoder, SafetyInv, TypeOK, Objects
<1>9. ASSUME NEW t \in Threads, pc[t] = "abort", UNCHANGED count,
             refs' = IF registered
                     THEN [refs EXCEPT !["callback"] = (@ \ {"registered"}) \cup {t}]
                     ELSE refs
      PROVE  Good
  BY <1>3, <1>4, <1>9 DEF Settled, Holding, SafetyInv, TypeOK, Objects
<1>10. ASSUME refs'["callback"] = {"local", "registered"}, count'["callback"] = 2
       PROVE  Good
  BY <1>10, NewCallback
<1>11. refs'["callback"] = refs["callback"] /\ count'["callback"] = count["callback"] => Good
  BY <1>3
<1>12. ASSUME NEW t \in Threads, NEW who, StoreIncrement(t, "decoder", who) PROVE Good
  BY <1>11, <1>12 DEF StoreIncrement, SafetyInv, TypeOK, Objects
<1> HIDE DEF Good
<1>13. UNCHANGED counters => Good
  BY <1>11 DEF counters
<1>14. ASSUME NEW t \in Threads, Abort(t) PROVE Good
  BY <1>6, <1>9, <1>14, <1>13 DEF Abort, Move, Updating, Settled, Holding, counters,
     UntouchedCounters
<1>15. ASSUME NEW u \in Users, Retain(u) \/ Release(u) PROVE Good
  BY <1>8, <1>11, <1>12, <1>15, <1>13 DEF Retain, Release, Move, Deleting, Threads, SafetyInv,
     TypeOK, Objects
<1>16. Head => Good
  BY <1>10, <1>13 DEF Head, Call, SafetyInv, TypeOK, Objects
<1>17. Enter \/ ArchiveExtract => Good
  BY <1>6, <1>7, <1>13 DEF Enter, ArchiveExtract, Move, Updating, Settled, Holding, InCallback,
     InArchive, InDelegate, CallPhases, UntouchedCounters, Threads
<1>18. Leave \/ Commit => Good
  BY <1>6, <1>13 DEF Leave, Commit, Move, Updating, Settled, Holding, InCallback, InArchive,
     InDelegate, CallPhases, UntouchedCounters, Threads
<1>19. Drop => Good
  BY <1>6, <1>8, <1>11, <1>13 DEF Drop, Move, Updating, Deleting, Settled, Holding, InProcess,
     UntouchedCounters, Threads, SafetyInv, TypeOK, Objects
<1>20. \/ Report \/ Delegate \/ Start
       \/ \E u \in Users : UserCalls(u)
       \/ \E t \in Threads : Count(t)
       => UNCHANGED counters
  BY DEF Report, Delegate, Start, UserCalls, Count, Call, UntouchedCounters
<1> QED
  BY <1>14, <1>15, <1>16, <1>17, <1>18, <1>19, <1>20, <1>13 DEF Next, Step, Process, Good

\* The decoder's counter stays right.
LEMMA DecoderExact ==
  ASSUME SafetyInv, Settled, Next
  PROVE  Sized(refs'["decoder"], count'["decoder"])
<1>1. /\ \A x : x \notin refs["decoder"] => Sized(refs["decoder"] \cup {x}, count["decoder"] + 1)
      /\ \A x \in refs["decoder"] : Sized(refs["decoder"] \ {x}, count["decoder"] - 1)
  BY OneMoreOrLess DEF Settled, Objects
<1>2. \A t \in Threads : pc[t] \in Updating["decoder"] => loaded[t] = count["decoder"]
  BY DEF Settled, Updates, Objects
<1> DEFINE Good == Sized(refs'["decoder"], count'["decoder"])
<1>3. refs'["decoder"] = refs["decoder"] /\ count'["decoder"] = count["decoder"] => Good
  BY DEF Settled, Exact, Objects, Sized
<1>4. ASSUME NEW t \in Threads, pc[t] \in Updating["decoder"],
             NEW who, who \notin refs["decoder"],
             refs'["decoder"] = refs["decoder"] \cup {who}, count'["decoder"] = loaded[t] + 1
      PROVE  Good
  BY <1>1, <1>2, <1>4
<1>5. ASSUME NEW t \in Threads, pc[t] \in Updating["decoder"],
             NEW who \in refs["decoder"],
             refs'["decoder"] = refs["decoder"] \ {who}, count'["decoder"] = loaded[t] - 1
      PROVE  Good
  BY <1>1, <1>2, <1>5
<1> HIDE DEF Good
<1> USE DEF SafetyInv, TypeOK, Objects
<1>6. ASSUME NEW t \in Threads, NEW who, DropCallback(t, who) PROVE Good
  BY <1>3, <1>6 DEF DropCallback
<1>7. ASSUME NEW t \in Threads, NEW who, StoreIncrement(t, "callback", who) PROVE Good
  BY <1>3, <1>7 DEF StoreIncrement
<1>8. UNCHANGED counters \/ DeleteDecoder => Good
  BY <1>3 DEF counters, DeleteDecoder
<1>9. ASSUME NEW t \in Threads, Abort(t) PROVE Good
  BY <1>3, <1>6, <1>8, <1>9 DEF Abort, UntouchedCounters
<1>10. ASSUME NEW u \in Users, Retain(u) PROVE Good
  BY <1>4, <1>8, <1>10 DEF Retain, Move, StoreIncrement, Updating, Threads, Settled, Holding
<1>11. ASSUME NEW u \in Users, Release(u) PROVE Good
  BY <1>5, <1>8, <1>11 DEF Release, Move, Updating, Threads, Settled, Holding, counters
<1>12. Head => Good
  BY <1>4, <1>8 DEF Head, Call, Move, Updating, Threads, Settled, Holding, InProcess, InCallback,
     InArchive, InDelegate, CallPhases
<1>13. Enter \/ ArchiveExtract \/ Leave \/ Commit => Good
  BY <1>6, <1>7, <1>8 DEF Enter, ArchiveExtract, Leave, Commit, UntouchedCounters, Threads
<1>14. Drop => Good
  BY <1>5, <1>6, <1>8 DEF Drop, Move, Updating, Threads, Settled, Holding, UntouchedCounters
<1>15. \/ Report \/ Delegate \/ Start
       \/ \E u \in Users : UserCalls(u)
       \/ \E t \in Threads : Count(t)
       => UNCHANGED counters
  BY DEF Report, Delegate, Start, UserCalls, Count, Call, UntouchedCounters
<1> QED
  BY <1>8, <1>9, <1>10, <1>11, <1>12, <1>13, <1>14, <1>15 DEF Next, Step, Process, Good

----------------------------------------------------------------------------
(* What lives. *)

\* A decoder that is deleted takes its callback with it.
LEMMA Deleted ==
  ASSUME SafetyInv, Settled, DeleteDecoder, NEW t \in Threads, pc[t] \in Deleting
  PROVE  refs'["callback"] = {} /\ ~alive'["callback"]
<1> USE DecoderLifetimeAssumption DEF Settled, Holding, InProcess, InCallback, InArchive,
      InDelegate, CallPhases, Threads, Objects
<1>1. refs["decoder"] = {}
  BY DEF Living
<1>2. /\ pc[Worker] \notin InProcess
      /\ \A u \in Threads : pc[u] \notin {"abortCallback", "abortLoad", "abortStore"}
  BY <1>1
<1>3. refs["callback"] \subseteq {"registered"}
  BY <1>2 DEF SafetyInv, TypeOK, Holders
<1>4. refs'["callback"] = {}
  BY <1>3 DEF DeleteDecoder, SafetyInv, TypeOK
<1>5. CASE registered
  <2>1. "registered" \in refs["callback"] /\ refs["callback"] \ {"registered"} = {}
    BY <1>3, <1>5
  <2>2. count["callback"] = 1
    BY <2>1, OneLeft
  <2>3. ~alive'["callback"]
    BY <1>5, <2>2 DEF DeleteDecoder
  <2> QED
    BY <1>4, <2>3
<1>6. CASE ~registered
  <2>1. refs["callback"] = {}
    BY <1>2, <1>3, <1>6
  <2>2. ~alive["callback"]
    BY <2>1 DEF Living
  <2>3. ~alive'["callback"]
    BY <2>2 DEF DeleteDecoder
  <2> QED
    BY <1>4, <2>3
<1> QED
  BY <1>5, <1>6

\* A callback is deleted with the last pointer to it.
LEMMA DroppedCallback ==
  ASSUME SafetyInv, Settled, NEW t \in Threads, pc[t] \in Updating["callback"],
         NEW who \in refs["callback"], DropCallback(t, who)
  PROVE  alive'["callback"] <=> refs'["callback"] # {}
<1>1. loaded[t] = count["callback"]
  BY DEF Settled, Updates, Objects
<1>2. loaded[t] = 1 <=> refs["callback"] \ {who} = {}
  BY <1>1, OneLeft DEF Settled, Objects
<1>3. alive["callback"]
  BY DEF Settled, Living, Objects
<1>4. refs'["callback"] = refs["callback"] \ {who}
  BY DEF DropCallback, SafetyInv, TypeOK, Objects
<1>5. alive'["callback"] <=> loaded[t] # 1
  BY <1>3 DEF DropCallback, SafetyInv, TypeOK, Objects
<1> QED
  BY <1>2, <1>4, <1>5

\* An object lives as long as somebody has a pointer to it.
LEMMA NextLiving ==
  ASSUME SafetyInv, Settled, Next
  PROVE  Living'
<1>1. \A o \in Objects : \A x \in refs[o] :
         count[o] \in Nat /\ count[o] >= 1 /\ (count[o] = 1 <=> refs[o] \ {x} = {})
  BY OneLeft DEF Settled
<1>2. \A o \in Objects, t \in Threads : pc[t] \in Updating[o] => loaded[t] = count[o]
  BY DEF Settled, Updates
<1>3. ASSUME NEW t \in Threads, NEW who \in refs["callback"], pc[t] \in Updating["callback"],
             DropCallback(t, who)
      PROVE  alive'["callback"] => refs'["callback"] # {}
  BY ONLY <1>3, DroppedCallback, SafetyInv, Settled
<1>4. ASSUME NEW t \in Threads, pc[t] \in Deleting, DeleteDecoder
      PROVE  ~alive'["callback"]
  BY ONLY <1>4, Deleted, SafetyInv, Settled
<1> DEFINE Reached == \A o \in Objects : refs'[o] # {} => alive'[o]
           Pointed == alive'["callback"] => refs'["callback"] # {}
           Owned == alive'["decoder"] =>
                       refs'["decoder"] # {} \/ \E t \in Threads : pc'[t] \in Deleting
           Together == ~alive'["decoder"] => ~alive'["callback"]
           Alone == \A t \in Threads : pc'[t] \in Deleting =>
                       /\ alive'["decoder"] /\ refs'["decoder"] = {}
                       /\ \A u \in Threads \ {t} : pc'[u] \notin Deleting
<1> USE DecoderLifetimeAssumption DEF SafetyInv, LockInv, AbortInv, TypeOK, Threads, Objects,
      Holders, DecoderLocked, Dropping, InDelegate, CallPhases, UserPhases, WorkerPhases,
      Settled, Holding, Kept, Living, Keeps, Entering, Deleting, InCallback, InArchive,
      InProcess, Call, Move, UntouchedCounters, counters,
      StoreIncrement, Updating, Caller, coder
<1>5. UserStep => Reached
  BY <1>1, <1>2, SMTT(30) DEF UserStep, UserCalls, Retain, Release, DropCallback, DeleteDecoder
<1>6. CallStep => Reached
  BY <1>1, <1>2, SMTT(30) DEF CallStep, Count, Abort, DropCallback, DeleteDecoder
<1>7. BeginStep => Reached
  BY <1>1, <1>2, SMTT(30) DEF BeginStep, Start, Head, Enter, ArchiveExtract, DropCallback,
     DeleteDecoder
<1>8. EndStep => Reached
  BY <1>1, <1>2, SMTT(30) DEF EndStep, Report, Delegate, Leave, Commit, Drop, DropCallback,
     DeleteDecoder
<1>9. UserStep => Pointed
  BY <1>3, <1>4, SMTT(30) DEF UserStep, UserCalls, Retain, Release
<1>10. CallStep => Pointed
  BY <1>3, <1>4, SMTT(30) DEF CallStep, Count, Abort
<1>11. BeginStep => Pointed
  BY <1>3, <1>4, SMTT(30) DEF BeginStep, Start, Head, Enter, ArchiveExtract
<1>12. EndStep => Pointed
  BY <1>3, <1>4, SMTT(30) DEF EndStep, Report, Delegate, Leave, Commit, Drop
<1>13. UserStep => Owned
  BY <1>1, <1>2, SMTT(30) DEF UserStep, UserCalls, Retain, Release, DropCallback, DeleteDecoder
<1>14. CallStep => Owned
  BY <1>1, <1>2, SMTT(30) DEF CallStep, Count, Abort, DropCallback, DeleteDecoder
<1>15. BeginStep => Owned
  BY <1>1, <1>2, SMTT(30) DEF BeginStep, Start, Head, Enter, ArchiveExtract, DropCallback,
     DeleteDecoder
<1>16. EndStep => Owned
  BY <1>1, <1>2, SMTT(30) DEF EndStep, Report, Delegate, Leave, Commit, Drop, DropCallback,
     DeleteDecoder
<1>17. UserStep => Together
  BY <1>4, SMTT(30) DEF UserStep, UserCalls, Retain, Release, DropCallback
<1>18. CallStep => Together
  BY <1>4, SMTT(30) DEF CallStep, Count, Abort, DropCallback
<1>19. BeginStep => Together
  BY <1>4, SMTT(30) DEF BeginStep, Start, Head, Enter, ArchiveExtract, DropCallback
<1>20. EndStep => Together
  BY <1>4, SMTT(30) DEF EndStep, Report, Delegate, Leave, Commit, Drop, DropCallback
<1>21. UserStep => Alone
  BY <1>1, <1>2, SMTT(30) DEF UserStep, UserCalls, Retain, Release, DropCallback, DeleteDecoder
<1>22. CallStep => Alone
  BY <1>1, <1>2, SMTT(30) DEF CallStep, Count, Abort, DropCallback, DeleteDecoder
<1>23. BeginStep => Alone
  BY <1>1, <1>2, SMTT(30) DEF BeginStep, Start, Head, Enter, ArchiveExtract, DropCallback,
     DeleteDecoder
<1>24. EndStep => Alone
  BY <1>1, <1>2, SMTT(30) DEF EndStep, Report, Delegate, Leave, Commit, Drop, DropCallback,
     DeleteDecoder
<1> HIDE DEF SafetyInv, Settled, Reached, Pointed, Owned, Together, Alone
<1>25. Reached /\ Pointed /\ Owned /\ Together /\ Alone
  BY <1>5, <1>6, <1>7, <1>8, <1>9, <1>10, <1>11, <1>12, <1>13, <1>14, <1>15, <1>16, <1>17,
     <1>18, <1>19, <1>20, <1>21, <1>22, <1>23, <1>24, Steps
<1> QED
  BY ONLY <1>25 DEF Living, Reached, Pointed, Owned, Together, Alone

----------------------------------------------------------------------------
(* The invariant, and what follows from it. *)

\* A new decoder counts its handles.
LEMMA InitCount == Init => CountInv
<1> SUFFICES ASSUME Init PROVE Settled
  BY DEF CountInv
<1> USE DecoderLifetimeAssumption DEF Init, Threads, Objects
<1>1. PICK owners \in (SUBSET Users) \ {{}} :
         /\ refs = [decoder |-> owners, callback |-> {}]
         /\ count = [decoder |-> Cardinality(owners), callback |-> 0]
  BY Zenon
<1>2. Exact
  BY <1>1, FS_Subset, FS_EmptySet DEF Exact
<1>3. Holding
  BY <1>1 DEF Holding, InProcess, InCallback, InArchive, InDelegate, CallPhases
<1>4. Kept /\ Updates
  BY DEF Kept, Entering, Updates, Updating
<1>5. Living
  BY <1>1 DEF Living, Deleting
<1> QED
  BY <1>2, <1>3, <1>4, <1>5 DEF Settled

\* Two updates that have met stay so.
LEMMA TornStays == Next => torn \subseteq torn'
BY DEF Next, Step, Process, UserCalls, Start, Retain, Release, Count, Abort, Head, Enter,
   ArchiveExtract, Report, Delegate, Leave, Commit, Drop, Call, UntouchedCounters, Load,
   StoreIncrement, DropCallback

\* The counters and the objects' lives, step by step.
LEMMA NextCount == SafetyInv /\ CountInv /\ [Next]_vars => CountInv'
<1>1. ASSUME CountInv, UNCHANGED vars PROVE CountInv'
  BY <1>1 DEF CountInv, Settled, Holding, Kept, Keeps, Exact, Updates, Living, vars, counters,
     coder, bounds, events
<1>2. ASSUME SafetyInv, CountInv, Next, torn' = {} PROVE Settled'
  <2>1. Settled
    BY <1>2, TornStays DEF CountInv
  <2>2. Exact'
    BY <1>2, <2>1, CallbackExact, DecoderExact DEF Exact, Sized, Objects
  <2> QED
    BY <1>2, <2>1, <2>2, NextHolding, NextUpdates, NextLiving DEF Settled
<1> QED
  BY <1>1, <1>2 DEF CountInv

\* The invariant of the module.
LEMMA Invariance == Spec => []IInv
<1>1. Init => IInv
  BY InitSafety, InitCount DEF IInv
<1>2. IInv /\ [Next]_vars => IInv'
  BY NextSafety, NextCount DEF IInv
<1> QED
  BY <1>1, <1>2, PTL DEF Spec

\* Every variable stays in its type.
THEOREM TypeCorrect == Spec => []TypeOK
<1>1. IInv => TypeOK
  BY DEF IInv, SafetyInv
<1> QED
  BY Invariance, <1>1, PTL

\* Two updates of the callback's counter meet only when the decoder was aborted,
\* two of the decoder's only when process() was unwound, although half of them
\* take another mutex than the rest, or none.
THEOREM RacesConfinedHolds == Spec => []RacesConfined
<1>1. IInv => RacesConfined
  BY DEF IInv, SafetyInv
<1> QED
  BY Invariance, <1>1, PTL

\* A delegate hears nothing of a callback that was told to abort.
THEOREM SilentAfterAbortHolds == Spec => []SilentAfterAbort
<1>1. IInv => SilentAfterAbort
  BY DEF IInv, SafetyInv
<1> QED
  BY Invariance, <1>1, PTL

\* Until two updates meet, the counters of retain(), release(), AddRef() and
\* Release() are right, and decide when each object is deleted.
THEOREM CountsExactHolds == Spec => []CountsExact
<1>1. IInv => CountsExact
  BY DEF IInv, CountInv, Settled, Exact, Living, Deleting, CountsExact
<1> QED
  BY Invariance, <1>1, PTL

\* Whoever deletes the decoder leaves nobody behind in it.
THEOREM DecoderOutlivesUsersHolds == Spec => []DecoderOutlivesUsers
<1>1. IInv => DecoderOutlivesUsers
  <2> SUFFICES ASSUME SafetyInv, Settled, ~alive["decoder"]
               PROVE  /\ \A u \in Users : pc[u] = "idle"
                      /\ pc[Worker] \in {"idle", "dropped"}
    BY DEF IInv, CountInv, DecoderOutlivesUsers
  <2>1. refs["decoder"] = {} /\ \A t \in Threads : pc[t] \notin Deleting
    BY DEF Settled, Living, Objects
  <2>2. \A t \in Threads : pc[t] \notin Entering
    BY <2>1 DEF Settled, Kept, Keeps
  <2>3. \A u \in Users : pc[u] = "idle"
    BY <2>1, <2>2 DEF SafetyInv, TypeOK, UserPhases, CallPhases, Settled, Holding, Deleting,
       Entering, Threads
  <2>4. pc[Worker] \in {"idle", "dropped"}
    BY <2>1, <2>2 DEF SafetyInv, TypeOK, WorkerPhases, CallPhases, Settled, Holding, Deleting,
       Entering, Threads, InProcess, InCallback, InArchive, InDelegate
  <2> QED
    BY <2>3, <2>4
<1> QED
  BY Invariance, <1>1, PTL

=============================================================================
