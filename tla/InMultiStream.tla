---------------------------- MODULE InMultiStream ----------------------------
(***************************************************************************)
(* InMultiStream: an archive in volumes, read as one stream.  open() opens *)
(* the volumes one after another and hands them to a CMultiStream, which   *)
(* finds the volume of a position by a binary search and remembers where   *)
(* each volume was left, so as to seek no more than it must.               *)
(*                                                                         *)
(* open(), close() and erase() are critical sections of the stream's       *)
(* mutex; Read() and Seek() take none, an archive makes them one after     *)
(* another.                                                                *)
(***************************************************************************)
EXTENDS Naturals, Sequences, SequencesExt

CONSTANTS
    Volumes,        \* how many sub-streams there are
    MaxVolume,      \* bound: the size of one
    MaxRead,        \* bound: the bytes asked for in one Read()
    MaxSeek,        \* bound: the position an archive seeks
    MaxSubs         \* bound: open() is not retried with more entries than this

ASSUME InMultiStreamAssumption ==
    /\ Volumes \in Nat \ {0} /\ MaxVolume \in Nat /\ MaxRead \in Nat \ {0}
    /\ MaxSeek \in Nat /\ MaxSubs \in Nat

VARIABLES
    kind,           \* what the volumes are: "file", "mem" or "callback"
    sizes,          \* the size of each volume
    present,        \* volumes that can be opened
    erased,         \* volumes whose memory was filled with zeros
    open,           \* volumes that are open
    at,             \* per volume: its own position
    subs,           \* Streams of the CMultiStream, one record per entry
    total,          \* _totalLength
    pos,            \* _pos
    streamIndex,    \* _streamIndex
    opened,         \* _opened
    got,            \* history: what the last Read() returned
    broken          \* history: the volumes may not be read in their order

volumeVars == <<kind, sizes, present, erased>>
multi == <<subs, total, pos, streamIndex>>
vars == <<volumeVars, open, at, multi, opened, got, broken>>

Volume == 1..Volumes

Sub == [volume : Volume, size : Nat, offset : Nat, local : Nat]

\* The bytes of a volume, each unlike any other.
Data(v) == [k \in 1..sizes[v] |-> IF v \in erased THEN <<0, 0>> ELSE <<v, k>>]

Init ==
    /\ kind \in {"file", "mem", "callback"}
    /\ sizes \in [Volume -> 0..MaxVolume]
    /\ present \in IF kind = "mem" THEN {Volume} ELSE SUBSET Volume
    /\ erased = {} /\ open = {} /\ at = [v \in Volume |-> 0]
    /\ subs = <<>> /\ total = 0 /\ pos = 0 /\ streamIndex = 0
    /\ opened = FALSE
    /\ got = <<>> /\ broken = FALSE

----------------------------------------------------------------------------
\* The entries before the n-th, in bytes.
OffsetOf(list, n) ==
    LET before[i \in 1..(Len(list) + 1)] ==
            IF i = 1 THEN 0 ELSE before[i - 1] + list[i - 1].size
    IN  before[n]

\* CMultiStream::Init(), for entries that all were sought to their start.
Initialized(list) ==
    [n \in DOMAIN list |-> [list[n] EXCEPT !.offset = OffsetOf(list, n), !.local = 0]]

Entries(n) == [v \in 1..n |-> [volume |-> v, size |-> sizes[v], offset |-> 0, local |-> 0]]

\* open() added the first n volumes to what was there.
Add(n) ==
    IF n = 0 THEN UNCHANGED multi
    ELSE /\ subs' = Initialized(subs \o Entries(n))
         /\ total' = OffsetOf(subs', Len(subs') + 1)
         /\ pos' = 0 /\ streamIndex' = 0

Sought(n) == [v \in Volume |-> IF v <= n THEN 0 ELSE at[v]]

\* A stream that still has the volumes of an open() that failed gets them again.
Open ==
    /\ ~opened
    /\ Volume \subseteq present
    /\ Len(subs) + Volumes <= MaxSubs
    /\ open' = Volume /\ at' = Sought(Volumes)
    /\ Add(Volumes)
    /\ opened' = TRUE
    /\ got' = <<>>
    /\ UNCHANGED <<volumeVars, broken>>

\* A volume cannot be opened, or be sought to its end or back; it stays where it
\* was or at its end, and those before it stay open.
OpenFails ==
    /\ ~opened /\ kind # "mem"
    /\ \E v \in Volume :
          /\ 1..(v - 1) \subseteq present
          /\ Len(subs) + v <= MaxSubs
          /\ open' \in {open \cup 1..(v - 1)}
                       \cup (IF v \in present THEN {open \cup 1..v} ELSE {})
          /\ v \in present \cap open => v \in open'
          /\ at' \in {Sought(v - 1)}
                    \cup (IF v \in open' THEN {[Sought(v - 1) EXCEPT ![v] = sizes[v]]} ELSE {})
          /\ Add(v - 1)
          /\ broken' = (broken \/ v > 1)
    /\ got' = <<>>
    /\ UNCHANGED <<volumeVars, opened>>

\* close() also mends a stream whose open() failed.
SubsAfterClose_Kept == subs
SubsAfterClose == <<>>

Close ==
    /\ open' = {} /\ at' = [v \in Volume |-> 0]
    /\ subs' = SubsAfterClose
    /\ opened' = FALSE
    /\ got' = <<>> /\ broken' = FALSE
    /\ UNCHANGED <<volumeVars, total, pos, streamIndex>>

\* erase() stops at the first volume that is open or that cannot be removed.
Erase ==
    /\ ~opened
    /\ \E n \in 0..Volumes :
          /\ 1..n \cap open = {}
          /\ n < Volumes /\ n + 1 \notin open => kind = "file"
          /\ present' = IF kind = "file" THEN present \ 1..n ELSE present
          /\ erased' \in IF kind = "mem" THEN {erased, erased \cup 1..n} ELSE {erased}
    /\ got' = <<>>
    /\ UNCHANGED <<kind, sizes, open, at, multi, opened, broken>>

\* A volume comes into being, or can be opened again.
Appear ==
    /\ \E v \in Volume \ present : present' = present \cup {v}
    /\ UNCHANGED <<kind, sizes, erased, open, at, multi, opened, got, broken>>

----------------------------------------------------------------------------
IsBehind_Beyond(s) == pos > s.offset + s.size
IsBehind(s) == pos >= s.offset + s.size

\* A turn of the binary search of CMultiStream::Read(); entries are counted from 0.
Turn(range) ==
    LET s == subs[range.mid + 1]
    IN  IF pos < s.offset
        THEN [left |-> range.left, mid |-> (range.left + range.mid) \div 2, right |-> range.mid]
        ELSE IF IsBehind(s)
        THEN [left |-> range.mid + 1, mid |-> (range.mid + 1 + range.right) \div 2,
              right |-> range.right]
        ELSE range

\* The search starts at the entry it used last.  A turn that does not find the entry
\* leaves a shorter range, so there are no more turns than entries.
Found ==
    LET n == Len(subs)
        turns[k \in 0..n] == IF k = 0 THEN [left |-> 0, mid |-> streamIndex, right |-> n]
                             ELSE Turn(turns[k - 1])
    IN  turns[n].mid

\* The position within the entry.
Local(s) == pos - s.offset

MustSeek_Never(s) == FALSE
MustSeek(s) == Local(s) # s.local

\* Read() at the end of the stream.
ReadAtEnd ==
    /\ opened /\ pos >= total
    /\ got' = <<>>
    /\ UNCHANGED <<volumeVars, open, at, multi, opened, broken>>

\* Read() gets bytes from where its volume is, after a seek if that is not the
\* place: no more than it asks for, nor than the entry has left.  Memory gives
\* all of that.
Read(n) ==
    /\ opened /\ pos < total
    /\ streamIndex' = Found
    /\ LET s == subs[Found + 1]
           v == s.volume
           from == IF MustSeek(s) THEN Local(s) ELSE at[v]
           rest == s.size - Local(s)
       IN  \E m \in 1..n :
              /\ m <= rest /\ from + m <= sizes[v]
              /\ kind = "mem" => m = n \/ m = rest
              /\ got' = SubSeq(Data(v), from + 1, from + m)
              /\ at' = [at EXCEPT ![v] = from + m]
              /\ subs' = [subs EXCEPT ![Found + 1].local = Local(s) + m]
              /\ pos' = pos + m
    /\ UNCHANGED <<volumeVars, open, total, opened, broken>>

\* The read fails after the seek, if there is one.
ReadFails ==
    /\ opened /\ pos < total /\ kind # "mem"
    /\ streamIndex' = Found
    /\ LET s == subs[Found + 1]
       IN  IF MustSeek(s)
           THEN /\ at' = [at EXCEPT ![s.volume] = Local(s)]
                /\ subs' = [subs EXCEPT ![Found + 1].local = Local(s)]
           ELSE UNCHANGED <<at, subs>>
    /\ got' = <<>>
    /\ UNCHANGED <<volumeVars, open, total, pos, opened, broken>>

\* The seek fails: the volume stays where it is, and is remembered to be at its
\* start.
SeekInReadFails ==
    /\ opened /\ pos < total /\ kind # "mem"
    /\ MustSeek(subs[Found + 1])
    /\ streamIndex' = Found
    /\ subs' = [subs EXCEPT ![Found + 1].local = 0]
    /\ got' = <<>>
    /\ broken' = (broken \/ at[subs[Found + 1].volume] # 0)
    /\ UNCHANGED <<volumeVars, open, at, total, pos, opened>>

\* Seek(), from wherever; nothing is done before the next read.
Seek ==
    /\ opened
    /\ pos' \in 0..MaxSeek
    /\ got' = <<>>
    /\ UNCHANGED <<volumeVars, open, at, subs, total, streamIndex, opened, broken>>

Next ==
    \/ Open \/ OpenFails \/ Close \/ Erase \/ Appear
    \/ ReadAtEnd \/ ReadFails \/ SeekInReadFails \/ Seek
    \/ \E n \in 1..MaxRead : Read(n)

Spec == Init /\ [][Next]_vars

----------------------------------------------------------------------------
TypeOK ==
    /\ kind \in {"file", "mem", "callback"}
    /\ sizes \in [Volume -> 0..MaxVolume]
    /\ present \subseteq Volume /\ erased \subseteq Volume /\ open \subseteq Volume
    /\ at \in [Volume -> Nat] /\ \A v \in Volume : at[v] <= sizes[v]
    /\ subs \in Seq(Sub) /\ total \in Nat /\ pos \in Nat
    /\ streamIndex \in Nat
    /\ opened \in BOOLEAN /\ broken \in BOOLEAN

\* Where a volume is remembered to be is where it is: a read that skips the seek
\* does not get the bytes of another place.
PlacesKnown ==
    opened /\ ~broken => \A n \in DOMAIN subs : at[subs[n].volume] = subs[n].local

\* While the stream is open so are all its volumes, and the search always has an
\* entry to find: the entries lie one behind the other, up to the total.
SearchFinds ==
    opened => /\ open = Volume /\ streamIndex + 1 \in DOMAIN subs
              /\ \A p \in 0..(total - 1) :
                    \E n \in DOMAIN subs : /\ subs[n].offset <= p
                                           /\ p < subs[n].offset + subs[n].size
                                           /\ p = pos => Found = n - 1

\* The volumes one behind the other are the one stream the archive reads, whatever
\* the order of seeks and reads, and however few bytes a read gets.
Flat == INSTANCE ByteSource WITH
            content <- FlattenSeq([v \in Volume |-> Data(v)]),
            position <- IF opened THEN pos ELSE 0
FlatSpec == Flat!Spec
=============================================================================
