---------------------------- MODULE OutMultiStream ----------------------------
(***************************************************************************)
(* OutMultiStreamBase: an archive written in volumes.  The bytes go to     *)
(* parts of PartSize bytes, files or blocks of memory, that are added as   *)
(* the stream grows, and opened when the first byte goes there.            *)
(*                                                                         *)
(* Write() runs through the parts it touches: a step of it is one turn of  *)
(* its loop.  The archive calls Write(), Seek() and SetSize() one after    *)
(* another; the encoder opens and closes the stream before and after.      *)
(***************************************************************************)
EXTENDS Naturals, Sequences, SequencesExt

CONSTANTS
    Byte,       \* bytes; 0 is one of them
    PartSize,   \* _partSize
    MaxParts,   \* how many parts the format can name
    MaxSize,    \* bound: the size the stream grows to
    MaxWrite    \* bound: the bytes of one Write()

ASSUME OutMultiStreamAssumption ==
    /\ Byte \subseteq Nat /\ 0 \in Byte
    /\ PartSize \in Nat \ {0}
    /\ MaxParts \in Nat /\ MaxSize \in Nat /\ MaxWrite \in Nat

VARIABLES
    kind,       \* what the parts are: "file" or "mem"
    parts,      \* _parts: the bytes of each and whether it is open
    size,       \* _size
    offset,     \* _offset
    opened,     \* _opened
    input,      \* the bytes of the Write() at hand that are not stored yet
    failed,     \* history: a Write() failed, the archive asks no more until close()
    broken      \* history: the parts do not hold what was written

vars == <<kind, parts, size, offset, opened, input, failed, broken>>

Part == [data : Seq(Byte), open : BOOLEAN]

Init ==
    /\ kind \in {"file", "mem"}
    /\ parts = <<>>
    /\ size = 0 /\ offset = 0
    /\ opened = FALSE
    /\ input = <<>>
    /\ failed = FALSE /\ broken = FALSE

----------------------------------------------------------------------------
\* The bytes of a list of parts, as copyContent() joins them.
Joined(ps) == FlattenSeq([i \in DOMAIN ps |-> ps[i].data])

PartsFor_RoundedDown(n) == n \div PartSize

\* How many parts n bytes need.
PartsFor(n) ==
    IF (n \div PartSize) * PartSize < n THEN n \div PartSize + 1 ELSE n \div PartSize

NewPart == [data |-> <<>>, open |-> FALSE]

\* SetSize() drops the parts that are too many and adds those that lack.
Resized(n) ==
    [i \in 1..PartsFor(n) |-> IF i <= Len(parts) THEN parts[i] ELSE NewPart]

OffsetAfterClear == 0

\* clear(): after an exception the stream erases all its parts and closes.
Clear ==
    /\ parts' = <<>> /\ size' = 0 /\ offset' = OffsetAfterClear
    /\ opened' = FALSE
    /\ input' = <<>>
    /\ broken' = FALSE
    /\ UNCHANGED <<kind, failed>>

----------------------------------------------------------------------------
\* open() keeps the parts of an earlier use.  A file is truncated when it is
\* opened again, so such parts end up with bytes of both uses.
Open ==
    /\ ~opened
    /\ opened' = TRUE /\ offset' = 0
    /\ broken' = (broken \/ (kind = "file" /\ parts # <<>>))
    /\ UNCHANGED <<kind, parts, size, input, failed>>

ClosePart(part) == [part EXCEPT !.open = FALSE]

Close ==
    /\ opened /\ input = <<>>
    /\ parts' = [i \in DOMAIN parts |-> ClosePart(parts[i])]
    /\ opened' = FALSE /\ offset' = 0 /\ failed' = FALSE
    /\ UNCHANGED <<kind, size, input, broken>>

\* erase() of a closed stream.  A file that cannot be erased is the end of it,
\* with the parts before it empty and the list as it was.
Erase ==
    /\ ~opened
    /\ \/ /\ parts' = <<>> /\ size' = 0 /\ offset' = 0 /\ broken' = FALSE
       \/ /\ kind = "file"
          /\ \E stuck \in DOMAIN parts :
                parts' = [i \in DOMAIN parts |-> IF i < stuck THEN NewPart ELSE parts[i]]
          /\ broken' = TRUE
          /\ UNCHANGED <<size, offset>>
    /\ UNCHANGED <<kind, opened, input, failed>>

----------------------------------------------------------------------------
\* Write(): makes room first, which may throw or need more parts than there can
\* be.
WriteCall(data) ==
    /\ opened /\ input = <<>> /\ ~failed
    /\ data # <<>>
    /\ LET end == offset + Len(data)
       IN  /\ end <= MaxSize
           /\ \/ /\ end > size => PartsFor(end) <= MaxParts
                 /\ parts' = IF end > size THEN Resized(end) ELSE parts
                 /\ size' = IF end > size THEN end ELSE size
                 /\ input' = data
                 /\ UNCHANGED <<kind, offset, opened, failed, broken>>
              \/ end > size /\ PartsFor(end) > Len(parts) /\ Clear

\* The part a Write() goes on in, and the place in it.
Index == offset \div PartSize
PartOffset == offset - PartSize * Index

ChunkSize == IF Len(input) > PartSize - PartOffset THEN PartSize - PartOffset ELSE Len(input)
Chunk == SubSeq(input, 1, ChunkSize)

RestOfInput_Repeats == SubSeq(input, 1, Len(input) - ChunkSize)
RestOfInput_Kept == input
RestOfInput == SubSeq(input, ChunkSize + 1, Len(input))

DataWhenOpened_Empty(part) == IF part.open THEN part.data ELSE <<>>

\* A part that has to be opened: a file starts empty, memory keeps what it has.
DataWhenOpened(part) == IF kind = "mem" \/ part.open THEN part.data ELSE <<>>

\* Seek() and Write() of a part.  Memory cannot be sought behind its end.
Overlay(s, off, data) ==
    LET end == off + Len(data)
    IN  [i \in 1..(IF end > Len(s) THEN end ELSE Len(s)) |->
            IF i > off /\ i <= end THEN data[i - off]
            ELSE IF i <= Len(s) THEN s[i]
            ELSE 0]

PartCanSeek(part) == kind = "file" \/ PartOffset <= Len(DataWhenOpened(part))

WriteChunk ==
    /\ input # <<>>
    /\ Index < Len(parts)
    /\ LET part == parts[Index + 1]
       IN  /\ PartCanSeek(part)
           /\ parts' = [parts EXCEPT ![Index + 1] =
                           [data |-> Overlay(DataWhenOpened(part), PartOffset, Chunk),
                            open |-> TRUE]]
    /\ offset' = offset + ChunkSize
    /\ input' = RestOfInput
    /\ UNCHANGED <<kind, size, opened, failed, broken>>

\* A file that cannot be opened is an exception.
OpenPartFails ==
    /\ input # <<>> /\ kind = "file"
    /\ Index < Len(parts)
    /\ ~parts[Index + 1].open
    /\ Clear

\* Write() gives up: a full disk takes fewer bytes than it was given, memory
\* that cannot grow is lost and its part closed, and a part that was left short
\* before cannot be sought.  The position stays where it was.
WriteFails ==
    /\ input # <<>>
    /\ Index < Len(parts)
    /\ LET part == parts[Index + 1]
       IN  \/ /\ kind = "file"
              /\ \E taken \in 0..(ChunkSize - 1) :
                    parts' = [parts EXCEPT ![Index + 1] =
                       [data |-> IF taken = 0 THEN DataWhenOpened(part)
                                 ELSE Overlay(DataWhenOpened(part), PartOffset,
                                              SubSeq(input, 1, taken)),
                        open |-> TRUE]]
           \/ /\ kind = "mem" /\ PartOffset + ChunkSize > Len(part.data)
              /\ parts' = [parts EXCEPT ![Index + 1] =
                    IF PartCanSeek(part) THEN NewPart ELSE [part EXCEPT !.open = TRUE]]
    /\ input' = <<>>
    /\ failed' = TRUE /\ broken' = TRUE
    /\ UNCHANGED <<kind, size, offset, opened>>

\* Seek(), from wherever, to a place inside the stream.
Seek ==
    /\ opened /\ input = <<>> /\ ~failed
    /\ \E place \in 0..size : offset' = place
    /\ UNCHANGED <<kind, parts, size, opened, input, failed, broken>>

\* SetSize() as an archive calls it, to cut off what is after its position.  The
\* last part that stays is not cut.
SetSize ==
    /\ opened /\ input = <<>> /\ ~failed
    /\ parts' = Resized(offset)
    /\ size' = offset
    /\ broken' = (broken \/ Len(Joined(parts')) # offset)
    /\ UNCHANGED <<kind, offset, opened, input, failed>>

----------------------------------------------------------------------------
\* What Write() is given, up to a bound; in a broken stream the values do not
\* matter any more.
Inputs == BoundedSeq(IF broken THEN {0} ELSE Byte, MaxWrite)

WriteStep ==
    \/ WriteChunk
    \/ OpenPartFails
    \/ WriteFails

Next ==
    \/ Open
    \/ Close
    \/ Erase
    \/ \E data \in Inputs : WriteCall(data)
    \/ WriteStep
    \/ Seek
    \/ SetSize

Spec == Init /\ [][Next]_vars

\* A Write() that was called runs to its end.
FairSpec == Spec /\ WF_vars(WriteStep)

----------------------------------------------------------------------------
\* Where everything lives, the position inside the stream.
TypeOK ==
    /\ kind \in {"file", "mem"}
    /\ parts \in Seq(Part)
    /\ size \in 0..MaxSize
    /\ offset \in 0..size
    /\ opened \in BOOLEAN /\ failed \in BOOLEAN /\ broken \in BOOLEAN
    /\ input \in Seq(Byte)

\* There are as many parts as the size needs, none too many or too few, and no
\* part is longer than a volume may be, at sizes that are a multiple of PartSize
\* too and whatever failed before; and Write() always finds the part to go on in.
PartsFit ==
    /\ Len(parts) <= MaxParts
    /\ size <= Len(parts) * PartSize
    /\ size + PartSize > Len(parts) * PartSize
    /\ \A i \in DOMAIN parts : Len(parts[i].data) <= PartSize
    /\ input # <<>> => Index < Len(parts)

\* Between two calls the parts together hold exactly _size bytes: copyContent()
\* finds neither more than it made room for nor less.  And a closed stream has no
\* part open: the user may read the volumes, and erase() can remove them all.
WholeContent ==
    /\ ~broken /\ input = <<>> => Len(Joined(parts)) = size
    /\ ~opened => \A i \in DOMAIN parts : ~parts[i].open

\* The volumes, joined, are the one stream the archive believes to write.
Flat == INSTANCE ByteStream WITH content <- Joined(parts)
FlatSpec == Flat!Spec

\* Every Write() comes back.
WriteReturns == input # <<>> ~> input = <<>>
=============================================================================
