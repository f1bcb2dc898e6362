----------------------------- MODULE ByteStream -----------------------------
(***************************************************************************)
(* What an archive expects of the IOutStream it writes: a flat sequence of *)
(* bytes with a position in it, written in pieces, overwritten after a     *)
(* seek, never with a hole.                                                *)
(*                                                                         *)
(* A stream whose device failed is broken: nothing is promised of what it  *)
(* holds until it is erased or lost.                                       *)
(***************************************************************************)
EXTENDS Naturals, Sequences

CONSTANT Byte   \* what a stream holds

VARIABLES
    content,    \* the bytes
    offset,     \* where the next one goes
    input,      \* the bytes of the Write() at hand that are not stored yet
    opened,     \* whether the stream is open
    broken      \* whether the content is no longer promised

vars == <<content, offset, input, opened, broken>>

Init ==
    /\ content = <<>> /\ offset = 0 /\ input = <<>>
    /\ opened = FALSE /\ broken = FALSE

\* data laid over s from off on; a hole would be filled with zeros.
Overlay(s, off, data) ==
    LET end == off + Len(data)
    IN  [i \in 1..(IF end > Len(s) THEN end ELSE Len(s)) |->
            IF i > off /\ i <= end THEN data[i - off]
            ELSE IF i <= Len(s) THEN s[i]
            ELSE 0]

Open ==
    /\ ~opened
    /\ opened' = TRUE /\ offset' = 0
    /\ UNCHANGED <<content, input, broken>>

Close ==
    /\ opened /\ input = <<>>
    /\ opened' = FALSE /\ offset' = 0
    /\ UNCHANGED <<content, input, broken>>

\* The archive calls Write().
WriteCall ==
    /\ opened /\ input = <<>>
    /\ input' \in Seq(Byte)
    /\ UNCHANGED <<content, offset, opened, broken>>

\* Some of the bytes are stored.
Store ==
    /\ opened
    /\ \E n \in 1..Len(input) :
          /\ content' = Overlay(content, offset, SubSeq(input, 1, n))
          /\ offset' = offset + n
          /\ input' = SubSeq(input, n + 1, Len(input))
    /\ UNCHANGED <<opened, broken>>

Seek ==
    /\ opened /\ input = <<>>
    /\ offset' \in 0..Len(content)
    /\ UNCHANGED <<content, input, opened, broken>>

\* Everything after the position is cut off.
Cut ==
    /\ opened /\ input = <<>>
    /\ content' = SubSeq(content, 1, offset)
    /\ UNCHANGED <<offset, input, opened, broken>>

\* The stream is erased, or an exception makes it erase and close itself; that
\* mends a broken one.
Erase ==
    /\ opened' \in {FALSE, opened}
    /\ content' = <<>> /\ offset' = 0 /\ input' = <<>>
    /\ broken' = FALSE

\* The device fails: anything may happen to the bytes.
Fails == broken' = TRUE

Next ==
    \/ Fails
    \/ Erase
    \/ /\ ~broken
       /\ \/ Open
          \/ Close
          \/ WriteCall
          \/ Store
          \/ Seek
          \/ Cut

Spec == Init /\ [][Next]_vars
=============================================================================
