----------------------------- MODULE ByteSource -----------------------------
(***************************************************************************)
(* What an archive expects of the IInStream it reads: bytes that do not    *)
(* change while the stream is open, read in pieces from a position that    *)
(* can be moved anywhere, also behind the end.                             *)
(*                                                                         *)
(* Nothing is promised of a broken stream until it is closed.              *)
(***************************************************************************)
EXTENDS Naturals, Sequences

VARIABLES
    content,    \* the bytes
    opened,     \* whether the stream is open
    position,   \* where the next byte is read
    got,        \* what the last Read() returned
    broken      \* whether reads return what they like

vars == <<content, opened, position, got, broken>>

Init == opened = FALSE /\ position = 0 /\ got = <<>> /\ broken = FALSE

Open ==
    /\ ~opened
    /\ opened' = TRUE /\ position' = 0 /\ got' = <<>>
    /\ UNCHANGED <<content, broken>>

\* Closing a stream mends it.
Close ==
    /\ opened' = FALSE /\ position' = 0 /\ got' = <<>> /\ broken' = FALSE
    /\ UNCHANGED content

\* A read gets some of the bytes at the position, at least one if there are any.
Read ==
    /\ opened
    /\ \E n \in 0..Len(content) :
          /\ n = 0 => position >= Len(content)
          /\ position + n <= Len(content) \/ n = 0
          /\ got' = SubSeq(content, position + 1, position + n)
          /\ position' = position + n
    /\ UNCHANGED <<content, opened, broken>>

\* The device fails: nothing is read, and nothing skipped.
ReadFails ==
    /\ opened
    /\ got' = <<>>
    /\ UNCHANGED <<content, opened, position, broken>>

Seek ==
    /\ opened
    /\ position' \in Nat /\ got' = <<>>
    /\ UNCHANGED <<content, opened, broken>>

\* A closed stream may be erased, or be given other bytes.
Replace ==
    /\ ~opened
    /\ got' = <<>>
    /\ UNCHANGED <<opened, position, broken>>

Breaks == broken' = TRUE

Next ==
    \/ Breaks
    \/ Close
    \/ ~broken /\ (Open \/ Read \/ ReadFails \/ Seek \/ Replace)

Spec == Init /\ [][Next]_vars
=============================================================================
