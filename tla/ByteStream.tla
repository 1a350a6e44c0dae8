------------------------------ MODULE ByteStream ------------------------------
(***************************************************************************)
(* What a stream between two processes promises: bytes, numbered in the    *)
(* order they are written, come out in that order, each once, and none is  *)
(* left out before a write has failed.                                     *)
(***************************************************************************)
EXTENDS Naturals, Sequences

VARIABLES
    queue,      \* the bytes on their way
    next,       \* the number of the byte written next
    failed      \* a write has failed

vars == <<queue, next, failed>>

Numbers(from, to) == [i \in 1 .. to - from |-> from + i - 1]

Init == queue = <<>> /\ next = 1 /\ failed = FALSE

Put ==
    /\ next' > next
    /\ queue' = queue \o Numbers(next, next')
    /\ UNCHANGED failed

Take ==
    /\ Len(queue') < Len(queue)
    /\ queue' = SubSeq(queue, Len(queue) - Len(queue') + 1, Len(queue))
    /\ UNCHANGED <<next, failed>>

\* What was being written is left out; at a close what was waiting is, too.
Fail ==
    /\ failed' = TRUE
    /\ next' >= next
    /\ Len(queue') <= Len(queue)
    /\ queue' = SubSeq(queue, 1, Len(queue'))

Next == Put \/ Take \/ Fail

Spec == Init /\ [][Next]_vars
===============================================================================
