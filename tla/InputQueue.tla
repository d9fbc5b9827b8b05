--------------------------- MODULE InputQueue ---------------------------
(***************************************************************************)
(* What the console input buffer of lab/kern/console.c promises: a FIFO    *)
(* queue of the characters read from the devices, of capacity N-1.  There  *)
(* is no full check in cons_intr, so the N-th waiting character makes the  *)
(* write index meet the read index and the whole lap of N characters is    *)
(* gone: never a part of it, never one character delivered twice.          *)
(***************************************************************************)
EXTENDS Naturals, Sequences

CONSTANTS N, Char

VARIABLES queue,    \* the waiting characters, oldest first
          got       \* every character handed to the reader, in order

vars == <<queue, got>>

Init == queue = <<>> /\ got = <<>>

\* A device hands over c: kept while fewer than N-1 wait, else a lap is lost.
Put(c) ==
    /\ \/ /\ Len(queue) + 1 < N
          /\ queue' = Append(queue, c)
       \/ /\ Len(queue) + 1 = N
          /\ queue' = <<>>
    /\ UNCHANGED got

Get ==
    /\ queue # <<>>
    /\ got' = Append(got, Head(queue))
    /\ queue' = Tail(queue)

Next == Get \/ \E c \in Char : Put(c)

Spec == Init /\ [][Next]_vars
=========================================================================
