------------------------------ MODULE SendStream ------------------------------
(***************************************************************************)
(* What a GPU TCP connection promises to the FPGA behind its send buffer:  *)
(* one stream of data units, numbered in the order the caller handed them  *)
(* over.  Units are announced in pieces, the FPGA takes them in order, it  *)
(* takes every announced unit with the content the caller gave it, and at  *)
(* most Capacity units are announced and not yet taken.  GpuSend is shown  *)
(* to implement this module.                                               *)
(***************************************************************************)
EXTENDS Integers, Sequences

CONSTANTS Piece,     \* the largest number of units announced at once
          Capacity   \* bound on the units announced and not taken

VARIABLES announced, \* number of units announced so far
          taken      \* the units the FPGA has read, in the order it read them

svars == <<announced, taken>>

StreamInit == announced = 0 /\ taken = <<>>

Announce(n) ==
  /\ announced + n - Len(taken) <= Capacity
  /\ announced' = announced + n
  /\ UNCHANGED taken

\* Unit number u of the stream carries the content u: it is the caller's
\* (u+1)-st word, so a stale or overwritten word would show another number.
Take(n) ==
  /\ Len(taken) + n <= announced
  /\ taken' = [u \in 1..(Len(taken) + n) |-> u - 1]
  /\ UNCHANGED announced

StreamNext == \E n \in 1..Piece : Announce(n) \/ Take(n)

StreamSpec == StreamInit /\ [][StreamNext]_svars
===============================================================================
