------------------------------ MODULE ByteQueue ------------------------------
(***************************************************************************)
(* What a channel buffer promises when its calls do not overlap: a queue    *)
(* of bytes in the order they were put, each delivered once, that keeps     *)
(* fewer than Capacity bytes. A put beyond that is not refused: the queue   *)
(* silently loses its oldest bytes, a whole lap of Capacity at a time.      *)
(* Bytes are named by their position in the stream of all bytes put.        *)
(***************************************************************************)
EXTENDS Integers

CONSTANTS
  Capacity,    \* one more than the bytes the queue can keep
  MaxBytes     \* bound of the model: bytes put in one behaviour

VARIABLES
  first,       \* position of the next byte to deliver
  last,        \* position the next byte put will have
  out,         \* what the latest get delivered, from index 0 on
  taken        \* how many of these may still be given back

vars == <<first, last, out, taken>>

(* Of n bytes offered to it, the queue keeps the latest Kept(n).            *)
Kept(n) == n % Capacity

Init ==
  /\ first = 0
  /\ last = 0
  /\ out = [i \in 0 .. -1 |-> 0]
  /\ taken = 0

Put(n) ==
  /\ last + n <= MaxBytes
  /\ last' = last + n
  /\ first' = (last + n) - Kept(last + n - first)
  /\ UNCHANGED <<out, taken>>

(* Delivers the n oldest bytes, or all there are.                           *)
Get(n) ==
  LET k == IF last - first <= n THEN last - first ELSE n
  IN  /\ out' = [i \in 0 .. k - 1 |-> first + i]
      /\ first' = first + k
      /\ taken' = k
      /\ UNCHANGED last

(* The byte-wise get has no check for an empty queue: called on one, it     *)
(* yields a byte of the previous lap and the queue then holds that lap.     *)
GetByte ==
  /\ out' = [i \in 0 .. 0 |-> IF first = last THEN last - Capacity ELSE first]
  /\ first' = IF first = last THEN last - (Capacity - 1) ELSE first + 1
  /\ taken' = 1
  /\ UNCHANGED last

(* Takes back the latest n delivered bytes: they are delivered again next.  *)
Back(n) ==
  /\ n <= taken
  /\ first' = last - Kept(last - first + n)
  /\ out' = [i \in 0 .. -1 |-> 0]
  /\ taken' = 0
  /\ UNCHANGED last

Next ==
  \/ \E n \in 1 .. Capacity : Put(n) \/ Get(n) \/ Back(n)
  \/ GetByte

Spec == Init /\ [][Next]_vars
=============================================================================
