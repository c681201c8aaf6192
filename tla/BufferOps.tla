------------------------------ MODULE BufferOps ------------------------------
(***************************************************************************)
(* The arithmetic of CBuffer (dac/buffer.cpp): one byte ring per channel    *)
(* and direction, kept in shared memory with a write and a read cursor.     *)
(* A byte is represented by its position in the stream of all bytes ever    *)
(* put into the ring (0, 1, 2, ...), so that order, loss and duplication    *)
(* are visible; what the bytes say is abstracted away.                      *)
(***************************************************************************)
EXTENDS Integers

CONSTANTS
  BUFSIZE,     \* DAC_RECV_BUFSIZE, DAC_SEND_BUFSIZE: the cells of the ring
  Beyond       \* a byte copied from the memory after the ring's last cell

ASSUME BufSizeAssumption == BUFSIZE \in Nat \ {0}

Cursors == 0 .. BUFSIZE - 1

(* The number of unread bytes, as the cursors tell it: a full ring and an   *)
(* empty ring both have length 0.                                           *)
LengthNoLap(write, read) == IF write >= read THEN write - read ELSE 0

Length(write, read) ==
  IF write >= read THEN write - read ELSE write + BUFSIZE - read

Remain(write, read) ==
  IF write > read THEN BUFSIZE - (write - read) - 1
  ELSE IF write < read THEN read - write - 1
  ELSE BUFSIZE - 1

Advance(cursor, n) == (cursor + n) % BUFSIZE

Retreat(cursor, n) == (cursor + BUFSIZE - n) % BUFSIZE

(* The first memcpy of put copies up to the end of the array, the second    *)
(* one, from cell 0 on, what is left (never past the end again).            *)
HasLen(write, len) == IF write + len > BUFSIZE THEN BUFSIZE - write ELSE len

RemainLen(len, hasLen) == IF len - hasLen >= BUFSIZE THEN BUFSIZE ELSE len - hasLen

(* One memcpy into the array: bytes pos, pos+1, ... into cells from, ...    *)
StoreShifted(data, from, n, pos) ==
  [c \in Cursors |-> IF from < c /\ c < from + n THEN pos + (c - from) ELSE data[c]]

Store(data, from, n, pos) ==
  [c \in Cursors |-> IF from <= c /\ c < from + n THEN pos + (c - from) ELSE data[c]]

(* The copy get makes of n bytes from cell read on. It goes round the end   *)
(* of the array only if the write cursor it saw lies before the read one;   *)
(* otherwise it is one memcpy, which may run past the array.                *)
Fetch(data, read, write, n) ==
  [i \in 0 .. n - 1 |->
     IF read + i < BUFSIZE THEN data[read + i]
     ELSE IF read > write THEN data[read + i - BUFSIZE]
     ELSE Beyond]
=============================================================================
