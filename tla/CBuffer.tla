------------------------------- MODULE CBuffer -------------------------------
(***************************************************************************)
(* CBuffer (dac/buffer.cpp) with one action per call: the ring as a caller  *)
(* sees it when no other thread is inside it. BufferThreads interleaves the *)
(* steps of the calls.                                                      *)
(***************************************************************************)
EXTENDS BufferOps

CONSTANTS
  BufferType,  \* "BUFFER_RX" or "BUFFER_TX": m_type
  MaxBytes     \* bound of the model: bytes put in one behaviour

ASSUME BufferTypeAssumption ==
  BufferType \in {"BUFFER_RX", "BUFFER_TX"} /\ MaxBytes \in Nat

VARIABLES
  data,        \* the cells of the ring
  write, read, \* the cursors in shared memory
  nput,        \* history: the bytes put so far
  out,         \* what the latest get handed to its caller
  taken        \* how many of those bytes a back() may still return

vars == <<data, write, read, nput, out, taken>>

Nothing == [i \in 0 .. -1 |-> 0]

(* Shared memory starts zeroed; a cell not written yet holds a byte of no   *)
(* position, which the numbering continues below 0.                         *)
Init ==
  /\ data = [c \in Cursors |-> c - BUFSIZE]
  /\ write = 0
  /\ read = 0
  /\ nput = 0
  /\ out = Nothing
  /\ taken = 0

Filled(n) ==
  LET hasLen == HasLen(write, n)
  IN  IF write + n > BUFSIZE
      THEN Store(Store(data, write, hasLen, nput),
                 0, RemainLen(n, hasLen), nput + hasLen)
      ELSE Store(data, write, n, nput)

(* put(buf, len), and put(val) for n = 1. Neither looks at remain().        *)
Put(n) ==
  /\ nput + n <= MaxBytes
  /\ data' = Filled(n)
  /\ write' = Advance(write, n)
  /\ nput' = nput + n
  /\ UNCHANGED <<read, out, taken>>

Get(n) ==
  LET realLen == IF Length(write, read) <= n THEN Length(write, read) ELSE n
  IN  /\ out' = Fetch(data, read, write, realLen)
      /\ read' = Advance(read, realLen)
      /\ taken' = realLen
      /\ UNCHANGED <<data, write, nput>>

(* get(val) tests nothing: on an empty ring it reads the cell it stands on. *)
GetByte ==
  /\ out' = [i \in 0 .. 0 |-> data[read]]
  /\ read' = Advance(read, 1)
  /\ taken' = 1
  /\ UNCHANGED <<data, write, nput>>

(* back(num): the branch of a send buffer never loads the read cursor into  *)
(* its local variable, which keeps its initial 0. The callers, the channels *)
(* that could not write all they got, return at most what they got.         *)
BackOneShort(n) ==
  /\ n <= taken
  /\ read' = Retreat(read, n - 1)
  /\ out' = Nothing
  /\ taken' = 0
  /\ UNCHANGED <<data, write, nput>>

Back(n) ==
  /\ n <= taken
  /\ read' = Retreat(IF BufferType = "BUFFER_RX" THEN read ELSE 0, n)
  /\ out' = Nothing
  /\ taken' = 0
  /\ UNCHANGED <<data, write, nput>>

Next ==
  \/ \E n \in 1 .. BUFSIZE : Put(n) \/ Get(n) \/ Back(n)
  \/ GetByte

Spec == Init /\ [][Next]_vars

-----------------------------------------------------------------------------
(* Every variable has its type.                                             *)
TypeOK ==
  /\ data \in [Cursors -> Int]
  /\ write \in Cursors
  /\ read \in Cursors
  /\ nput \in Nat
  /\ taken \in Cursors \cup {1}

(* The ring holds exactly the latest BUFSIZE bytes of the stream, each in   *)
(* the cell that its distance from the write cursor gives, however often    *)
(* put has lapped the reader and back has moved it.                         *)
HoldsLatest ==
  \A c \in Cursors :
    data[c] = IF c < write THEN nput - (write - c)
              ELSE nput - (write + BUFSIZE - c)

(* The receive ring implements the byte queue: its calls deliver every byte *)
(* once and in order, lose only whole laps, and back() restores what get()  *)
(* took.                                                                    *)
Queue == INSTANCE ByteQueue WITH
  Capacity <- BUFSIZE,
  first <- nput - Length(write, read),
  last <- nput

ImplementsByteQueue == Queue!Spec
=============================================================================
