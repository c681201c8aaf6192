---------------------------- MODULE BufferThreads ----------------------------
(***************************************************************************)
(* CBuffer (dac/buffer.cpp) as the server uses it: one thread puts and one  *)
(* thread gets, with no lock around the shared cursors. For a receive ring  *)
(* the writer is the channel's I/O (recv) and the reader a protocol in a    *)
(* link thread; for a send ring the writer is the protocol and the reader   *)
(* the channel's send(). A step ends where the other thread can look at or  *)
(* change what the call goes on to use: each publication of a cursor, each  *)
(* of the reads of the write cursor that get() makes, each copy.            *)
(***************************************************************************)
EXTENDS BufferOps

CONSTANTS MaxBytes   \* bound of the model: bytes put in one behaviour

ASSUME MaxBytesAssumption == MaxBytes \in Nat

VARIABLES
  data, write, read,   \* the ring in shared memory
  wpc,                 \* writer: "idle", "part", "rest" or "all"
  wnum,                \* bytes copied and not yet published
  wrest,               \* bytes left for the second memcpy
  rpc,                 \* reader: "idle", "asked", "seen", "again", "copy", "copied"
  rwant,               \* the length the reader asked get() for
  rwrite,              \* the write cursor get() saw on entry
  rlen,                \* realLen
  out,                 \* what get() copied to its caller
  nput, ngot,          \* history: bytes published, bytes consumed
  lapped               \* history: some copy overwrote bytes not yet read

writerVars == <<wpc, wnum, wrest>>
readerVars == <<rpc, rwant, rwrite, rlen, out>>
vars == <<data, write, read, writerVars, readerVars, nput, ngot, lapped>>

Init ==
  /\ data = [c \in Cursors |-> c - BUFSIZE]
  /\ write = 0 /\ read = 0
  /\ wpc = "idle" /\ wnum = 0 /\ wrest = 0
  /\ rpc = "idle" /\ rwant = 0 /\ rwrite = 0 /\ rlen = 0
  /\ out = [i \in 0 .. -1 |-> 0]
  /\ nput = 0 /\ ngot = 0 /\ lapped = FALSE

(* One memcpy of put: the bytes become readable only when published.        *)
CopyIn(n) ==
  /\ data' = Store(data, write, n, nput)
  /\ wnum' = n
  /\ lapped' = (lapped \/ n > Remain(write, read))

PutBegin(len) ==
  /\ wpc = "idle"
  /\ nput + len <= MaxBytes
  /\ CopyIn(HasLen(write, len))
  /\ IF write + len > BUFSIZE
     THEN wpc' = "part" /\ wrest' = len - HasLen(write, len)
     ELSE wpc' = "all" /\ wrest' = 0
  /\ UNCHANGED <<write, read, readerVars, nput, ngot>>

(* put publishes the bytes before the end of the array on their own ...     *)
PublishFirstPart ==
  /\ wpc = "part"
  /\ write' = Advance(write, wnum)
  /\ nput' = nput + wnum
  /\ wpc' = "rest"
  /\ UNCHANGED <<data, read, wnum, wrest, readerVars, ngot, lapped>>

(* ... and copies the others behind them.                                   *)
CopyRest ==
  /\ wpc = "rest"
  /\ CopyIn(RemainLen(wrest, 0))
  /\ wpc' = "all" /\ wrest' = 0
  /\ UNCHANGED <<write, read, readerVars, nput, ngot>>

PublishAll ==
  /\ wpc = "all"
  /\ write' = Advance(write, wnum)
  /\ nput' = nput + wnum
  /\ wpc' = "idle" /\ wnum' = 0
  /\ UNCHANGED <<data, read, wrest, readerVars, ngot, lapped>>

Writer == (\E len \in 1 .. BUFSIZE : PutBegin(len))
          \/ PublishFirstPart \/ CopyRest \/ PublishAll

(* The caller asks length() and then calls get() with that many bytes, or   *)
(* with the smaller room it has.                                            *)
AskLength(n) ==
  /\ rpc = "idle"
  /\ n <= Length(write, read)
  /\ rwant' = n
  /\ rpc' = "asked"
  /\ UNCHANGED <<data, write, read, writerVars, rwrite, rlen, out, nput, ngot, lapped>>

GetEnter ==
  /\ rpc = "asked"
  /\ rwrite' = write
  /\ rpc' = "seen"
  /\ UNCHANGED <<data, write, read, writerVars, rwant, rlen, out, nput, ngot, lapped>>

(* get() calls length() to compare it with len, and once more to use it.    *)
CompareLength ==
  /\ rpc = "seen"
  /\ IF Length(write, read) <= rwant
     THEN rpc' = "again" /\ UNCHANGED rlen
     ELSE rpc' = "copy" /\ rlen' = rwant
  /\ UNCHANGED <<data, write, read, writerVars, rwant, rwrite, out, nput, ngot, lapped>>

UseLength ==
  /\ rpc = "again"
  /\ rlen' = Length(write, read)
  /\ rpc' = "copy"
  /\ UNCHANGED <<data, write, read, writerVars, rwant, rwrite, out, nput, ngot, lapped>>

CopyOut ==
  /\ rpc = "copy"
  /\ out' = Fetch(data, read, rwrite, rlen)
  /\ rpc' = "copied"
  /\ UNCHANGED <<data, write, read, writerVars, rwant, rwrite, rlen, nput, ngot, lapped>>

PublishReadOfWant ==
  /\ rpc = "copied"
  /\ read' = Advance(read, rlen + 1)
  /\ ngot' = ngot + rlen + 1
  /\ rpc' = "idle"
  /\ UNCHANGED <<data, write, writerVars, rwant, rwrite, rlen, out, nput, lapped>>

PublishRead ==
  /\ rpc = "copied"
  /\ read' = Advance(read, rlen)
  /\ ngot' = ngot + rlen
  /\ rpc' = "idle"
  /\ UNCHANGED <<data, write, writerVars, rwant, rwrite, rlen, out, nput, lapped>>

Reader == (\E n \in 1 .. BUFSIZE - 1 : AskLength(n))
          \/ GetEnter \/ CompareLength \/ UseLength \/ CopyOut \/ PublishRead

Next == Writer \/ Reader

Spec == Init /\ [][Next]_vars

(* Both threads run periodic loops that keep calling the ring, and a call   *)
(* once begun runs to its end.                                              *)
FairSpec == Spec /\ WF_vars(Reader) /\ WF_vars(PublishFirstPart \/ CopyRest \/ PublishAll)
-----------------------------------------------------------------------------
(* Every variable has its type.                                             *)
TypeOK ==
  /\ data \in [Cursors -> Int]
  /\ write \in Cursors /\ read \in Cursors
  /\ wpc \in {"idle", "part", "rest", "all"}
  /\ wnum \in 0 .. BUFSIZE /\ wrest \in 0 .. BUFSIZE
  /\ rpc \in {"idle", "asked", "seen", "again", "copy", "copied"}
  /\ rwant \in Cursors /\ rwrite \in Cursors /\ rlen \in Cursors
  /\ nput \in Nat /\ ngot \in Nat
  /\ lapped \in BOOLEAN

(* As long as no put laps the reader, the cursors count exactly the bytes   *)
(* published and not consumed, whatever the writer publishes between the    *)
(* three looks get() takes at the write cursor: the reader never passes the *)
(* writer and consumes nothing twice.                                       *)
CursorsCount == ~lapped => ngot <= nput /\ nput - ngot = Length(write, read)

(* As long as no put laps the reader, every published byte not yet consumed *)
(* stands in its cell, also between the two publications of a put that goes *)
(* round the end of the array.                                              *)
UnreadIntact ==
  ~lapped => \A k \in 0 .. nput - ngot - 1 :
               data[Advance(read, k)] = ngot + k

(* As long as no put laps the reader, what get() copies from within the     *)
(* array is the next bytes of the stream in their order.                    *)
CopiedInOrder ==
  rpc = "copied" /\ ~lapped =>
    \A i \in 0 .. rlen - 1 : out[i] \in {ngot + i, Beyond}

(* Every byte published is consumed in the end, unless it was lapped.       *)
EveryByteConsumed ==
  \A p \in 0 .. MaxBytes - 1 : nput > p ~> (lapped \/ ngot > p)

(* buffer.h calls length() the number of available bytes: a reader that     *)
(* asks for no more than these receives them, the next bytes of the stream. *)
DeliversAvailable ==
  rpc = "copied" /\ ~lapped => \A i \in 0 .. rlen - 1 : out[i] = ngot + i
=============================================================================
