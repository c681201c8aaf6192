------------------------- MODULE BufferThreadsProofs -------------------------
(***************************************************************************)
(* Proofs about BufferThreads: as long as no put laps the reader, a put and *)
(* a get that overlap in any way leave the cursors and the unread bytes     *)
(* right, for every size of the ring.                                       *)
(***************************************************************************)
EXTENDS BufferThreads, TLAPS

-----------------------------------------------------------------------------
(* The arithmetic of cursors.                                               *)

(* A cursor and a length of one call stay below twice the ring, so that the *)
(* remainder is at most one subtraction.                                    *)
LEMMA AdvanceCases ==
  ASSUME NEW c \in Cursors, NEW n \in 0 .. BUFSIZE
  PROVE  /\ Advance(c, n) = IF c + n < BUFSIZE THEN c + n ELSE c + n - BUFSIZE
         /\ Advance(c, n) \in Cursors
  <1>1. c + n \in 0 .. 2 * BUFSIZE - 1
    BY SMT, BufSizeAssumption DEF Cursors
  <1>2. (c + n) % BUFSIZE = IF c + n < BUFSIZE THEN c + n ELSE c + n - BUFSIZE
    BY SMT, <1>1, BufSizeAssumption DEF Cursors
  <1>3. QED BY SMT, <1>2, BufSizeAssumption DEF Advance, Cursors

LEMMA LengthBound ==
  ASSUME NEW w \in Cursors, NEW r \in Cursors
  PROVE  Length(w, r) \in Cursors
  BY SMT, BufSizeAssumption DEF Length, Cursors

LEMMA SmallMod ==
  ASSUME NEW m \in Cursors, NEW n \in 0 .. BUFSIZE
  PROVE  (m + n) % BUFSIZE = IF m + n < BUFSIZE THEN m + n ELSE m + n - BUFSIZE
  BY AdvanceCases DEF Advance

(* Writing n bytes lengthens the queue by n, whole laps excepted.           *)
LEMMA WriteLength ==
  ASSUME NEW w \in Cursors, NEW r \in Cursors, NEW n \in 0 .. BUFSIZE
  PROVE  Length(Advance(w, n), r) = (Length(w, r) + n) % BUFSIZE
  <1>1. Length(w, r) \in Cursors
    BY LengthBound
  <1>2. (Length(w, r) + n) % BUFSIZE =
          IF Length(w, r) + n < BUFSIZE THEN Length(w, r) + n
          ELSE Length(w, r) + n - BUFSIZE
    BY <1>1, SmallMod
  <1>3. Advance(w, n) = IF w + n < BUFSIZE THEN w + n ELSE w + n - BUFSIZE
    BY AdvanceCases
  <1>4. QED BY SMT, <1>2, <1>3, BufSizeAssumption DEF Length, Cursors

(* Reading n of the bytes that are there shortens it by n.                  *)
LEMMA ReadLength ==
  ASSUME NEW w \in Cursors, NEW r \in Cursors, NEW n \in 0 .. Length(w, r)
  PROVE  /\ Length(w, Advance(r, n)) = Length(w, r) - n
         /\ Advance(r, n) = IF r + n < BUFSIZE THEN r + n ELSE r + n - BUFSIZE
         /\ n \in Cursors
  <1>1. Length(w, r) \in Cursors
    BY LengthBound
  <1>2. n \in 0 .. BUFSIZE /\ n \in Cursors
    BY SMT, <1>1, BufSizeAssumption DEF Cursors
  <1>3. Advance(r, n) = IF r + n < BUFSIZE THEN r + n ELSE r + n - BUFSIZE
    BY <1>2, AdvanceCases
  <1>4. QED BY SMT, <1>2, <1>3, BufSizeAssumption DEF Length, Cursors

-----------------------------------------------------------------------------
(* Bytes copied into the ring and not published yet.                        *)
Pending == IF wpc \in {"part", "all"} THEN wnum ELSE 0

(* What a put has still to do.                                              *)
WriterInv ==
  /\ wpc = "part" => wnum = BUFSIZE - write /\ wrest >= 1
  /\ wpc = "rest" => write = 0 /\ wrest >= 1
  /\ wpc \in {"part", "all"} => wnum >= 1

(* The room the pending bytes take, and what stands in the cells of unread  *)
(* and pending bytes.                                                       *)
RingInv ==
  /\ ngot <= nput
  /\ nput - ngot = Length(write, read)
  /\ Length(write, read) + Pending <= BUFSIZE - 1
  /\ \A k \in 0 .. Length(write, read) + Pending - 1 :
       data[Advance(read, k)] = ngot + k

(* The length get() settles on has been published, and stays so: only the   *)
(* reader consumes bytes.                                                   *)
ReaderInv ==
  /\ rpc # "idle" => rwant <= Length(write, read)
  /\ rpc \in {"copy", "copied"} => rlen <= Length(write, read)
  /\ rpc = "copied" => \A i \in 0 .. rlen - 1 : out[i] \in {ngot + i, Beyond}

IInv ==
  /\ TypeOK
  /\ WriterInv
  /\ ~lapped => RingInv /\ ReaderInv

-----------------------------------------------------------------------------
LEMMA InitIInv == Init => IInv
  <1> SUFFICES ASSUME Init PROVE IInv
    OBVIOUS
  <1>1. TypeOK
    <2>1. 0 \in Cursors /\ 0 \in 0 .. BUFSIZE
      BY SMT, BufSizeAssumption DEF Cursors
    <2>2. data \in [Cursors -> Int]
      BY SMT, BufSizeAssumption DEF Init, Cursors
    <2>3. QED BY <2>1, <2>2 DEF Init, TypeOK
  <1>2. Length(write, read) = 0 /\ Pending = 0
    BY SMT, BufSizeAssumption DEF Init, Length, Pending
  <1>3. RingInv
    <2>1. nput = 0 /\ ngot = 0
      BY DEF Init
    <2>2. /\ ngot <= nput /\ nput - ngot = Length(write, read)
          /\ Length(write, read) + Pending <= BUFSIZE - 1
          /\ Length(write, read) + Pending - 1 = -1
      BY SMT, <1>2, <2>1, BufSizeAssumption
    <2>3. 0 .. Length(write, read) + Pending - 1 = {}
      BY SMT, <2>2
    <2>4. QED BY <2>2, <2>3 DEF RingInv
  <1>4. WriterInv /\ ReaderInv
    BY DEF Init, WriterInv, ReaderInv
  <1>5. QED BY <1>1, <1>3, <1>4 DEF IInv

(* A memcpy into free cells before the end of the array leaves the unread   *)
(* bytes alone and puts the next bytes of the stream behind them.           *)
LEMMA CopyInRing ==
  ASSUME TypeOK, RingInv, wpc \in {"idle", "rest"},
         NEW n \in 1 .. BUFSIZE, write + n <= BUFSIZE,
         CopyIn(n), ~lapped', UNCHANGED <<write, read, nput, ngot>>, wpc' \in {"part", "all"}
  PROVE  RingInv'
  <1> DEFINE L == Length(write, read)
  <1>1. /\ write \in Cursors /\ read \in Cursors /\ L \in Cursors
        /\ nput \in Nat /\ ngot \in Nat
    BY LengthBound DEF TypeOK
  <1>2. Pending = 0 /\ Pending' = n
    BY DEF Pending, CopyIn
  <1>3. L + n <= BUFSIZE - 1
    <2>1. ~(n > Remain(write, read))
      BY Zenon DEF CopyIn
    <2>2. QED BY SMT, <1>1, <2>1, BufSizeAssumption DEF Remain, Length, Cursors
  <1>4. ASSUME NEW k \in 0 .. L + n - 1
        PROVE  data'[Advance(read, k)] = ngot + k
    <2>0. k \in 0 .. BUFSIZE
      <3> HIDE DEF L
      <3>1. QED BY SMT, <1>1, <1>3, BufSizeAssumption DEF Cursors
    <2>1. /\ Advance(read, k) \in Cursors
          /\ Advance(read, k) = IF read + k < BUFSIZE THEN read + k ELSE read + k - BUFSIZE
      BY <1>1, <2>0, AdvanceCases
    <2>2. data'[Advance(read, k)] =
            IF write <= Advance(read, k) /\ Advance(read, k) < write + n
            THEN nput + (Advance(read, k) - write) ELSE data[Advance(read, k)]
      BY <2>1 DEF CopyIn, Store
    <2>3. CASE k < L
      <3>1. ~(write <= Advance(read, k) /\ Advance(read, k) < write + n)
        BY SMT, <1>1, <1>3, <2>0, <2>1, <2>3, BufSizeAssumption DEF Length, Cursors
      <3>2. k \in 0 .. L + Pending - 1
        <4> HIDE DEF L
        <4>1. QED BY SMT, <1>1, <1>2, <2>0, <2>3, BufSizeAssumption DEF Cursors
      <3>3. QED BY <2>2, <3>1, <3>2 DEF RingInv
    <2>4. CASE ~(k < L)
      <3>1. Advance(read, k) = write + (k - L)
        BY SMT, <1>1, <1>3, <2>0, <2>1, <2>4, BufSizeAssumption DEF Length, Cursors
      <3>2. nput - ngot = L
        BY DEF RingInv
      <3> HIDE DEF L
      <3>3. QED BY SMT, <1>1, <1>3, <2>0, <2>2, <2>4, <3>1, <3>2, BufSizeAssumption DEF Cursors
    <2>5. QED BY <2>3, <2>4
  <1>5. QED BY <1>2, <1>3, <1>4 DEF RingInv

(* Publishing the pending bytes makes exactly them readable.                *)
LEMMA PublishRing ==
  ASSUME TypeOK, WriterInv, RingInv, wpc \in {"part", "all"}, wpc' \in {"rest", "idle"},
         write' = Advance(write, wnum), nput' = nput + wnum,
         UNCHANGED <<data, read, ngot>>
  PROVE  /\ RingInv'
         /\ Length(write', read') >= Length(write, read)
  <1> DEFINE L == Length(write, read)
  <1>1. /\ write \in Cursors /\ read \in Cursors /\ L \in Cursors
        /\ nput \in Nat /\ ngot \in Nat /\ wnum \in 0 .. BUFSIZE
    BY LengthBound DEF TypeOK
  <1>2. Pending = wnum /\ Pending' = 0
    BY DEF Pending
  <1>3. L + wnum <= BUFSIZE - 1
    BY <1>2 DEF RingInv
  <1>4. Length(write', read') = L + wnum
    <2>1. Length(write', read') = (L + wnum) % BUFSIZE
      BY <1>1, WriteLength
    <2>2. (L + wnum) % BUFSIZE = IF L + wnum < BUFSIZE THEN L + wnum ELSE L + wnum - BUFSIZE
      BY <1>1, SmallMod
    <2> HIDE DEF L
    <2>3. QED BY SMT, <1>1, <1>3, <2>1, <2>2, BufSizeAssumption DEF Cursors
  <1>5. nput - ngot = L /\ ngot <= nput
    BY DEF RingInv
  <1>6. \A k \in 0 .. L + wnum - 1 : data[Advance(read, k)] = ngot + k
    BY <1>2 DEF RingInv
  <1> HIDE DEF L
  <1>7. /\ nput' - ngot' = Length(write', read') /\ ngot' <= nput'
        /\ Length(write', read') + Pending' <= BUFSIZE - 1
        /\ Length(write', read') + Pending' - 1 = L + wnum - 1
        /\ Length(write', read') >= L
    BY SMT, <1>1, <1>2, <1>3, <1>4, <1>5, BufSizeAssumption DEF Cursors
  <1>8. \A k \in 0 .. Length(write', read') + Pending' - 1 : data'[Advance(read', k)] = ngot' + k
    BY <1>6, <1>7
  <1>9. QED BY <1>7, <1>8 DEF RingInv, L

-----------------------------------------------------------------------------
(* Steps of the writer leave get()'s local variables alone, and never make  *)
(* the readable part of the ring shorter.                                   *)
LEMMA ReaderKept ==
  ASSUME TypeOK, ReaderInv, UNCHANGED <<readerVars, ngot>>,
         Length(write', read') \in Int, Length(write', read') >= Length(write, read)
  PROVE  ReaderInv'
  <1>1. Length(write, read) \in Int /\ rwant \in Int /\ rlen \in Int
    <2>1. Length(write, read) \in Cursors /\ rwant \in Cursors /\ rlen \in Cursors
      BY LengthBound DEF TypeOK
    <2>2. QED BY SMT, <2>1, BufSizeAssumption DEF Cursors
  <1>2. UNCHANGED <<rpc, rwant, rlen, out, ngot>>
    BY DEF readerVars
  <1>3. rpc' # "idle" => rwant' <= Length(write', read')
    BY SMT, <1>1, <1>2 DEF ReaderInv
  <1>4. rpc' \in {"copy", "copied"} => rlen' <= Length(write', read')
    BY SMT, <1>1, <1>2 DEF ReaderInv
  <1>5. QED BY <1>2, <1>3, <1>4 DEF ReaderInv

LEMMA StoreType ==
  ASSUME TypeOK, NEW n \in 0 .. BUFSIZE, CopyIn(n)
  PROVE  data' \in [Cursors -> Int] /\ wnum' = n /\ (~lapped' => ~lapped) /\ lapped' \in BOOLEAN
  <1>1. data' \in [Cursors -> Int]
    BY SMT, BufSizeAssumption DEF TypeOK, CopyIn, Store, Cursors
  <1>2. wnum' = n /\ lapped' = (lapped \/ n > Remain(write, read))
    BY DEF CopyIn
  <1>3. (~lapped' => ~lapped) /\ lapped' \in BOOLEAN
    BY Zenon, <1>2
  <1>4. QED BY <1>1, <1>2, <1>3

LEMMA PutBeginInv ==
  ASSUME IInv, NEW len \in 1 .. BUFSIZE, PutBegin(len)
  PROVE  IInv'
  <1> DEFINE n == HasLen(write, len)
  <1>1. TypeOK /\ WriterInv /\ wpc = "idle" /\ CopyIn(n) /\ write \in Cursors
        /\ UNCHANGED <<write, read, readerVars, nput, ngot>>
    BY DEF IInv, PutBegin, TypeOK
  <1>2. n \in 1 .. BUFSIZE /\ write + n <= BUFSIZE /\ n \in 0 .. BUFSIZE
    BY SMT, <1>1, BufSizeAssumption DEF HasLen, Cursors
  <1>3. \/ /\ wpc' = "part" /\ wrest' = len - n /\ n = BUFSIZE - write
           /\ len - n \in 1 .. BUFSIZE
        \/ wpc' = "all" /\ wrest' = 0
    <2>1. CASE write + len > BUFSIZE
      <3>1. n = BUFSIZE - write /\ len - n \in 1 .. BUFSIZE
        BY SMT, <1>1, <2>1, BufSizeAssumption DEF HasLen, Cursors
      <3>2. QED BY <2>1, <3>1 DEF PutBegin
    <2>2. CASE ~(write + len > BUFSIZE)
      BY <2>2 DEF PutBegin
    <2>3. QED BY <2>1, <2>2
  <1> HIDE DEF n
  <1>4. data' \in [Cursors -> Int] /\ wnum' = n /\ (~lapped' => ~lapped) /\ lapped' \in BOOLEAN
    BY <1>1, <1>2, StoreType
  <1>5. wrest' \in 0 .. BUFSIZE /\ (wpc' = "part" => wrest' >= 1) /\ n >= 1
    BY SMT, <1>2, <1>3, BufSizeAssumption
  <1>6. TypeOK'
    BY <1>1, <1>2, <1>3, <1>4, <1>5 DEF TypeOK, readerVars
  <1>7. WriterInv'
    BY <1>1, <1>3, <1>4, <1>5 DEF WriterInv
  <1>8. ASSUME ~lapped' PROVE RingInv' /\ ReaderInv'
    <2>1. RingInv /\ ReaderInv
      BY <1>4, <1>8 DEF IInv
    <2>2. RingInv'
      BY <1>1, <1>2, <1>3, <1>8, <2>1, CopyInRing
    <2>3. Length(write', read') = Length(write, read) /\ Length(write, read) \in Cursors
      BY <1>1, LengthBound DEF TypeOK
    <2>4. Length(write', read') \in Int /\ Length(write', read') >= Length(write, read)
      BY SMT, <2>3, BufSizeAssumption DEF Cursors
    <2>5. ReaderInv'
      BY <1>1, <2>1, <2>4, ReaderKept
    <2>6. QED BY <2>2, <2>5
  <1>9. QED BY <1>6, <1>7, <1>8 DEF IInv

LEMMA CopyRestInv ==
  ASSUME IInv, CopyRest
  PROVE  IInv'
  <1> DEFINE n == RemainLen(wrest, 0)
  <1>1. TypeOK /\ WriterInv /\ wpc = "rest" /\ CopyIn(n) /\ write = 0 /\ wrest >= 1
        /\ wrest \in 0 .. BUFSIZE
        /\ wpc' = "all" /\ wrest' = 0
        /\ UNCHANGED <<write, read, readerVars, nput, ngot>>
    BY DEF IInv, CopyRest, TypeOK, WriterInv
  <1>2. n \in 1 .. BUFSIZE /\ write + n <= BUFSIZE /\ n \in 0 .. BUFSIZE /\ n >= 1
    BY SMT, <1>1, BufSizeAssumption DEF RemainLen
  <1> HIDE DEF n
  <1>4. data' \in [Cursors -> Int] /\ wnum' = n /\ (~lapped' => ~lapped) /\ lapped' \in BOOLEAN
    BY <1>1, <1>2, StoreType
  <1>5. 0 \in 0 .. BUFSIZE
    BY SMT, BufSizeAssumption
  <1>6. TypeOK'
    BY <1>1, <1>2, <1>4, <1>5 DEF TypeOK, readerVars
  <1>7. WriterInv'
    BY <1>1, <1>2, <1>4 DEF WriterInv
  <1>8. ASSUME ~lapped' PROVE RingInv' /\ ReaderInv'
    <2>1. RingInv /\ ReaderInv
      BY <1>4, <1>8 DEF IInv
    <2>2. RingInv'
      BY <1>1, <1>2, <1>8, <2>1, CopyInRing
    <2>3. Length(write', read') = Length(write, read) /\ Length(write, read) \in Cursors
      BY <1>1, LengthBound DEF TypeOK
    <2>4. Length(write', read') \in Int /\ Length(write', read') >= Length(write, read)
      BY SMT, <2>3, BufSizeAssumption DEF Cursors
    <2>5. ReaderInv'
      BY <1>1, <2>1, <2>4, ReaderKept
    <2>6. QED BY <2>2, <2>5
  <1>9. QED BY <1>6, <1>7, <1>8 DEF IInv

LEMMA PublishInv ==
  ASSUME IInv, PublishFirstPart \/ PublishAll
  PROVE  IInv'
  <1>1. TypeOK /\ WriterInv /\ wpc \in {"part", "all"} /\ wpc' \in {"rest", "idle"}
        /\ write' = Advance(write, wnum) /\ nput' = nput + wnum
        /\ UNCHANGED <<data, read, ngot, readerVars, lapped, wrest>>
    BY DEF IInv, PublishFirstPart, PublishAll
  <1>2. write \in Cursors /\ wnum \in 0 .. BUFSIZE /\ nput \in Nat /\ wnum' \in 0 .. BUFSIZE
    <2>1. 0 \in 0 .. BUFSIZE
      BY SMT, BufSizeAssumption
    <2>2. QED BY <2>1 DEF IInv, TypeOK, PublishFirstPart, PublishAll
  <1>3. write' \in Cursors /\ nput' \in Nat
    <2>1. nput + wnum \in Nat
      BY SMT, <1>2, BufSizeAssumption
    <2>2. QED BY <1>1, <1>2, <2>1, AdvanceCases
  <1>4. TypeOK'
    BY <1>1, <1>2, <1>3 DEF TypeOK, readerVars
  <1>5. WriterInv'
    <2>1. CASE PublishFirstPart
      <3>1. wnum = BUFSIZE - write /\ wrest >= 1 /\ wrest' = wrest /\ wpc' = "rest"
        BY <2>1 DEF PublishFirstPart, IInv, WriterInv
      <3>2. write' = 0
        <4>1. write' = IF write + wnum < BUFSIZE THEN write + wnum ELSE write + wnum - BUFSIZE
          BY <1>1, <1>2, AdvanceCases
        <4>2. QED BY SMT, <1>2, <3>1, <4>1, BufSizeAssumption DEF Cursors
      <3>3. QED BY <3>1, <3>2 DEF WriterInv
    <2>2. CASE PublishAll
      BY <2>2 DEF PublishAll, WriterInv
    <2>3. QED BY <2>1, <2>2
  <1>6. ASSUME ~lapped' PROVE RingInv' /\ ReaderInv'
    <2>1. RingInv /\ ReaderInv
      BY <1>1, <1>6 DEF IInv
    <2>2. RingInv' /\ Length(write', read') >= Length(write, read)
      BY <1>1, <2>1, PublishRing
    <2>3. Length(write', read') \in Int
      <3>1. Length(write', read') \in Cursors
        BY <1>1, <1>3, LengthBound DEF TypeOK
      <3>2. QED BY SMT, <3>1, BufSizeAssumption DEF Cursors
    <2>4. QED BY <1>1, <2>1, <2>2, <2>3, ReaderKept
  <1>7. QED BY <1>4, <1>5, <1>6 DEF IInv

-----------------------------------------------------------------------------
(* The steps of get() before it publishes its cursor change only the        *)
(* reader's own variables.                                                  *)
LEMMA RingKept ==
  ASSUME RingInv, UNCHANGED <<data, write, read, writerVars, nput, ngot>>
  PROVE  RingInv'
  BY DEF RingInv, Pending, writerVars

LEMMA WriterKept ==
  ASSUME WriterInv, UNCHANGED <<write, writerVars>>
  PROVE  WriterInv'
  BY DEF WriterInv, writerVars

LEMMA AskLengthInv ==
  ASSUME IInv, NEW n \in 1 .. BUFSIZE - 1, AskLength(n)
  PROVE  IInv'
  <1>1. TypeOK /\ WriterInv /\ UNCHANGED <<data, write, read, writerVars, nput, ngot, lapped>>
    BY DEF IInv, AskLength
  <1>2. n \in Cursors
    BY SMT, BufSizeAssumption DEF Cursors
  <1>3. TypeOK'
    BY <1>2 DEF IInv, TypeOK, AskLength, writerVars
  <1>4. WriterInv'
    BY <1>1, WriterKept
  <1>5. ASSUME ~lapped' PROVE RingInv' /\ ReaderInv'
    <2>1. RingInv
      BY <1>1, <1>5 DEF IInv
    <2>2. RingInv'
      BY <1>1, <2>1, RingKept
    <2>3. n <= Length(write', read') /\ rwant' = n /\ rpc' = "asked"
      BY DEF AskLength
    <2>4. QED BY <2>2, <2>3 DEF ReaderInv
  <1>6. QED BY <1>3, <1>4, <1>5 DEF IInv

LEMMA GetEnterInv ==
  ASSUME IInv, GetEnter
  PROVE  IInv'
  <1>1. TypeOK /\ WriterInv /\ UNCHANGED <<data, write, read, writerVars, nput, ngot, lapped>>
    BY DEF IInv, GetEnter
  <1>3. TypeOK'
    BY DEF IInv, TypeOK, GetEnter, writerVars
  <1>4. WriterInv'
    BY <1>1, WriterKept
  <1>5. ASSUME ~lapped' PROVE RingInv' /\ ReaderInv'
    <2>1. RingInv /\ ReaderInv
      BY <1>1, <1>5 DEF IInv
    <2>2. RingInv'
      BY <1>1, <2>1, RingKept
    <2>3. QED BY <2>1, <2>2 DEF ReaderInv, GetEnter
  <1>6. QED BY <1>3, <1>4, <1>5 DEF IInv

LEMMA MeasureInv ==
  ASSUME IInv, CompareLength \/ UseLength
  PROVE  IInv'
  <1> DEFINE L == Length(write, read)
  <1>1. /\ TypeOK /\ WriterInv /\ rwant \in Cursors /\ L \in Cursors
        /\ rpc \in {"seen", "again"}
        /\ UNCHANGED <<data, write, read, writerVars, nput, ngot, lapped, rwant, rwrite, out>>
    BY LengthBound DEF IInv, CompareLength, UseLength, TypeOK
  <1>2. \/ rpc' = "again" /\ rlen' = rlen
        \/ rpc' = "copy" /\ rlen' = rwant
        \/ rpc' = "copy" /\ rlen' = L
    BY DEF CompareLength, UseLength
  <1>3. TypeOK'
    <2>1. rlen' \in Cursors /\ rpc' \in {"again", "copy"}
      BY <1>1, <1>2 DEF TypeOK
    <2>2. QED BY <1>1, <2>1 DEF TypeOK, writerVars
  <1>4. WriterInv'
    BY <1>1, WriterKept
  <1>5. ASSUME ~lapped' PROVE RingInv' /\ ReaderInv'
    <2>1. RingInv /\ ReaderInv
      BY <1>1, <1>5 DEF IInv
    <2>2. RingInv'
      BY <1>1, <2>1, RingKept
    <2>3. rwant <= L
      BY <1>1, <2>1 DEF ReaderInv
    <2>4. L <= L
      <3> HIDE DEF L
      <3>1. QED BY SMT, <1>1, BufSizeAssumption DEF Cursors
    <2>5. rpc' = "copy" => rlen' <= Length(write', read')
      BY <1>1, <1>2, <2>3, <2>4
    <2>6. QED BY <1>1, <1>2, <2>2, <2>3, <2>5 DEF ReaderInv
  <1>6. QED BY <1>3, <1>4, <1>5 DEF IInv

LEMMA CopyOutInv ==
  ASSUME IInv, CopyOut
  PROVE  IInv'
  <1> DEFINE L == Length(write, read)
  <1>1. /\ TypeOK /\ WriterInv /\ rpc = "copy" /\ rpc' = "copied"
        /\ out' = Fetch(data, read, rwrite, rlen)
        /\ UNCHANGED <<data, write, read, writerVars, rwant, rwrite, rlen, nput, ngot, lapped>>
    BY DEF IInv, CopyOut
  <1>2. /\ write \in Cursors /\ read \in Cursors /\ rlen \in Cursors /\ wnum \in 0 .. BUFSIZE
        /\ L \in Cursors /\ ngot \in Nat
    BY <1>1, LengthBound DEF TypeOK
  <1>3. TypeOK'
    BY <1>1 DEF TypeOK, writerVars
  <1>4. WriterInv'
    BY <1>1, WriterKept
  <1>5. ASSUME ~lapped' PROVE RingInv' /\ ReaderInv'
    <2>1. RingInv /\ ReaderInv
      BY <1>1, <1>5 DEF IInv
    <2>2. RingInv'
      BY <1>1, <2>1, RingKept
    <2>3. rwant <= L /\ rlen <= L
      BY <1>1, <2>1 DEF ReaderInv
    <2>4. ASSUME NEW i \in 0 .. rlen - 1
          PROVE  out'[i] \in {ngot + i, Beyond}
      <3>1. out'[i] = IF read + i < BUFSIZE THEN data[read + i]
                      ELSE IF read > rwrite THEN data[read + i - BUFSIZE] ELSE Beyond
        BY <1>1 DEF Fetch
      <3>2. i \in 0 .. BUFSIZE /\ i \in 0 .. L + Pending - 1
        <4>1. Pending \in 0 .. BUFSIZE
          BY SMT, <1>2, BufSizeAssumption DEF Pending
        <4> HIDE DEF L
        <4>2. QED BY SMT, <1>2, <2>3, <4>1, BufSizeAssumption DEF Cursors
      <3>3. data[Advance(read, i)] = ngot + i
        BY <2>1, <3>2 DEF RingInv
      <3>4. Advance(read, i) = IF read + i < BUFSIZE THEN read + i ELSE read + i - BUFSIZE
        BY <1>2, <3>2, AdvanceCases
      <3>5. QED BY <3>1, <3>3, <3>4
    <2>5. ReaderInv'
      BY <1>1, <2>3, <2>4 DEF ReaderInv
    <2>6. QED BY <2>2, <2>5
  <1>6. QED BY <1>3, <1>4, <1>5 DEF IInv

LEMMA PublishReadInv ==
  ASSUME IInv, PublishRead
  PROVE  IInv'
  <1> DEFINE L == Length(write, read)
  <1>1. /\ TypeOK /\ WriterInv /\ rpc = "copied" /\ rpc' = "idle"
        /\ read' = Advance(read, rlen) /\ ngot' = ngot + rlen
        /\ UNCHANGED <<data, write, writerVars, rwant, rwrite, rlen, out, nput, lapped>>
    BY DEF IInv, PublishRead
  <1>2. /\ write \in Cursors /\ read \in Cursors /\ rlen \in Cursors /\ wnum \in 0 .. BUFSIZE
        /\ L \in Cursors /\ ngot \in Nat /\ nput \in Nat /\ rlen \in 0 .. BUFSIZE
    <2>1. rlen \in 0 .. BUFSIZE
      BY SMT, BufSizeAssumption DEF IInv, TypeOK, Cursors
    <2>2. QED BY <1>1, <2>1, LengthBound DEF TypeOK
  <1>3. read' \in Cursors
    BY <1>1, <1>2, AdvanceCases
  <1>4. ngot' \in Nat
    BY SMT, <1>1, <1>2, BufSizeAssumption DEF Cursors
  <1>5. TypeOK'
    BY <1>1, <1>3, <1>4 DEF TypeOK, writerVars
  <1>6. WriterInv'
    BY <1>1, WriterKept
  <1>7. ASSUME ~lapped' PROVE RingInv' /\ ReaderInv'
    <2>1. RingInv /\ ReaderInv
      BY <1>1, <1>7 DEF IInv
    <2>2. rlen <= L
      BY <1>1, <2>1 DEF ReaderInv
    <2>3. rlen \in 0 .. L
      <3> HIDE DEF L
      <3>1. QED BY SMT, <1>2, <2>2, BufSizeAssumption DEF Cursors
    <2>4. Length(write', read') = L - rlen
      BY <1>1, <1>2, <2>3, ReadLength
    <2>5. Pending' = Pending /\ Pending \in 0 .. BUFSIZE
      <3>1. Pending \in 0 .. BUFSIZE
        BY SMT, <1>2, BufSizeAssumption DEF Pending
      <3>2. QED BY <1>1, <3>1 DEF Pending, writerVars
    <2>6. ngot <= nput /\ nput - ngot = L /\ L + Pending <= BUFSIZE - 1
      BY <2>1 DEF RingInv
    <2>7. /\ ngot' <= nput' /\ nput' - ngot' = Length(write', read')
          /\ Length(write', read') + Pending' <= BUFSIZE - 1
      <3> HIDE DEF L
      <3>1. QED BY SMT, <1>1, <1>2, <2>2, <2>4, <2>5, <2>6, BufSizeAssumption DEF Cursors
    <2>8. ASSUME NEW k \in 0 .. Length(write', read') + Pending' - 1
          PROVE  data'[Advance(read', k)] = ngot' + k
      <3>1. rlen + k \in 0 .. L + Pending - 1 /\ rlen + k \in 0 .. BUFSIZE /\ k \in 0 .. BUFSIZE
        <4> HIDE DEF L
        <4>1. QED BY SMT, <1>2, <2>2, <2>4, <2>5, <2>6, BufSizeAssumption DEF Cursors
      <3>2. data[Advance(read, rlen + k)] = ngot + (rlen + k)
        BY <2>1, <3>1 DEF RingInv
      <3>3. Advance(read', k) = Advance(read, rlen + k)
        <4>1. read' = IF read + rlen < BUFSIZE THEN read + rlen ELSE read + rlen - BUFSIZE
          BY <1>1, <1>2, AdvanceCases
        <4>2. Advance(read', k) = IF read' + k < BUFSIZE THEN read' + k ELSE read' + k - BUFSIZE
          BY <1>3, <3>1, AdvanceCases
        <4>3. Advance(read, rlen + k) = IF read + (rlen + k) < BUFSIZE THEN read + (rlen + k)
                                        ELSE read + (rlen + k) - BUFSIZE
          BY <1>2, <3>1, AdvanceCases
        <4>4. QED BY SMT, <1>2, <1>3, <3>1, <4>1, <4>2, <4>3, BufSizeAssumption DEF Cursors
      <3>4. ngot + (rlen + k) = ngot' + k
        BY SMT, <1>1, <1>2, <3>1, BufSizeAssumption DEF Cursors
      <3>5. QED BY <1>1, <3>2, <3>3, <3>4
    <2>9. RingInv'
      BY <2>7, <2>8 DEF RingInv
    <2>10. QED BY <1>1, <2>9 DEF ReaderInv
  <1>8. QED BY <1>5, <1>6, <1>7 DEF IInv

LEMMA NextIInv == IInv /\ [Next]_vars => IInv'
  <1> SUFFICES ASSUME IInv, [Next]_vars PROVE IInv'
    OBVIOUS
  <1>1. CASE UNCHANGED vars
    BY <1>1 DEF vars, readerVars, writerVars, IInv, TypeOK, WriterInv, RingInv, ReaderInv, Pending
  <1>2. CASE Writer
    BY <1>2, PutBeginInv, CopyRestInv, PublishInv DEF Writer
  <1>3. CASE Reader
    BY <1>3, AskLengthInv, GetEnterInv, MeasureInv, CopyOutInv, PublishReadInv DEF Reader
  <1>4. QED BY <1>1, <1>2, <1>3 DEF Next

LEMMA SpecIInv == Spec => []IInv
  BY InitIInv, NextIInv, PTL DEF Spec

(* Every variable of the two threads keeps its type.                        *)
THEOREM ThreadsTypeCorrect == Spec => []TypeOK
  <1>1. IInv => TypeOK
    BY DEF IInv
  <1>2. QED BY <1>1, SpecIInv, PTL

(* No overlap of a put and a get makes the cursors miscount the unread      *)
(* bytes or lets the reader pass the writer.                                *)
THEOREM CursorsAgree == Spec => []CursorsCount
  <1>1. IInv => CursorsCount
    BY DEF IInv, CursorsCount, RingInv
  <1>2. QED BY <1>1, SpecIInv, PTL

(* A published byte stays in its cell until it is consumed.                 *)
THEOREM UnreadStays == Spec => []UnreadIntact
  <1>1. IInv => UnreadIntact
    <2> SUFFICES ASSUME IInv, ~lapped, NEW k \in 0 .. nput - ngot - 1
                 PROVE  data[Advance(read, k)] = ngot + k
      BY DEF UnreadIntact
    <2>1. RingInv
      BY DEF IInv
    <2>2. Length(write, read) \in Cursors /\ Pending \in 0 .. BUFSIZE
      <3>1. wnum \in 0 .. BUFSIZE /\ write \in Cursors /\ read \in Cursors
        BY DEF IInv, TypeOK
      <3>2. Pending \in 0 .. BUFSIZE
        BY SMT, <3>1, BufSizeAssumption DEF Pending
      <3>3. QED BY <3>1, <3>2, LengthBound
    <2>3. nput - ngot = Length(write, read)
      BY <2>1 DEF RingInv
    <2>4. k \in 0 .. Length(write, read) + Pending - 1
      BY SMT, <2>2, <2>3, BufSizeAssumption DEF Cursors
    <2>5. QED BY <2>1, <2>4 DEF RingInv
  <1>2. QED BY <1>1, SpecIInv, PTL

(* What get() copies from within the array is always the next bytes of the  *)
(* stream, whatever was published while it ran.                             *)
THEOREM CopiesInOrder == Spec => []CopiedInOrder
  <1>1. IInv => CopiedInOrder
    BY DEF IInv, CopiedInOrder, ReaderInv
  <1>2. QED BY <1>1, SpecIInv, PTL
=============================================================================
