-------------------------------- MODULE RingProofs --------------------------
(***************************************************************************)
(* Proofs about the two rings in shared memory. CBuffer, the ring of bytes, *)
(* for every size: what it holds, and that a receive ring implements        *)
(* ByteQueue. ChangeRing, the ring of changed values, from Modes on: for    *)
(* any number of points, what the limit task tells follows what is stored,  *)
(* through crashes of the server at any step.                               *)
(***************************************************************************)
EXTENDS CBuffer, ChangeRing, TLAPS

-----------------------------------------------------------------------------
(* The arithmetic of cursors.                                               *)

(* A cursor and a length of one call stay below twice the ring, so that the *)
(* remainder is at most one subtraction.                                    *)
LEMMA AdvanceCases ==
  ASSUME NEW c \in Cursors, NEW n \in 0 .. BUFSIZE
  PROVE  /\ Advance(c, n) = IF c + n < BUFSIZE THEN c + n ELSE c + n - BUFSIZE
         /\ Advance(c, n) \in Cursors
  <1>1. c + n \in 0 .. 2 * BUFSIZE - 1
    BY SMT, BufSizeAssumption DEF Cursors
  <1>2. (c + n) % BUFSIZE = IF c + n < BUFSIZE THEN c + n ELSE c + n - BUFSIZE
    BY SMT, <1>1, BufSizeAssumption DEF Cursors
  <1>3. QED BY SMT, <1>2, BufSizeAssumption DEF Advance, Cursors

LEMMA RetreatCases ==
  ASSUME NEW c \in Cursors, NEW n \in 0 .. BUFSIZE
  PROVE  /\ Retreat(c, n) = IF c < n THEN c + BUFSIZE - n ELSE c - n
         /\ Retreat(c, n) \in Cursors
  <1>1. c + BUFSIZE - n \in 0 .. 2 * BUFSIZE - 1
    BY SMT, BufSizeAssumption DEF Cursors
  <1>2. (c + BUFSIZE - n) % BUFSIZE = IF c + BUFSIZE - n < BUFSIZE
                                     THEN c + BUFSIZE - n
                                     ELSE c + BUFSIZE - n - BUFSIZE
    BY SMT, <1>1, BufSizeAssumption DEF Cursors
  <1>3. QED BY SMT, <1>2, BufSizeAssumption DEF Retreat, Cursors

LEMMA LengthBound ==
  ASSUME NEW w \in Cursors, NEW r \in Cursors
  PROVE  Length(w, r) \in Cursors
  BY SMT, BufSizeAssumption DEF Length, Cursors

LEMMA SmallMod ==
  ASSUME NEW m \in Cursors, NEW n \in 0 .. BUFSIZE
  PROVE  (m + n) % BUFSIZE = IF m + n < BUFSIZE THEN m + n ELSE m + n - BUFSIZE
  BY AdvanceCases DEF Advance

(* Writing n bytes lengthens the queue by n, whole laps excepted.           *)
LEMMA WriteLength ==
  ASSUME NEW w \in Cursors, NEW r \in Cursors, NEW n \in 0 .. BUFSIZE
  PROVE  Length(Advance(w, n), r) = (Length(w, r) + n) % BUFSIZE
  <1>1. Length(w, r) \in Cursors
    BY LengthBound
  <1>2. (Length(w, r) + n) % BUFSIZE =
          IF Length(w, r) + n < BUFSIZE THEN Length(w, r) + n
          ELSE Length(w, r) + n - BUFSIZE
    BY <1>1, SmallMod
  <1>3. Advance(w, n) = IF w + n < BUFSIZE THEN w + n ELSE w + n - BUFSIZE
    BY AdvanceCases
  <1>4. QED BY SMT, <1>2, <1>3, BufSizeAssumption DEF Length, Cursors

(* Moving the read cursor back by n lengthens it alike.                     *)
LEMMA BackLength ==
  ASSUME NEW w \in Cursors, NEW r \in Cursors, NEW n \in 0 .. BUFSIZE
  PROVE  Length(w, Retreat(r, n)) = (Length(w, r) + n) % BUFSIZE
  <1>1. Length(w, r) \in Cursors
    BY LengthBound
  <1>2. (Length(w, r) + n) % BUFSIZE =
          IF Length(w, r) + n < BUFSIZE THEN Length(w, r) + n
          ELSE Length(w, r) + n - BUFSIZE
    BY <1>1, SmallMod
  <1>3. Retreat(r, n) = IF r < n THEN r + BUFSIZE - n ELSE r - n
    BY RetreatCases
  <1>4. QED BY SMT, <1>2, <1>3, BufSizeAssumption DEF Length, Cursors

(* Reading n of the bytes that are there shortens it by n.                  *)
LEMMA ReadLength ==
  ASSUME NEW w \in Cursors, NEW r \in Cursors, NEW n \in 0 .. Length(w, r)
  PROVE  /\ Length(w, Advance(r, n)) = Length(w, r) - n
         /\ Advance(r, n) = IF r + n < BUFSIZE THEN r + n ELSE r + n - BUFSIZE
         /\ n \in Cursors
  <1>1. Length(w, r) \in Cursors
    BY LengthBound
  <1>2. n \in 0 .. BUFSIZE /\ n \in Cursors
    BY SMT, <1>1, BufSizeAssumption DEF Cursors
  <1>3. Advance(r, n) = IF r + n < BUFSIZE THEN r + n ELSE r + n - BUFSIZE
    BY <1>2, AdvanceCases
  <1>4. QED BY SMT, <1>2, <1>3, BufSizeAssumption DEF Length, Cursors

-----------------------------------------------------------------------------
(* What a put of at most BUFSIZE bytes leaves in every cell.                *)
LEMMA FilledCells ==
  ASSUME TypeOK, NEW n \in 1 .. BUFSIZE
  PROVE  /\ Filled(n) \in [Cursors -> Int]
         /\ \A c \in Cursors :
              Filled(n)[c] = IF write <= c /\ c < write + n THEN nput + (c - write)
                             ELSE IF c + BUFSIZE < write + n
                             THEN nput + (c + BUFSIZE - write)
                             ELSE data[c]
  BY SMT, BufSizeAssumption DEF TypeOK, Filled, Store, HasLen, RemainLen, Cursors

-----------------------------------------------------------------------------
Inv == TypeOK /\ HoldsLatest

LEMMA InitInv == Init => Inv
  BY SMT, BufSizeAssumption DEF Init, Inv, TypeOK, HoldsLatest, Cursors

LEMMA PutInv ==
  ASSUME Inv, NEW n \in 1 .. BUFSIZE, Put(n)
  PROVE  Inv'
  <1>1. write' \in Cursors
        /\ write' = IF write + n < BUFSIZE THEN write + n ELSE write + n - BUFSIZE
    BY AdvanceCases DEF Put, Inv, TypeOK
  <1>2. TypeOK'
    BY <1>1, FilledCells DEF Put, Inv, TypeOK
  <1>3. HoldsLatest'
    <2>1. ASSUME NEW c \in Cursors
          PROVE  data'[c] = IF c < write' THEN nput' - (write' - c)
                            ELSE nput' - (write' + BUFSIZE - c)
      <3>1. data'[c] = IF write <= c /\ c < write + n THEN nput + (c - write)
                       ELSE IF c + BUFSIZE < write + n
                       THEN nput + (c + BUFSIZE - write)
                       ELSE data[c]
        BY FilledCells DEF Put, Inv
      <3>2. data[c] = IF c < write THEN nput - (write - c)
                      ELSE nput - (write + BUFSIZE - c)
        BY DEF Inv, HoldsLatest
      <3>3. nput' = nput + n
        BY DEF Put
      <3>4. QED
        BY SMT, <1>1, <3>1, <3>2, <3>3, BufSizeAssumption DEF Inv, TypeOK, Cursors
    <2>2. QED BY <2>1 DEF HoldsLatest
  <1>4. QED BY <1>2, <1>3 DEF Inv

(* The three calls of the reader move only its cursor.                      *)
LEMMA ReaderInv ==
  ASSUME Inv, UNCHANGED <<data, write, nput>>, read' \in Cursors, taken' \in Cursors \cup {1}
  PROVE  Inv'
  BY DEF Inv, TypeOK, HoldsLatest

LEMMA GetInv ==
  ASSUME Inv, NEW n \in 1 .. BUFSIZE, Get(n)
  PROVE  Inv'
  <1> DEFINE k == IF Length(write, read) <= n THEN Length(write, read) ELSE n
  <1>1. k \in 0 .. BUFSIZE /\ k \in Cursors
    <2>1. Length(write, read) \in Cursors
      BY LengthBound DEF Inv, TypeOK
    <2>2. QED BY SMT, <2>1, BufSizeAssumption DEF Cursors
  <1>2. read' = Advance(read, k) /\ taken' = k
    BY DEF Get
  <1>3. read' \in Cursors
    BY <1>1, <1>2, AdvanceCases DEF Inv, TypeOK
  <1>4. QED BY <1>1, <1>2, <1>3, ReaderInv DEF Get

LEMMA GetByteInv ==
  ASSUME Inv, GetByte
  PROVE  Inv'
  <1>1. 1 \in 0 .. BUFSIZE
    BY SMT, BufSizeAssumption
  <1>2. read' \in Cursors
    BY <1>1, AdvanceCases DEF GetByte, Inv, TypeOK
  <1>3. QED BY <1>2, ReaderInv DEF GetByte

LEMMA BackInv ==
  ASSUME Inv, NEW n \in 1 .. BUFSIZE, Back(n)
  PROVE  Inv'
  <1>1. 0 \in Cursors /\ n \in 0 .. BUFSIZE
    BY SMT, BufSizeAssumption DEF Cursors
  <1>2. read' \in Cursors
    BY <1>1, RetreatCases DEF Back, Inv, TypeOK
  <1>3. taken' \in Cursors \cup {1}
    BY <1>1 DEF Back
  <1>4. QED BY <1>2, <1>3, ReaderInv DEF Back

LEMMA NextInv == Inv /\ [Next]_vars => Inv'
  <1> SUFFICES ASSUME Inv, [Next]_vars PROVE Inv'
    OBVIOUS
  <1>1. CASE UNCHANGED vars
    BY <1>1 DEF vars, Inv, TypeOK, HoldsLatest
  <1>2. ASSUME NEW n \in 1 .. BUFSIZE, Put(n) \/ Get(n) \/ Back(n) PROVE Inv'
    BY <1>2, PutInv, GetInv, BackInv
  <1>3. CASE GetByte
    BY <1>3, GetByteInv
  <1>4. QED BY <1>1, <1>2, <1>3 DEF Next

LEMMA SpecInv == Spec => []Inv
  <1>1. QED BY InitInv, NextInv, PTL DEF Spec

(* Every cell of the ring has its type in every reachable state.            *)
THEOREM TypeCorrect == Spec => []TypeOK
  <1>1. Inv => TypeOK
    BY DEF Inv
  <1>2. QED BY <1>1, SpecInv, PTL

(* Whatever puts lap the reader and whatever back() does, the ring holds    *)
(* the latest BUFSIZE bytes, in order and ending at the write cursor.       *)
THEOREM RingHoldsLatest == Spec => []HoldsLatest
  <1>1. Inv => HoldsLatest
    BY DEF Inv
  <1>2. QED BY <1>1, SpecInv, PTL

-----------------------------------------------------------------------------
LEMMA InitRefines == Init => Queue!Init
  BY SMT, BufSizeAssumption DEF Init, Queue!Init, Length, Nothing

LEMMA PutRefines ==
  ASSUME Inv, NEW n \in 1 .. BUFSIZE, Put(n)
  PROVE  Queue!Put(n)
  <1>1. n \in 0 .. BUFSIZE /\ write \in Cursors /\ read \in Cursors /\ nput \in Nat
    BY SMT, BufSizeAssumption DEF Inv, TypeOK
  <1>2. Length(write', read') = (Length(write, read) + n) % BUFSIZE
    BY <1>1, WriteLength DEF Put
  <1>3. Length(write, read) \in Int
    <2>1. Length(write, read) \in Cursors
      BY <1>1, LengthBound
    <2>2. QED BY SMT, <2>1, BufSizeAssumption DEF Cursors
  <1>4. nput + n - (nput - Length(write, read)) = Length(write, read) + n
    BY SMT, <1>1, <1>3
  <1>5. nput' = nput + n
    BY DEF Put
  <1>6. nput' - Length(write', read')
          = (nput + n) - ((nput + n - (nput - Length(write, read))) % BUFSIZE)
    BY Zenon, <1>2, <1>4, <1>5
  <1>7. Queue!Kept(nput + n - (nput - Length(write, read)))
          = (nput + n - (nput - Length(write, read))) % BUFSIZE
    BY DEF Queue!Kept
  <1>8. nput + n <= MaxBytes /\ UNCHANGED <<out, taken>>
    BY DEF Put
  <1>9. QED BY Zenon, <1>5, <1>6, <1>7, <1>8 DEF Queue!Put

LEMMA GetRefines ==
  ASSUME Inv, NEW n \in 1 .. BUFSIZE, Get(n)
  PROVE  Queue!Get(n)
  <1> DEFINE L == Length(write, read)
             k == IF L <= n THEN L ELSE n
  <1>1. write \in Cursors /\ read \in Cursors /\ nput \in Nat /\ L \in Cursors
    BY LengthBound DEF Inv, TypeOK
  <1>2. k \in 0 .. L
    <2> HIDE DEF L
    <2>1. QED BY SMT, <1>1, BufSizeAssumption DEF Cursors
  <1>3. /\ Length(write, Advance(read, k)) = L - k
        /\ Advance(read, k) = IF read + k < BUFSIZE THEN read + k ELSE read + k - BUFSIZE
        /\ k \in Cursors
    BY <1>1, <1>2, ReadLength
  <1>4. nput - (nput - L) = L /\ nput - (L - k) = (nput - L) + k
    <2> HIDE DEF L, k
    <2>1. QED BY SMT, <1>1, <1>3, BufSizeAssumption DEF Cursors
  <1>5. nput' - Length(write', read') = (nput - L) + k
    BY <1>3, <1>4 DEF Get
  <1>6. out' = [i \in 0 .. k - 1 |-> (nput - L) + i]
    <2>1. out' = Fetch(data, read, write, k)
      BY DEF Get
    <2>2. ASSUME NEW i \in 0 .. k - 1
          PROVE  (IF read + i < BUFSIZE THEN data[read + i]
                  ELSE IF read > write THEN data[read + i - BUFSIZE] ELSE Beyond)
                 = (nput - L) + i
      <3>1. \A c \in Cursors : data[c] = IF c < write THEN nput - (write - c)
                                        ELSE nput - (write + BUFSIZE - c)
        BY DEF Inv, HoldsLatest
      <3>0. i \in Nat /\ i < L
        <4> HIDE DEF L, k
        <4>1. QED BY SMT, <1>1, <1>2, BufSizeAssumption DEF Cursors
      <3>2. CASE read + i < BUFSIZE
        <4>1. read + i \in Cursors
          BY SMT, <1>1, <3>0, <3>2, BufSizeAssumption DEF Cursors
        <4>2. data[read + i] = IF read + i < write THEN nput - (write - (read + i))
                               ELSE nput - (write + BUFSIZE - (read + i))
          BY <3>1, <4>1
        <4>3. data[read + i] = (nput - L) + i
          BY SMT, <1>1, <3>0, <3>2, <4>2, BufSizeAssumption DEF Cursors, Length
        <4>4. QED BY <3>2, <4>3
      <3>3. CASE ~(read + i < BUFSIZE)
        <4>1. read > write /\ read + i - BUFSIZE \in Cursors /\ read + i - BUFSIZE < write
          BY SMT, <1>1, <3>0, <3>3, BufSizeAssumption DEF Cursors, Length
        <4>2. data[read + i - BUFSIZE] = nput - (write - (read + i - BUFSIZE))
          BY <3>1, <4>1
        <4>3. data[read + i - BUFSIZE] = (nput - L) + i
          BY SMT, <1>1, <3>0, <3>3, <4>1, <4>2, BufSizeAssumption DEF Cursors, Length
        <4>4. QED BY <3>3, <4>1, <4>3
      <3>4. QED BY <3>2, <3>3
    <2>3. QED BY <2>1, <2>2 DEF Fetch
  <1>7. QED BY <1>4, <1>5, <1>6 DEF Get, Queue!Get

LEMMA GetByteRefines ==
  ASSUME Inv, GetByte
  PROVE  Queue!GetByte
  <1> DEFINE L == Length(write, read)
  <1>1. write \in Cursors /\ read \in Cursors /\ nput \in Nat /\ L \in Cursors
    BY LengthBound DEF Inv, TypeOK
  <1>2. Advance(read, 1) = IF read + 1 < BUFSIZE THEN read + 1 ELSE read + 1 - BUFSIZE
    <2>1. 1 \in 0 .. BUFSIZE
      BY SMT, BufSizeAssumption
    <2>2. QED BY <1>1, <2>1, AdvanceCases
  <1>3. data[read] = IF read < write THEN nput - (write - read)
                     ELSE nput - (write + BUFSIZE - read)
    BY <1>1 DEF Inv, HoldsLatest
  <1>4. data[read] = IF nput - L = nput THEN nput - BUFSIZE ELSE nput - L
    BY SMT, <1>1, <1>3, BufSizeAssumption DEF Length, Cursors
  <1>5. nput - Length(write, Advance(read, 1))
          = IF nput - L = nput THEN nput - (BUFSIZE - 1) ELSE nput - L + 1
    BY SMT, <1>1, <1>2, BufSizeAssumption DEF Length, Cursors
  <1>6. QED BY <1>4, <1>5 DEF GetByte, Queue!GetByte

LEMMA BackRefines ==
  ASSUME Inv, BufferType = "BUFFER_RX", NEW n \in 1 .. BUFSIZE, Back(n)
  PROVE  Queue!Back(n)
  <1>1. n \in 0 .. BUFSIZE /\ write \in Cursors /\ read \in Cursors /\ nput \in Nat
    BY SMT, BufSizeAssumption DEF Inv, TypeOK
  <1>2. read' = Retreat(read, n)
    BY DEF Back
  <1>3. Length(write', read') = (Length(write, read) + n) % BUFSIZE
    BY <1>1, <1>2, BackLength DEF Back
  <1>4. Length(write, read) \in Int
    <2>1. Length(write, read) \in Cursors
      BY <1>1, LengthBound
    <2>2. QED BY SMT, <2>1, BufSizeAssumption DEF Cursors
  <1>5. nput - (nput - Length(write, read)) + n = Length(write, read) + n
    BY SMT, <1>1, <1>4
  <1>6. nput' = nput /\ n <= taken /\ out' = Nothing /\ taken' = 0
    BY DEF Back
  <1>7. nput' - Length(write', read')
          = nput - ((nput - (nput - Length(write, read)) + n) % BUFSIZE)
    BY Zenon, <1>3, <1>5, <1>6
  <1>8. Queue!Kept(nput - (nput - Length(write, read)) + n)
          = (nput - (nput - Length(write, read)) + n) % BUFSIZE
    BY DEF Queue!Kept
  <1>9. QED BY Zenon, <1>6, <1>7, <1>8 DEF Queue!Back, Nothing

(* A receive ring implements the byte queue: for every size of the ring,    *)
(* get, put and back deliver every byte once and in order, and lose bytes   *)
(* only by whole laps.                                                      *)
THEOREM RxImplementsQueue ==
  ASSUME BufferType = "BUFFER_RX"
  PROVE  Spec => ImplementsByteQueue
  <1>1. Init => Queue!Init
    BY InitRefines
  <1>2. Inv /\ [Next]_vars => [Queue!Next]_(Queue!vars)
    <2> SUFFICES ASSUME Inv, [Next]_vars PROVE [Queue!Next]_(Queue!vars)
      OBVIOUS
    <2>1. CASE UNCHANGED vars
      BY <2>1 DEF vars, Queue!vars
    <2>2. ASSUME NEW n \in 1 .. BUFSIZE, Put(n) \/ Get(n) \/ Back(n)
          PROVE  Queue!Next
      BY <2>2, PutRefines, GetRefines, BackRefines DEF Queue!Next
    <2>3. CASE GetByte
      BY <2>3, GetByteRefines DEF Queue!Next
    <2>4. QED BY <2>1, <2>2, <2>3 DEF Next
  <1>3. QED BY <1>1, <1>2, SpecInv, PTL DEF Spec, ImplementsByteQueue, Queue!Spec

-----------------------------------------------------------------------------
(* The changes of a point form a chain from what the limit task has told to *)
(* what is stored. Two readings of it: in "all", the value of each change   *)
(* is the value before the next one; in "alarms", a value that is normal    *)
(* stands for any.                                                          *)
Modes == {"all", "alarms"}
Means(m, p, t, v) == t = v \/ (m = "alarms" /\ v = Normal(p))

(* The event of a change marked as first after a start does not depend on   *)
(* what was told before.                                                    *)
Renews(m, p, c) == c.init /\ (m = "alarms" \/ c.last # Normal(p))

(* In a queue e of n changes, in front of the change l yet to be made: from *)
(* place k on, the events of point p tell its value if t has been told.     *)
NoneOf(p, e, j, k) == \A i \in j .. k - 1 : e[i].no # p
Renewed(m, p, e, n, l, k) ==
  Renews(m, p, l) \/ \E i \in k .. n - 1 : e[i].no = p /\ Renews(m, p, e[i])
Follows(m, p, t, e, n, l, k) ==
  \/ Renewed(m, p, e, n, l, k)
  \/ /\ NoneOf(p, e, k, n) => Means(m, p, t, l.last)
     /\ \A i \in k .. n - 1 :
          e[i].no = p /\ NoneOf(p, e, k, i) => Means(m, p, t, e[i].last)
Chain(m, p, t, e, n, l) ==
  /\ Follows(m, p, t, e, n, l, 0)
  /\ \A j \in 0 .. n - 1 :
       e[j].no = p => Follows(m, p, e[j].val, e, n, l, j + 1)

(* The queue of the ring: the published changes and the one about to be.    *)
Slot(k) == IF readYx + k < Size THEN readYx + k ELSE readYx + k - Size
Unread == [k \in Slots |-> ring[Slot(k)]]
Count == IF readYx <= writeYx THEN writeYx - readYx ELSE writeYx - readYx + Size
Publishing == \E w \in Tasks : At(w, "publish")
Pending == IF Publishing THEN Count + 1 ELSE Count

(* The change of a point that a call of setYx has looked at, or that the    *)
(* next call would make.                                                    *)
Filling(w, p) == At(w, "fill") /\ task[w].no = p
Noted(w) == [last |-> task[w].last, init |-> task[w].isInit]
NextChange(p) ==
  IF Filling("link", p) THEN Noted("link")
  ELSE IF Filling("state", p) THEN Noted("state")
  ELSE [last |-> dataYx[p].val, init |-> dataYx[p].init]

Holds(m) ==
  IF m = "all" THEN missed = "never" ELSE phase = "up" /\ missed # "now"
ChainInv ==
  \A m \in Modes : Holds(m) =>
    \A p \in Points : Chain(m, p, told[p], Unread, Pending, NextChange(p))

OneWriter ==
  missed # "now" => \A v, w \in Tasks : InSetYx(v) /\ InSetYx(w) => v = w
SlotInv ==
  missed # "now" => \A w \in Tasks :
    At(w, "publish") => task[w].slot = writeYx /\ NextSlot(writeYx) # readYx
IdleInv == phase # "up" => \A w \in Tasks : At(w, "idle")


-----------------------------------------------------------------------------
(* Chains, whatever the ring. What follows from a place on does not change  *)
(* when a change of another point is passed or the queue moves up by one.   *)
LEMMA NoneShift ==
  ASSUME NEW p, NEW e, NEW f, NEW n \in Nat,
         \A i \in 0 .. n - 1 : f[i] = e[i + 1],
         NEW a \in Nat, NEW b \in 0 .. n
  PROVE  NoneOf(p, f, a, b) <=> NoneOf(p, e, a + 1, b + 1)
  <1>1. ASSUME NoneOf(p, f, a, b), NEW i \in a + 1 .. b + 1 - 1 PROVE e[i].no # p
    <2>1. i - 1 \in a .. b - 1 /\ i - 1 \in 0 .. n - 1 /\ (i - 1) + 1 = i
      OBVIOUS
    <2>2. QED BY <1>1, <2>1 DEF NoneOf
  <1>2. ASSUME NoneOf(p, e, a + 1, b + 1), NEW i \in a .. b - 1 PROVE f[i].no # p
    <2>1. i + 1 \in a + 1 .. b + 1 - 1 /\ i \in 0 .. n - 1
      OBVIOUS
    <2>2. QED BY <1>2, <2>1 DEF NoneOf
  <1>3. QED BY <1>1, <1>2 DEF NoneOf

LEMMA FollowsShift ==
  ASSUME NEW m, NEW p, NEW t, NEW e, NEW f, NEW n \in Nat, NEW l,
         \A i \in 0 .. n - 1 : f[i] = e[i + 1],
         NEW k \in Nat,
         Follows(m, p, t, e, n + 1, l, k + 1)
  PROVE  Follows(m, p, t, f, n, l, k)
  <1>1. ASSUME Renewed(m, p, e, n + 1, l, k + 1) PROVE Renewed(m, p, f, n, l, k)
    <2>1. CASE Renews(m, p, l)
      BY <2>1 DEF Renewed
    <2>2. ASSUME NEW i \in k + 1 .. n + 1 - 1, e[i].no = p, Renews(m, p, e[i])
          PROVE  Renewed(m, p, f, n, l, k)
      <3>1. i - 1 \in k .. n - 1 /\ i - 1 \in 0 .. n - 1 /\ (i - 1) + 1 = i
        OBVIOUS
      <3>2. f[i - 1] = e[i]
        BY <3>1
      <3>3. QED BY <2>2, <3>1, <3>2 DEF Renewed
    <2>3. QED BY <1>1, <2>1, <2>2 DEF Renewed
  <1>2. NoneOf(p, f, k, n) <=> NoneOf(p, e, k + 1, n + 1)
    BY NoneShift, n \in 0 .. n
  <1>3. ASSUME NEW i \in k .. n - 1
        PROVE  /\ f[i] = e[i + 1] /\ i + 1 \in k + 1 .. n + 1 - 1
               /\ NoneOf(p, f, k, i) <=> NoneOf(p, e, k + 1, i + 1)
    <2>1. i \in 0 .. n - 1 /\ i \in 0 .. n /\ i + 1 \in k + 1 .. n + 1 - 1
      OBVIOUS
    <2>2. QED BY <2>1, NoneShift
  <1>4. QED BY <1>1, <1>2, <1>3 DEF Follows

(* Passing a change of another point.                                       *)
LEMMA FollowsPast ==
  ASSUME NEW m, NEW p, NEW t, NEW e, NEW n \in Nat, NEW l,
         n > 0, e[0].no # p, Follows(m, p, t, e, n, l, 0)
  PROVE  Follows(m, p, t, e, n, l, 1)
  <1>1. \A i \in 0 .. n - 1 : i = 0 \/ i \in 1 .. n - 1
    OBVIOUS
  <1>2. \A b \in Int : NoneOf(p, e, 1, b) => NoneOf(p, e, 0, b)
    <2>1. \A b \in Int : \A i \in 0 .. b - 1 : i = 0 \/ i \in 1 .. b - 1
      OBVIOUS
    <2>2. QED BY <2>1 DEF NoneOf
  <1>3. Renewed(m, p, e, n, l, 0) => Renewed(m, p, e, n, l, 1)
    BY <1>1 DEF Renewed
  <1>4. \A i \in 1 .. n - 1 : i \in 0 .. n - 1 /\ i \in Int
    OBVIOUS
  <1>5. QED BY <1>2, <1>3, <1>4 DEF Follows

(* What a value stands for, a value that it stands for stands for.          *)
LEMMA FollowsMeant ==
  ASSUME NEW m, NEW p, NEW t, NEW v, NEW e, NEW n, NEW l, NEW k,
         Means(m, p, t, v), Follows(m, p, v, e, n, l, k)
  PROVE  Follows(m, p, t, e, n, l, k)
  <1>1. \A x : Means(m, p, v, x) => Means(m, p, t, x)
    BY DEF Means
  <1>2. QED BY <1>1 DEF Follows

(* The limit task's rule of what is an event tells the value of a change.   *)
LEMMA EventTells ==
  ASSUME NEW m \in Modes, NEW c, NEW t, c.init \in BOOLEAN,
         Means(m, c.no, t, c.last) \/ Renews(m, c.no, c)
  PROVE  Means(m, c.no, IF IsEvent(c) THEN c.val ELSE t, c.val)
  BY DEF Modes, Means, Renews, IsEvent

(* The limit task takes the first change of the queue.                      *)
LEMMA ChainRead ==
  ASSUME NEW m \in Modes, NEW p, NEW t, NEW e, NEW f, NEW n \in Nat, NEW l,
         \A i \in 0 .. n - 1 : f[i] = e[i + 1],
         e[0].init \in BOOLEAN,
         Chain(m, p, t, e, n + 1, l)
  PROVE  Chain(m, p, IF IsEvent(e[0]) /\ e[0].no = p THEN e[0].val ELSE t, f, n, l)
  <1> DEFINE u == IF IsEvent(e[0]) /\ e[0].no = p THEN e[0].val ELSE t
  <1>1. 0 \in 0 .. n + 1 - 1 /\ n + 1 \in Nat /\ n + 1 > 0 /\ 0 + 1 = 1
    OBVIOUS
  <1>2. Follows(m, p, u, e, n + 1, l, 1)
    <2>1. CASE e[0].no # p
      BY <1>1, <2>1, FollowsPast DEF Chain
    <2>2. CASE e[0].no = p /\ Renewed(m, p, e, n + 1, l, 1)
      BY <2>2 DEF Follows
    <2>3. CASE e[0].no = p /\ ~Renewed(m, p, e, n + 1, l, 1)
      <3>1. Follows(m, p, e[0].val, e, n + 1, l, 1)
        BY <1>1, <2>3 DEF Chain
      <3>2. Means(m, p, t, e[0].last) \/ Renews(m, p, e[0])
        <4>1. CASE Renewed(m, p, e, n + 1, l, 0)
          <5>1. \A i \in 0 .. n + 1 - 1 : i = 0 \/ i \in 1 .. n + 1 - 1
            OBVIOUS
          <5>2. QED BY <2>3, <4>1, <5>1 DEF Renewed
        <4>2. CASE ~Renewed(m, p, e, n + 1, l, 0)
          <5>1. NoneOf(p, e, 0, 0)
            BY DEF NoneOf
          <5>2. QED BY <1>1, <2>3, <4>2, <5>1 DEF Chain, Follows
        <4>3. QED BY <4>1, <4>2
      <3>3. Means(m, p, u, e[0].val)
        BY <2>3, <3>2, EventTells
      <3>4. QED BY <3>1, <3>3, FollowsMeant
    <2>4. QED BY <2>1, <2>2, <2>3
  <1> HIDE DEF u
  <1>3. Follows(m, p, u, f, n, l, 0)
    BY <1>1, <1>2, FollowsShift
  <1>4. ASSUME NEW j \in 0 .. n - 1, f[j].no = p
        PROVE  Follows(m, p, f[j].val, f, n, l, j + 1)
    <2>1. j + 1 \in 0 .. n + 1 - 1 /\ f[j] = e[j + 1] /\ j + 1 \in Nat
      OBVIOUS
    <2>2. Follows(m, p, f[j].val, e, n + 1, l, (j + 1) + 1)
      BY <1>4, <2>1 DEF Chain
    <2>3. QED BY <2>1, <2>2, FollowsShift
  <1>5. QED BY <1>3, <1>4 DEF Chain, u

(* A change goes to the end of the queue: what follows from a place in      *)
(* front of it stays so.                                                    *)
LEMMA NoneSame ==
  ASSUME NEW p, NEW e, NEW f, NEW n \in Nat, NEW a \in Nat, NEW b \in 0 .. n,
         \A i \in 0 .. n - 1 : f[i].no = e[i].no
  PROVE  NoneOf(p, e, a, b) <=> NoneOf(p, f, a, b)
  <1>1. \A i \in a .. b - 1 : i \in 0 .. n - 1
    OBVIOUS
  <1>2. QED BY <1>1 DEF NoneOf

LEMMA FollowsOther ==
  ASSUME NEW m, NEW p, NEW t, NEW e, NEW f, NEW n \in Nat, NEW l,
         \A i \in 0 .. n - 1 : f[i] = e[i], f[n].no # p,
         NEW k \in 0 .. n, Follows(m, p, t, e, n, l, k)
  PROVE  Follows(m, p, t, f, n + 1, l, k)
  <1>1. \A i \in k .. n - 1 : i \in 0 .. n - 1 /\ i \in k .. n + 1 - 1 /\ i \in 0 .. n
    OBVIOUS
  <1>2. \A i \in k .. n + 1 - 1 : i \in k .. n - 1 \/ i = n
    OBVIOUS
  <1>3. Renewed(m, p, e, n, l, k) => Renewed(m, p, f, n + 1, l, k)
    BY <1>1 DEF Renewed
  <1>4. \A b \in 0 .. n : NoneOf(p, e, k, b) <=> NoneOf(p, f, k, b)
    <2>1. k \in Nat /\ \A i \in 0 .. n - 1 : f[i].no = e[i].no
      OBVIOUS
    <2>2. QED BY <2>1, NoneSame
  <1>5. NoneOf(p, f, k, n + 1) => NoneOf(p, e, k, n)
    BY <1>1 DEF NoneOf
  <1>6. QED BY <1>1, <1>2, <1>3, <1>4, <1>5 DEF Follows

LEMMA FollowsFilled ==
  ASSUME NEW m, NEW p, NEW t, NEW e, NEW f, NEW n \in Nat, NEW l, NEW x,
         \A i \in 0 .. n - 1 : f[i] = e[i],
         f[n].no = p, f[n].last = l.last, l.init => f[n].init,
         NEW k \in 0 .. n, Follows(m, p, t, e, n, l, k)
  PROVE  Follows(m, p, t, f, n + 1, x, k)
  <1>1. \A i \in k .. n - 1 : i \in 0 .. n - 1 /\ i \in k .. n + 1 - 1 /\ i \in 0 .. n
    OBVIOUS
  <1>2. \A i \in k .. n + 1 - 1 : i \in k .. n - 1 \/ i = n
    OBVIOUS
  <1>3. n \in k .. n + 1 - 1 /\ n \in 0 .. n
    OBVIOUS
  <1>4. Renewed(m, p, e, n, l, k) => Renewed(m, p, f, n + 1, x, k)
    BY <1>1, <1>3 DEF Renewed, Renews
  <1>5. \A b \in 0 .. n : NoneOf(p, e, k, b) <=> NoneOf(p, f, k, b)
    <2>1. k \in Nat /\ \A i \in 0 .. n - 1 : f[i].no = e[i].no
      OBVIOUS
    <2>2. QED BY <2>1, NoneSame
  <1>6. ~NoneOf(p, f, k, n + 1)
    BY <1>3 DEF NoneOf
  <1>7. CASE Renewed(m, p, e, n, l, k)
    BY <1>4, <1>7 DEF Follows
  <1>8. CASE ~Renewed(m, p, e, n, l, k)
    <2>1. NoneOf(p, f, k, n) => Means(m, p, t, f[n].last)
      BY <1>3, <1>5, <1>8 DEF Follows
    <2>2. ASSUME NEW i \in k .. n - 1, f[i].no = p, NoneOf(p, f, k, i)
          PROVE  Means(m, p, t, f[i].last)
      BY <1>1, <1>5, <1>8, <2>2 DEF Follows
    <2>3. QED BY <1>2, <1>6, <2>1, <2>2 DEF Follows
  <1>9. QED BY <1>7, <1>8

LEMMA ChainOther ==
  ASSUME NEW m, NEW p, NEW t, NEW e, NEW f, NEW n \in Nat, NEW l,
         \A i \in 0 .. n - 1 : f[i] = e[i], f[n].no # p,
         Chain(m, p, t, e, n, l)
  PROVE  Chain(m, p, t, f, n + 1, l)
  <1>1. Follows(m, p, t, f, n + 1, l, 0)
    BY FollowsOther, 0 \in 0 .. n DEF Chain
  <1>2. ASSUME NEW j \in 0 .. n + 1 - 1, f[j].no = p
        PROVE  Follows(m, p, f[j].val, f, n + 1, l, j + 1)
    <2>1. j \in 0 .. n - 1 /\ j + 1 \in 0 .. n
      BY <1>2
    <2>2. Follows(m, p, f[j].val, e, n, l, j + 1)
      BY <1>2, <2>1 DEF Chain
    <2>3. QED BY <2>1, <2>2, FollowsOther
  <1>3. QED BY <1>1, <1>2 DEF Chain

LEMMA ChainFilled ==
  ASSUME NEW m, NEW p, NEW t, NEW e, NEW f, NEW n \in Nat, NEW l, NEW x,
         \A i \in 0 .. n - 1 : f[i] = e[i],
         f[n].no = p, f[n].last = l.last, l.init => f[n].init, x.last = f[n].val,
         Chain(m, p, t, e, n, l)
  PROVE  Chain(m, p, t, f, n + 1, x)
  <1>1. Follows(m, p, t, f, n + 1, x, 0)
    BY FollowsFilled, 0 \in 0 .. n DEF Chain
  <1>2. ASSUME NEW j \in 0 .. n - 1, f[j].no = p
        PROVE  Follows(m, p, f[j].val, f, n + 1, x, j + 1)
    <2>1. j + 1 \in 0 .. n
      OBVIOUS
    <2>2. Follows(m, p, f[j].val, e, n, l, j + 1)
      BY <1>2 DEF Chain
    <2>3. QED BY <2>1, <2>2, FollowsFilled
  <1>3. Follows(m, p, f[n].val, f, n + 1, x, n + 1)
    <2>1. \A i \in n + 1 .. n + 1 - 1 : FALSE
      OBVIOUS
    <2>2. QED BY <2>1 DEF Follows, Means
  <1>4. \A j \in 0 .. n + 1 - 1 : j \in 0 .. n - 1 \/ j = n
    OBVIOUS
  <1>5. QED BY <1>1, <1>2, <1>3, <1>4 DEF Chain

(* What the next change would be matters in two things.                     *)
LEMMA ChainNext ==
  ASSUME NEW m, NEW p, NEW t, NEW e, NEW n, NEW l, NEW x,
         x.last = l.last, l.init => x.init,
         Chain(m, p, t, e, n, l)
  PROVE  Chain(m, p, t, e, n, x)
  <1>1. Renews(m, p, l) => Renews(m, p, x)
    BY DEF Renews
  <1>2. \A s, k : Follows(m, p, s, e, n, l, k) => Follows(m, p, s, e, n, x, k)
    BY <1>1 DEF Follows, Renewed
  <1>3. QED BY <1>2 DEF Chain

(* With nothing in the queue.                                               *)
LEMMA ChainEmpty ==
  ASSUME NEW m, NEW p, NEW t, NEW e, NEW l
  PROVE  Chain(m, p, t, e, 0, l) <=> Renews(m, p, l) \/ Means(m, p, t, l.last)
  <1>1. \A i \in 0 .. 0 - 1 : FALSE
    OBVIOUS
  <1>2. QED BY <1>1 DEF Chain, Follows, Renewed, NoneOf

LEMMA ChainRenewed ==
  ASSUME NEW m, NEW p, NEW t, NEW e, NEW n, NEW l, Renews(m, p, l)
  PROVE  Chain(m, p, t, e, n, l)
  BY DEF Chain, Follows, Renewed

-----------------------------------------------------------------------------
(* The arithmetic of the ring.                                              *)
LEMMA Sizes ==
  /\ Size \in Nat /\ Size >= 2 /\ 0 \in Slots /\ 0 \in Points
  /\ \A s \in Slots : /\ NextSlot(s) = IF s = Size - 1 THEN 0 ELSE s + 1
                      /\ NextSlot(s) \in Slots
  <1>1. Size \in Nat /\ Size >= 2 /\ 0 \in Slots /\ 0 \in Points
    BY RingAssumption, SMT DEF Size, Slots, Points
  <1>2. ASSUME NEW s \in Slots
        PROVE  NextSlot(s) = IF s = Size - 1 THEN 0 ELSE s + 1
    BY <1>1, SMT DEF Slots, NextSlot
  <1>3. QED BY <1>1, <1>2, SMT DEF Slots

LEMMA Places ==
  ASSUME RingTypeOK
  PROVE  /\ \A k \in Slots : Slot(k) \in Slots
         /\ Count \in Slots /\ (Count = 0 <=> readYx = writeYx)
         /\ Slot(Count) = writeYx
         /\ \A k \in 0 .. Count - 1 : Slot(k) # writeYx
         /\ NextSlot(writeYx) # readYx => Count + 1 \in Slots
  <1>1. Size \in Nat /\ readYx \in 0 .. Size - 1 /\ writeYx \in 0 .. Size - 1
    BY Sizes DEF RingTypeOK, Slots
  <1>2. NextSlot(writeYx) = IF writeYx = Size - 1 THEN 0 ELSE writeYx + 1
    BY Sizes DEF RingTypeOK
  <1> HIDE DEF Size
  <1>3. QED BY <1>1, <1>2, SMT DEF Slot, Count, Slots

LEMMA PendingBound ==
  ASSUME RingTypeOK
  PROVE  Pending \in Nat
  <1>1. Count \in Nat
    BY Places, Sizes, SMT DEF Slots
  <1>2. QED BY <1>1 DEF Pending

(* The reader moves on: every change moves up by one place.                 *)
LEMMA ReadPlaces ==
  ASSUME RingTypeOK, readYx # writeYx, readYx' = NextSlot(readYx),
         UNCHANGED writeYx, ring' = [ring EXCEPT ![readYx] = Blank],
         Publishing' <=> Publishing
  PROVE  /\ Unread[0] = ring[readYx]
         /\ Pending' \in Nat /\ Pending = Pending' + 1
         /\ \A i \in 0 .. Pending' - 1 : Unread'[i] = Unread[i + 1]
  <1>1. Size \in Nat /\ Size >= 2 /\ readYx \in 0 .. Size - 1 /\ writeYx \in 0 .. Size - 1
    BY Sizes DEF RingTypeOK, Slots
  <1>2. readYx' = IF readYx = Size - 1 THEN 0 ELSE readYx + 1
    BY Sizes DEF RingTypeOK
  <1> HIDE DEF Size
  <1>3. Count' \in 0 .. Size - 2 /\ Count = Count' + 1
    BY <1>1, <1>2, SMT DEF Count
  <1>4. Pending' \in Nat /\ Pending' <= Size - 1 /\ Pending = Pending' + 1
    <2>1. CASE Publishing
      <3>1. Pending' = Count' + 1 /\ Pending = Count + 1
        BY <2>1 DEF Pending
      <3>2. \A x \in 0 .. Size - 2 : x + 1 \in Nat /\ x + 1 <= Size - 1
        BY <1>1, SMT
      <3>3. QED BY <1>3, <3>1, <3>2, Zenon
    <2>2. CASE ~Publishing
      <3>1. Pending' = Count' /\ Pending = Count
        BY <2>2 DEF Pending
      <3>2. QED BY <1>1, <1>3, <3>1, SMT
    <2>3. QED BY <2>1, <2>2
  <1>5. ASSUME NEW i \in 0 .. Size - 2
        PROVE  /\ i \in Slots /\ i + 1 \in Slots
               /\ Slot(i)' = Slot(i + 1) /\ Slot(i + 1) \in Slots /\ Slot(i + 1) # readYx
    BY <1>1, <1>2, SMT DEF Slot, Slots
  <1>6. ASSUME NEW i \in 0 .. Size - 2 PROVE Unread'[i] = Unread[i + 1]
    <2>1. Unread'[i] = ring'[Slot(i)'] /\ Unread[i + 1] = ring[Slot(i + 1)]
      BY <1>5 DEF Unread, Slots
    <2>2. ring'[Slot(i + 1)] = ring[Slot(i + 1)]
      BY <1>5 DEF RingTypeOK
    <2>3. QED BY <1>5, <2>1, <2>2
  <1>7. 0 \in Slots /\ Slot(0) = readYx
    BY <1>1, SMT DEF Slot, Slots
  <1>8. Unread[0] = ring[readYx]
    BY <1>7 DEF Unread
  <1>9. \A i \in 0 .. Pending' - 1 : i \in 0 .. Size - 2
    <2>1. \A x \in Nat : x <= Size - 1 => \A i \in 0 .. x - 1 : i \in 0 .. Size - 2
      BY <1>1, SMT
    <2>2. QED BY <1>4, <2>1, Zenon
  <1>10. QED BY <1>4, <1>6, <1>8, <1>9

(* A change is put into the slot behind the queue.                          *)
LEMMA FillPlaces ==
  ASSUME RingTypeOK, NextSlot(writeYx) # readYx, UNCHANGED <<readYx, writeYx>>,
         ~Publishing, Publishing', NEW c, ring' = [ring EXCEPT ![writeYx] = c]
  PROVE  /\ Pending \in Nat /\ Pending' = Pending + 1
         /\ Unread'[Pending] = c
         /\ \A i \in 0 .. Pending - 1 : Unread'[i] = Unread[i]
  <1>1. Count' = Count /\ Slots' = Slots /\ \A k : Slot(k)' = Slot(k)
    BY DEF Count, Slots, Slot, Size
  <1>2. Pending = Count /\ Pending' = Count + 1 /\ Count \in Slots /\ Count \in Nat
    BY <1>1, Places, Sizes, SMT DEF Pending, Slots
  <1>3. \A k \in Slots : Unread'[k] = ring'[Slot(k)] /\ Unread[k] = ring[Slot(k)]
    BY <1>1 DEF Unread
  <1>4. \A k \in 0 .. Count - 1 : k \in Slots
    BY <1>2, Sizes, SMT DEF Slots
  <1>5. QED BY <1>2, <1>3, <1>4, Places DEF RingTypeOK

(* The cursor passes it.                                                    *)
LEMMA PublishPlaces ==
  ASSUME RingTypeOK, NextSlot(writeYx) # readYx, writeYx' = NextSlot(writeYx),
         UNCHANGED <<readYx, ring>>, Publishing, ~Publishing'
  PROVE  Unread' = Unread /\ Pending' = Pending
  <1>1. Size \in Nat /\ readYx \in 0 .. Size - 1 /\ writeYx \in 0 .. Size - 1
    BY Sizes DEF RingTypeOK, Slots
  <1>2. writeYx' = IF writeYx = Size - 1 THEN 0 ELSE writeYx + 1
    BY Sizes DEF RingTypeOK
  <1> HIDE DEF Size
  <1>3. Count' = Count + 1
    BY <1>1, <1>2, SMT DEF Count
  <1>4. QED BY <1>3 DEF Pending, Unread, Slot

LEMMA SamePlaces ==
  ASSUME UNCHANGED <<readYx, writeYx, ring>>, Publishing' <=> Publishing
  PROVE  Unread' = Unread /\ Pending' = Pending
  <1>1. Count' = Count /\ \A k : Slot(k)' = Slot(k)
    BY DEF Count, Slot
  <1>2. QED BY <1>1 DEF Pending, Unread

-----------------------------------------------------------------------------
(* Types.                                                                   *)
Changes == [no : Points, last : Values, val : Values, init : BOOLEAN]
Stored == [val : Values, iv : BOOLEAN, init : BOOLEAN, now : BOOLEAN]
Calls == [pc : {"idle", "copied", "fill", "publish"}, no : Points, val : Values,
          last : Values, isInit : BOOLEAN, slot : Slots]

LEMMA NormalValue == \A p : Normal(p) \in Values
  BY DEF Normal, Values

LEMMA LookTypes ==
  ASSUME RingTypeOK, NEW w \in Tasks, NEW p \in Points, NEW v \in Values,
         NEW iv \in BOOLEAN, Look(w, p, v, iv)
  PROVE  /\ task' \in [Tasks -> Calls] /\ dataYx' \in [Points -> Stored]
         /\ missed' \in {"never", "before", "now"}
  <1>1. [pc |-> "fill", no |-> p, val |-> 0, last |-> dataYx[p].val,
         isInit |-> dataYx[p].init, slot |-> 0] \in Calls
    BY Sizes DEF RingTypeOK, Calls, Values
  <1>2. [val |-> v, iv |-> iv, init |-> FALSE, now |-> TRUE] \in Stored
    BY DEF Stored
  <1>3. task' \in [Tasks -> Calls]
    BY <1>1 DEF RingTypeOK, Look, Calls
  <1>4. dataYx' \in [Points -> Stored]
    BY <1>2 DEF RingTypeOK, Look, Stored
  <1>5. missed' \in {"never", "before", "now"}
    BY DEF RingTypeOK, Look, Overlap
  <1>6. QED BY <1>3, <1>4, <1>5

LEMMA NextPointType ==
  ASSUME RingTypeOK, NextPoint
  PROVE  poll' \in Points
  BY RingAssumption, SMT DEF RingTypeOK, NextPoint, Points

LEMMA RingTypeInit == RingInit => RingTypeOK
  <1> SUFFICES ASSUME RingInit PROVE RingTypeOK
    OBVIOUS
  <1>1. Idle \in Calls /\ Blank \in Changes
    BY Sizes DEF Idle, Calls, Blank, Changes, Values
  <1>2. \A p \in Points : told[p] \in Values
    BY NormalValue DEF RingInit
  <1>3. told \in [Points -> Values]
    BY <1>2 DEF RingInit
  <1>4. QED
    BY <1>1, <1>3, Sizes, RingAssumption DEF RingInit, RingTypeOK, Calls, Changes, Values, Phases

LEMMA RingTypeStep == RingTypeOK /\ [RingNext]_ringVars => RingTypeOK'
  <1> SUFFICES ASSUME RingTypeOK, [RingNext]_ringVars PROVE RingTypeOK'
    OBVIOUS
  <1> USE DEF shared, server, scd, history
  <1>1. CASE LinkSkip
    BY <1>1, NextPointType DEF LinkSkip, RingTypeOK
  <1>2. CASE LinkLook
    <2>1. Engineered(poll, device[poll]) \in Values
      BY DEF Engineered, RingTypeOK, Values
    <2>2. /\ task' \in [Tasks -> Calls] /\ dataYx' \in [Points -> Stored]
          /\ missed' \in {"never", "before", "now"}
      BY <1>2, <2>1, LookTypes DEF LinkLook, RingTypeOK, Tasks
    <2>3. QED BY <1>2, <2>2, NextPointType DEF LinkLook, RingTypeOK, Calls, Stored
  <1>3. CASE StateLook
    <2>1. /\ task' \in [Tasks -> Calls] /\ dataYx' \in [Points -> Stored]
          /\ missed' \in {"never", "before", "now"}
      BY <1>3, LookTypes DEF StateLook, RingTypeOK, Tasks
    <2>2. QED BY <1>3, <2>1 DEF StateLook, RingTypeOK, Calls, Stored
  <1>4. ASSUME NEW p \in Points, StateCopy(p) PROVE RingTypeOK'
    <2>1. Idle \in Calls
      BY Sizes DEF Idle, Calls, Values
    <2>2. [Idle EXCEPT !.pc = "copied", !.no = p, !.val = dataYx[p].val] \in Calls
      BY <2>1 DEF RingTypeOK, Calls
    <2>3. task' \in [Tasks -> Calls]
      BY <1>4, <2>2 DEF StateCopy, RingTypeOK, Calls
    <2>4. marks' \in 0 .. MaxMarks
      BY <1>4, RingAssumption, SMT DEF StateCopy, RingTypeOK
    <2>5. QED BY <1>4, <2>3, <2>4 DEF StateCopy, RingTypeOK, Calls
  <1>5. ASSUME NEW p \in Points, Change(p) PROVE RingTypeOK'
    <2>1. device' \in [Points -> Values]
      BY <1>5 DEF Change, RingTypeOK, Values
    <2>2. changes' \in 0 .. MaxChanges
      BY <1>5, RingAssumption, SMT DEF Change, RingTypeOK
    <2>3. QED BY <1>5, <2>1, <2>2 DEF Change, RingTypeOK
  <1>6. ASSUME NEW w \in Tasks, Fill(w) PROVE RingTypeOK'
    <2> DEFINE c == [no |-> task[w].no, last |-> task[w].last,
                     val |-> dataYx[task[w].no].val,
                     init |-> dataYx[task[w].no].init \/ task[w].isInit]
    <2>1. c \in Changes
      <3>1. /\ task[w].no \in Points /\ task[w].last \in Values
            /\ task[w].isInit \in BOOLEAN
        BY DEF RingTypeOK
      <3>2. \A p \in Points : dataYx[p].val \in Values /\ dataYx[p].init \in BOOLEAN
        BY DEF RingTypeOK
      <3>3. QED BY <3>1, <3>2 DEF Changes
    <2>2. ring' \in [Slots -> Changes]
      <3>1. ring \in [Slots -> Changes]
        BY DEF RingTypeOK, Changes
      <3>2. ring' = [ring EXCEPT ![writeYx] = c]
        BY <1>6, Zenon DEF Fill
      <3> HIDE DEF c
      <3>3. QED BY <2>1, <3>1, <3>2
    <2>3. task' = [task EXCEPT ![w] = [task[w] EXCEPT !.pc = "publish", !.slot = writeYx]]
      BY <1>6 DEF Fill, RingTypeOK
    <2>4. task' \in [Tasks -> Calls]
      <3>1. task \in [Tasks -> Calls] /\ writeYx \in Slots
        BY DEF RingTypeOK, Calls
      <3>2. [task[w] EXCEPT !.pc = "publish", !.slot = writeYx] \in Calls
        BY <3>1 DEF Calls
      <3>3. QED BY <2>3, <3>1, <3>2
    <2>5. QED BY <1>6, <2>2, <2>4 DEF Fill, RingTypeOK, Calls, Changes
  <1>7. ASSUME NEW w \in Tasks, Publish(w) PROVE RingTypeOK'
    <2>1. writeYx' \in Slots
      BY <1>7, Sizes DEF Publish, RingTypeOK
    <2>2. Idle \in Calls
      BY Sizes DEF Idle, Calls, Values
    <2>3. task' \in [Tasks -> Calls]
      BY <1>7, <2>2 DEF Publish, RingTypeOK, Calls
    <2>4. QED BY <1>7, <2>1, <2>3 DEF Publish, RingTypeOK, Calls
  <1>8. CASE YxEvent
    <2>1. readYx' \in Slots
      BY <1>8, Sizes DEF YxEvent, RingTypeOK
    <2>2. Blank \in Changes
      BY Sizes DEF Blank, Changes, Values
    <2>3. ring' \in [Slots -> Changes]
      BY <1>8, <2>2 DEF YxEvent, RingTypeOK, Changes
    <2>4. told' \in [Points -> Values]
      BY <1>8 DEF YxEvent, Taken, RingTypeOK
    <2>5. missed' \in {"never", "before", "now"}
      BY <1>8 DEF YxEvent, RingTypeOK
    <2>6. QED BY <1>8, <2>1, <2>3, <2>4, <2>5 DEF YxEvent, RingTypeOK, Changes
  <1>9. CASE NextSecond
    <2>1. \A d \in Stored : [d EXCEPT !.now = FALSE] \in Stored
      BY DEF Stored
    <2>2. dataYx' \in [Points -> Stored]
      BY <1>9, <2>1, Zenon DEF NextSecond, RingTypeOK, Stored
    <2>3. QED BY <1>9, <2>2 DEF NextSecond, RingTypeOK, Stored
  <1>10. CASE Crash
    <2>1. Idle \in Calls /\ 0 \in Points
      BY Sizes DEF Idle, Calls, Values
    <2>2. task' \in [Tasks -> Calls]
      BY <1>10, <2>1 DEF Crash
    <2>3. crashes' \in 0 .. MaxCrashes
      BY <1>10, RingAssumption, SMT DEF Crash, RingTypeOK
    <2>4. QED BY <1>10, <2>1, <2>2, <2>3 DEF Crash, RingTypeOK, Calls, Phases
  <1>11. CASE Restart
    <2>1. CASE ResetAllDataInfo
      <3>1. \A d \in Stored : Mark(d) \in Stored
        BY DEF Mark, Stored
      <3>2. dataYx' \in [Points -> Stored]
        BY <2>1, <3>1, Zenon DEF ResetAllDataInfo, RingTypeOK, Stored
      <3>3. QED BY <2>1, <3>2 DEF ResetAllDataInfo, StepTo, RingTypeOK, Stored, Phases
    <2>2. CASE ~ResetAllDataInfo
      BY <1>11, <2>2 DEF Restart, ResetAllDataPara, ResetAllCommInfo, LoadRoute, LoadYx,
         StepTo, RingTypeOK, Phases
    <2>3. QED BY <2>1, <2>2
  <1>12. CASE UNCHANGED ringVars
    BY <1>12 DEF ringVars, RingTypeOK
  <1>13. QED
    BY <1>1, <1>2, <1>3, <1>4, <1>5, <1>6, <1>7, <1>8, <1>9, <1>10, <1>11, <1>12
    DEF RingNext, SetYx

-----------------------------------------------------------------------------
(* The invariant, step by step.                                             *)
RestInv == OneWriter /\ SlotInv /\ IdleInv /\ ChainInv

LEMMA RingInvInit == RingInit => RestInv
  <1> SUFFICES ASSUME RingInit PROVE RestInv
    OBVIOUS
  <1>1. \A w \in Tasks : task[w].pc = "idle"
    BY DEF RingInit, Idle
  <1>2. OneWriter /\ SlotInv /\ IdleInv
    BY <1>1 DEF OneWriter, SlotInv, IdleInv, InSetYx, At
  <1>3. Pending = 0
    <2>1. ~Publishing /\ readYx = 0 /\ writeYx = 0
      BY <1>1 DEF Publishing, At, RingInit
    <2>2. QED BY <2>1 DEF Pending, Count
  <1>4. ASSUME NEW p \in Points PROVE NextChange(p) = [last |-> 0, init |-> TRUE]
    BY <1>1 DEF NextChange, Filling, At, Tasks, RingInit
  <1>5. ASSUME NEW m \in Modes, NEW p \in Points
        PROVE  Chain(m, p, told[p], Unread, 0, NextChange(p))
    <2>1. told[p] = Normal(p)
      BY DEF RingInit
    <2>2. Renews(m, p, NextChange(p)) \/ Means(m, p, told[p], NextChange(p).last)
      BY <1>4, <2>1 DEF Renews, Means
    <2>3. QED BY <2>2, ChainEmpty
  <1>6. ChainInv
    BY <1>3, <1>5 DEF ChainInv
  <1>7. QED BY <1>2, <1>6 DEF RestInv

LEMMA LookStep ==
  ASSUME RingTypeOK, RestInv, NEW w \in Tasks, NEW p \in Points, NEW v, NEW iv,
         Look(w, p, v, iv), ~InSetYx(w), phase = "up",
         UNCHANGED <<ring, writeYx, readYx, told, phase>>
  PROVE  RestInv'
  <1>1. \A x \in Tasks : x # w => task'[x] = task[x]
    BY DEF Look, RingTypeOK
  <1>2. /\ task'[w].pc = "fill" /\ task'[w].no = p
        /\ task'[w].last = dataYx[p].val /\ task'[w].isInit = dataYx[p].init
    BY DEF Look, RingTypeOK
  <1>3. \A q \in Points : q # p => dataYx'[q] = dataYx[q]
    BY DEF Look, RingTypeOK
  <1>4. ASSUME missed' # "now"
        PROVE  missed' = missed /\ \A x \in Tasks : ~InSetYx(x)
    BY <1>4 DEF Look, Overlap
  <1>5. OneWriter'
    BY <1>1, <1>4 DEF OneWriter, InSetYx
  <1>6. SlotInv'
    BY <1>1, <1>2, <1>4 DEF SlotInv, InSetYx, At
  <1>7. IdleInv'
    BY DEF IdleInv
  <1>8. ASSUME NEW m \in Modes, Holds(m)', NEW q \in Points
        PROVE  (Chain(m, q, told[q], Unread, Pending, NextChange(q)))'
    <2>1. missed' # "now" /\ Holds(m)
      BY <1>4, <1>8 DEF Holds
    <2>2. \A x \in Tasks : ~InSetYx(x)
      BY <1>4, <2>1
    <2>3. Publishing' <=> Publishing
      BY <1>1, <1>2, <2>2 DEF Publishing, InSetYx, At
    <2>4. Unread' = Unread /\ Pending' = Pending
      BY <2>3, SamePlaces
    <2>5. NextChange(q) = [last |-> dataYx[q].val, init |-> dataYx[q].init]
      BY <2>2 DEF NextChange, Filling, InSetYx, At, Tasks
    <2>6. NextChange(q)' = NextChange(q)
      <3>1. CASE q = p
        BY <1>1, <1>2, <2>2, <2>5, <3>1 DEF NextChange, Filling, Noted, InSetYx, At, Tasks
      <3>2. CASE q # p
        BY <1>1, <1>2, <1>3, <2>2, <2>5, <3>2 DEF NextChange, Filling, Noted, InSetYx, At, Tasks
      <3>3. QED BY <3>1, <3>2
    <2>7. Chain(m, q, told[q], Unread, Pending, NextChange(q))
      BY <2>1 DEF RestInv, ChainInv
    <2>8. QED BY <2>4, <2>6, <2>7
  <1>9. ChainInv'
    BY <1>8 DEF ChainInv
  <1>10. QED BY <1>5, <1>6, <1>7, <1>9 DEF RestInv

(* What is one's own call, when no changes were lost.                       *)
LEMMA OnlyCaller ==
  ASSUME OneWriter, missed # "now", NEW w \in Tasks, InSetYx(w)
  PROVE  \A x \in Tasks : x # w => ~InSetYx(x)
  BY DEF OneWriter

LEMMA FillStep ==
  ASSUME RingTypeOK, RestInv, NEW w \in Tasks, Fill(w)
  PROVE  RestInv'
  <1> DEFINE p == task[w].no
             c == [no |-> p, last |-> task[w].last, val |-> dataYx[p].val,
                   init |-> dataYx[p].init \/ task[w].isInit]
  <1>1. /\ At(w, "fill") /\ InSetYx(w) /\ NextSlot(writeYx) # readYx
        /\ UNCHANGED <<dataYx, writeYx, phase, missed, readYx, told>>
        /\ ring' = [ring EXCEPT ![writeYx] = c]
    BY DEF Fill, At, InSetYx, scd
  <1>2. \A x \in Tasks : x # w => task'[x] = task[x]
    BY DEF Fill, RingTypeOK
  <1>3. task'[w].pc = "publish" /\ task'[w].slot = writeYx
    BY DEF Fill, RingTypeOK
  <1>4. p \in Points
    BY DEF RingTypeOK
  <1>5. OneWriter'
    BY <1>1, <1>2, <1>3 DEF RestInv, OneWriter, InSetYx
  <1>6. SlotInv'
    BY <1>1, <1>2, <1>3 DEF RestInv, SlotInv, At, NextSlot
  <1>7. IdleInv'
    BY <1>1 DEF RestInv, IdleInv, At
  <1> HIDE DEF p
  <1>8. ASSUME NEW m \in Modes, Holds(m)', NEW q \in Points
        PROVE  (Chain(m, q, told[q], Unread, Pending, NextChange(q)))'
    <2>1. missed # "now" /\ Holds(m)
      BY <1>1, <1>8 DEF Holds
    <2>2. \A x \in Tasks : x # w => ~InSetYx(x)
      BY <1>1, <2>1, OnlyCaller DEF RestInv
    <2>3. ~Publishing /\ Publishing'
      BY <1>1, <1>3, <2>2 DEF Publishing, InSetYx, At
    <2> HIDE DEF c
    <2>4. /\ Pending \in Nat /\ Pending' = Pending + 1 /\ Unread'[Pending] = c
          /\ \A i \in 0 .. Pending - 1 : Unread'[i] = Unread[i]
      BY <1>1, <2>3, FillPlaces
    <2>5. /\ c.no = p /\ c.last = task[w].last /\ c.val = dataYx[p].val
          /\ c.init = (dataYx[p].init \/ task[w].isInit)
      BY DEF c
    <2>6. Chain(m, q, told[q], Unread, Pending, NextChange(q))
      BY <2>1 DEF RestInv, ChainInv
    <2>7. NextChange(q)' = IF q = p THEN [last |-> dataYx[q].val, init |-> dataYx[q].init]
                           ELSE NextChange(q)
      BY <1>1, <1>2, <1>3, <2>2 DEF NextChange, Filling, InSetYx, At, Tasks, p
    <2>8. CASE q = p
      <3>1. NextChange(q) = [last |-> task[w].last, init |-> task[w].isInit]
        BY <1>1, <2>2, <2>8 DEF NextChange, Filling, Noted, InSetYx, At, Tasks, p
      <3>2. /\ c.last = NextChange(q).last /\ (NextChange(q).init => c.init)
            /\ NextChange(q)'.last = c.val
        <4>1. c.last = NextChange(q).last /\ NextChange(q)'.last = c.val
          BY <2>5, <2>7, <2>8, <3>1
        <4>2. NextChange(q).init = task[w].isInit
          BY <3>1
        <4>3. QED BY <2>5, <4>1, <4>2, Zenon
      <3>3. Chain(m, q, told[q], Unread', Pending + 1, NextChange(q)')
        BY <2>4, <2>5, <2>6, <2>8, <3>2, ChainFilled
      <3>4. QED BY <1>1, <2>4, <3>3
    <2>9. CASE q # p
      <3>1. Chain(m, q, told[q], Unread', Pending + 1, NextChange(q))
        BY <2>4, <2>5, <2>6, <2>9, ChainOther
      <3>2. QED BY <1>1, <2>4, <2>7, <2>9, <3>1
    <2>10. QED BY <2>8, <2>9
  <1>9. ChainInv'
    BY <1>8 DEF ChainInv
  <1>10. QED BY <1>5, <1>6, <1>7, <1>9 DEF RestInv

LEMMA PublishStep ==
  ASSUME RingTypeOK, RestInv, NEW w \in Tasks, Publish(w)
  PROVE  RestInv'
  <1>1. /\ At(w, "publish") /\ InSetYx(w)
        /\ UNCHANGED <<dataYx, ring, phase, missed, readYx, told>>
        /\ writeYx' = NextSlot(task[w].slot)
    BY DEF Publish, At, InSetYx, scd
  <1>2. /\ \A x \in Tasks : x # w => task'[x] = task[x]
        /\ task'[w].pc = "idle"
    BY DEF Publish, Idle, RingTypeOK
  <1>3. ASSUME missed # "now"
        PROVE  /\ \A x \in Tasks : x # w => ~InSetYx(x)
               /\ writeYx' = NextSlot(writeYx) /\ NextSlot(writeYx) # readYx
    <2>1. \A x \in Tasks : x # w => ~InSetYx(x)
      BY <1>1, <1>3, OnlyCaller DEF RestInv
    <2>2. QED BY <1>1, <1>3, <2>1 DEF RestInv, SlotInv
  <1>4. OneWriter'
    BY <1>1, <1>2 DEF RestInv, OneWriter, InSetYx
  <1>5. SlotInv'
    BY <1>1, <1>2, <1>3 DEF SlotInv, InSetYx, At
  <1>6. IdleInv'
    BY <1>1, <1>2 DEF RestInv, IdleInv, At
  <1>7. ASSUME NEW m \in Modes, Holds(m)', NEW q \in Points
        PROVE  (Chain(m, q, told[q], Unread, Pending, NextChange(q)))'
    <2>1. missed # "now" /\ Holds(m)
      BY <1>1, <1>7 DEF Holds
    <2>2. \A x \in Tasks : x # w => ~InSetYx(x)
      BY <1>3, <2>1
    <2>3. Publishing /\ ~Publishing'
      BY <1>1, <1>2, <2>2 DEF Publishing, InSetYx, At
    <2>4. Unread' = Unread /\ Pending' = Pending
      BY <1>1, <1>3, <2>1, <2>3, PublishPlaces
    <2>5. NextChange(q)' = NextChange(q)
      BY <1>1, <1>2, <2>2 DEF NextChange, Filling, Noted, InSetYx, At, Tasks
    <2>6. Chain(m, q, told[q], Unread, Pending, NextChange(q))
      BY <2>1 DEF RestInv, ChainInv
    <2>7. QED BY <1>1, <2>4, <2>5, <2>6
  <1>8. ChainInv'
    BY <1>7 DEF ChainInv
  <1>9. QED BY <1>4, <1>5, <1>6, <1>8 DEF RestInv

LEMMA ReadStep ==
  ASSUME RingTypeOK, RestInv, YxEvent
  PROVE  RestInv'
  <1>1. /\ readYx # writeYx /\ readYx' = NextSlot(readYx)
        /\ ring' = [ring EXCEPT ![readYx] = Blank]
        /\ UNCHANGED <<dataYx, writeYx, task, phase>>
        /\ missed' = IF PointsValid THEN missed ELSE "now"
    BY DEF YxEvent, server
  <1>2. told' = IF PointsValid /\ IsEvent(ring[readYx])
                THEN [told EXCEPT ![ring[readYx].no] = ring[readYx].val] ELSE told
    BY DEF YxEvent, Taken
  <1>3. OneWriter'
    BY <1>1 DEF RestInv, OneWriter, InSetYx
  <1>4. SlotInv'
    <2>1. NextSlot(readYx) # NextSlot(writeYx)
      <3>1. \A s \in Slots : NextSlot(s) = IF s = Size - 1 THEN 0 ELSE s + 1
        BY Sizes
      <3>2. QED BY <1>1, <3>1, Sizes, SMT DEF RingTypeOK, Slots
    <2>2. NextSlot(writeYx)' = NextSlot(writeYx)
      BY <1>1 DEF NextSlot
    <2>3. QED BY <1>1, <2>1, <2>2 DEF RestInv, SlotInv, At
  <1>5. IdleInv'
    BY <1>1 DEF RestInv, IdleInv, At
  <1>6. ASSUME NEW m \in Modes, Holds(m)', NEW q \in Points
        PROVE  (Chain(m, q, told[q], Unread, Pending, NextChange(q)))'
    <2>1. PointsValid /\ missed' = missed /\ Holds(m)
      BY <1>1, <1>6 DEF Holds
    <2>2. Publishing' <=> Publishing
      BY <1>1 DEF Publishing, At
    <2>3. /\ Unread[0] = ring[readYx] /\ Pending' \in Nat /\ Pending = Pending' + 1
          /\ \A i \in 0 .. Pending' - 1 : Unread'[i] = Unread[i + 1]
      BY <1>1, <2>2, ReadPlaces
    <2>4. ring[readYx].init \in BOOLEAN /\ ring[readYx].no \in Points
      BY DEF RingTypeOK
    <2>5. told'[q] = IF IsEvent(Unread[0]) /\ Unread[0].no = q THEN Unread[0].val ELSE told[q]
      BY <1>2, <2>1, <2>3, <2>4 DEF RingTypeOK
    <2>6. Chain(m, q, told[q], Unread, Pending' + 1, NextChange(q))
      BY <2>1, <2>3 DEF RestInv, ChainInv
    <2>7. Unread[0].init \in BOOLEAN
      BY <2>3, <2>4
    <2>8. Chain(m, q, told'[q], Unread', Pending', NextChange(q))
      BY <2>3, <2>5, <2>6, <2>7, ChainRead
    <2>9. NextChange(q)' = NextChange(q)
      BY <1>1 DEF NextChange, Filling, Noted, At
    <2>10. QED BY <2>8, <2>9
  <1>7. ChainInv'
    BY <1>6 DEF ChainInv
  <1>8. QED BY <1>3, <1>4, <1>5, <1>7 DEF RestInv

(* Steps that leave ring, cursors and calls alone.                          *)
LEMMA QuietStep ==
  ASSUME RingTypeOK, RestInv, UNCHANGED <<ring, writeYx, readYx, told, task, phase, missed>>,
         \A p \in Points : dataYx'[p].val = dataYx[p].val /\ dataYx'[p].init = dataYx[p].init
  PROVE  RestInv'
  <1>1. OneWriter' /\ SlotInv' /\ IdleInv'
    BY DEF RestInv, OneWriter, SlotInv, IdleInv, InSetYx, At, NextSlot
  <1>2. Unread' = Unread /\ Pending' = Pending
    BY SamePlaces DEF Publishing, At
  <1>3. \A q \in Points : NextChange(q)' = NextChange(q)
    BY DEF NextChange, Filling, Noted, At
  <1>4. ChainInv'
    BY <1>2, <1>3 DEF RestInv, ChainInv, Holds
  <1>5. QED BY <1>1, <1>4 DEF RestInv

LEMMA CopyStep ==
  ASSUME RingTypeOK, RestInv, NEW p \in Points, StateCopy(p)
  PROVE  RestInv'
  <1>1. /\ At("state", "idle") /\ phase = "up"
        /\ UNCHANGED <<ring, writeYx, readYx, told, dataYx, phase, missed>>
    BY DEF StateCopy, shared, scd
  <1>2. task'["state"].pc = "copied" /\ task'["link"] = task["link"]
    BY DEF StateCopy, RingTypeOK, Tasks, Idle
  <1>3. \A x \in Tasks, y \in {"fill", "publish"} :
          (At(x, y) <=> At(x, y)') /\ (At(x, y) => task'[x] = task[x])
    BY <1>1, <1>2 DEF At, Tasks
  <1>4. OneWriter' /\ SlotInv' /\ IdleInv'
    BY <1>1, <1>3 DEF RestInv, OneWriter, SlotInv, IdleInv, InSetYx, At, NextSlot
  <1>5. Unread' = Unread /\ Pending' = Pending
    BY <1>1, <1>3, SamePlaces DEF Publishing
  <1>6. \A q \in Points : NextChange(q)' = NextChange(q)
    BY <1>1, <1>2 DEF NextChange, Filling, Noted, At
  <1>7. ChainInv'
    BY <1>1, <1>5, <1>6 DEF RestInv, ChainInv, Holds
  <1>8. QED BY <1>4, <1>7 DEF RestInv

LEMMA CrashStep ==
  ASSUME RingTypeOK, RestInv, Crash
  PROVE  RestInv'
  <1>1. /\ phase' = "down" /\ UNCHANGED <<dataYx, ring, writeYx, readYx, told>>
        /\ missed' = IF missed = "never" /\ \E w \in Tasks : InSetYx(w)
                     THEN "before" ELSE missed
    BY DEF Crash, shared, scd
  <1>2. \A w \in Tasks : task'[w].pc = "idle"
    BY DEF Crash, Idle
  <1>3. OneWriter' /\ SlotInv' /\ IdleInv'
    BY <1>2 DEF OneWriter, SlotInv, IdleInv, InSetYx, At
  <1>4. ASSUME NEW m \in Modes, Holds(m)', NEW q \in Points
        PROVE  (Chain(m, q, told[q], Unread, Pending, NextChange(q)))'
    <2>1. Holds(m) /\ \A w \in Tasks : ~InSetYx(w)
      BY <1>1, <1>4 DEF Holds
    <2>2. ~Publishing /\ ~Publishing'
      BY <1>2, <2>1 DEF Publishing, InSetYx, At
    <2>3. Unread' = Unread /\ Pending' = Pending
      BY <1>1, <2>2, SamePlaces
    <2>4. NextChange(q)' = NextChange(q)
      BY <1>1, <1>2, <2>1 DEF NextChange, Filling, InSetYx, At, Tasks
    <2>5. Chain(m, q, told[q], Unread, Pending, NextChange(q))
      BY <2>1 DEF RestInv, ChainInv
    <2>6. QED BY <1>1, <2>3, <2>4, <2>5
  <1>5. ChainInv'
    BY <1>4 DEF ChainInv
  <1>6. QED BY <1>3, <1>5 DEF RestInv

LEMMA RestartStep ==
  ASSUME RingTypeOK, RestInv, Restart
  PROVE  RestInv'
  <1>1. /\ phase # "up" /\ UNCHANGED <<ring, writeYx, readYx, told, task>>
        /\ phase' = "up" => ResetAllDataInfo
        /\ ~ResetAllDataInfo => UNCHANGED <<dataYx, missed>>
    BY DEF Restart, ResetAllDataPara, ResetAllCommInfo, LoadRoute, LoadYx,
       ResetAllDataInfo, StepTo, scd
  <1>2. \A w \in Tasks : task[w].pc = "idle" /\ task'[w].pc = "idle"
    BY <1>1 DEF RestInv, IdleInv, At
  <1>3. OneWriter' /\ SlotInv' /\ IdleInv'
    BY <1>2 DEF OneWriter, SlotInv, IdleInv, InSetYx, At
  <1>4. Unread' = Unread /\ Pending' = Pending
    BY <1>1, SamePlaces DEF Publishing, At
  <1>5. \A q \in Points :
          /\ NextChange(q) = [last |-> dataYx[q].val, init |-> dataYx[q].init]
          /\ NextChange(q)' = [last |-> dataYx'[q].val, init |-> dataYx'[q].init]
    BY <1>2 DEF NextChange, Filling, At, Tasks
  <1>6. ASSUME NEW m \in Modes, Holds(m)', NEW q \in Points
        PROVE  (Chain(m, q, told[q], Unread, Pending, NextChange(q)))'
    <2>1. CASE ResetAllDataInfo
      <3>1. dataYx'[q].val = dataYx[q].val /\ dataYx'[q].init
        <4>1. dataYx'[q] = Mark(dataYx[q])
          BY <2>1 DEF ResetAllDataInfo
        <4>2. dataYx[q] \in [val : Values, iv : BOOLEAN, init : BOOLEAN, now : BOOLEAN]
          BY DEF RingTypeOK
        <4>3. QED BY <4>1, <4>2 DEF Mark
      <3>2. CASE m = "alarms"
        BY <1>5, <3>1, <3>2, ChainRenewed DEF Renews
      <3>3. CASE m = "all"
        <4>1. Holds(m)
          BY <1>6, <2>1, <3>3 DEF Holds, ResetAllDataInfo
        <4>2. Chain(m, q, told[q], Unread, Pending, NextChange(q))
          BY <4>1 DEF RestInv, ChainInv
        <4>3. /\ NextChange(q)'.last = NextChange(q).last
              /\ NextChange(q).init => NextChange(q)'.init
          BY <1>5, <3>1
        <4>4. Chain(m, q, told[q], Unread, Pending, NextChange(q)')
          BY <4>2, <4>3, ChainNext
        <4>5. QED BY <1>1, <1>4, <4>4
      <3>4. QED BY <3>2, <3>3 DEF Modes
    <2>2. CASE ~ResetAllDataInfo
      <3>1. Holds(m)
        BY <1>1, <1>6, <2>2 DEF Holds
      <3>2. Chain(m, q, told[q], Unread, Pending, NextChange(q))
        BY <3>1 DEF RestInv, ChainInv
      <3>3. NextChange(q)' = NextChange(q)
        BY <1>1, <1>5, <2>2
      <3>4. QED BY <1>1, <1>4, <3>2, <3>3
    <2>3. QED BY <2>1, <2>2
  <1>7. ChainInv'
    BY <1>6 DEF ChainInv
  <1>8. QED BY <1>3, <1>7 DEF RestInv

LEMMA RestStep == RingTypeOK /\ RestInv /\ [RingNext]_ringVars => RestInv'
  <1> SUFFICES ASSUME RingTypeOK, RestInv, [RingNext]_ringVars PROVE RestInv'
    OBVIOUS
  <1> USE DEF shared, server, scd, history
  <1>1. CASE LinkSkip
    BY <1>1, QuietStep DEF LinkSkip
  <1>2. CASE LinkLook
    <2>1. ~InSetYx("link") /\ "link" \in Tasks /\ poll \in Points
      BY <1>2 DEF LinkLook, At, InSetYx, Tasks, RingTypeOK
    <2>2. QED BY <1>2, <2>1, LookStep DEF LinkLook
  <1>3. CASE StateLook
    <2>1. ~InSetYx("state") /\ "state" \in Tasks /\ task["state"].no \in Points
      BY <1>3 DEF StateLook, At, InSetYx, Tasks, RingTypeOK
    <2>2. phase = "up"
      BY <1>3, <2>1 DEF StateLook, RestInv, IdleInv, At
    <2>3. QED BY <1>3, <2>1, <2>2, LookStep DEF StateLook
  <1>4. ASSUME NEW p \in Points, StateCopy(p) PROVE RestInv'
    BY <1>4, CopyStep
  <1>5. ASSUME NEW p \in Points, Change(p) PROVE RestInv'
    BY <1>5, QuietStep DEF Change
  <1>6. ASSUME NEW w \in Tasks, SetYx(w) PROVE RestInv'
    BY <1>6, FillStep, PublishStep DEF SetYx
  <1>7. CASE YxEvent
    BY <1>7, ReadStep
  <1>8. CASE NextSecond
    <2>1. \A p \in Points : dataYx'[p].val = dataYx[p].val /\ dataYx'[p].init = dataYx[p].init
      BY <1>8 DEF NextSecond, RingTypeOK
    <2>2. QED BY <1>8, <2>1, QuietStep DEF NextSecond
  <1>9. CASE Crash
    BY <1>9, CrashStep
  <1>10. CASE Restart
    BY <1>10, RestartStep
  <1>11. CASE UNCHANGED ringVars
    BY <1>11, QuietStep DEF ringVars
  <1>12. QED
    BY <1>1, <1>2, <1>3, <1>4, <1>5, <1>6, <1>7, <1>8, <1>9, <1>10, <1>11 DEF RingNext

LEMMA SpecRingIInv == RingSpec => [](RingTypeOK /\ RestInv)
  BY RingTypeInit, RingTypeStep, RingInvInit, RestStep, PTL DEF RingSpec

(* With nothing on its way, the chain of a point is its told value and the  *)
(* stored one.                                                              *)
LEMMA SettledChain ==
  ASSUME RingTypeOK, RestInv, Settled, NEW m \in Modes, Holds(m), NEW p \in Points
  PROVE  \/ Means(m, p, told[p], dataYx[p].val)
         \/ dataYx[p].init
  <1>1. \A w \in Tasks : ~InSetYx(w)
    BY DEF Settled
  <1>2. ~Publishing
    BY <1>1 DEF Publishing, InSetYx, At
  <1>3. Pending = 0
    BY <1>2, Places DEF Pending, Settled
  <1>4. NextChange(p) = [last |-> dataYx[p].val, init |-> dataYx[p].init]
    BY <1>1 DEF NextChange, Filling, InSetYx, At, Tasks
  <1>5. Chain(m, p, told[p], Unread, 0, NextChange(p))
    BY <1>3 DEF RestInv, ChainInv
  <1>6. Renews(m, p, NextChange(p)) \/ Means(m, p, told[p], NextChange(p).last)
    BY <1>5, ChainEmpty
  <1>7. QED BY <1>4, <1>6 DEF Renews

(* The values, the ring, both cursors and the calls hold values of their    *)
(* types whatever the tasks, the reader and crashes do.                     *)
THEOREM RingTypeCorrect == RingSpec => []RingTypeOK
  BY SpecRingIInv, PTL

(* For any number of points, changes, marks and crashes: the events of the  *)
(* limit task tell the values that are stored, unless a change was lost in  *)
(* one of the ways the history counts.                                      *)
THEOREM EventsTellStored == RingSpec => []EventsFollow
  <1>1. RingTypeOK /\ RestInv => EventsFollow
    <2> SUFFICES ASSUME RingTypeOK, RestInv, Settled, missed = "never", NEW p \in Points
                 PROVE  dataYx[p].init \/ told[p] = dataYx[p].val
      BY DEF EventsFollow
    <2>1. Holds("all") /\ "all" \in Modes
      BY DEF Holds, Modes
    <2>2. Means("all", p, told[p], dataYx[p].val) \/ dataYx[p].init
      BY <2>1, SettledChain
    <2>3. QED BY <2>2 DEF Means
  <1>2. QED BY <1>1, SpecRingIInv, PTL

(* And after a restart of the server every point that is not normal is      *)
(* told, whatever was lost before it.                                       *)
THEOREM RestartAnnounces == RingSpec => []AlarmsAnnounced
  <1>1. RingTypeOK /\ RestInv => AlarmsAnnounced
    <2> SUFFICES ASSUME RingTypeOK, RestInv, Settled, phase = "up", missed # "now",
                        NEW p \in Points
                 PROVE  \/ dataYx[p].init \/ dataYx[p].val = Normal(p)
                        \/ told[p] = dataYx[p].val
      BY DEF AlarmsAnnounced
    <2>1. Holds("alarms") /\ "alarms" \in Modes
      BY DEF Holds, Modes
    <2>2. Means("alarms", p, told[p], dataYx[p].val) \/ dataYx[p].init
      BY <2>1, SettledChain
    <2>3. QED BY <2>2 DEF Means
  <1>2. QED BY <1>1, SpecRingIInv, PTL
=============================================================================
