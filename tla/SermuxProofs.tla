---------------------------- MODULE SermuxProofs ----------------------------
(***************************************************************************)
(* Proofs about RingBuffer, for buffers of any size and any elements, and  *)
(* about Sermux, for any virtual UARTs and characters: the count is exact, *)
(* and until a buffer is overrun it is a queue between the interrupt and   *)
(* the program.                                                            *)
(*                                                                         *)
(* Sermux writes to the buffers what its interrupt takes off the line: the *)
(* types of its state (MuxTypes) say that these are bytes, whatever the    *)
(* ends repeat and whenever they stop.                                     *)
(*                                                                         *)
(* The order of the characters is proved for each direction of the line    *)
(* (Direction): there is a reading of the line, one state of a decoder for *)
(* every place on it, that finds the characters under way in their order   *)
(* and at their services (Coded); or the receiver, restarted, does not     *)
(* know the service of the one character under way (Unplaced), or has      *)
(* asked for it (Asked), and then one request is on the line back.         *)
(*                                                                         *)
(* The two directions are in order (Ordered) until the protocol cannot     *)
(* repair a restart (trouble); a send of the board counts as one step of   *)
(* the line even though the interrupt may come between its stores (PcTx,   *)
(* PcOut, PcLast).  Without a restart there is nothing to repair (Calm).   *)
(***************************************************************************)
EXTENDS Sermux, SequenceTheorems, TLAPS

(* What buf_read relies on between its steps.                              *)
ReaderSound ==
  /\ reader.step \in {"load", "store"} => desc[reader.b].count > 0
  /\ reader.step = "store" => reader.n = desc[reader.b].count

(* The inductive invariant.                                                *)
RingInv == RingTypeOK /\ CountIsExact /\ HoldsQueue /\ ReadsOldest /\ ReaderSound

-----------------------------------------------------------------------------
(* The arithmetic of the ring.                                             *)
LEMMA PlaceType ==
  ASSUME NEW p \in Index, NEW i \in 0..SIZE
  PROVE  Place(p, i) \in Index
  BY RingAssumption DEF Place, Index

LEMMA PlaceZero ==
  ASSUME NEW p \in Index
  PROVE  Place(p, 0) = p
  BY RingAssumption DEF Place, Index

LEMMA IncrType ==
  ASSUME NEW p \in Index
  PROVE  Incr(p) \in Index
  BY RingAssumption DEF Incr, Index

(* One step from the place i is the place i + 1.                           *)
LEMMA IncrPlace ==
  ASSUME NEW p \in Index, NEW i \in 0..SIZE - 1
  PROVE  Incr(Place(p, i)) = Place(p, i + 1)
  BY RingAssumption DEF Incr, Place, Index

(* Counted from one step on, a place has one less.                         *)
LEMMA PlaceIncr ==
  ASSUME NEW p \in Index, NEW i \in 0..SIZE - 1
  PROVE  Place(Incr(p), i) = Place(p, i + 1)
  BY RingAssumption DEF Incr, Place, Index

(* The places of a ring are distinct.                                      *)
LEMMA PlaceInjective ==
  ASSUME NEW p \in Index, NEW i \in 0..SIZE - 1, NEW j \in 0..SIZE - 1, i # j
  PROVE  Place(p, i) # Place(p, j)
  BY RingAssumption DEF Place, Index

LEMMA OldestType ==
  ASSUME RingTypeOK, NEW b \in Bufs
  PROVE  Oldest(b) \in Index
  BY IncrType DEF RingTypeOK, Desc, Oldest

-----------------------------------------------------------------------------
LEMMA InitRing == RingInit => RingInv
  <1> SUFFICES ASSUME RingInit PROVE RingInv
    OBVIOUS
  <1> USE RingAssumption DEF RingInit, EmptyDesc, NoReader
  <1>1. RingTypeOK
    BY DEF RingTypeOK, Desc, Index
  <1>2. CountIsExact
    BY DEF CountIsExact
  <1>3. HoldsQueue
    BY DEF HoldsQueue, Place, Oldest
  <1>4. ReadsOldest /\ ReaderSound
    BY DEF ReadsOldest, ReaderSound
  <1> QED BY <1>1, <1>2, <1>3, <1>4 DEF RingInv

(* The interrupt writes.                                                   *)
LEMMA WriteKeeps ==
  ASSUME RingInv, InterruptsEnabled, UNCHANGED reader,
         NEW b \in Bufs, NEW x \in Data, BufWrite(b, x)
  PROVE  RingInv'
  <1> USE DEF RingInv
  <1>1. CASE desc[b].count > SIZE
    <2>1. UNCHANGED ringVars
      BY <1>1 DEF BufWrite, ringVars
    <2> QED BY <2>1 DEF ringVars, RingTypeOK, CountIsExact, HoldsQueue, Oldest,
                         ReadsOldest, ReaderSound
  <1>2. CASE ~ (desc[b].count > SIZE)
    <2> DEFINE d == desc[b]
               q == queue[b]
    <2>1. /\ desc' = [desc EXCEPT ![b] = Stored(d, x)]
          /\ queue' = [queue EXCEPT ![b] = Append(q, x)]
          /\ overrun' = [overrun EXCEPT ![b] = overrun[b] \/ d.count >= SIZE]
          /\ reader' = reader
      BY <1>2 DEF BufWrite
    <2>2. d \in Desc /\ d.count \in 0..SIZE /\ q \in Seq(Data) /\ SIZE \in Nat
      BY <1>2, RingAssumption DEF RingTypeOK, Desc
    <2>3. Stored(d, x) = [wptr |-> Incr(d.wptr), rptr |-> d.rptr, count |-> d.count + 1,
                          buf |-> [d.buf EXCEPT ![d.wptr] = x]]
      BY DEF Stored
    <2>4. Stored(d, x) \in Desc
      BY <2>2, <2>3, IncrType DEF Desc
    <2>5. /\ desc' \in [Bufs -> Desc]
          /\ desc'[b] = Stored(d, x)
          /\ \A c \in Bufs : c # b => desc'[c] = desc[c]
      BY <2>1, <2>4 DEF RingTypeOK
    <2>6. /\ queue' \in [Bufs -> Seq(Data)]
          /\ queue'[b] = Append(q, x)
          /\ \A c \in Bufs : c # b => queue'[c] = queue[c]
      BY <2>1, <2>2 DEF RingTypeOK
    <2>7. /\ overrun' \in [Bufs -> BOOLEAN]
          /\ overrun'[b] = (overrun[b] \/ d.count >= SIZE)
          /\ \A c \in Bufs : c # b => overrun'[c] = overrun[c]
      BY <2>1, Zenon DEF RingTypeOK
    <2>8. RingTypeOK'
      BY <2>1, <2>5, <2>6, <2>7 DEF RingTypeOK
    <2>9. CountIsExact'
      <3> SUFFICES ASSUME NEW c \in Bufs PROVE desc'[c].count = Len(queue'[c])
        BY DEF CountIsExact
      <3>1. CASE c = b
        BY <3>1, <2>2, <2>3, <2>5, <2>6 DEF CountIsExact
      <3>2. CASE c # b
        BY <3>2, <2>5, <2>6 DEF CountIsExact
      <3> QED BY <3>1, <3>2
    <2>10. \A c \in Bufs : Oldest(c)' = Oldest(c)
      <3> SUFFICES ASSUME NEW c \in Bufs PROVE desc'[c].rptr = desc[c].rptr
        BY <2>1 DEF Oldest
      <3> QED BY <2>3, <2>5
    <2>11. HoldsQueue'
      <3> SUFFICES ASSUME NEW c \in Bufs, ~ overrun'[c]
                   PROVE  /\ Len(queue'[c]) <= SIZE
                          /\ desc'[c].wptr = Place(Oldest(c), Len(queue'[c]))
                          /\ \A i \in 1..Len(queue'[c]) :
                               desc'[c].buf[Place(Oldest(c), i - 1)] = queue'[c][i]
        BY <2>10 DEF HoldsQueue
      <3>1. CASE c # b
        <4>1. desc'[c] = desc[c] /\ queue'[c] = queue[c] /\ ~ overrun[c]
          BY <3>1, <2>5, <2>6, <2>7
        <4> QED BY <4>1 DEF HoldsQueue
      <3>2. CASE c = b
        <4> DEFINE o == Oldest(b)
        <4>1. ~ overrun[b] /\ d.count < SIZE
          BY <3>2, <2>2, <2>7
        <4>2. d.count = Len(q) /\ Len(q) \in 0..SIZE - 1 /\ o \in Index
          BY <4>1, <2>2, OldestType DEF CountIsExact
        <4>3. /\ d.wptr = Place(o, Len(q))
              /\ \A i \in 1..Len(q) : d.buf[Place(o, i - 1)] = q[i]
          BY <4>1 DEF HoldsQueue
        <4>4. /\ Len(Append(q, x)) = Len(q) + 1
              /\ Append(q, x)[Len(q) + 1] = x
              /\ \A i \in 1..Len(q) : Append(q, x)[i] = q[i]
          BY <2>2
        <4>5. Incr(d.wptr) = Place(o, Len(q) + 1)
          BY <4>2, <4>3, IncrPlace
        <4>6. ASSUME NEW i \in 1..Len(q) + 1
              PROVE  desc'[b].buf[Place(o, i - 1)] = Append(q, x)[i]
          <5>1. desc'[b].buf = [d.buf EXCEPT ![d.wptr] = x] /\ d.buf \in [Index -> Data \cup {None}]
            BY <2>2, <2>3, <2>5 DEF Desc
          <5>2. i - 1 \in 0..SIZE - 1 /\ Place(o, i - 1) \in Index /\ d.wptr \in Index
            <6>1. i - 1 \in 0..SIZE - 1 /\ i - 1 \in 0..SIZE
              BY <4>2, <2>2
            <6> QED BY <6>1, <4>2, <2>2, PlaceType DEF Desc
          <5>3. CASE i = Len(q) + 1
            BY <5>1, <5>2, <5>3, <4>2, <4>3, <4>4
          <5>4. CASE i # Len(q) + 1
            <6>1. i \in 1..Len(q) /\ i - 1 # Len(q)
              BY <5>4, <4>2
            <6>2. Place(o, i - 1) # d.wptr
              BY <6>1, <5>2, <4>2, <4>3, PlaceInjective
            <6> QED BY <6>1, <6>2, <5>1, <5>2, <4>3, <4>4
          <5> QED BY <5>3, <5>4
        <4> QED BY <3>2, <4>2, <4>4, <4>5, <4>6, <2>2, <2>3, <2>5, <2>6
      <3> QED BY <3>1, <3>2
    <2>12. ReadsOldest'
      <3> SUFFICES ASSUME reader.step \in {"load", "store"}, ~ overrun'[reader.b]
                   PROVE  /\ queue'[reader.b] # <<>>
                          /\ reader.data = Head(queue'[reader.b])
        BY <2>1 DEF ReadsOldest
      <3>1. reader.b \in Bufs
        BY RingAssumption DEF RingTypeOK
      <3>2. queue[reader.b] # <<>> /\ reader.data = Head(queue[reader.b])
        BY <3>1, <2>7 DEF ReadsOldest
      <3>3. CASE reader.b = b
        <4>1. Append(q, x) # <<>> /\ Head(Append(q, x)) = Head(q)
          BY <3>2, <3>3, <2>2
        <4> QED BY <4>1, <3>2, <3>3, <2>6
      <3>4. CASE reader.b # b
        BY <3>1, <3>2, <3>4, <2>6
      <3> QED BY <3>3, <3>4
    <2>13. ReaderSound'
      <3>1. reader.step # "idle" => reader.b \in Bufs
        BY RingAssumption DEF RingTypeOK
      <3>2. reader.step # "store"
        BY DEF InterruptsEnabled
      <3> QED BY <2>1, <2>2, <2>3, <2>5, <3>1, <3>2 DEF ReaderSound
    <2> QED BY <2>8, <2>9, <2>11, <2>12, <2>13
  <1> QED BY <1>1, <1>2

(* The program copies the oldest element.                                  *)
LEMMA CopyKeeps ==
  ASSUME RingInv, NEW b \in Bufs, ReadCopy(b)
  PROVE  RingInv'
  <1> USE DEF RingInv
  <1> DEFINE d == desc[b]
             q == queue[b]
  <1>1. /\ reader' = [b |-> b, step |-> "load", n |-> 0, data |-> d.buf[d.rptr]]
        /\ UNCHANGED <<desc, queue, overrun>>
        /\ reader.step = "idle" /\ d.count # 0
    BY DEF ReadCopy
  <1>2. d \in Desc /\ q \in Seq(Data) /\ d.count = Len(q)
    BY DEF RingTypeOK, CountIsExact
  <1>3. RingTypeOK'
    BY <1>1, <1>2, RingAssumption DEF RingTypeOK, Desc
  <1>4. CountIsExact'
    BY <1>1 DEF CountIsExact
  <1>5. \A c \in Bufs : Oldest(c)' = Oldest(c) /\ Oldest(c) = desc[c].rptr
    BY <1>1 DEF Oldest
  <1>6. HoldsQueue'
    BY <1>1, <1>5 DEF HoldsQueue
  <1>7. ReadsOldest'
    <2> SUFFICES ASSUME ~ overrun[b] PROVE q # <<>> /\ d.buf[d.rptr] = Head(q)
      BY <1>1 DEF ReadsOldest
    <2>1. 1 \in 1..Len(q) /\ q # <<>> /\ Head(q) = q[1]
      BY <1>1, <1>2
    <2>2. d.buf[Place(d.rptr, 1 - 1)] = q[1]
      BY <2>1, <1>5 DEF HoldsQueue
    <2>3. Place(d.rptr, 1 - 1) = d.rptr
      BY <1>2, PlaceZero DEF Desc
    <2> QED BY <2>1, <2>2, <2>3
  <1>8. ReaderSound'
    BY <1>1, <1>2 DEF ReaderSound, Desc
  <1> QED BY <1>3, <1>4, <1>6, <1>7, <1>8

LEMMA LoadKeeps ==
  ASSUME RingInv, ReadLoad
  PROVE  RingInv'
  <1> USE DEF RingInv
  <1>1. /\ reader' = [reader EXCEPT !.step = "store", !.n = desc[reader.b].count]
        /\ UNCHANGED <<desc, queue, overrun>>
        /\ reader.step = "load"
    BY DEF ReadLoad
  <1>2. reader.b \in Bufs /\ desc[reader.b].count \in 0..SIZE + 1
    BY <1>1, RingAssumption DEF RingTypeOK, Desc
  <1>3. /\ reader'.step = "store" /\ reader'.b = reader.b /\ reader'.data = reader.data
        /\ reader'.n = desc[reader.b].count
    BY <1>1 DEF RingTypeOK
  <1>4. RingTypeOK'
    BY <1>1, <1>2, <1>3 DEF RingTypeOK
  <1>5. CountIsExact'
    BY <1>1 DEF CountIsExact
  <1>6. \A c \in Bufs : Oldest(c)' = Oldest(c)
    BY <1>1, <1>3 DEF Oldest
  <1>7. HoldsQueue'
    BY <1>1, <1>6 DEF HoldsQueue
  <1>8. ReadsOldest' /\ ReaderSound'
    BY <1>1, <1>2, <1>3 DEF ReadsOldest, ReaderSound
  <1> QED BY <1>4, <1>5, <1>7, <1>8

(* The element leaves the buffer: the oldest one is now one place on.      *)
LEMMA StoreKeeps ==
  ASSUME RingInv, ReadStore
  PROVE  RingInv'
  <1> USE DEF RingInv
  <1> DEFINE b == reader.b
             d == desc[b]
             q == queue[b]
  <1>1. /\ reader' = [reader EXCEPT !.step = "incr"]
        /\ desc' = [desc EXCEPT ![b].count = reader.n - 1]
        /\ queue' = [queue EXCEPT ![b] = Tail(q)]
        /\ overrun' = overrun
        /\ reader.step = "store"
    BY DEF ReadStore
  <1>2. /\ b \in Bufs /\ d \in Desc /\ q \in Seq(Data)
        /\ reader.n = d.count /\ d.count = Len(q) /\ Len(q) > 0 /\ SIZE \in Nat
    BY <1>1, RingAssumption DEF RingTypeOK, CountIsExact, ReaderSound
  <1>3. /\ Tail(q) \in Seq(Data) /\ Len(Tail(q)) = Len(q) - 1
        /\ \A i \in 1..Len(Tail(q)) : Tail(q)[i] = q[i + 1]
    BY <1>2
  <1>4. /\ reader'.step = "incr" /\ reader'.b = b /\ reader' \in
             [b : Bufs \cup {None}, step : {"idle", "load", "store", "incr"},
              data : Data \cup {None}, n : 0..SIZE + 1]
    BY <1>1 DEF RingTypeOK
  <1>5. /\ desc'[b] = [wptr |-> d.wptr, rptr |-> d.rptr, count |-> d.count - 1, buf |-> d.buf]
        /\ \A c \in Bufs : c # b => desc'[c] = desc[c]
    BY <1>1, <1>2 DEF RingTypeOK, Desc
  <1>6. desc' \in [Bufs -> Desc]
    <2>1. desc'[b] \in Desc
      BY <1>2, <1>5 DEF Desc
    <2>2. desc' = [desc EXCEPT ![b] = desc'[b]]
      BY <1>1, <1>2, Zenon DEF RingTypeOK
    <2> QED BY <2>1, <2>2 DEF RingTypeOK
  <1>7. /\ queue' \in [Bufs -> Seq(Data)] /\ queue'[b] = Tail(q)
        /\ \A c \in Bufs : c # b => queue'[c] = queue[c]
    BY <1>1, <1>2, <1>3 DEF RingTypeOK
  <1>8. RingTypeOK'
    <2>1. overrun' \in [Bufs -> BOOLEAN]
      BY <1>1 DEF RingTypeOK
    <2>2. reader'.b = None <=> reader'.step = "idle"
      BY <1>2, <1>4, RingAssumption
    <2> QED BY <1>4, <1>6, <1>7, <2>1, <2>2 DEF RingTypeOK
  <1>9. CountIsExact'
    <2> SUFFICES ASSUME NEW c \in Bufs PROVE desc'[c].count = Len(queue'[c])
      BY DEF CountIsExact
    <2>1. CASE c = b
      BY <2>1, <1>2, <1>3, <1>5, <1>7
    <2>2. CASE c # b
      BY <2>2, <1>5, <1>7 DEF CountIsExact
    <2> QED BY <2>1, <2>2
  <1>10. HoldsQueue'
    <2> SUFFICES ASSUME NEW c \in Bufs, ~ overrun[c]
                 PROVE  /\ Len(queue'[c]) <= SIZE
                        /\ desc'[c].wptr = Place(Oldest(c)', Len(queue'[c]))
                        /\ \A i \in 1..Len(queue'[c]) :
                             desc'[c].buf[Place(Oldest(c)', i - 1)] = queue'[c][i]
      BY <1>1 DEF HoldsQueue
    <2>1. CASE c # b
      <3>1. Oldest(c)' = Oldest(c)
        BY <2>1, <1>1, <1>4, <1>5 DEF Oldest
      <3> QED BY <2>1, <3>1, <1>5, <1>7 DEF HoldsQueue
    <2>2. CASE c = b
      <3> DEFINE o == d.rptr
      <3>1. Oldest(c) = o /\ Oldest(c)' = Incr(o) /\ o \in Index
        BY <2>2, <1>1, <1>2, <1>4, <1>5 DEF Oldest, Desc
      <3>2. /\ Len(q) <= SIZE /\ d.wptr = Place(o, Len(q))
            /\ \A i \in 1..Len(q) : d.buf[Place(o, i - 1)] = q[i]
        BY <2>2, <3>1, <1>2 DEF HoldsQueue
      <3>3. Place(Incr(o), Len(q) - 1) = Place(o, Len(q))
        <4>1. Len(q) - 1 \in 0..SIZE - 1 /\ (Len(q) - 1) + 1 = Len(q)
          BY <1>2, <3>2
        <4>2. Place(Incr(o), Len(q) - 1) = Place(o, (Len(q) - 1) + 1)
          BY <4>1, <3>1, PlaceIncr
        <4> QED BY <4>1, <4>2
      <3>4. ASSUME NEW i \in 1..Len(q) - 1
            PROVE  d.buf[Place(Incr(o), i - 1)] = Tail(q)[i]
        <4>1. i - 1 \in 0..SIZE - 1 /\ i + 1 \in 1..Len(q) /\ (i - 1) + 1 = i /\ (i + 1) - 1 = i
          BY <1>2, <3>2
        <4>2. Place(Incr(o), i - 1) = Place(o, (i - 1) + 1)
          BY <4>1, <3>1, PlaceIncr
        <4>3. d.buf[Place(o, (i + 1) - 1)] = q[i + 1]
          BY <4>1, <3>2
        <4> QED BY <4>1, <4>2, <4>3, <1>3
      <3>5. /\ desc'[b].wptr = d.wptr /\ desc'[b].buf = d.buf
            /\ queue'[b] = Tail(q) /\ Len(queue'[b]) = Len(q) - 1 /\ Len(q) \in Nat
        BY <1>2, <1>3, <1>5, <1>7
      <3> QED BY <2>2, <3>1, <3>2, <3>3, <3>4, <3>5, <1>2
    <2> QED BY <2>1, <2>2
  <1>11. ReadsOldest' /\ ReaderSound'
    BY <1>4 DEF ReadsOldest, ReaderSound
  <1> QED BY <1>8, <1>9, <1>10, <1>11

LEMMA IncrKeeps ==
  ASSUME RingInv, ReadIncr
  PROVE  RingInv'
  <1> USE DEF RingInv
  <1> DEFINE b == reader.b
             d == desc[b]
  <1>1. /\ reader' = NoReader
        /\ desc' = [desc EXCEPT ![b].rptr = Incr(d.rptr)]
        /\ UNCHANGED <<queue, overrun>>
        /\ reader.step = "incr"
    BY DEF ReadIncr
  <1>2. b \in Bufs /\ d \in Desc
    BY <1>1, RingAssumption DEF RingTypeOK
  <1>3. /\ desc'[b] = [wptr |-> d.wptr, rptr |-> Incr(d.rptr), count |-> d.count, buf |-> d.buf]
        /\ \A c \in Bufs : c # b => desc'[c] = desc[c]
    BY <1>1, <1>2 DEF RingTypeOK, Desc
  <1>4. desc' \in [Bufs -> Desc]
    <2>1. desc'[b] \in Desc
      BY <1>2, <1>3, IncrType DEF Desc
    <2>2. desc' = [desc EXCEPT ![b] = desc'[b]]
      BY <1>1, <1>2, Zenon DEF RingTypeOK
    <2> QED BY <2>1, <2>2 DEF RingTypeOK
  <1>5. RingTypeOK'
    BY <1>1, <1>4, RingAssumption DEF RingTypeOK, NoReader
  <1>6. CountIsExact'
    BY <1>1, <1>2, <1>3 DEF CountIsExact
  <1>7. \A c \in Bufs : Oldest(c)' = Oldest(c)
    BY <1>1, <1>2, <1>3 DEF Oldest, NoReader
  <1>8. HoldsQueue'
    BY <1>1, <1>2, <1>3, <1>7 DEF HoldsQueue
  <1>9. ReadsOldest' /\ ReaderSound'
    BY <1>1 DEF ReadsOldest, ReaderSound, NoReader
  <1> QED BY <1>5, <1>6, <1>8, <1>9

-----------------------------------------------------------------------------
(* The invariant holds of every behaviour of a buffer.                     *)
LEMMA RingInvariant == RingSpec => []RingInv
  <1>1. RingInv /\ [RingNext]_ringVars => RingInv'
    <2> SUFFICES ASSUME RingInv, [RingNext]_ringVars PROVE RingInv'
      OBVIOUS
    <2>1. CASE UNCHANGED ringVars
      BY <2>1 DEF RingInv, ringVars, RingTypeOK, CountIsExact, HoldsQueue, Oldest,
                  ReadsOldest, ReaderSound
    <2>2. CASE InterruptsEnabled /\ (\E b \in Bufs, x \in Data : BufWrite(b, x))
               /\ UNCHANGED reader
      BY <2>2, WriteKeeps
    <2>3. CASE \E b \in Bufs : ReadCopy(b)
      BY <2>3, CopyKeeps
    <2> QED BY <2>1, <2>2, <2>3, LoadKeeps, StoreKeeps, IncrKeeps DEF RingNext
  <1> QED BY <1>1, InitRing, PTL DEF RingSpec

(* Until it is overrun, a buffer gives the program the elements in the     *)
(* order in which the interrupt wrote them, for every size.                *)
THEOREM OldestIsRead == RingSpec => [](ReadsOldest /\ HoldsQueue)
  <1>1. RingInv => ReadsOldest /\ HoldsQueue
    BY DEF RingInv
  <1> QED BY <1>1, RingInvariant, PTL

(* The count that the interrupt and the program share is always exact.     *)
THEOREM CountStaysExact == RingSpec => []CountIsExact
  <1>1. RingInv => CountIsExact
    BY DEF RingInv
  <1> QED BY <1>1, RingInvariant, PTL

-----------------------------------------------------------------------------
(* The bytes of the line *)

(* The byte that a character is on the line.                               *)
Enc(c) == LastSent(c).byte

LEMMA SpecialBytes ==
  /\ ESC \in Byte /\ FORCE \in Byte /\ ESC # FORCE
  /\ Special(ESC) /\ Special(FORCE) /\ ~ IsId(ESC) /\ ~ IsId(FORCE)
  /\ \A s \in Bufs : /\ Id(s) \in Byte /\ IsId(Id(s)) /\ Special(Id(s)) /\ Id(s).base = s
                     /\ Id(s) # ESC /\ Id(s) # FORCE /\ s # None
  BY SermuxAssumption, RingAssumption DEF ESC, FORCE, Id, IsId, Special, Byte

LEMMA Flipped ==
  ASSUME NEW c \in Byte
  PROVE  /\ Xor(c) \in Byte /\ Xor(Xor(c)) = c
         /\ Special(c) => ~ Special(Xor(c))
         /\ IsId(c) => c.base \in Bufs
  <1>1. c = [base |-> c.base, flip |-> c.flip] /\ c.flip \in BOOLEAN
    BY DEF Byte
  <1>2. Xor(c) = [base |-> c.base, flip |-> ~ c.flip]
    BY <1>1 DEF Xor
  <1>3. Xor(c) \in Byte
    BY <1>2 DEF Byte
  <1>4. Xor(Xor(c)) = [base |-> c.base, flip |-> c.flip]
    BY <1>1, <1>2 DEF Xor
  <1>5. \A x \in Byte : Special(x) => ~ x.flip
    BY DEF Special, IsId, ESC, FORCE
  <1>6. Xor(c).flip = ~ c.flip
    BY <1>2
  <1> QED BY <1>1, <1>3, <1>4, <1>5, <1>6 DEF IsId

LEMMA Encoded ==
  ASSUME NEW c \in Byte
  PROVE  /\ Enc(c) \in Byte /\ ~ Special(Enc(c))
         /\ Enc(c) = IF Special(c) THEN Xor(c) ELSE c
         /\ LastSent(c) = [esc |-> Special(c), byte |-> Enc(c)] /\ LastSent(c) # NoLast
         /\ Special(c) => Xor(Enc(c)) = c
  <1>1. Special(c) \in BOOLEAN
    BY DEF Special, IsId
  <1>2. LastSent(c) = [esc |-> Special(c), byte |-> IF Special(c) THEN Xor(c) ELSE c]
    BY <1>1 DEF LastSent
  <1>3. Enc(c) = IF Special(c) THEN Xor(c) ELSE c
    BY <1>2 DEF Enc
  <1>4. Enc(c) \in Byte /\ ~ Special(Enc(c)) /\ (Special(c) => Xor(Enc(c)) = c)
    BY <1>3, Flipped
  <1>5. None \notin Byte
    BY RingAssumption, SermuxAssumption
  <1> QED BY <1>2, <1>3, <1>4, <1>5 DEF NoLast

LEMMA AppendFacts ==
  ASSUME NEW S, NEW L \in Seq(S), NEW b \in S
  PROVE  /\ Append(L, b) \in Seq(S) /\ Len(Append(L, b)) = Len(L) + 1
         /\ \A p \in 1..Len(L) : Append(L, b)[p] = L[p]
         /\ Append(L, b)[Len(L) + 1] = b
  OBVIOUS

LEMMA TailFacts ==
  ASSUME NEW S, NEW L \in Seq(S), L # <<>>
  PROVE  /\ Len(L) \in Nat /\ Len(L) >= 1 /\ Head(L) = L[1] /\ L[1] \in S
         /\ Tail(L) \in Seq(S) /\ Len(Tail(L)) = Len(L) - 1
         /\ \A p \in 1..Len(L) - 1 : Tail(L)[p] = L[p + 1]
  <1>1. Len(L) \in Nat /\ Len(L) >= 1
    BY EmptySeq
  <1> QED BY <1>1, HeadTailProperties

-----------------------------------------------------------------------------
(* The state of the multiplexer, whatever the ends repeat and whenever     *)
(* they stop                                                               *)

Flights == Seq(Bufs \X Chars)

(* uart_last_sent, prev_sent.                                              *)
Noted == {NoLast} \cup [esc : BOOLEAN, byte : Byte]

State == [in : Bufs \cup {None}, out : Bufs \cup {None}, esc : BOOLEAN, last : Noted]

Steps == {"id", "last", "data", "flip", "mark", "out"}

MuxTypes ==
  /\ dev \in State /\ host \in State
  /\ tx = NoTx \/ tx \in [step : Steps, s : Bufs, c : Chars]
  /\ up \subseteq Ends /\ wrong \subseteq Ends \cup {"exit"}
  /\ line \in [Ends -> Seq(Byte)] /\ flight \in [Ends -> Flights]
  /\ refused \in BOOLEAN /\ trouble \in BOOLEAN
  /\ sent \in 0..MaxSent /\ restarts \in 0..MaxRestarts
  /\ "pc" \notin up => host = FreshEnd
  /\ "board" \notin up => dev = FreshEnd /\ tx = NoTx

LEMMA Bytes ==
  \A c \in Byte : /\ Xor(c) \in Byte /\ LastSent(c) \in Noted /\ LastSent(c) # NoLast
                  /\ LastSent(c).byte \in Byte
                  /\ [esc |-> FALSE, byte |-> c] \in Noted
  BY RingAssumption, SermuxAssumption DEF Xor, LastSent, Byte, Noted, NoLast

LEMMA FreshFacts ==
  /\ FreshEnd \in State /\ FreshEnd.in = None /\ FreshEnd.out = None /\ FreshEnd.esc = FALSE
  /\ FreshEnd.last = NoLast /\ NoTx.step = "idle" /\ NoLast \in Noted
  BY DEF FreshEnd, State, Noted, NoTx

LEMMA EndFacts ==
  /\ "board" \in Ends /\ "pc" \in Ends /\ Other("board") = "pc" /\ Other("pc") = "board"
  /\ \A e \in Ends : Other(e) \in Ends /\ Other(e) # e
  BY DEF Ends, Other

LEMMA TypeFacts ==
  ASSUME MuxTypes
  PROVE  /\ line["board"] \in Seq(Byte) /\ line["pc"] \in Seq(Byte)
         /\ flight["board"] \in Flights /\ flight["pc"] \in Flights
         /\ dev.esc \in BOOLEAN /\ host.esc \in BOOLEAN /\ NoTx.step = "idle"
         /\ dev.in \in Bufs \cup {None} /\ host.in \in Bufs \cup {None}
         /\ Chars \subseteq Byte
         /\ tx.step # "idle" => /\ tx.step \in Steps /\ tx.s \in Bufs /\ tx.c \in Chars
                                /\ tx.c \in Byte /\ "board" \in up
  BY SermuxAssumption, EndFacts DEF MuxTypes, State, NoTx

LEMMA PutTyped ==
  ASSUME MuxTypes, NEW e \in Ends, NEW bytes \in Seq(Byte), Put(e, bytes)
  PROVE  /\ line' \in [Ends -> Seq(Byte)] /\ line'[e] = line[e] \o bytes
         /\ line'[Other(e)] = line[Other(e)]
  <1> DEFINE y == line[e] \o bytes
  <1>1. line \in [Ends -> Seq(Byte)] /\ line' = [line EXCEPT ![e] = y]
    BY DEF MuxTypes, Put
  <1>2. y \in Seq(Byte)
    BY <1>1
  <1> HIDE DEF y
  <1> QED BY <1>1, <1>2, EndFacts DEF y

LEMMA Answered ==
  ASSUME MuxTypes, NEW e \in Ends, NEW bytes \in Seq(Byte), Answer(e, bytes), line[e] # <<>>
  PROVE  /\ line' \in [Ends -> Seq(Byte)] /\ line'[e] = Tail(line[e])
         /\ line'[Other(e)] = line[Other(e)] \o bytes
  <1> DEFINE x == Tail(line[e])
             y == line[Other(e)] \o bytes
  <1>1. line \in [Ends -> Seq(Byte)] /\ line' = [line EXCEPT ![e] = x, ![Other(e)] = y]
    BY DEF MuxTypes, Answer
  <1>2. Other(e) \in Ends /\ Other(e) # e
    BY EndFacts
  <1>3. x \in Seq(Byte) /\ y \in Seq(Byte)
    BY <1>1, <1>2, TailFacts
  <1> HIDE DEF x, y
  <1> QED BY <1>1, <1>2, <1>3 DEF x, y

(* What an end that repeats its last character puts on the line.           *)
LEMMA RepeatedBytes ==
  ASSUME NEW x \in State, x.last # NoLast
  PROVE  Repeated(x) \in Seq(Byte)
  <1>1. x.last.byte \in Byte /\ (IF x.out = None THEN FORCE ELSE Id(x.out)) \in Byte
    BY SpecialBytes DEF State, Noted
  <1>2. /\ <<IF x.out = None THEN FORCE ELSE Id(x.out)>> \in Seq(Byte)
        /\ (IF x.last.esc THEN <<ESC>> ELSE <<>>) \in Seq(Byte)
        /\ <<x.last.byte>> \in Seq(Byte)
    BY <1>1, SpecialBytes
  <1> QED BY <1>2 DEF Repeated

LEMMA SendTypes ==
  ASSUME MuxTypes, NEW e \in Ends, NEW s \in Bufs, NEW c \in Chars, Send(e, s, c)
  PROVE  /\ sent' \in 0..MaxSent /\ trouble' \in BOOLEAN /\ flight' \in [Ends -> Flights]
         /\ flight'[e] = Append(flight[e], <<s, c>>) /\ flight'[Other(e)] = flight[Other(e)]
         /\ ~ trouble' => ~ trouble /\ ~ Unplaceable(e)
  <1> DEFINE G == Append(flight[e], <<s, c>>)
  <1>1. /\ flight \in [Ends -> Flights] /\ flight' = [flight EXCEPT ![e] = G]
        /\ sent' = sent + 1 /\ sent < MaxSent /\ trouble' = (trouble \/ Unplaceable(e))
    BY DEF MuxTypes, Send
  <1>2. G \in Flights
    BY <1>1 DEF Flights
  <1> HIDE DEF G
  <1>3. flight' \in [Ends -> Flights] /\ flight'[e] = G /\ flight'[Other(e)] = flight[Other(e)]
    BY <1>1, <1>2, EndFacts
  <1>4. sent' \in 0..MaxSent
    BY <1>1, SermuxAssumption DEF MuxTypes
  <1>5. trouble' \in BOOLEAN /\ (~ trouble' => ~ trouble /\ ~ Unplaceable(e))
    BY <1>1
  <1> QED BY <1>3, <1>4, <1>5 DEF G

IsNext(F, s, c) == F # <<>> /\ Head(F) = <<s, c>>

LEMMA Delivered ==
  ASSUME MuxTypes, NEW e \in Ends, NEW s, NEW c, NEW taken, Deliver(e, s, c, taken)
  PROVE  /\ flight' \in [Ends -> Flights] /\ wrong' \subseteq Ends \cup {"exit"}
         /\ refused' \in BOOLEAN
         /\ IsNext(flight[e], s, c) =>
              /\ flight'[e] = Tail(flight[e]) /\ flight'[Other(e)] = flight[Other(e)]
              /\ wrong' = wrong
  <1>1. flight \in [Ends -> Flights] /\ wrong \subseteq Ends \cup {"exit"}
    BY DEF MuxTypes
  <1>2. refused' \in BOOLEAN
    BY DEF Deliver
  <1>3. CASE IsNext(flight[e], s, c)
    <2>1. flight' = [flight EXCEPT ![e] = Tail(flight[e])] /\ wrong' = wrong
      BY <1>3 DEF Deliver, IsNext
    <2>2. Tail(flight[e]) \in Flights
      BY <1>1, <1>3, TailFacts DEF Flights, IsNext
    <2> QED BY <1>1, <1>2, <2>1, <2>2, EndFacts
  <1>4. CASE ~ IsNext(flight[e], s, c)
    <2>1. flight' = flight /\ wrong' = wrong \cup {e}
      BY <1>4 DEF Deliver, IsNext
    <2> QED BY <1>1, <1>2, <1>4, <2>1
  <1> QED BY <1>3, <1>4

LEMMA DevSendTypes ==
  ASSUME MuxTypes, NEW s \in Bufs, NEW c \in Chars, DevSend(s, c)
  PROVE  MuxTypes'
  <1>1. /\ tx' = [step |-> "id", s |-> s, c |-> c] /\ "board" \in up
        /\ UNCHANGED <<dev, host, up, line, wrong, refused, restarts>>
    BY DEF DevSend
  <1>2. sent' \in 0..MaxSent /\ trouble' \in BOOLEAN /\ flight' \in [Ends -> Flights]
    BY SendTypes, EndFacts DEF DevSend
  <1>3. tx' \in [step : Steps, s : Bufs, c : Chars]
    BY <1>1 DEF Steps
  <1> QED BY <1>1, <1>2, <1>3 DEF MuxTypes

LEMMA TxStepTypes ==
  ASSUME MuxTypes, NEW from \in Steps, NEW to \in Steps \cup {"idle"}, NEW bytes \in Seq(Byte),
         NEW l \in Noted, NEW o \in Bufs \cup {None}, TxStep(from, to, bytes, l, o)
  PROVE  /\ MuxTypes' /\ tx.step = from
         /\ line'["pc"] = line["pc"] \o bytes /\ line'["board"] = line["board"]
         /\ dev'.in = dev.in /\ dev'.esc = dev.esc /\ dev'.last = l /\ dev'.out = o
         /\ tx' = IF to = "idle" THEN NoTx ELSE [step |-> to, s |-> tx.s, c |-> tx.c]
         /\ UNCHANGED <<ringVars, host, up, sent, flight, wrong, refused, trouble, restarts>>
  <1>1. /\ tx.step = from /\ tx' = IF to = "idle" THEN NoTx ELSE [tx EXCEPT !.step = to]
        /\ Put("pc", bytes) /\ dev' = [dev EXCEPT !.last = l, !.out = o]
        /\ UNCHANGED <<ringVars, host, up, sent, flight, wrong, refused, trouble, restarts>>
    BY DEF TxStep
  <1>2. tx \in [step : Steps, s : Bufs, c : Chars] /\ "board" \in up
    BY <1>1 DEF MuxTypes, Steps, NoTx
  <1>3. /\ line' \in [Ends -> Seq(Byte)] /\ line'["pc"] = line["pc"] \o bytes
        /\ line'["board"] = line["board"]
    BY <1>1, PutTyped, EndFacts
  <1>4. /\ dev' \in State /\ dev'.in = dev.in /\ dev'.esc = dev.esc /\ dev'.last = l
        /\ dev'.out = o
    BY <1>1 DEF MuxTypes, State
  <1>5. tx' = IF to = "idle" THEN NoTx ELSE [step |-> to, s |-> tx.s, c |-> tx.c]
    BY <1>1, <1>2
  <1>6. tx' = NoTx \/ tx' \in [step : Steps, s : Bufs, c : Chars]
    BY <1>2, <1>5
  <1>7. MuxTypes'
    BY <1>1, <1>2, <1>3, <1>4, <1>6 DEF MuxTypes
  <1> QED BY <1>1, <1>3, <1>4, <1>5, <1>7

(* Every step of platform_uart_send is a TxStep.                           *)
LEMMA TransmitFacts ==
  ASSUME MuxTypes, tx.step # "idle"
  PROVE  /\ dev.last \in Noted /\ dev.out \in Bufs \cup {None} /\ tx.s \in Bufs \cup {None}
         /\ LastSent(tx.c) \in Noted /\ [esc |-> FALSE, byte |-> tx.c] \in Noted
         /\ <<>> \in Seq(Byte) /\ <<ESC>> \in Seq(Byte) /\ <<tx.c>> \in Seq(Byte)
         /\ <<Xor(tx.c)>> \in Seq(Byte) /\ <<Id(tx.s)>> \in Seq(Byte)
         /\ (IF tx.s # dev.out THEN <<Id(tx.s)>> ELSE <<>>) \in Seq(Byte)
  <1>1. tx.c \in Byte /\ tx.s \in Bufs
    BY TypeFacts
  <1>2. dev \in State
    BY DEF MuxTypes
  <1> QED BY <1>1, <1>2, Bytes, SpecialBytes DEF State

LEMMA TransmitTypes ==
  ASSUME MuxTypes, Transmit
  PROVE  MuxTypes' /\ UNCHANGED ringVars
  <1>1. tx.step \in Steps /\ tx.step # "idle"
    BY DEF Transmit, TxId, TxLast, TxData, TxFlip, TxMark, TxOut, TxStep, Steps
  <1>2. /\ "id" \in Steps /\ "last" \in Steps /\ "data" \in Steps /\ "flip" \in Steps
        /\ "mark" \in Steps /\ "out" \in Steps
    BY DEF Steps
  <1>3. CASE TxId
    BY <1>1, <1>2, <1>3, TransmitFacts, TxStepTypes DEF TxId
  <1>4. CASE TxLast
    BY <1>1, <1>2, <1>4, TransmitFacts, TxStepTypes DEF TxLast
  <1>5. CASE TxData
    BY <1>1, <1>2, <1>5, TransmitFacts, TxStepTypes DEF TxData
  <1>6. CASE TxFlip
    BY <1>1, <1>2, <1>6, TransmitFacts, TxStepTypes DEF TxFlip
  <1>7. CASE TxMark
    BY <1>1, <1>2, <1>7, TransmitFacts, TxStepTypes DEF TxMark
  <1>8. CASE TxOut
    BY <1>1, <1>2, <1>8, TransmitFacts, TxStepTypes DEF TxOut
  <1> QED BY <1>3, <1>4, <1>5, <1>6, <1>7, <1>8 DEF Transmit

(* The interrupt writes a byte to the buffer of a virtual UART, or nothing.*)
LEMMA DevReceiveTypes ==
  ASSUME MuxTypes, DevReceive
  PROVE  /\ MuxTypes'
         /\ \/ UNCHANGED ringVars
            \/ InterruptsEnabled /\ UNCHANGED reader
               /\ \E u \in Bufs, x \in Byte : BufWrite(u, x)
  <1> DEFINE b == Head(line["board"])
             c == IF dev.esc THEN Xor(b) ELSE b
  <1>1. /\ line["board"] # <<>> /\ InterruptsEnabled /\ "board" \in up
        /\ UNCHANGED <<tx, host, up, sent, restarts>>
    BY DEF DevReceive
  <1>2. b \in Byte /\ c \in Byte /\ dev \in State
    <2>1. b \in Byte
      BY <1>1, TypeFacts, TailFacts
    <2> QED BY <2>1, Bytes DEF MuxTypes
  <1>3. \E bytes \in Seq(Byte) : Answer("board", bytes)
    <2>1. \/ Answer("board", <<>>) \/ Answer("board", <<FORCE>>)
          \/ dev.last # NoLast /\ Answer("board", Repeated(dev))
      BY Zenon DEF DevReceive, Request
    <2>2. <<>> \in Seq(Byte) /\ <<FORCE>> \in Seq(Byte)
      BY SpecialBytes
    <2>3. dev.last # NoLast => Repeated(dev) \in Seq(Byte)
      BY <1>2, RepeatedBytes
    <2> QED BY <2>1, <2>2, <2>3
  <1>4. \/ UNCHANGED <<ringVars, flight, wrong, refused>>
        \/ /\ dev.in # None /\ BufWrite(dev.in, c) /\ UNCHANGED reader
           /\ \E taken : Deliver("board", dev.in, c, taken)
    BY Zenon DEF DevReceive
  <1>5. \/ dev' = [dev EXCEPT !.esc = TRUE]
        \/ IsId(b) /\ dev' = [dev EXCEPT !.in = b.base]
        \/ dev' = [dev EXCEPT !.last = NoLast]
        \/ dev' = [dev EXCEPT !.esc = FALSE]
    BY Zenon DEF DevReceive
  <1>6. trouble' = trouble \/ trouble' = (trouble \/ tx.step # "idle")
    BY Zenon DEF DevReceive
  <1> HIDE DEF b, c
  <1>7. dev' \in State
    BY <1>2, <1>5, FreshFacts DEF State, IsId
  <1>8. line' \in [Ends -> Seq(Byte)]
    BY <1>1, <1>3, Answered, EndFacts
  <1>9. /\ flight' \in [Ends -> Flights] /\ wrong' \subseteq Ends \cup {"exit"}
        /\ refused' \in BOOLEAN
    BY <1>4, Delivered, EndFacts DEF MuxTypes
  <1>10. trouble' \in BOOLEAN
    BY <1>6 DEF MuxTypes
  <1>11. MuxTypes'
    BY <1>1, <1>7, <1>8, <1>9, <1>10 DEF MuxTypes
  <1>12. dev.in # None => dev.in \in Bufs
    BY TypeFacts
  <1> QED BY <1>1, <1>2, <1>4, <1>11, <1>12

LEMMA HostSendTypes ==
  ASSUME MuxTypes, NEW s \in Bufs, NEW c \in Chars, HostSend(s, c)
  PROVE  MuxTypes'
  <1> DEFINE bytes == (IF s # host.out THEN <<Id(s)>> ELSE <<>>)
                      \o (IF Special(c) THEN <<ESC, Xor(c)>> ELSE <<c>>)
  <1>1. /\ Put("board", bytes) /\ "pc" \in up
        /\ host' = [host EXCEPT !.out = s, !.last = LastSent(c)]
        /\ UNCHANGED <<dev, tx, up, wrong, refused, restarts>>
    BY DEF HostSend
  <1>2. bytes \in Seq(Byte)
    <2>1. c \in Byte
      BY TypeFacts
    <2>2. (IF s # host.out THEN <<Id(s)>> ELSE <<>>) \in Seq(Byte)
      BY SpecialBytes
    <2>3. (IF Special(c) THEN <<ESC, Xor(c)>> ELSE <<c>>) \in Seq(Byte)
      <3>1. ESC \in Byte /\ Xor(c) \in Byte
        BY <2>1, Bytes, SpecialBytes
      <3>2. <<ESC, Xor(c)>> \in Seq(Byte) /\ <<c>> \in Seq(Byte)
        BY <2>1, <3>1
      <3> QED BY <3>2, Zenon
    <2> QED BY <2>2, <2>3
  <1> HIDE DEF bytes
  <1>3. line' \in [Ends -> Seq(Byte)]
    BY <1>1, <1>2, PutTyped, EndFacts
  <1>4. sent' \in 0..MaxSent /\ trouble' \in BOOLEAN /\ flight' \in [Ends -> Flights]
    BY SendTypes, EndFacts DEF HostSend
  <1>5. host' \in State
    BY <1>1, Bytes, TypeFacts DEF MuxTypes, State
  <1> QED BY <1>1, <1>3, <1>4, <1>5 DEF MuxTypes

LEMMA HostReceiveTypes ==
  ASSUME MuxTypes, HostReceive
  PROVE  MuxTypes'
  <1> DEFINE b == Head(line["pc"])
             c == IF host.esc THEN Xor(b) ELSE b
  <1>1. /\ line["pc"] # <<>> /\ "pc" \in up
        /\ UNCHANGED <<ringVars, dev, tx, sent, trouble, restarts>>
    BY DEF HostReceive
  <1>2. host \in State
    BY DEF MuxTypes
  <1>3. \E bytes \in Seq(Byte) : Answer("pc", bytes)
    <2>1. \/ Answer("pc", <<>>) \/ Answer("pc", <<FORCE>>)
          \/ host.last # NoLast /\ Answer("pc", Repeated(host))
      BY Zenon DEF HostReceive, Exit, Request
    <2>2. <<>> \in Seq(Byte) /\ <<FORCE>> \in Seq(Byte)
      BY SpecialBytes
    <2>3. host.last # NoLast => Repeated(host) \in Seq(Byte)
      BY <1>2, RepeatedBytes
    <2> QED BY <2>1, <2>2, <2>3
  <1>4. \/ UNCHANGED <<flight, wrong, refused>>
        \/ UNCHANGED <<flight, refused>> /\ wrong' = wrong \cup {"exit"}
        \/ \E taken : Deliver("pc", host.in, c, taken)
    BY Zenon DEF HostReceive, Exit
  <1>5. \/ up' = up /\ \/ host' = [host EXCEPT !.esc = TRUE]
                       \/ IsId(b) /\ host' = [host EXCEPT !.in = b.base]
                       \/ host' = [host EXCEPT !.last = NoLast]
                       \/ host' = [host EXCEPT !.esc = FALSE]
        \/ up' = up \ {"pc"} /\ host' = FreshEnd
    BY Zenon DEF HostReceive, Exit
  <1> HIDE DEF b, c
  <1>6. host' \in State /\ up' \subseteq Ends /\ ("board" \in up' <=> "board" \in up)
        /\ ("pc" \notin up' => host' = FreshEnd)
    <2>1. host' \in State
      BY <1>2, <1>5, FreshFacts DEF State, IsId
    <2> QED BY <1>1, <1>5, <2>1 DEF MuxTypes
  <1>7. line' \in [Ends -> Seq(Byte)]
    BY <1>1, <1>3, Answered, EndFacts
  <1>8. /\ flight' \in [Ends -> Flights] /\ wrong' \subseteq Ends \cup {"exit"}
        /\ refused' \in BOOLEAN
    BY <1>4, Delivered, EndFacts DEF MuxTypes
  <1> QED BY <1>1, <1>6, <1>7, <1>8 DEF MuxTypes

LEMMA StopTypes ==
  ASSUME MuxTypes, HostStop \/ DevStop
  PROVE  MuxTypes'
  <1>1. /\ \E e \in Ends : Stop(e)
        /\ UNCHANGED <<line, sent, flight, wrong, refused>>
    BY EndFacts DEF HostStop, DevStop, Stop
  <1>2. restarts' \in 0..MaxRestarts
    BY <1>1, SermuxAssumption DEF Stop, MuxTypes
  <1>3. trouble' \in BOOLEAN
    BY <1>1 DEF Stop
  <1>4. CASE HostStop
    <2>1. host' = FreshEnd /\ UNCHANGED <<dev, tx>> /\ up' = up \ {"pc"}
      BY <1>4 DEF HostStop, Stop
    <2> QED BY <1>1, <1>2, <1>3, <2>1, FreshFacts DEF MuxTypes
  <1>5. CASE DevStop
    <2>1. dev' = FreshEnd /\ tx' = NoTx /\ UNCHANGED host /\ up' = up \ {"board"}
      BY <1>5 DEF DevStop, Stop
    <2> QED BY <1>1, <1>2, <1>3, <2>1, FreshFacts DEF MuxTypes
  <1> QED BY <1>4, <1>5

(* What an end that does not run leaves under way to it.                   *)
Rest(e) == IF Special(Head(line[e])) \/ flight[e] = <<>> THEN flight[e] ELSE Tail(flight[e])

LEMMA LoseTypes ==
  ASSUME MuxTypes, NEW e \in Ends, Lose(e)
  PROVE  /\ MuxTypes' /\ e \notin up /\ line[e] # <<>>
         /\ line'[e] = Tail(line[e]) /\ line'[Other(e)] = line[Other(e)]
         /\ flight'[e] = Rest(e) /\ flight'[Other(e)] = flight[Other(e)]
         /\ Rest(e) \in Flights
         /\ ~ trouble' => ~ trouble /\ ~ Hopeless(e, Rest(e))
         /\ UNCHANGED <<ringVars, dev, tx, host, up, sent, wrong, refused, restarts>>
  <1>1. /\ e \notin up /\ line[e] # <<>> /\ Answer(e, <<>>)
        /\ flight' = [flight EXCEPT ![e] = Rest(e)]
        /\ trouble' = (trouble \/ Hopeless(e, Rest(e)))
        /\ UNCHANGED <<ringVars, dev, tx, host, up, sent, wrong, refused, restarts>>
    BY DEF Lose, Rest
  <1>2. /\ line' \in [Ends -> Seq(Byte)] /\ line'[e] = Tail(line[e])
        /\ line'[Other(e)] = line[Other(e)] \o <<>>
    <2>1. <<>> \in Seq(Byte)
      OBVIOUS
    <2> QED BY <1>1, <2>1, Answered
  <1>3. line[Other(e)] \o <<>> = line[Other(e)]
    <2>1. line[Other(e)] \in Seq(Byte)
      BY EndFacts DEF MuxTypes
    <2> QED BY <2>1
  <1>4. Rest(e) \in Flights
    <2>1. flight[e] \in Flights
      BY DEF MuxTypes
    <2> QED BY <2>1, TailFacts DEF Rest, Flights
  <1>5. /\ flight' \in [Ends -> Flights] /\ flight'[e] = Rest(e)
        /\ flight'[Other(e)] = flight[Other(e)]
    BY <1>1, <1>4, EndFacts DEF MuxTypes
  <1>6. trouble' \in BOOLEAN /\ (~ trouble' => ~ trouble /\ ~ Hopeless(e, Rest(e)))
    BY <1>1
  <1>7. MuxTypes'
    BY <1>1, <1>2, <1>5, <1>6 DEF MuxTypes
  <1> QED BY <1>1, <1>2, <1>3, <1>4, <1>5, <1>6, <1>7

LEMMA StartTypes ==
  ASSUME MuxTypes, NEW e \in Ends, Start(e)
  PROVE  MuxTypes' /\ UNCHANGED ringVars
  BY DEF Start, MuxTypes

LEMMA MuxUnchanged ==
  ASSUME MuxTypes, UNCHANGED muxVars
  PROVE  MuxTypes'
  BY DEF muxVars, MuxTypes

LEMMA RingUnchanged ==
  ASSUME RingInv, UNCHANGED ringVars
  PROVE  RingInv'
  BY DEF RingInv, ringVars, RingTypeOK, CountIsExact, HoldsQueue, Oldest, ReadsOldest,
         ReaderSound

LEMMA InitTypes == Init => RingInv /\ MuxTypes
  <1> SUFFICES ASSUME Init PROVE RingInv /\ MuxTypes
    OBVIOUS
  <1>1. RingInv
    BY InitRing DEF Init
  <1>2. /\ dev = FreshEnd /\ tx = NoTx /\ host = FreshEnd /\ up = Ends /\ sent = 0
        /\ line = [e \in Ends |-> <<>>] /\ flight = [e \in Ends |-> <<>>] /\ wrong = {}
        /\ refused = FALSE /\ trouble = FALSE /\ restarts = 0
    BY DEF Init
  <1>3. line \in [Ends -> Seq(Byte)] /\ flight \in [Ends -> Flights]
    BY <1>2 DEF Flights
  <1>4. sent \in 0..MaxSent /\ restarts \in 0..MaxRestarts
    BY <1>2, SermuxAssumption
  <1>5. MuxTypes
    BY <1>2, <1>3, <1>4, FreshFacts DEF MuxTypes, Ends
  <1> QED BY <1>1, <1>5

LEMMA NextTypes == RingInv /\ MuxTypes /\ [Next]_vars => RingInv' /\ MuxTypes'
  <1> SUFFICES ASSUME RingInv, MuxTypes, [Next]_vars PROVE RingInv' /\ MuxTypes'
    OBVIOUS
  <1>1. CASE UNCHANGED vars
    BY <1>1, RingUnchanged, MuxUnchanged DEF vars
  <1>2. ASSUME NEW s \in Bufs, NEW c \in Chars, DevSend(s, c) PROVE RingInv' /\ MuxTypes'
    BY <1>2, RingUnchanged, DevSendTypes DEF DevSend
  <1>3. ASSUME NEW s \in Bufs, NEW c \in Chars, HostSend(s, c) PROVE RingInv' /\ MuxTypes'
    BY <1>3, RingUnchanged, HostSendTypes DEF HostSend
  <1>4. CASE Transmit
    BY <1>4, TransmitTypes, RingUnchanged
  <1>5. CASE DevReceive
    BY <1>5, DevReceiveTypes, RingUnchanged, WriteKeeps, SermuxAssumption
  <1>6. ASSUME NEW s \in Bufs, DevRead(s) PROVE RingInv' /\ MuxTypes'
    BY <1>6, CopyKeeps, MuxUnchanged DEF DevRead
  <1>7. CASE DevReadOn
    BY <1>7, LoadKeeps, StoreKeeps, IncrKeeps, MuxUnchanged DEF DevReadOn
  <1>8. CASE HostReceive
    BY <1>8, HostReceiveTypes, RingUnchanged DEF HostReceive
  <1>9. CASE HostStop
    BY <1>9, StopTypes, RingUnchanged DEF HostStop
  <1>10. CASE DevStop
    <2>1. RingInit'
      BY <1>10 DEF DevStop, RingInit
    <2>2. RingInv'
      BY <2>1, InitRing, PTL
    <2> QED BY <1>10, <2>2, StopTypes
  <1>11. ASSUME NEW e \in Ends, Lose(e) \/ Start(e) PROVE RingInv' /\ MuxTypes'
    BY <1>11, LoseTypes, StartTypes, RingUnchanged
  <1> QED BY <1>1, <1>2, <1>3, <1>4, <1>5, <1>6, <1>7, <1>8, <1>9, <1>10, <1>11 DEF Next

LEMMA TypesInvariant == Spec => [](RingInv /\ MuxTypes)
  BY InitTypes, NextTypes, PTL DEF Spec

(* Every value stays in its type.                                          *)
THEOREM MuxTypeCorrect == Spec => []TypeOK
  <1>1. MuxTypes /\ RingInv => TypeOK
    <2> SUFFICES ASSUME MuxTypes, RingInv PROVE TypeOK
      OBVIOUS
    <2>1. State \subseteq End
      <3>1. Noted \subseteq [esc : BOOLEAN, byte : Byte \cup {None}]
        <4>1. NoLast \in [esc : BOOLEAN, byte : Byte \cup {None}]
          BY DEF NoLast
        <4>2. [esc : BOOLEAN, byte : Byte] \subseteq [esc : BOOLEAN, byte : Byte \cup {None}]
          OBVIOUS
        <4> QED BY <4>1, <4>2 DEF Noted
      <3> QED BY <3>1 DEF State, End
    <2>2. tx \in [step : {"idle", "id", "last", "data", "flip", "mark", "out"},
                  s : Bufs \cup {None}, c : Chars \cup {None}]
      BY DEF MuxTypes, NoTx, Steps
    <2> QED BY <2>1, <2>2 DEF MuxTypes, RingInv, TypeOK, Flights
  <1> QED BY <1>1, TypesInvariant, PTL

(* On a board with the multiplexer, a program that reads a virtual UART    *)
(* gets the oldest character of its buffer, whatever the interrupt takes   *)
(* off the line meanwhile and whichever end stops and starts.              *)
THEOREM UartReadsOldest == Spec => []ReadsOldest
  <1>1. RingInv => ReadsOldest
    BY DEF RingInv
  <1> QED BY <1>1, TypesInvariant, PTL

(* And the count of every buffer stays exact.                              *)
THEOREM UartCountsExact == Spec => []CountIsExact
  <1>1. RingInv => CountIsExact
    BY DEF RingInv
  <1> QED BY <1>1, TypesInvariant, PTL

-----------------------------------------------------------------------------
(* The order of the characters on the line *)

LEMMA AtMostOne == \A k \in Nat : k <= 1 /\ k # 0 => k = 1
  OBVIOUS

LEMMA OneInFlight ==
  ASSUME NEW S, NEW F \in Seq(S), Len(F) = 1
  PROVE  F # <<>> /\ F = Append(<<>>, F[1])
  <1>1. Len(<<>>) = 0
    OBVIOUS
  <1>2. F # <<>>
    BY <1>1
  <1>3. F = Append(<<>>, F[1])
    OBVIOUS
  <1> QED BY <1>2, <1>3

(* The character that an end takes a byte for.                             *)
Decoded(esc, b) == IF esc THEN Xor(b) ELSE b

(* What an end that has read some of the line knows, and the characters it *)
(* has got.                                                                *)
Decoder == [in : Bufs \cup {None}, esc : BOOLEAN, n : Nat]

(* The byte b takes the decoder from s to u.                               *)
Follows(s, b, u) ==
  /\ u.in = IF IsId(b) THEN b.base ELSE s.in
  /\ u.esc <=> b = ESC \/ (Special(b) /\ s.esc)
  /\ u.n = IF Special(b) THEN s.n ELSE s.n + 1

(* d is the way of the decoder along the line L.                           *)
Reading(d, in, esc, L) ==
  /\ d \in [0..Len(L) -> Decoder]
  /\ d[0].in = in /\ d[0].esc = esc /\ d[0].n = 0
  /\ \A p \in 1..Len(L) : Follows(d[p - 1], L[p], d[p])
  /\ \A p \in 0..Len(L), q \in 0..Len(L) :
       p <= q => d[p].n <= d[q].n /\ (d[p].esc /\ ~ d[q].esc => d[p].n < d[q].n)

(* An escape belongs to the next character of F, which needs one.          *)
Fits(u, F) ==
  /\ u.n <= Len(F)
  /\ u.esc => u.n < Len(F) /\ Special(F[u.n + 1][2])

(* The identifier comes before the escape and its character, and the bytes *)
(* that are characters are those of F.                                     *)
Sound(s, b, u, F) ==
  /\ IsId(b) => ~ s.esc /\ u.n < Len(F)
  /\ ~ Special(b) => b = Enc(F[u.n][2])

Matches(d, L, F) ==
  /\ \A p \in 0..Len(L) : Fits(d[p], F)
  /\ \A p \in 1..Len(L) : Sound(d[p - 1], L[p], d[p], F)

(* A character of F is found at its service, escaped if it has to be.      *)
Placed(s, b, u, F) ==
  ~ Special(b) => s.in = F[u.n][1] /\ (s.esc <=> Special(F[u.n][2]))

AllPlaced(d, L, F) == \A p \in 1..Len(L) : Placed(d[p - 1], L[p], d[p], F)

(* The last of F is the character of the send t, if one is under way.      *)
Counted(u, F, t) ==
  IF t.step = "idle" THEN u.n = Len(F)
  ELSE u.n + 1 = Len(F) /\ F[Len(F)] = <<t.s, t.c>> /\ (t.step = "flip" => Special(t.c))

(* What the sender has said so far.                                        *)
Told(u, out, t) ==
  /\ u.esc <=> t.step = "flip"
  /\ IF t.step \in {"data", "flip"} THEN u.in = t.s ELSE out # None => u.in = out

(* The characters F are on the line, with all that is needed to place them.*)
Coded(in, esc, L, F, out, t) ==
  \E d : /\ Reading(d, in, esc, L) /\ Matches(d, L, F) /\ AllPlaced(d, L, F)
         /\ Counted(d[Len(L)], F, t) /\ Told(d[Len(L)], out, t)

(* At most one character is under way, and the sender has it if it is sent.*)
Repeatable(F, out, last, t) ==
  /\ Len(F) <= 1
  /\ F # <<>> /\ t.step = "idle" => out = F[1][1] /\ last = LastSent(F[1][2])

AllUnknown(d, L) == \A p \in 0..Len(L) : d[p].in = None

Untold(u, t) == u.esc => t.step = "flip"

(* The one character on the line is of a service that the receiver does    *)
(* not know.                                                               *)
Unplaced(in, esc, L, F, out, last, t) ==
  /\ Repeatable(F, out, last, t)
  /\ \E d : /\ Reading(d, in, esc, L) /\ Matches(d, L, F) /\ AllUnknown(d, L)
            /\ Counted(d[Len(L)], F, t) /\ Untold(d[Len(L)], t)

(* The receiver has asked for it.                                          *)
Asked(in, esc, L, F, out, last, t) ==
  /\ in = None /\ ~ esc /\ \A p \in 1..Len(L) : L[p] = FORCE
  /\ Len(F) = 1 /\ t.step = "idle" /\ out = F[1][1] /\ last = LastSent(F[1][2])

(* The decoder goes on by a byte.                                          *)
Longer(d, m, u) == [p \in 0..m + 1 |-> IF p <= m THEN d[p] ELSE u]

LEMMA ReadOn ==
  ASSUME NEW in, NEW esc, NEW L \in Seq(Byte), NEW b \in Byte, NEW d,
         Reading(d, in, esc, L), NEW u \in Decoder, Follows(d[Len(L)], b, u)
  PROVE  Reading(Longer(d, Len(L), u), in, esc, Append(L, b))
  <1> DEFINE m == Len(L)
             D == Longer(d, m, u)
             K == Append(L, b)
  <1>1. m \in Nat /\ Len(K) = m + 1 /\ K[m + 1] = b /\ \A p \in 1..m : K[p] = L[p]
    BY AppendFacts
  <1>2. D \in [0..m + 1 -> Decoder] /\ D[m + 1] = u /\ \A p \in 0..m : D[p] = d[p]
    BY <1>1 DEF Longer, Reading
  <1>3. \A p \in 1..m + 1 : Follows(D[p - 1], K[p], D[p])
    <2> TAKE p \in 1..m + 1
    <2>1. CASE p = m + 1
      BY <1>1, <1>2, <2>1
    <2>2. CASE p \in 1..m
      <3>1. p - 1 \in 0..m /\ p \in 0..m
        BY <1>1, <2>2
      <3> QED BY <1>1, <1>2, <2>2, <3>1 DEF Reading
    <2> QED BY <1>1, <2>1, <2>2
  <1>4. /\ d[m].n <= u.n /\ (d[m].esc /\ ~ u.esc => d[m].n < u.n)
        /\ d[m] \in Decoder
    BY <1>1 DEF Follows, Reading, Decoder
  <1>5. \A p \in 0..m + 1, q \in 0..m + 1 :
          p <= q => D[p].n <= D[q].n /\ (D[p].esc /\ ~ D[q].esc => D[p].n < D[q].n)
    <2> TAKE p \in 0..m + 1, q \in 0..m + 1
    <2> HAVE p <= q
    <2>1. CASE q \in 0..m
      <3>1. p \in 0..m
        BY <1>1, <2>1
      <3> QED BY <1>2, <2>1, <3>1 DEF Reading
    <2>2. CASE q = m + 1 /\ p \in 0..m
      <3>1. d[p].n <= d[m].n /\ (d[p].esc /\ ~ d[m].esc => d[p].n < d[m].n) /\ d[p] \in Decoder
        BY <1>1, <2>2 DEF Reading
      <3> QED BY <1>2, <1>4, <2>2, <3>1 DEF Decoder
    <2>3. CASE q = m + 1 /\ p = m + 1
      BY <1>2, <2>3 DEF Decoder
    <2> QED BY <1>1, <2>1, <2>2, <2>3
  <1> HIDE DEF D, K, m
  <1>6. D[0].in = in /\ D[0].esc = esc /\ D[0].n = 0
    BY <1>1, <1>2 DEF Reading, m
  <1>7. Reading(D, in, esc, K)
    BY <1>1, <1>2, <1>3, <1>5, <1>6 DEF Reading
  <1> QED BY <1>7 DEF D, K, m

LEMMA MatchOn ==
  ASSUME NEW in, NEW esc, NEW L \in Seq(Byte), NEW b \in Byte, NEW d, NEW u, NEW F,
         Reading(d, in, esc, L), Matches(d, L, F), Fits(u, F), Sound(d[Len(L)], b, u, F)
  PROVE  /\ Matches(Longer(d, Len(L), u), Append(L, b), F)
         /\ Longer(d, Len(L), u)[Len(Append(L, b))] = u
         /\ AllPlaced(d, L, F) /\ Placed(d[Len(L)], b, u, F)
              => AllPlaced(Longer(d, Len(L), u), Append(L, b), F)
         /\ AllUnknown(d, L) /\ u.in = None
              => AllUnknown(Longer(d, Len(L), u), Append(L, b))
  <1> DEFINE m == Len(L)
             D == Longer(d, m, u)
             K == Append(L, b)
  <1>1. m \in Nat /\ Len(K) = m + 1 /\ K[m + 1] = b /\ \A p \in 1..m : K[p] = L[p]
    BY AppendFacts
  <1>2. D[m + 1] = u /\ \A p \in 0..m : D[p] = d[p]
    BY <1>1 DEF Longer
  <1> HIDE DEF D, K, m
  <1>3. \A p \in 1..m + 1 : \/ p = m + 1 /\ p - 1 = m
                            \/ p \in 1..m /\ p \in 0..m /\ p - 1 \in 0..m
    BY <1>1
  <1>4. \A p \in 0..m + 1 : p = m + 1 \/ p \in 0..m
    BY <1>1
  <1>5. m \in 0..m
    BY <1>1
  <1>6. \A p \in 0..m + 1 : Fits(D[p], F)
    BY <1>2, <1>4 DEF Matches, m
  <1>7. \A p \in 1..m + 1 : Sound(D[p - 1], K[p], D[p], F)
    BY <1>1, <1>2, <1>3, <1>5 DEF Matches, m
  <1>8. Matches(D, K, F)
    BY <1>1, <1>6, <1>7 DEF Matches
  <1>9. ASSUME AllPlaced(d, L, F), Placed(d[m], b, u, F) PROVE AllPlaced(D, K, F)
    BY <1>1, <1>2, <1>3, <1>5, <1>9 DEF AllPlaced, m
  <1>10. ASSUME AllUnknown(d, L), u.in = None PROVE AllUnknown(D, K)
    BY <1>1, <1>2, <1>4, <1>10 DEF AllUnknown, m
  <1> QED BY <1>1, <1>2, <1>8, <1>9, <1>10 DEF D, K, m

(* One more character does not change which ones are on the line.          *)
LEMMA MatchMore ==
  ASSUME NEW in, NEW esc, NEW L \in Seq(Byte), NEW d, NEW F \in Flights,
         NEW x \in Bufs \X Chars, Reading(d, in, esc, L), Matches(d, L, F)
  PROVE  /\ Matches(d, L, Append(F, x))
         /\ AllPlaced(d, L, F) => AllPlaced(d, L, Append(F, x))
  <1> DEFINE G == Append(F, x)
  <1>1. Len(F) \in Nat /\ Len(G) = Len(F) + 1 /\ \A k \in 1..Len(F) : G[k] = F[k]
    BY AppendFacts DEF Flights
  <1> HIDE DEF G
  <1>2. \A p \in 0..Len(L) : d[p] \in Decoder /\ d[p].n \in Nat
    BY DEF Reading, Decoder
  <1>3. \A p \in 0..Len(L) : Fits(d[p], G)
    <2> TAKE p \in 0..Len(L)
    <2>1. Fits(d[p], F)
      BY DEF Matches
    <2>2. ASSUME d[p].n < Len(F) PROVE G[d[p].n + 1] = F[d[p].n + 1]
      <3>1. d[p].n + 1 \in 1..Len(F)
        BY <1>1, <1>2, <2>2
      <3> QED BY <1>1, <3>1
    <2> QED BY <1>1, <1>2, <2>1, <2>2 DEF Fits
  <1>4. ASSUME NEW p \in 1..Len(L)
        PROVE  /\ p - 1 \in 0..Len(L) /\ p \in 0..Len(L)
               /\ ~ Special(L[p]) => G[d[p].n] = F[d[p].n]
    <2>1. p - 1 \in 0..Len(L) /\ p \in 0..Len(L)
      OBVIOUS
    <2>2. Follows(d[p - 1], L[p], d[p]) /\ d[p].n <= Len(F)
      BY <2>1 DEF Reading, Matches, Fits
    <2>3. ~ Special(L[p]) => d[p].n \in 1..Len(F)
      BY <1>1, <1>2, <2>1, <2>2 DEF Follows
    <2> QED BY <1>1, <2>1, <2>3
  <1>5. \A p \in 1..Len(L) : Sound(d[p - 1], L[p], d[p], G)
    <2> TAKE p \in 1..Len(L)
    <2>1. Sound(d[p - 1], L[p], d[p], F)
      BY DEF Matches
    <2> QED BY <1>1, <1>2, <1>4, <2>1 DEF Sound
  <1>6. AllPlaced(d, L, F) => AllPlaced(d, L, G)
    BY <1>4 DEF AllPlaced, Placed
  <1>7. Matches(d, L, G)
    BY <1>3, <1>5 DEF Matches
  <1> QED BY <1>6, <1>7 DEF G

(* The decoder at the end of the line.                                     *)
LEMMA LineEnd ==
  ASSUME NEW in, NEW esc, NEW L \in Seq(Byte), NEW d, NEW F \in Flights,
         Reading(d, in, esc, L), Matches(d, L, F)
  PROVE  /\ Len(L) \in 0..Len(L) /\ 0 \in 0..Len(L) /\ Len(F) \in Nat
         /\ d[Len(L)] \in Decoder /\ Fits(d[Len(L)], F)
  BY DEF Reading, Matches, Flights

LEMMA CodedOn ==
  ASSUME NEW in, NEW esc, NEW L \in Seq(Byte), NEW b \in Byte, NEW d, NEW z \in Decoder,
         NEW F \in Flights, NEW out, NEW t,
         Reading(d, in, esc, L), Matches(d, L, F), AllPlaced(d, L, F),
         Follows(d[Len(L)], b, z), Fits(z, F), Sound(d[Len(L)], b, z, F),
         Placed(d[Len(L)], b, z, F), Counted(z, F, t), Told(z, out, t)
  PROVE  Coded(in, esc, Append(L, b), F, out, t)
  <1> DEFINE D == Longer(d, Len(L), z)
  <1>1. Reading(D, in, esc, Append(L, b))
    BY ReadOn
  <1>2. /\ Matches(D, Append(L, b), F) /\ AllPlaced(D, Append(L, b), F)
        /\ D[Len(Append(L, b))] = z
    BY MatchOn
  <1> HIDE DEF D
  <1> QED BY <1>1, <1>2 DEF Coded

-----------------------------------------------------------------------------
(* A send, step by step, to a receiver that can place what it gets         *)

LEMMA CodedStart ==
  ASSUME NEW in, NEW esc, NEW L \in Seq(Byte), NEW F \in Flights, NEW out, NEW t, NEW u,
         NEW s \in Bufs, NEW c \in Chars, Coded(in, esc, L, F, out, t), t.step = "idle",
         u.step = "id", u.s = s, u.c = c
  PROVE  Coded(in, esc, L, Append(F, <<s, c>>), out, u)
  <1>1. PICK d : /\ Reading(d, in, esc, L) /\ Matches(d, L, F) /\ AllPlaced(d, L, F)
                 /\ Counted(d[Len(L)], F, t) /\ Told(d[Len(L)], out, t)
    BY DEF Coded
  <1>2. <<s, c>> \in Bufs \X Chars
    OBVIOUS
  <1>3. /\ Matches(d, L, Append(F, <<s, c>>)) /\ AllPlaced(d, L, Append(F, <<s, c>>))
    BY <1>1, <1>2, MatchMore
  <1>4. Counted(d[Len(L)], Append(F, <<s, c>>), u)
    <2>1. Len(Append(F, <<s, c>>)) = Len(F) + 1 /\ Append(F, <<s, c>>)[Len(F) + 1] = <<s, c>>
      BY <1>2, AppendFacts DEF Flights
    <2>2. d[Len(L)].n = Len(F)
      BY <1>1 DEF Counted
    <2> QED BY <2>1, <2>2 DEF Counted
  <1>5. Told(d[Len(L)], out, u)
    BY <1>1 DEF Told
  <1> QED BY <1>1, <1>3, <1>4, <1>5 DEF Coded

LEMMA CodedId ==
  ASSUME NEW in, NEW esc, NEW L \in Seq(Byte), NEW F \in Flights, NEW out, NEW t, NEW u,
         Coded(in, esc, L, F, out, t), t.step = "id", t.s \in Bufs,
         u.step = "data", u.s = t.s, u.c = t.c
  PROVE  /\ t.s = out => Coded(in, esc, L, F, out, u)
         /\ Coded(in, esc, Append(L, Id(t.s)), F, out, u)
  <1>1. PICK d : /\ Reading(d, in, esc, L) /\ Matches(d, L, F) /\ AllPlaced(d, L, F)
                 /\ Counted(d[Len(L)], F, t) /\ Told(d[Len(L)], out, t)
    BY DEF Coded
  <1>2. /\ Counted(d[Len(L)], F, u) /\ d[Len(L)].n < Len(F) /\ ~ d[Len(L)].esc
        /\ d[Len(L)] \in Decoder /\ Fits(d[Len(L)], F)
    BY <1>1, LineEnd DEF Counted, Told, Decoder
  <1>3. ASSUME t.s = out PROVE Coded(in, esc, L, F, out, u)
    <2>1. Told(d[Len(L)], out, u)
      BY <1>1, <1>3, SpecialBytes DEF Told
    <2> QED BY <1>1, <1>2, <2>1 DEF Coded
  <1>4. Coded(in, esc, Append(L, Id(t.s)), F, out, u)
    <2> DEFINE z == [in |-> t.s, esc |-> FALSE, n |-> d[Len(L)].n]
    <2>1. z \in Decoder /\ z.in = t.s /\ z.esc = FALSE /\ z.n = d[Len(L)].n
      BY <1>2 DEF Decoder
    <2> HIDE DEF z
    <2>2. Follows(d[Len(L)], Id(t.s), z)
      BY <1>2, <2>1, SpecialBytes DEF Follows
    <2>5. Fits(z, F) /\ Sound(d[Len(L)], Id(t.s), z, F) /\ Placed(d[Len(L)], Id(t.s), z, F)
      BY <1>2, <2>1, SpecialBytes DEF Fits, Sound, Placed
    <2>3. Counted(z, F, u) /\ Told(z, out, u)
      BY <1>2, <2>1 DEF Counted, Told
    <2>4. Id(t.s) \in Byte
      BY SpecialBytes
    <2> QED BY <1>1, <2>1, <2>2, <2>3, <2>4, <2>5, CodedOn
  <1> QED BY <1>3, <1>4

LEMMA CodedEsc ==
  ASSUME NEW in, NEW esc, NEW L \in Seq(Byte), NEW F \in Flights, NEW out, NEW t, NEW u,
         Coded(in, esc, L, F, out, t), t.step = "data", Special(t.c),
         u.step = "flip", u.s = t.s, u.c = t.c
  PROVE  Coded(in, esc, Append(L, ESC), F, out, u)
  <1>1. PICK d : /\ Reading(d, in, esc, L) /\ Matches(d, L, F) /\ AllPlaced(d, L, F)
                 /\ Counted(d[Len(L)], F, t) /\ Told(d[Len(L)], out, t)
    BY DEF Coded
  <1>2. /\ d[Len(L)].n + 1 = Len(F) /\ F[Len(F)] = <<t.s, t.c>> /\ d[Len(L)].in = t.s
        /\ d[Len(L)] \in Decoder
    BY <1>1, LineEnd DEF Counted, Told
  <1> DEFINE z == [in |-> t.s, esc |-> TRUE, n |-> d[Len(L)].n]
  <1>3. z \in Decoder /\ z.in = t.s /\ z.esc = TRUE /\ z.n = d[Len(L)].n /\ z.n \in Nat
    BY <1>2 DEF Decoder
  <1> HIDE DEF z
  <1>4. /\ Follows(d[Len(L)], ESC, z)
        /\ Sound(d[Len(L)], ESC, z, F) /\ Placed(d[Len(L)], ESC, z, F)
    BY <1>2, <1>3, SpecialBytes DEF Follows, Sound, Placed
  <1>5. Fits(z, F) /\ Counted(z, F, u) /\ Told(z, out, u)
    BY <1>2, <1>3, LineEnd DEF Fits, Counted, Told
  <1> QED BY <1>1, <1>3, <1>4, <1>5, SpecialBytes, CodedOn

(* The character itself, after its escape if it needs one.                 *)
LEMMA CodedData ==
  ASSUME NEW in, NEW esc, NEW L \in Seq(Byte), NEW F \in Flights, NEW out, NEW t, NEW u,
         Coded(in, esc, L, F, out, t), t.s \in Bufs, t.c \in Byte,
         t.step = (IF Special(t.c) THEN "flip" ELSE "data"), u.step = "idle"
  PROVE  Coded(in, esc, Append(L, Enc(t.c)), F, t.s, u)
  <1>1. PICK d : /\ Reading(d, in, esc, L) /\ Matches(d, L, F) /\ AllPlaced(d, L, F)
                 /\ Counted(d[Len(L)], F, t) /\ Told(d[Len(L)], out, t)
    BY DEF Coded
  <1>2. /\ d[Len(L)].n + 1 = Len(F) /\ F[Len(F)] = <<t.s, t.c>> /\ d[Len(L)].in = t.s
        /\ d[Len(L)] \in Decoder /\ (d[Len(L)].esc <=> Special(t.c)) /\ Len(F) \in Nat
    <2>1. t.step \in {"data", "flip"} /\ (t.step = "flip" <=> Special(t.c))
      BY DEF Special, IsId
    <2> QED BY <1>1, <2>1, LineEnd DEF Counted, Told
  <1> DEFINE z == [in |-> t.s, esc |-> FALSE, n |-> Len(F)]
  <1>3. z \in Decoder /\ z.in = t.s /\ z.esc = FALSE /\ z.n = Len(F)
    BY <1>2 DEF Decoder
  <1> HIDE DEF z
  <1>4. Enc(t.c) \in Byte /\ ~ Special(Enc(t.c)) /\ ~ IsId(Enc(t.c)) /\ Enc(t.c) # ESC
    BY Encoded DEF Special
  <1>5. /\ Follows(d[Len(L)], Enc(t.c), z)
        /\ Sound(d[Len(L)], Enc(t.c), z, F) /\ Placed(d[Len(L)], Enc(t.c), z, F)
    BY <1>2, <1>3, <1>4 DEF Follows, Sound, Placed
  <1>6. Fits(z, F) /\ Counted(z, F, u) /\ Told(z, t.s, u)
    BY <1>2, <1>3 DEF Fits, Counted, Told
  <1> QED BY <1>1, <1>3, <1>4, <1>5, <1>6, CodedOn

(* A request of the other direction changes nothing.                       *)
LEMMA CodedForce ==
  ASSUME NEW in, NEW esc, NEW L \in Seq(Byte), NEW F \in Flights, NEW out, NEW t,
         Coded(in, esc, L, F, out, t)
  PROVE  Coded(in, esc, Append(L, FORCE), F, out, t)
  <1>1. PICK d : /\ Reading(d, in, esc, L) /\ Matches(d, L, F) /\ AllPlaced(d, L, F)
                 /\ Counted(d[Len(L)], F, t) /\ Told(d[Len(L)], out, t)
    BY DEF Coded
  <1> DEFINE z == d[Len(L)]
  <1>2. z \in Decoder /\ Fits(z, F)
    BY <1>1, LineEnd
  <1>3. Follows(z, FORCE, z) /\ Sound(z, FORCE, z, F) /\ Placed(z, FORCE, z, F)
    BY <1>2, SpecialBytes DEF Follows, Sound, Placed, Decoder
  <1> QED BY <1>1, <1>2, <1>3, SpecialBytes, CodedOn

-----------------------------------------------------------------------------
(* A send to a receiver that does not know the service                     *)

LEMMA UnplacedOn ==
  ASSUME NEW in, NEW esc, NEW L \in Seq(Byte), NEW b \in Byte, NEW d, NEW z \in Decoder,
         NEW F \in Flights, NEW out, NEW last, NEW t,
         Reading(d, in, esc, L), Matches(d, L, F), AllUnknown(d, L),
         Follows(d[Len(L)], b, z), Fits(z, F), Sound(d[Len(L)], b, z, F), z.in = None,
         Counted(z, F, t), Untold(z, t), Repeatable(F, out, last, t)
  PROVE  Unplaced(in, esc, Append(L, b), F, out, last, t)
  <1> DEFINE D == Longer(d, Len(L), z)
             K == Append(L, b)
  <1>1. Reading(D, in, esc, K)
    BY ReadOn
  <1>2. Matches(D, K, F) /\ D[Len(K)] = z /\ AllUnknown(D, K)
    BY MatchOn
  <1> HIDE DEF D, K
  <1>3. Unplaced(in, esc, K, F, out, last, t)
    BY <1>1, <1>2 DEF Unplaced
  <1> QED BY <1>3 DEF K

LEMMA UnplacedStart ==
  ASSUME NEW in, NEW esc, NEW L \in Seq(Byte), NEW out, NEW last, NEW t, NEW u,
         NEW F \in Flights, NEW s \in Bufs, NEW c \in Chars,
         Unplaced(in, esc, L, F, out, last, t), F = <<>>, t.step = "idle",
         u.step = "id", u.s = s, u.c = c
  PROVE  Unplaced(in, esc, L, Append(F, <<s, c>>), out, last, u)
  <1>1. PICK d : /\ Reading(d, in, esc, L) /\ Matches(d, L, F) /\ AllUnknown(d, L)
                 /\ Counted(d[Len(L)], F, t) /\ Untold(d[Len(L)], t)
    BY DEF Unplaced
  <1> DEFINE G == Append(F, <<s, c>>)
  <1>2. <<s, c>> \in Bufs \X Chars
    OBVIOUS
  <1>3. Len(F) = 0 /\ Len(G) = Len(F) + 1 /\ G[Len(F) + 1] = <<s, c>>
    BY <1>2, AppendFacts DEF Flights
  <1>6. Matches(d, L, G)
    BY <1>1, <1>2, MatchMore
  <1> HIDE DEF G
  <1>4. Counted(d[Len(L)], G, u)
    BY <1>1, <1>3 DEF Counted
  <1>5. Unplaced(in, esc, L, G, out, last, u)
    BY <1>1, <1>3, <1>4, <1>6 DEF Unplaced, Untold, Repeatable
  <1> QED BY <1>5 DEF G

(* As long as the character is not on the line, the identifier of its      *)
(* service would do.                                                       *)
LEMMA UnplacedFresh ==
  ASSUME NEW in, NEW esc, NEW L \in Seq(Byte), NEW F \in Flights, NEW out, NEW last, NEW t,
         Unplaced(in, esc, L, F, out, last, t), t.step = "idle" => F = <<>>,
         t.step \in {"idle", "id"}
  PROVE  Coded(in, esc, L, F, None, t)
  <1>1. PICK d : /\ Reading(d, in, esc, L) /\ Matches(d, L, F) /\ AllUnknown(d, L)
                 /\ Counted(d[Len(L)], F, t) /\ Untold(d[Len(L)], t)
    BY DEF Unplaced
  <1>2. d[Len(L)].n = 0 /\ Len(L) \in 0..Len(L)
    BY <1>1, LineEnd DEF Counted, Unplaced, Repeatable, Decoder
  <1>3. \A p \in 1..Len(L) : Special(L[p])
    <2> SUFFICES ASSUME NEW p \in 1..Len(L), ~ Special(L[p]) PROVE FALSE
      OBVIOUS
    <2>1. p \in 0..Len(L) /\ p - 1 \in 0..Len(L) /\ p <= Len(L)
      OBVIOUS
    <2>2. d[p] \in Decoder /\ d[p - 1] \in Decoder /\ d[p].n = d[p - 1].n + 1
      BY <1>1, <2>1 DEF Reading, Follows
    <2>3. d[p].n <= d[Len(L)].n
      BY <1>1, <1>2, <2>1 DEF Reading
    <2> QED BY <1>2, <2>2, <2>3 DEF Decoder
  <1>4. AllPlaced(d, L, F)
    BY <1>3 DEF AllPlaced, Placed
  <1>5. Told(d[Len(L)], None, t)
    BY <1>1 DEF Told, Untold
  <1> QED BY <1>1, <1>4, <1>5 DEF Coded

LEMMA UnplacedId ==
  ASSUME NEW in, NEW esc, NEW L \in Seq(Byte), NEW F \in Flights, NEW out, NEW last, NEW t,
         NEW u, Unplaced(in, esc, L, F, out, last, t), t.step = "id", t.s \in Bufs,
         u.step = "data", u.s = t.s, u.c = t.c
  PROVE  /\ Unplaced(in, esc, L, F, out, last, u)
         /\ Coded(in, esc, Append(L, Id(t.s)), F, out, u)
  <1>1. Unplaced(in, esc, L, F, out, last, u)
    <2>1. PICK d : /\ Reading(d, in, esc, L) /\ Matches(d, L, F) /\ AllUnknown(d, L)
                   /\ Counted(d[Len(L)], F, t) /\ Untold(d[Len(L)], t)
      BY DEF Unplaced
    <2>2. Counted(d[Len(L)], F, u) /\ Untold(d[Len(L)], u) /\ Repeatable(F, out, last, u)
      BY <2>1 DEF Counted, Untold, Repeatable, Unplaced
    <2> QED BY <2>1, <2>2 DEF Unplaced
  <1>2. Coded(in, esc, L, F, None, t)
    BY UnplacedFresh
  <1>3. Coded(in, esc, Append(L, Id(t.s)), F, None, u)
    BY <1>2, CodedId
  <1>4. Coded(in, esc, Append(L, Id(t.s)), F, out, u)
    BY <1>3 DEF Coded, Told
  <1> QED BY <1>1, <1>4

LEMMA UnplacedEsc ==
  ASSUME NEW in, NEW esc, NEW L \in Seq(Byte), NEW F \in Flights, NEW out, NEW last, NEW new,
         NEW t, NEW u, Unplaced(in, esc, L, F, out, last, t), t.step = "data", Special(t.c),
         u.step = "flip", u.s = t.s, u.c = t.c
  PROVE  Unplaced(in, esc, Append(L, ESC), F, out, new, u)
  <1>1. PICK d : /\ Reading(d, in, esc, L) /\ Matches(d, L, F) /\ AllUnknown(d, L)
                 /\ Counted(d[Len(L)], F, t) /\ Untold(d[Len(L)], t)
    BY DEF Unplaced
  <1>2. /\ d[Len(L)].n + 1 = Len(F) /\ F[Len(F)] = <<t.s, t.c>> /\ d[Len(L)].in = None
        /\ d[Len(L)] \in Decoder /\ Len(F) <= 1 /\ Len(F) \in Nat
    BY <1>1, LineEnd DEF Counted, Unplaced, Repeatable, AllUnknown
  <1> DEFINE z == [in |-> None, esc |-> TRUE, n |-> d[Len(L)].n]
  <1>3. z \in Decoder /\ z.in = None /\ z.esc = TRUE /\ z.n = d[Len(L)].n /\ z.n \in Nat
    BY <1>2 DEF Decoder
  <1> HIDE DEF z
  <1>4. Follows(d[Len(L)], ESC, z) /\ Sound(d[Len(L)], ESC, z, F)
    BY <1>2, <1>3, SpecialBytes DEF Follows, Sound
  <1>5. Fits(z, F) /\ Counted(z, F, u) /\ Untold(z, u) /\ Repeatable(F, out, new, u)
    BY <1>2, <1>3 DEF Fits, Counted, Untold, Repeatable
  <1>6. ESC \in Byte
    BY SpecialBytes
  <1> QED BY <1>1, <1>2, <1>3, <1>4, <1>5, <1>6, UnplacedOn

LEMMA UnplacedData ==
  ASSUME NEW in, NEW esc, NEW L \in Seq(Byte), NEW F \in Flights, NEW out, NEW last,
         NEW t, NEW u, Unplaced(in, esc, L, F, out, last, t), t.s \in Bufs, t.c \in Byte,
         t.step \in {"data", "flip"}, u.step = "idle"
  PROVE  Unplaced(in, esc, Append(L, Enc(t.c)), F, t.s, LastSent(t.c), u)
  <1>1. PICK d : /\ Reading(d, in, esc, L) /\ Matches(d, L, F) /\ AllUnknown(d, L)
                 /\ Counted(d[Len(L)], F, t) /\ Untold(d[Len(L)], t)
    BY DEF Unplaced
  <1>2. /\ d[Len(L)].n + 1 = Len(F) /\ F[Len(F)] = <<t.s, t.c>> /\ d[Len(L)].in = None
        /\ d[Len(L)] \in Decoder /\ Len(F) <= 1 /\ Len(F) \in Nat
    BY <1>1, LineEnd DEF Counted, Unplaced, Repeatable, AllUnknown
  <1>3. Len(F) = 1 /\ F[1][1] = t.s /\ F[1][2] = t.c
    <2>1. d[Len(L)].n \in Nat
      BY <1>2 DEF Decoder
    <2>3. Len(F) # 0
      BY <1>2, <2>1
    <2>2. Len(F) = 1
      BY <1>2, <2>3, AtMostOne
    <2> QED BY <1>2, <2>2
  <1> DEFINE z == [in |-> None, esc |-> FALSE, n |-> Len(F)]
  <1>4. z \in Decoder /\ z.in = None /\ z.esc = FALSE /\ z.n = Len(F)
    BY <1>2 DEF Decoder
  <1> HIDE DEF z
  <1>5. Enc(t.c) \in Byte /\ ~ Special(Enc(t.c)) /\ ~ IsId(Enc(t.c)) /\ Enc(t.c) # ESC
    BY Encoded DEF Special
  <1>6. Follows(d[Len(L)], Enc(t.c), z) /\ Sound(d[Len(L)], Enc(t.c), z, F)
    BY <1>2, <1>4, <1>5 DEF Follows, Sound
  <1>7. /\ Fits(z, F) /\ Counted(z, F, u) /\ Untold(z, u)
        /\ Repeatable(F, t.s, LastSent(t.c), u)
    BY <1>2, <1>3, <1>4 DEF Fits, Counted, Untold, Repeatable
  <1> QED BY <1>1, <1>2, <1>3, <1>4, <1>5, <1>6, <1>7, UnplacedOn

LEMMA UnplacedForce ==
  ASSUME NEW in, NEW esc, NEW L \in Seq(Byte), NEW F \in Flights, NEW out, NEW last, NEW t,
         Unplaced(in, esc, L, F, out, last, t)
  PROVE  Unplaced(in, esc, Append(L, FORCE), F, out, last, t)
  <1>1. PICK d : /\ Reading(d, in, esc, L) /\ Matches(d, L, F) /\ AllUnknown(d, L)
                 /\ Counted(d[Len(L)], F, t) /\ Untold(d[Len(L)], t)
    BY DEF Unplaced
  <1> DEFINE z == d[Len(L)]
  <1>2. z \in Decoder /\ Fits(z, F) /\ z.in = None
    BY <1>1, LineEnd DEF AllUnknown
  <1>3. Follows(z, FORCE, z) /\ Sound(z, FORCE, z, F)
    BY <1>2, SpecialBytes DEF Follows, Sound, Decoder
  <1>4. FORCE \in Byte /\ Repeatable(F, out, last, t)
    BY SpecialBytes DEF Unplaced
  <1> QED BY <1>1, <1>2, <1>3, <1>4, UnplacedOn

-----------------------------------------------------------------------------
(* The receiver takes a byte off the line                                  *)

(* The way of the decoder after its first step.                            *)
Shorter(d, m) ==
  [p \in 0..m - 1 |-> [in |-> d[p + 1].in, esc |-> d[p + 1].esc, n |-> d[p + 1].n - d[1].n]]

LEMMA ReadTail ==
  ASSUME NEW in, NEW esc, NEW L \in Seq(Byte), L # <<>>, NEW d, Reading(d, in, esc, L)
  PROVE  /\ Reading(Shorter(d, Len(L)), d[1].in, d[1].esc, Tail(L))
         /\ \A p \in 0..Len(L) - 1 :
              /\ Shorter(d, Len(L))[p].in = d[p + 1].in
              /\ Shorter(d, Len(L))[p].esc = d[p + 1].esc
              /\ Shorter(d, Len(L))[p].n = d[p + 1].n - d[1].n
         /\ Follows(d[0], L[1], d[1])
         /\ \A p \in 0..Len(L) : d[p] \in Decoder /\ d[p].n \in Nat /\ (p >= 1 => d[1].n <= d[p].n)
  <1> DEFINE m == Len(L)
             D == Shorter(d, m)
             K == Tail(L)
  <1>1. /\ m \in Nat /\ m >= 1 /\ Len(K) = m - 1
        /\ \A p \in 1..m - 1 : K[p] = L[p + 1]
    BY TailFacts
  <1>2. \A p \in 0..m : d[p] \in Decoder /\ d[p].n \in Nat /\ (p >= 1 => d[1].n <= d[p].n)
    <2>1. 1 \in 0..m
      BY <1>1
    <2> QED BY <2>1 DEF Reading, Decoder
  <1>3. \A p \in 0..m - 1 : /\ D[p].in = d[p + 1].in /\ D[p].esc = d[p + 1].esc
                            /\ D[p].n = d[p + 1].n - d[1].n
    BY <1>1 DEF Shorter
  <1>4. \A p \in 0..m - 1 : p + 1 \in 0..m /\ p + 1 >= 1
    BY <1>1
  <1>5. D \in [0..m - 1 -> Decoder]
    <2>1. ASSUME NEW p \in 0..m - 1
          PROVE  [in |-> d[p + 1].in, esc |-> d[p + 1].esc, n |-> d[p + 1].n - d[1].n] \in Decoder
      <3>1. d[p + 1] \in Decoder /\ d[p + 1].n - d[1].n \in Nat
        BY <1>1, <1>2, <1>4
      <3> QED BY <3>1 DEF Decoder
    <2> QED BY <2>1 DEF Shorter
  <1> HIDE DEF D, K, m
  <1>6. ASSUME NEW p \in 1..m - 1 PROVE Follows(D[p - 1], K[p], D[p])
    <2>1. /\ p - 1 \in 0..m - 1 /\ p \in 0..m - 1 /\ p + 1 \in 1..m /\ (p - 1) + 1 = p
          /\ p \in 0..m /\ p + 1 \in 0..m /\ 1 \in 0..m /\ (p + 1) - 1 = p
      BY <1>1
    <2>2. Follows(d[p], L[p + 1], d[p + 1])
      BY <2>1 DEF Reading, m
    <2>3. /\ D[p - 1].in = d[p].in /\ D[p - 1].esc = d[p].esc /\ D[p - 1].n = d[p].n - d[1].n
          /\ D[p].in = d[p + 1].in /\ D[p].esc = d[p + 1].esc
          /\ D[p].n = d[p + 1].n - d[1].n /\ K[p] = L[p + 1]
      BY <1>1, <1>3, <2>1
    <2>4. d[p].n \in Nat /\ d[p + 1].n \in Nat /\ d[1].n \in Nat
      BY <1>2, <2>1
    <2> QED BY <2>2, <2>3, <2>4 DEF Follows
  <1>7. ASSUME NEW p \in 0..m - 1, NEW q \in 0..m - 1, p <= q
        PROVE  D[p].n <= D[q].n /\ (D[p].esc /\ ~ D[q].esc => D[p].n < D[q].n)
    <2>1. p + 1 \in 0..m /\ q + 1 \in 0..m /\ p + 1 <= q + 1 /\ 1 \in 0..m
      BY <1>1, <1>7
    <2>2. d[p + 1].n <= d[q + 1].n /\ (d[p + 1].esc /\ ~ d[q + 1].esc => d[p + 1].n < d[q + 1].n)
      BY <2>1 DEF Reading, m
    <2>3. d[p + 1].n \in Nat /\ d[q + 1].n \in Nat /\ d[1].n \in Nat
      BY <1>2, <2>1
    <2> QED BY <1>3, <2>2, <2>3
  <1>8. D[0].in = d[1].in /\ D[0].esc = d[1].esc /\ D[0].n = 0
    <2>1. 0 \in 0..m - 1 /\ 0 + 1 = 1 /\ 1 \in 0..m
      BY <1>1
    <2> QED BY <1>2, <1>3, <2>1
  <1>9. Reading(D, d[1].in, d[1].esc, K)
    BY <1>1, <1>5, <1>6, <1>7, <1>8 DEF Reading
  <1>10. Follows(d[0], L[1], d[1])
    <2>1. 1 \in 1..m /\ 1 - 1 = 0
      BY <1>1
    <2> QED BY <2>1 DEF Reading, m
  <1> QED BY <1>2, <1>3, <1>9, <1>10 DEF D, K, m

(* G is what is left of F when the first step has taken its character.     *)
(* A place beyond the first o is o places nearer without them.             *)
LEMMA Moved ==
  ASSUME NEW o \in Nat, NEW k \in Nat, NEW l \in Nat, o < k, k <= l
  PROVE  k - o \in 1..l - o /\ (k - o) + o = k
  OBVIOUS

LEMMA MatchTail ==
  ASSUME NEW in, NEW esc, NEW L \in Seq(Byte), L # <<>>, NEW d, NEW F \in Flights,
         NEW G \in Flights, Reading(d, in, esc, L), Matches(d, L, F),
         Len(G) = Len(F) - d[1].n, \A k \in 1..Len(G) : G[k] = F[k + d[1].n]
  PROVE  /\ Matches(Shorter(d, Len(L)), Tail(L), G)
         /\ AllPlaced(d, L, F) => AllPlaced(Shorter(d, Len(L)), Tail(L), G)
         /\ AllUnknown(d, L) => AllUnknown(Shorter(d, Len(L)), Tail(L))
  <1> DEFINE m == Len(L)
             D == Shorter(d, m)
             K == Tail(L)
             o == d[1].n
  <1>1. /\ m \in Nat /\ m >= 1 /\ Len(K) = m - 1
        /\ \A p \in 1..m - 1 : K[p] = L[p + 1]
    BY TailFacts
  <1>10. \A p \in 0..m : d[p].n \in Nat /\ (p >= 1 => o <= d[p].n)
    BY ReadTail
  <1>11. \A p \in 0..m - 1 : /\ D[p].in = d[p + 1].in /\ D[p].esc = d[p + 1].esc
                             /\ D[p].n = d[p + 1].n - o
    BY ReadTail
  <1>2. /\ \A p \in 0..m : d[p].n \in Nat /\ (p >= 1 => o <= d[p].n)
        /\ \A p \in 0..m - 1 : /\ D[p].in = d[p + 1].in /\ D[p].esc = d[p + 1].esc
                               /\ D[p].n = d[p + 1].n - o
    BY <1>10, <1>11
  <1>3. o \in Nat /\ Len(F) \in Nat /\ Len(G) \in Nat
    BY <1>1, <1>2 DEF Flights
  <1>12. Len(G) = Len(F) - o /\ \A k \in 1..Len(G) : G[k] = F[k + o]
    OBVIOUS
  <1> HIDE DEF D, K, m, o
  <1>4. ASSUME NEW p \in 0..m - 1
        PROVE  p + 1 \in 0..m /\ Fits(D[p], G)
    <2>1. p + 1 \in 0..m /\ p + 1 >= 1
      BY <1>1
    <2>2. Fits(d[p + 1], F) /\ d[p + 1].n \in Nat /\ o <= d[p + 1].n
      BY <1>2, <2>1 DEF Matches, m
    <2>3. D[p].n <= Len(G) /\ (d[p + 1].n < Len(F) => D[p].n < Len(G))
      BY <1>2, <1>3, <2>2 DEF Fits, o
    <2>4. ASSUME d[p + 1].n < Len(F) PROVE G[D[p].n + 1] = F[d[p + 1].n + 1]
      <3> DEFINE k == d[p + 1].n + 1
      <3>1. k \in Nat /\ o < k /\ k <= Len(F)
        BY <1>3, <2>2, <2>4
      <3>2. D[p].n + 1 = k - o
        BY <1>2, <1>3, <2>2
      <3> HIDE DEF k
      <3>3. k - o \in 1..Len(F) - o /\ (k - o) + o = k
        BY <1>3, <3>1, Moved
      <3>4. G[k - o] = F[(k - o) + o]
        BY <1>12, <3>3
      <3> QED BY <3>2, <3>3, <3>4 DEF k
    <2> QED BY <1>2, <2>1, <2>2, <2>3, <2>4 DEF Fits
  <1>5. ASSUME NEW p \in 1..m - 1
        PROVE  /\ p + 1 \in 1..m /\ (p + 1) - 1 = p /\ K[p] = L[p + 1]
               /\ D[p - 1].in = d[p].in /\ D[p - 1].esc = d[p].esc
               /\ d[p + 1].n < Len(F) => D[p].n < Len(G)
               /\ ~ Special(L[p + 1]) => G[D[p].n] = F[d[p + 1].n]
    <2>1. /\ p + 1 \in 1..m /\ (p + 1) - 1 = p /\ K[p] = L[p + 1] /\ p \in 0..m - 1
          /\ p - 1 \in 0..m - 1 /\ (p - 1) + 1 = p /\ p \in 0..m /\ p >= 1 /\ p + 1 \in 0..m
      BY <1>1
    <2>2. D[p - 1].in = d[p].in /\ D[p - 1].esc = d[p].esc /\ D[p].n = d[p + 1].n - o
      BY <1>2, <2>1
    <2>3. d[p + 1].n \in Nat /\ d[p].n \in Nat /\ o <= d[p].n /\ d[p + 1].n <= Len(F)
      BY <1>2, <2>1 DEF Matches, Fits, m
    <2>4. ASSUME ~ Special(L[p + 1]) PROVE G[D[p].n] = F[d[p + 1].n]
      <3>1. Follows(d[p], L[p + 1], d[p + 1])
        BY <2>1 DEF Reading, m
      <3>2. d[p + 1].n = d[p].n + 1
        BY <2>4, <3>1 DEF Follows
      <3> DEFINE k == d[p + 1].n
      <3>3. k \in Nat /\ o < k /\ k <= Len(F)
        BY <1>3, <2>3, <3>2
      <3>4. D[p].n = k - o
        BY <2>2
      <3> HIDE DEF k
      <3>5. k - o \in 1..Len(F) - o /\ (k - o) + o = k
        BY <1>3, <3>3, Moved
      <3>6. G[k - o] = F[(k - o) + o]
        BY <1>12, <3>5
      <3> QED BY <3>4, <3>5, <3>6 DEF k
    <2> QED BY <1>3, <2>1, <2>2, <2>3, <2>4 DEF o
  <1>6. ASSUME NEW p \in 1..m - 1 PROVE Sound(D[p - 1], K[p], D[p], G)
    <2>1. Sound(d[p], L[p + 1], d[p + 1], F)
      BY <1>5 DEF Matches, m
    <2> QED BY <1>5, <2>1 DEF Sound
  <1>7. Matches(D, K, G)
    BY <1>1, <1>4, <1>6 DEF Matches
  <1>8. ASSUME AllPlaced(d, L, F), NEW p \in 1..m - 1 PROVE Placed(D[p - 1], K[p], D[p], G)
    <2>1. Placed(d[p], L[p + 1], d[p + 1], F)
      BY <1>5, <1>8 DEF AllPlaced, m
    <2> QED BY <1>5, <2>1 DEF Placed
  <1>9. ASSUME AllUnknown(d, L) PROVE AllUnknown(D, K)
    BY <1>1, <1>2, <1>4, <1>9 DEF AllUnknown, m
  <1> QED BY <1>1, <1>7, <1>8, <1>9 DEF AllPlaced, D, K, m

(* The first and the last step of the decoder.                             *)
LEMMA HeadRead ==
  ASSUME NEW in, NEW esc, NEW L \in Seq(Byte), L # <<>>, NEW d, NEW F \in Flights,
         Reading(d, in, esc, L), Matches(d, L, F)
  PROVE  /\ 0 \in 0..Len(L) /\ 1 \in 0..Len(L) /\ 1 \in 1..Len(L)
         /\ d[0] \in Decoder /\ d[1] \in Decoder /\ d[0].n = 0 /\ d[0].in = in /\ d[0].esc = esc
         /\ Follows(d[0], L[1], d[1]) /\ Sound(d[0], L[1], d[1], F)
         /\ Fits(d[0], F) /\ Fits(d[1], F) /\ L[1] = Head(L) /\ L[1] \in Byte
         /\ d[Len(L)] \in Decoder /\ d[1].n <= d[Len(L)].n
         /\ Shorter(d, Len(L))[Len(Tail(L))].in = d[Len(L)].in
         /\ Shorter(d, Len(L))[Len(Tail(L))].esc = d[Len(L)].esc
         /\ Shorter(d, Len(L))[Len(Tail(L))].n = d[Len(L)].n - d[1].n
  <1>1. /\ Len(L) \in Nat /\ Len(L) >= 1 /\ Len(Tail(L)) = Len(L) - 1
        /\ Head(L) = L[1] /\ L[1] \in Byte
    BY TailFacts
  <1>2. /\ 0 \in 0..Len(L) /\ 1 \in 0..Len(L) /\ 1 \in 1..Len(L) /\ 1 - 1 = 0
        /\ Len(L) \in 0..Len(L) /\ Len(L) - 1 \in 0..Len(L) - 1 /\ (Len(L) - 1) + 1 = Len(L)
    BY <1>1
  <1>3. /\ d[0] \in Decoder /\ d[1] \in Decoder /\ d[Len(L)] \in Decoder
        /\ d[1].n <= d[Len(L)].n /\ Follows(d[0], L[1], d[1])
    BY <1>1, <1>2, ReadTail
  <1>4. /\ Shorter(d, Len(L))[Len(L) - 1].in = d[(Len(L) - 1) + 1].in
        /\ Shorter(d, Len(L))[Len(L) - 1].esc = d[(Len(L) - 1) + 1].esc
        /\ Shorter(d, Len(L))[Len(L) - 1].n = d[(Len(L) - 1) + 1].n - d[1].n
    <2>1. \A p \in 0..Len(L) - 1 : /\ Shorter(d, Len(L))[p].in = d[p + 1].in
                                   /\ Shorter(d, Len(L))[p].esc = d[p + 1].esc
                                   /\ Shorter(d, Len(L))[p].n = d[p + 1].n - d[1].n
      BY <1>1 DEF Shorter
    <2> QED BY <1>2, <2>1, Zenon
  <1>5. Sound(d[0], L[1], d[1], F) /\ Fits(d[0], F) /\ Fits(d[1], F)
    BY <1>2 DEF Matches
  <1>6. d[0].n = 0 /\ d[0].in = in /\ d[0].esc = esc
    BY DEF Reading
  <1> QED BY <1>1, <1>2, <1>3, <1>4, <1>5, <1>6

LEMMA CodedSpecial ==
  ASSUME NEW in, NEW esc, NEW L \in Seq(Byte), L # <<>>, NEW F \in Flights, NEW out, NEW t,
         Coded(in, esc, L, F, out, t), Special(Head(L)), NEW new, NEW e \in BOOLEAN,
         new = IF IsId(Head(L)) THEN Head(L).base ELSE in, e <=> Head(L) = ESC \/ esc
  PROVE  Coded(new, e, Tail(L), F, out, t)
  <1>1. PICK d : /\ Reading(d, in, esc, L) /\ Matches(d, L, F) /\ AllPlaced(d, L, F)
                 /\ Counted(d[Len(L)], F, t) /\ Told(d[Len(L)], out, t)
    BY DEF Coded
  <1> DEFINE D == Shorter(d, Len(L))
             K == Tail(L)
  <1>2. /\ d[0].n = 0 /\ d[0].in = in /\ d[0].esc = esc /\ d[0] \in Decoder
        /\ Follows(d[0], Head(L), d[1]) /\ d[1] \in Decoder /\ d[Len(L)] \in Decoder
        /\ D[Len(K)].in = d[Len(L)].in /\ D[Len(K)].esc = d[Len(L)].esc
        /\ D[Len(K)].n = d[Len(L)].n - d[1].n
    BY <1>1, HeadRead
  <1>3. d[1].n = 0 /\ d[1].in = new /\ d[1].esc = e
    BY <1>2 DEF Follows, Decoder
  <1>4. Len(F) \in Nat /\ d[Len(L)].n \in Nat
    BY <1>2 DEF Flights, Decoder
  <1>5. Len(F) = Len(F) - d[1].n /\ \A k \in 1..Len(F) : F[k] = F[k + d[1].n]
    BY <1>3, <1>4
  <1>6. Reading(D, new, e, K)
    BY <1>1, <1>3, ReadTail
  <1>7. Matches(D, K, F) /\ AllPlaced(D, K, F)
    BY <1>1, <1>5, MatchTail
  <1> HIDE DEF D, K
  <1>8. D[Len(K)].n = d[Len(L)].n
    BY <1>2, <1>3, <1>4
  <1>9. Counted(D[Len(K)], F, t) /\ Told(D[Len(K)], out, t)
    BY <1>1, <1>2, <1>8 DEF Counted, Told
  <1>10. Coded(new, e, K, F, out, t)
    BY <1>6, <1>7, <1>9 DEF Coded
  <1> QED BY <1>10 DEF K

(* A character is the next one, and goes to its service.                   *)
LEMMA CodedCharacter ==
  ASSUME NEW in, NEW esc \in BOOLEAN, NEW L \in Seq(Byte), L # <<>>, NEW F \in Flights,
         NEW out, NEW t, Coded(in, esc, L, F, out, t), ~ Special(Head(L))
  PROVE  /\ Coded(in, FALSE, Tail(L), Tail(F), out, t)
         /\ in \in Bufs /\ IsNext(F, in, Decoded(esc, Head(L)))
         /\ esc => Special(Xor(Head(L)))
  <1>1. PICK d : /\ Reading(d, in, esc, L) /\ Matches(d, L, F) /\ AllPlaced(d, L, F)
                 /\ Counted(d[Len(L)], F, t) /\ Told(d[Len(L)], out, t)
    BY DEF Coded
  <1> DEFINE D == Shorter(d, Len(L))
             K == Tail(L)
             G == Tail(F)
             z == d[Len(L)]
  <1>2. /\ d[0].n = 0 /\ d[0].in = in /\ d[0].esc = esc /\ d[0] \in Decoder
        /\ Follows(d[0], Head(L), d[1]) /\ d[1] \in Decoder
        /\ Sound(d[0], Head(L), d[1], F) /\ Fits(d[1], F) /\ z \in Decoder /\ d[1].n <= z.n
        /\ D[Len(K)].in = z.in /\ D[Len(K)].esc = z.esc /\ D[Len(K)].n = z.n - d[1].n
    BY <1>1, HeadRead
  <1>3. 1 \in 1..Len(L) /\ 1 - 1 = 0 /\ L[1] = Head(L) /\ Head(L) \in Byte
    BY <1>1, HeadRead
  <1>4. Placed(d[0], Head(L), d[1], F)
    BY <1>1, <1>3 DEF AllPlaced
  <1>5. d[1].n = 1 /\ d[1].in = in /\ d[1].esc = FALSE /\ Len(F) \in Nat /\ z.n \in Nat
    BY <1>2 DEF Follows, Decoder, Special, Flights
  <1>6. Len(F) >= 1 /\ F # <<>>
    BY <1>2, <1>5 DEF Fits
  <1>7. /\ Head(F) = F[1] /\ F[1] \in Bufs \X Chars /\ G \in Flights /\ Len(G) = Len(F) - 1
        /\ \A k \in 1..Len(F) - 1 : G[k] = F[k + 1]
    BY <1>6, TailFacts DEF Flights
  <1>8. /\ F[1][1] \in Bufs /\ F[1][2] \in Byte /\ F[1] = <<F[1][1], F[1][2]>>
    BY <1>7, SermuxAssumption
  <1>9. Head(L) = Enc(F[1][2]) /\ in = F[1][1] /\ (esc <=> Special(F[1][2]))
    BY <1>2, <1>4, <1>5 DEF Sound, Placed
  <1>10. /\ F[1][2] = IF esc THEN Xor(Head(L)) ELSE Head(L)
         /\ esc => Special(Xor(Head(L)))
    BY <1>8, <1>9, Encoded
  <1>11. Len(G) = Len(F) - d[1].n /\ \A k \in 1..Len(G) : G[k] = F[k + d[1].n]
    BY <1>5, <1>7
  <1>12. Reading(D, in, FALSE, K)
    <2>1. Reading(D, d[1].in, d[1].esc, K)
      BY <1>1, ReadTail
    <2> QED BY <1>5, <2>1
  <1>13. Matches(D, K, G) /\ AllPlaced(D, K, G)
    BY <1>1, <1>7, <1>11, MatchTail
  <1> HIDE DEF D, K, G, z
  <1>14. D[Len(K)].n = z.n - 1 /\ z.n >= 1
    BY <1>2, <1>5
  <1>15. Told(D[Len(K)], out, t)
    BY <1>1, <1>2 DEF Told, z
  <1>16. Counted(z, F, t)
    BY <1>1 DEF z
  <1>17. Counted(D[Len(K)], G, t)
    <2>1. CASE t.step = "idle"
      BY <1>7, <1>14, <1>16, <2>1 DEF Counted
    <2>2. CASE t.step # "idle"
      <3>1. z.n + 1 = Len(F) /\ F[Len(F)] = <<t.s, t.c>> /\ (t.step = "flip" => Special(t.c))
        BY <1>16, <2>2 DEF Counted
      <3>2. Len(G) \in 1..Len(F) - 1 /\ Len(G) + 1 = Len(F) /\ (z.n - 1) + 1 = Len(G)
        BY <1>5, <1>7, <1>14, <3>1
      <3>3. G[Len(G)] = F[Len(F)]
        BY <1>7, <3>2
      <3> QED BY <1>14, <2>2, <3>1, <3>2, <3>3 DEF Counted
    <2> QED BY <2>1, <2>2
  <1>18. Coded(in, FALSE, K, G, out, t)
    BY <1>12, <1>13, <1>15, <1>17 DEF Coded
  <1>19. F[1] = <<in, Decoded(esc, Head(L))>>
    BY <1>8, <1>9, <1>10 DEF Decoded
  <1>20. IsNext(F, in, Decoded(esc, Head(L)))
    BY <1>6, <1>7, <1>19 DEF IsNext
  <1> QED BY <1>8, <1>9, <1>10, <1>18, <1>20 DEF K, G

LEMMA UnplacedSpecial ==
  ASSUME NEW in, NEW esc, NEW L \in Seq(Byte), L # <<>>, NEW F \in Flights, NEW out,
         NEW last, NEW t, Unplaced(in, esc, L, F, out, last, t), Special(Head(L)),
         NEW e \in BOOLEAN, e <=> Head(L) = ESC \/ esc
  PROVE  ~ IsId(Head(L)) /\ Unplaced(in, e, Tail(L), F, out, last, t)
  <1>1. PICK d : /\ Reading(d, in, esc, L) /\ Matches(d, L, F) /\ AllUnknown(d, L)
                 /\ Counted(d[Len(L)], F, t) /\ Untold(d[Len(L)], t)
    BY DEF Unplaced
  <1> DEFINE D == Shorter(d, Len(L))
             K == Tail(L)
  <1>2. /\ d[0].n = 0 /\ d[0].in = in /\ d[0].esc = esc /\ d[0] \in Decoder
        /\ Follows(d[0], Head(L), d[1]) /\ d[1] \in Decoder /\ d[Len(L)] \in Decoder
        /\ D[Len(K)].in = d[Len(L)].in /\ D[Len(K)].esc = d[Len(L)].esc
        /\ D[Len(K)].n = d[Len(L)].n - d[1].n
    BY <1>1, HeadRead
  <1>3. d[1].in = None /\ in = None /\ Head(L) \in Byte
    BY <1>1, HeadRead DEF AllUnknown
  <1>4. ~ IsId(Head(L))
    BY <1>2, <1>3, Flipped, RingAssumption DEF Follows
  <1>5. d[1].n = 0 /\ d[1].in = in /\ d[1].esc = e
    BY <1>2, <1>3, <1>4 DEF Follows, Decoder
  <1>6. Len(F) \in Nat /\ d[Len(L)].n \in Nat
    BY <1>2 DEF Flights, Decoder
  <1>7. Len(F) = Len(F) - d[1].n /\ \A k \in 1..Len(F) : F[k] = F[k + d[1].n]
    BY <1>5, <1>6
  <1>8. Reading(D, in, e, K)
    BY <1>1, <1>5, ReadTail
  <1>9. Matches(D, K, F) /\ AllUnknown(D, K)
    BY <1>1, <1>7, MatchTail
  <1> HIDE DEF D, K
  <1>10. D[Len(K)].n = d[Len(L)].n
    BY <1>2, <1>5, <1>6
  <1>11. Counted(D[Len(K)], F, t) /\ Untold(D[Len(K)], t)
    BY <1>1, <1>2, <1>10 DEF Counted, Untold
  <1>12. Unplaced(in, e, K, F, out, last, t)
    BY <1>8, <1>9, <1>11 DEF Unplaced
  <1> QED BY <1>4, <1>12 DEF K

(* The character cannot be placed and is asked for.                        *)
LEMMA UnplacedCharacter ==
  ASSUME NEW in, NEW esc \in BOOLEAN, NEW L \in Seq(Byte), L # <<>>, NEW F \in Flights,
         NEW out, NEW last, NEW t, Unplaced(in, esc, L, F, out, last, t), ~ Special(Head(L))
  PROVE  /\ Asked(in, FALSE, Tail(L), F, out, last, t)
         /\ in = None /\ (esc => Special(Xor(Head(L))))
  <1>1. PICK d : /\ Reading(d, in, esc, L) /\ Matches(d, L, F) /\ AllUnknown(d, L)
                 /\ Counted(d[Len(L)], F, t) /\ Untold(d[Len(L)], t)
    BY DEF Unplaced
  <1>2. /\ d[0].n = 0 /\ d[0].in = in /\ d[0].esc = esc /\ d[0] \in Decoder
        /\ Follows(d[0], Head(L), d[1]) /\ d[1] \in Decoder /\ Fits(d[0], F)
        /\ Sound(d[0], Head(L), d[1], F) /\ Fits(d[1], F) /\ d[Len(L)] \in Decoder
        /\ d[1].n <= d[Len(L)].n /\ 0 \in 0..Len(L) /\ 1 \in 0..Len(L)
    BY <1>1, HeadRead
  <1>3. in = None
    BY <1>1, <1>2 DEF AllUnknown
  <1>4. d[1].n = 1 /\ Len(F) \in Nat /\ Len(F) <= 1
    BY <1>2 DEF Follows, Flights, Unplaced, Repeatable
  <1>5. Len(F) = 1 /\ F # <<>>
    <2>1. d[1].n <= Len(F)
      BY <1>2 DEF Fits
    <2>2. Len(F) # 0
      BY <1>4, <2>1
    <2> QED BY <1>4, <2>2, AtMostOne
  <1>6. t.step = "idle"
    <2>1. d[Len(L)].n \in Nat /\ d[Len(L)].n >= 1
      BY <1>2, <1>4 DEF Decoder
    <2> QED BY <1>1, <1>5, <2>1 DEF Counted
  <1>7. out = F[1][1] /\ last = LastSent(F[1][2])
    BY <1>5, <1>6 DEF Unplaced, Repeatable
  <1>8. ASSUME NEW p \in 1..Len(Tail(L)) PROVE Tail(L)[p] = FORCE
    <2>1. /\ Len(L) \in Nat /\ p \in 1..Len(L) - 1 /\ p + 1 \in 1..Len(L)
          /\ Tail(L)[p] = L[p + 1]
      BY TailFacts
    <2>2. /\ p \in 0..Len(L) /\ p + 1 \in 0..Len(L) /\ 1 <= p /\ 1 <= p + 1 /\ (p + 1) - 1 = p
          /\ p + 1 \in 1..Len(L)
      BY <2>1
    <2>3. /\ Follows(d[p], L[p + 1], d[p + 1]) /\ d[p] \in Decoder /\ d[p + 1] \in Decoder
          /\ d[1].n <= d[p].n /\ d[1].n <= d[p + 1].n
      BY <1>1, <1>2, <2>2 DEF Reading
    <2>4. Fits(d[p + 1], F) /\ Sound(d[p], L[p + 1], d[p + 1], F)
      BY <1>1, <2>2 DEF Matches
    <2>5. d[p].n \in Nat /\ d[p + 1].n \in Nat
      BY <2>3 DEF Decoder
    <2>6. d[p + 1].n = 1 /\ d[p].n >= 1
      BY <1>4, <1>5, <2>3, <2>4, <2>5 DEF Fits
    <2>7. Special(L[p + 1])
      BY <2>3, <2>5, <2>6 DEF Follows
    <2>8. L[p + 1] # ESC
      BY <1>5, <2>3, <2>4, <2>6 DEF Follows, Fits
    <2>9. ~ IsId(L[p + 1])
      BY <1>5, <2>4, <2>6 DEF Sound
    <2> QED BY <2>1, <2>7, <2>8, <2>9 DEF Special
  <1>9. esc => Special(Xor(Head(L)))
    <2>1. F[1] \in Bufs \X Chars
      BY <1>5 DEF Flights
    <2>2. F[1][2] \in Byte
      BY <2>1, SermuxAssumption
    <2>3. Head(L) = Enc(F[1][2])
      BY <1>2, <1>4 DEF Sound
    <2>4. esc => Special(F[1][2])
      BY <1>2 DEF Fits
    <2> QED BY <2>2, <2>3, <2>4, Encoded
  <1> QED BY <1>3, <1>5, <1>6, <1>7, <1>8, <1>9 DEF Asked

(* A receiver that has asked gets nothing but requests of the other end.   *)
LEMMA AskedTail ==
  ASSUME NEW in, NEW esc, NEW L \in Seq(Byte), L # <<>>, NEW F, NEW out, NEW last, NEW t,
         Asked(in, esc, L, F, out, last, t)
  PROVE  Head(L) = FORCE /\ Asked(in, esc, Tail(L), F, out, last, t)
  <1>1. /\ Len(L) \in Nat /\ Len(L) >= 1 /\ Head(L) = L[1] /\ Len(Tail(L)) = Len(L) - 1
        /\ \A p \in 1..Len(L) - 1 : Tail(L)[p] = L[p + 1]
    BY TailFacts
  <1>2. \A p \in 1..Len(L) : L[p] = FORCE
    BY DEF Asked
  <1>3. 1 \in 1..Len(L) /\ \A p \in 1..Len(L) - 1 : p + 1 \in 1..Len(L)
    BY <1>1
  <1> QED BY <1>1, <1>2, <1>3 DEF Asked

LEMMA AskedForce ==
  ASSUME NEW in, NEW esc, NEW L \in Seq(Byte), NEW F, NEW out, NEW last, NEW t,
         Asked(in, esc, L, F, out, last, t)
  PROVE  Asked(in, esc, Append(L, FORCE), F, out, last, t)
  <1>1. /\ Len(L) \in Nat /\ Len(Append(L, FORCE)) = Len(L) + 1
        /\ \A p \in 1..Len(L) : Append(L, FORCE)[p] = L[p]
        /\ Append(L, FORCE)[Len(L) + 1] = FORCE
    BY SpecialBytes, AppendFacts
  <1>2. \A p \in 1..Len(L) + 1 : p \in 1..Len(L) \/ p = Len(L) + 1
    BY <1>1
  <1> QED BY <1>1, <1>2 DEF Asked

(* The sender repeats the character as if it had sent nothing before.      *)
LEMMA AskedFresh ==
  ASSUME NEW in, NEW esc \in BOOLEAN, NEW L \in Seq(Byte), NEW F, NEW out, NEW last, NEW t,
         Asked(in, esc, L, F, out, last, t)
  PROVE  Coded(in, esc, L, <<>>, None, t) /\ Unplaced(in, esc, L, <<>>, out, last, t)
  <1> DEFINE z == [in |-> None, esc |-> FALSE, n |-> 0]
             d == [p \in 0..Len(L) |-> z]
  <1>1. z \in Decoder /\ z.in = None /\ z.esc = FALSE /\ z.n = 0
    BY DEF Decoder
  <1> HIDE DEF z
  <1>2. /\ Len(L) \in Nat /\ d \in [0..Len(L) -> Decoder] /\ \A p \in 0..Len(L) : d[p] = z
        /\ 0 \in 0..Len(L) /\ Len(L) \in 0..Len(L)
        /\ \A p \in 1..Len(L) : p \in 0..Len(L) /\ p - 1 \in 0..Len(L)
    BY <1>1
  <1> HIDE DEF d
  <1>3. in = None /\ esc = FALSE /\ t.step = "idle" /\ \A p \in 1..Len(L) : L[p] = FORCE
    BY DEF Asked
  <1>4. Follows(z, FORCE, z) /\ Sound(z, FORCE, z, <<>>) /\ Placed(z, FORCE, z, <<>>)
    BY <1>1, SpecialBytes DEF Follows, Sound, Placed
  <1>5. Len(<<>>) = 0 /\ Fits(z, <<>>)
    BY <1>1 DEF Fits
  <1>6. Reading(d, in, esc, L)
    BY <1>1, <1>2, <1>3, <1>4 DEF Reading
  <1>7. Matches(d, L, <<>>) /\ AllPlaced(d, L, <<>>)
    BY <1>2, <1>3, <1>4, <1>5 DEF Matches, AllPlaced
  <1>8. Counted(d[Len(L)], <<>>, t) /\ Told(d[Len(L)], None, t)
    BY <1>1, <1>2, <1>3, <1>5 DEF Counted, Told
  <1>9. AllUnknown(d, L) /\ Untold(d[Len(L)], t) /\ Repeatable(<<>>, out, last, t)
    BY <1>1, <1>2, <1>5 DEF AllUnknown, Untold, Repeatable
  <1> QED BY <1>6, <1>7, <1>8, <1>9 DEF Coded, Unplaced

-----------------------------------------------------------------------------
(* The receiver is restarted                                               *)

(* An identifier has been read, or something that settles the escape.      *)
Named(L, p) == \E r \in 1..p : IsId(L[r])

Settled(L, p) == \E r \in 1..p : L[r] = ESC \/ ~ Special(L[r])

LEMMA SoFar ==
  ASSUME NEW L \in Seq(Byte)
  PROVE  /\ ~ Named(L, 0) /\ ~ Settled(L, 0)
         /\ \A p \in 1..Len(L) : /\ Named(L, p) <=> Named(L, p - 1) \/ IsId(L[p])
                                 /\ Settled(L, p) <=> Settled(L, p - 1) \/ L[p] = ESC
                                                      \/ ~ Special(L[p])
         /\ \A p \in 0..Len(L), q \in 0..Len(L) :
              p <= q => (Named(L, p) => Named(L, q)) /\ (Settled(L, p) => Settled(L, q))
  <1>1. ~ Named(L, 0) /\ ~ Settled(L, 0)
    BY DEF Named, Settled
  <1>2. ASSUME NEW p \in 1..Len(L)
        PROVE  /\ Named(L, p) <=> Named(L, p - 1) \/ IsId(L[p])
               /\ Settled(L, p) <=> Settled(L, p - 1) \/ L[p] = ESC \/ ~ Special(L[p])
    <2>1. p \in 1..p /\ \A r \in 1..p : r \in 1..p - 1 \/ r = p
      OBVIOUS
    <2>2. \A r \in 1..p - 1 : r \in 1..p
      OBVIOUS
    <2> QED BY <2>1, <2>2 DEF Named, Settled
  <1>3. ASSUME NEW p \in 0..Len(L), NEW q \in 0..Len(L), p <= q
        PROVE  (Named(L, p) => Named(L, q)) /\ (Settled(L, p) => Settled(L, q))
    <2>1. \A r \in 1..p : r \in 1..q
      BY <1>3
    <2> QED BY <2>1 DEF Named, Settled
  <1> QED BY <1>1, <1>2, <1>3

(* The same line, read without knowing the service, or the escape.         *)
Nameless(d, L) ==
  [p \in 0..Len(L) |-> [in |-> IF Named(L, p) THEN d[p].in ELSE None,
                        esc |-> d[p].esc, n |-> d[p].n]]

Unsettled(d, L) ==
  [p \in 0..Len(L) |-> [in |-> d[p].in, esc |-> IF Settled(L, p) THEN d[p].esc ELSE FALSE,
                        n |-> d[p].n]]

LEMMA ReadNameless ==
  ASSUME NEW in, NEW esc, NEW L \in Seq(Byte), NEW d, NEW F,
         Reading(d, in, esc, L), Matches(d, L, F)
  PROVE  /\ Reading(Nameless(d, L), None, esc, L) /\ Matches(Nameless(d, L), L, F)
         /\ \A p \in 0..Len(L) :
              /\ Nameless(d, L)[p].esc = d[p].esc /\ Nameless(d, L)[p].n = d[p].n
              /\ Nameless(d, L)[p].in = IF Named(L, p) THEN d[p].in ELSE None
  <1> DEFINE D == Nameless(d, L)
  <1>1. \A p \in 0..Len(L) : /\ D[p].esc = d[p].esc /\ D[p].n = d[p].n
                             /\ D[p].in = IF Named(L, p) THEN d[p].in ELSE None
    BY DEF Nameless
  <1>2. D \in [0..Len(L) -> Decoder]
    <2>1. ASSUME NEW p \in 0..Len(L)
          PROVE  [in |-> IF Named(L, p) THEN d[p].in ELSE None, esc |-> d[p].esc,
                  n |-> d[p].n] \in Decoder
      BY DEF Reading, Decoder
    <2> QED BY <2>1 DEF Nameless
  <1> HIDE DEF D
  <1>3. 0 \in 0..Len(L) /\ \A p \in 1..Len(L) : p \in 0..Len(L) /\ p - 1 \in 0..Len(L)
    OBVIOUS
  <1>4. ASSUME NEW p \in 1..Len(L) PROVE Follows(D[p - 1], L[p], D[p])
    <2>1. Follows(d[p - 1], L[p], d[p])
      BY DEF Reading
    <2>2. Named(L, p) <=> Named(L, p - 1) \/ IsId(L[p])
      BY SoFar
    <2> QED BY <1>1, <1>3, <2>1, <2>2 DEF Follows
  <1>5. D[0].in = None /\ D[0].esc = esc /\ D[0].n = 0
    BY <1>1, <1>3, SoFar DEF Reading
  <1>6. \A p \in 0..Len(L), q \in 0..Len(L) :
          p <= q => D[p].n <= D[q].n /\ (D[p].esc /\ ~ D[q].esc => D[p].n < D[q].n)
    BY <1>1 DEF Reading
  <1>7. Reading(D, None, esc, L)
    BY <1>2, <1>4, <1>5, <1>6 DEF Reading
  <1>8. Matches(D, L, F)
    BY <1>1, <1>3 DEF Matches, Fits, Sound
  <1> QED BY <1>1, <1>7, <1>8 DEF D

LEMMA ReadUnsettled ==
  ASSUME NEW in, NEW esc, NEW L \in Seq(Byte), NEW d, NEW F,
         Reading(d, in, esc, L), Matches(d, L, F)
  PROVE  /\ Reading(Unsettled(d, L), in, FALSE, L) /\ Matches(Unsettled(d, L), L, F)
         /\ \A p \in 0..Len(L) :
              /\ Unsettled(d, L)[p].in = d[p].in /\ Unsettled(d, L)[p].n = d[p].n
              /\ Unsettled(d, L)[p].esc => d[p].esc
  <1> DEFINE D == Unsettled(d, L)
  <1>1. \A p \in 0..Len(L) : /\ D[p].in = d[p].in /\ D[p].n = d[p].n
                             /\ D[p].esc = IF Settled(L, p) THEN d[p].esc ELSE FALSE
    BY DEF Unsettled
  <1>2. D \in [0..Len(L) -> Decoder]
    <2>1. ASSUME NEW p \in 0..Len(L)
          PROVE  [in |-> d[p].in, esc |-> IF Settled(L, p) THEN d[p].esc ELSE FALSE,
                  n |-> d[p].n] \in Decoder
      BY DEF Reading, Decoder
    <2> QED BY <2>1 DEF Unsettled
  <1> HIDE DEF D
  <1>3. 0 \in 0..Len(L) /\ \A p \in 1..Len(L) : p \in 0..Len(L) /\ p - 1 \in 0..Len(L)
    OBVIOUS
  <1>4. \A p \in 0..Len(L) : D[p].esc <=> Settled(L, p) /\ d[p].esc
    BY <1>1, <1>2 DEF Decoder
  <1>5. ASSUME NEW p \in 1..Len(L) PROVE Follows(D[p - 1], L[p], D[p])
    <2>1. Follows(d[p - 1], L[p], d[p])
      BY DEF Reading
    <2>2. Settled(L, p) <=> Settled(L, p - 1) \/ L[p] = ESC \/ ~ Special(L[p])
      BY SoFar
    <2> QED BY <1>1, <1>3, <1>4, <2>1, <2>2 DEF Follows
  <1>6. D[0].in = in /\ D[0].esc = FALSE /\ D[0].n = 0
    BY <1>1, <1>3, SoFar DEF Reading
  <1>7. ASSUME NEW p \in 0..Len(L), NEW q \in 0..Len(L), p <= q
        PROVE  D[p].n <= D[q].n /\ (D[p].esc /\ ~ D[q].esc => D[p].n < D[q].n)
    <2>1. d[p].n <= d[q].n /\ (d[p].esc /\ ~ d[q].esc => d[p].n < d[q].n)
      BY <1>7 DEF Reading
    <2>2. Settled(L, p) => Settled(L, q)
      BY <1>7, SoFar
    <2> QED BY <1>1, <1>4, <2>1, <2>2
  <1>8. Reading(D, in, FALSE, L)
    BY <1>2, <1>5, <1>6, <1>7 DEF Reading
  <1>9. Matches(D, L, F)
    BY <1>1, <1>3, <1>4 DEF Matches, Fits, Sound
  <1> QED BY <1>1, <1>4, <1>8, <1>9 DEF D

LEMMA UnplacedRestart ==
  ASSUME NEW in, NEW esc, NEW L \in Seq(Byte), NEW F \in Flights, NEW out, NEW last, NEW t,
         Unplaced(in, esc, L, F, out, last, t)
  PROVE  Unplaced(None, FALSE, L, F, out, last, t)
  <1>1. PICK d : /\ Reading(d, in, esc, L) /\ Matches(d, L, F) /\ AllUnknown(d, L)
                 /\ Counted(d[Len(L)], F, t) /\ Untold(d[Len(L)], t)
    BY DEF Unplaced
  <1> DEFINE D == Unsettled(d, L)
  <1>2. Reading(D, in, FALSE, L) /\ Matches(D, L, F)
    BY <1>1, ReadUnsettled
  <1>3. \A p \in 0..Len(L) : D[p].in = d[p].in /\ D[p].n = d[p].n /\ (D[p].esc => d[p].esc)
    BY <1>1, ReadUnsettled
  <1>4. 0 \in 0..Len(L) /\ Len(L) \in 0..Len(L)
    OBVIOUS
  <1> HIDE DEF D
  <1>5. AllUnknown(D, L) /\ in = None
    BY <1>1, <1>3, <1>4 DEF AllUnknown, Reading
  <1>6. Counted(D[Len(L)], F, t) /\ Untold(D[Len(L)], t)
    BY <1>1, <1>3, <1>4 DEF Counted, Untold
  <1> QED BY <1>2, <1>5, <1>6 DEF Unplaced

(* If its identifier is still on the line the character can be placed.     *)
LEMMA CodedRestart ==
  ASSUME NEW in, NEW esc \in BOOLEAN, NEW L \in Seq(Byte), NEW F \in Flights, NEW out,
         NEW last, NEW t, Coded(in, esc, L, F, out, t), Repeatable(F, out, last, t)
  PROVE  Coded(None, FALSE, L, F, out, t) \/ Unplaced(None, FALSE, L, F, out, last, t)
  <1>1. PICK d : /\ Reading(d, in, esc, L) /\ Matches(d, L, F) /\ AllPlaced(d, L, F)
                 /\ Counted(d[Len(L)], F, t) /\ Told(d[Len(L)], out, t)
    BY DEF Coded
  <1> DEFINE D == Nameless(d, L)
  <1>2. Reading(D, None, esc, L) /\ Matches(D, L, F)
    BY <1>1, ReadNameless
  <1>3. \A p \in 0..Len(L) : /\ D[p].esc = d[p].esc /\ D[p].n = d[p].n
                             /\ D[p].in = IF Named(L, p) THEN d[p].in ELSE None
    BY <1>1, ReadNameless
  <1>4. /\ Len(L) \in Nat /\ 0 \in 0..Len(L) /\ Len(L) \in 0..Len(L)
        /\ \A p \in 1..Len(L) : p \in 0..Len(L) /\ p - 1 \in 0..Len(L)
    OBVIOUS
  <1> HIDE DEF D
  <1>5. CASE ~ Named(L, Len(L))
    <2>1. AllUnknown(D, L)
      <3>1. \A p \in 0..Len(L) : p <= Len(L)
        OBVIOUS
      <3>2. \A p \in 0..Len(L) : ~ Named(L, p)
        BY <1>4, <1>5, <3>1, SoFar
      <3> QED BY <1>3, <3>2 DEF AllUnknown
    <2>2. Counted(D[Len(L)], F, t) /\ Untold(D[Len(L)], t)
      BY <1>1, <1>3, <1>4 DEF Counted, Untold, Told
    <2>3. Unplaced(None, esc, L, F, out, last, t)
      BY <1>2, <2>1, <2>2 DEF Unplaced
    <2> QED BY <2>3, UnplacedRestart
  <1>6. CASE Named(L, Len(L))
    <2>1. PICK r \in 1..Len(L) : IsId(L[r])
      BY <1>6 DEF Named
    <2>2. /\ r \in 0..Len(L) /\ r - 1 \in 0..Len(L) /\ d[r - 1] \in Decoder /\ d[r] \in Decoder
          /\ Follows(d[r - 1], L[r], d[r]) /\ Sound(d[r - 1], L[r], d[r], F) /\ 0 <= r - 1
          /\ Named(L, r)
      BY <1>1, <1>4, <2>1, SoFar DEF Reading, Matches
    <2>3. ~ d[r - 1].esc /\ d[r].n = 0 /\ d[r - 1].n = 0
      <3>1. Special(L[r]) /\ Len(F) \in Nat /\ Len(F) <= 1
        BY <2>1 DEF Special, Flights, Repeatable
      <3>2. ~ d[r - 1].esc /\ d[r].n < Len(F) /\ d[r].n = d[r - 1].n
        BY <2>1, <2>2, <3>1 DEF Sound, Follows
      <3> QED BY <2>2, <3>1, <3>2 DEF Decoder
    <2>4. esc = FALSE
      <3>1. d[0].esc = esc /\ d[0].n = 0
        BY <1>1 DEF Reading
      <3>2. d[0].esc /\ ~ d[r - 1].esc => d[0].n < d[r - 1].n
        BY <1>1, <1>4, <2>2 DEF Reading
      <3> QED BY <2>3, <3>1, <3>2
    <2>5. ASSUME NEW q \in 1..Len(L), ~ Special(L[q]) PROVE Named(L, q - 1)
      <3>1. /\ q \in 0..Len(L) /\ q - 1 \in 0..Len(L) /\ d[q] \in Decoder /\ d[q - 1] \in Decoder
            /\ d[q].n = d[q - 1].n + 1
        BY <1>1, <1>4, <2>5 DEF Reading, Follows
      <3>2. q <= r => d[q].n <= d[r].n
        BY <1>1, <2>2, <3>1 DEF Reading
      <3>3. d[q].n \in Nat /\ d[q - 1].n \in Nat
        BY <3>1 DEF Decoder
      <3>4. r <= q - 1
        BY <2>3, <3>1, <3>2, <3>3
      <3> QED BY <2>2, <3>1, <3>4, SoFar
    <2>6. AllPlaced(D, L, F)
      <3> SUFFICES ASSUME NEW q \in 1..Len(L), ~ Special(L[q])
                   PROVE  D[q - 1].in = F[D[q].n][1] /\ (D[q - 1].esc <=> Special(F[D[q].n][2]))
        BY DEF AllPlaced, Placed
      <3>1. d[q - 1].in = F[d[q].n][1] /\ (d[q - 1].esc <=> Special(F[d[q].n][2]))
        BY <1>1 DEF AllPlaced, Placed
      <3>2. D[q - 1].in = d[q - 1].in /\ D[q - 1].esc = d[q - 1].esc /\ D[q].n = d[q].n
        BY <1>3, <1>4, <2>5
      <3> QED BY <3>1, <3>2
    <2>7. Counted(D[Len(L)], F, t) /\ Told(D[Len(L)], out, t)
      BY <1>1, <1>3, <1>4, <1>6 DEF Counted, Told
    <2>8. Coded(None, esc, L, F, out, t)
      BY <1>2, <2>6, <2>7 DEF Coded
    <2> QED BY <2>4, <2>8
  <1> QED BY <1>5, <1>6

-----------------------------------------------------------------------------
-----------------------------------------------------------------------------
(* One direction: what is on its way to a receiver with in and esc, from a *)
(* sender with out and last, and the requests on the line back             *)

NoForce(L) == \A p \in 1..Len(L) : L[p] # FORCE

OneForce(L) == \E p \in 1..Len(L) : \A q \in 1..Len(L) : L[q] = FORCE <=> q = p

(* What the sender would repeat is the last character it has sent.         *)
Kept(F, out, last, t) ==
  F # <<>> /\ t.step = "idle" /\ last # NoLast
    => out = F[Len(F)][1] /\ last = LastSent(F[Len(F)][2])

Direction(in, esc, L, F, out, last, t, back) ==
  /\ Kept(F, out, last, t)
  /\ \/ NoForce(back) /\ Coded(in, esc, L, F, out, t)
     \/ NoForce(back) /\ Unplaced(in, esc, L, F, out, last, t)
     \/ OneForce(back) /\ Asked(in, esc, L, F, out, last, t)

(* The receiver cannot place what is under way to it.                      *)
Stuck(in, L, F) == in = None /\ F # <<>> /\ \A i \in 1..Len(L) : ~ IsId(L[i])

(* The line has as many requests as before.                                *)
Quiet(L, K) == (NoForce(L) => NoForce(K)) /\ (OneForce(L) => OneForce(K))

LEMMA QuietAppend ==
  ASSUME NEW L \in Seq(Byte), NEW b \in Byte, b # FORCE
  PROVE  Quiet(L, Append(L, b))
  <1> DEFINE K == Append(L, b)
  <1>1. /\ Len(L) \in Nat /\ Len(K) = Len(L) + 1 /\ K[Len(L) + 1] = b
        /\ \A p \in 1..Len(L) : K[p] = L[p]
    BY AppendFacts
  <1> HIDE DEF K
  <1>2. \A p \in 1..Len(K) : p \in 1..Len(L) \/ p = Len(L) + 1
    BY <1>1
  <1>3. \A p \in 1..Len(L) : p \in 1..Len(K) /\ p # Len(L) + 1
    BY <1>1
  <1>4. NoForce(L) => NoForce(K)
    BY <1>1, <1>2 DEF NoForce
  <1>5. ASSUME OneForce(L) PROVE OneForce(K)
    <2>1. PICK p \in 1..Len(L) : \A q \in 1..Len(L) : L[q] = FORCE <=> q = p
      BY <1>5 DEF OneForce
    <2>2. ASSUME NEW q \in 1..Len(K) PROVE K[q] = FORCE <=> q = p
      BY <1>1, <1>2, <1>3, <2>1
    <2> QED BY <1>3, <2>1, <2>2 DEF OneForce
  <1> QED BY <1>4, <1>5 DEF Quiet, K

LEMMA TailForce ==
  ASSUME NEW L \in Seq(Byte), L # <<>>
  PROVE  /\ NoForce(L) => NoForce(Tail(L)) /\ Head(L) # FORCE
         /\ Head(L) # FORCE => Quiet(L, Tail(L))
         /\ OneForce(L) /\ Head(L) = FORCE => NoForce(Tail(L))
  <1> DEFINE K == Tail(L)
  <1>1. /\ Len(L) \in Nat /\ Len(L) >= 1 /\ Len(K) = Len(L) - 1 /\ Head(L) = L[1]
        /\ \A p \in 1..Len(L) - 1 : K[p] = L[p + 1]
    BY TailFacts
  <1> HIDE DEF K
  <1>2. 1 \in 1..Len(L) /\ \A p \in 1..Len(K) : /\ p + 1 \in 1..Len(L) /\ p + 1 # 1
                                                /\ K[p] = L[p + 1]
    BY <1>1
  <1>3. \A p \in 1..Len(L) : p = 1 \/ (p - 1 \in 1..Len(K) /\ (p - 1) + 1 = p)
    BY <1>1
  <1>4. NoForce(L) => NoForce(K) /\ Head(L) # FORCE
    BY <1>1, <1>2 DEF NoForce
  <1>5. ASSUME OneForce(L) PROVE IF Head(L) = FORCE THEN NoForce(K) ELSE OneForce(K)
    <2>1. PICK p \in 1..Len(L) : \A q \in 1..Len(L) : L[q] = FORCE <=> q = p
      BY <1>5 DEF OneForce
    <2>2. CASE p = 1
      BY <1>1, <1>2, <2>1, <2>2 DEF NoForce
    <2>3. CASE p # 1
      <3>1. p - 1 \in 1..Len(K) /\ Head(L) # FORCE
        BY <1>1, <1>2, <1>3, <2>1, <2>3
      <3>2. ASSUME NEW q \in 1..Len(K) PROVE K[q] = FORCE <=> q = p - 1
        BY <1>2, <2>1
      <3> QED BY <3>1, <3>2 DEF OneForce
    <2> QED BY <2>2, <2>3
  <1> QED BY <1>4, <1>5 DEF Quiet, K

LEMMA AppendForce ==
  ASSUME NEW L \in Seq(Byte), NoForce(L)
  PROVE  OneForce(Append(L, FORCE))
  <1> DEFINE K == Append(L, FORCE)
  <1>1. /\ Len(L) \in Nat /\ Len(K) = Len(L) + 1 /\ K[Len(L) + 1] = FORCE
        /\ \A p \in 1..Len(L) : K[p] = L[p]
    BY AppendFacts, SpecialBytes
  <1> HIDE DEF K
  <1>2. \A p \in 1..Len(K) : (p \in 1..Len(L) /\ p # Len(L) + 1) \/ p = Len(L) + 1
    BY <1>1
  <1>3. Len(L) + 1 \in 1..Len(K)
    BY <1>1
  <1>4. \A q \in 1..Len(K) : K[q] = FORCE <=> q = Len(L) + 1
    BY <1>1, <1>2 DEF NoForce
  <1>5. OneForce(K)
    BY <1>3, <1>4 DEF OneForce
  <1> QED BY <1>5 DEF K

LEMMA DirectionQuiet ==
  ASSUME NEW in, NEW esc, NEW L, NEW F, NEW out, NEW last, NEW t, NEW back, NEW new,
         Direction(in, esc, L, F, out, last, t, back), Quiet(back, new)
  PROVE  Direction(in, esc, L, F, out, last, t, new)
  BY DEF Direction, Quiet

(* A request of the receiver itself is under way only if it has asked, and *)
(* then the sender has the character.                                      *)
LEMMA RequestAnswered ==
  ASSUME NEW in, NEW esc, NEW L, NEW F \in Flights, NEW out, NEW last, NEW t,
         NEW back \in Seq(Byte), back # <<>>, Head(back) = FORCE,
         Direction(in, esc, L, F, out, last, t, back)
  PROVE  /\ Asked(in, esc, L, F, out, last, t) /\ NoForce(Tail(back))
         /\ Len(F) = 1 /\ F[1][1] \in Bufs /\ F[1][2] \in Chars /\ F[1][2] \in Byte
         /\ last # NoLast
  <1>1. /\ OneForce(back) /\ Asked(in, esc, L, F, out, last, t) /\ NoForce(Tail(back))
    BY TailForce DEF Direction
  <1>2. Len(F) = 1 /\ last = LastSent(F[1][2])
    BY <1>1 DEF Asked
  <1>3. F[1] \in Bufs \X Chars
    <2>1. 1 \in 1..Len(F)
      BY <1>2
    <2> QED BY <2>1 DEF Flights
  <1>4. F[1][1] \in Bufs /\ F[1][2] \in Chars /\ F[1][2] \in Byte
    BY <1>3, SermuxAssumption
  <1> QED BY <1>1, <1>2, <1>4, Encoded

LEMMA DirectionForce ==
  ASSUME NEW in, NEW esc, NEW L \in Seq(Byte), NEW F \in Flights, NEW out, NEW last, NEW t,
         NEW back, Direction(in, esc, L, F, out, last, t, back)
  PROVE  Direction(in, esc, Append(L, FORCE), F, out, last, t, back)
  BY CodedForce, UnplacedForce, AskedForce DEF Direction

LEMMA DirectionSpecial ==
  ASSUME NEW in, NEW esc \in BOOLEAN, NEW L \in Seq(Byte), L # <<>>, NEW F \in Flights,
         NEW out, NEW last, NEW t, NEW back, Direction(in, esc, L, F, out, last, t, back),
         Special(Head(L)), NEW new, NEW e \in BOOLEAN,
         new = IF IsId(Head(L)) THEN Head(L).base ELSE in, e <=> Head(L) = ESC \/ esc
  PROVE  Direction(new, e, Tail(L), F, out, last, t, back)
  <1>1. CASE NoForce(back) /\ Coded(in, esc, L, F, out, t)
    BY <1>1, CodedSpecial DEF Direction
  <1>2. CASE NoForce(back) /\ Unplaced(in, esc, L, F, out, last, t)
    <2>1. ~ IsId(Head(L)) /\ Unplaced(in, e, Tail(L), F, out, last, t)
      BY <1>2, UnplacedSpecial
    <2> QED BY <1>2, <2>1 DEF Direction
  <1>3. CASE OneForce(back) /\ Asked(in, esc, L, F, out, last, t)
    <2>1. Head(L) = FORCE /\ Asked(in, esc, Tail(L), F, out, last, t)
      BY <1>3, AskedTail
    <2>2. new = in /\ e = esc
      BY <2>1, SpecialBytes
    <2> QED BY <1>3, <2>1, <2>2 DEF Direction
  <1> QED BY <1>1, <1>2, <1>3 DEF Direction

(* Unless the characters can be placed, the receiver is stuck with one.    *)
LEMMA StuckAlone ==
  ASSUME NEW in, NEW esc, NEW L \in Seq(Byte), NEW F \in Flights, NEW out, NEW last, NEW t,
         Unplaced(in, esc, L, F, out, last, t) \/ Asked(in, esc, L, F, out, last, t),
         F # <<>>
  PROVE  Stuck(in, L, F)
  <1>1. CASE Unplaced(in, esc, L, F, out, last, t)
    <2>1. PICK d : Reading(d, in, esc, L) /\ AllUnknown(d, L)
      BY <1>1 DEF Unplaced
    <2>2. 0 \in 0..Len(L) /\ \A p \in 1..Len(L) : p \in 0..Len(L)
      OBVIOUS
    <2>3. in = None
      BY <2>1, <2>2 DEF Reading, AllUnknown
    <2>4. \A p \in 1..Len(L) : ~ IsId(L[p])
      BY <2>1, <2>2, RingAssumption DEF Reading, Follows, AllUnknown, IsId
    <2> QED BY <2>3, <2>4 DEF Stuck
  <1>2. CASE Asked(in, esc, L, F, out, last, t)
    BY <1>2, SpecialBytes DEF Asked, Stuck
  <1> QED BY <1>1, <1>2

(* A character is delivered, the next one at its service, or asked for.    *)
LEMMA DirectionCharacter ==
  ASSUME NEW in, NEW esc \in BOOLEAN, NEW L \in Seq(Byte), L # <<>>, NEW F \in Flights,
         NEW out, NEW last, NEW t, NEW back \in Seq(Byte),
         Direction(in, esc, L, F, out, last, t, back), ~ Special(Head(L))
  PROVE  /\ esc => Special(Xor(Head(L)))
         /\ in # None => /\ in \in Bufs /\ IsNext(F, in, Decoded(esc, Head(L)))
                         /\ Direction(in, FALSE, Tail(L), Tail(F), out, last, t, back)
         /\ in = None => /\ Direction(in, FALSE, Tail(L), F, out, last, t, Append(back, FORCE))
                         /\ Stuck(in, L, F) /\ t.step = "idle"
  <1>1. CASE NoForce(back) /\ Coded(in, esc, L, F, out, t)
    <2>1. /\ Coded(in, FALSE, Tail(L), Tail(F), out, t)
          /\ in \in Bufs /\ IsNext(F, in, Decoded(esc, Head(L)))
          /\ esc => Special(Xor(Head(L)))
      BY <1>1, CodedCharacter
    <2>2. Kept(Tail(F), out, last, t)
      <3>1. /\ Len(F) \in Nat /\ Len(Tail(F)) = Len(F) - 1 /\ Tail(F) \in Flights
            /\ \A k \in 1..Len(F) - 1 : Tail(F)[k] = F[k + 1]
        BY <2>1, TailFacts DEF Flights, IsNext
      <3>2. ASSUME Tail(F) # <<>> PROVE Tail(F)[Len(Tail(F))] = F[Len(F)]
        <4>1. Len(Tail(F)) >= 1
          BY <3>1, <3>2, EmptySeq DEF Flights
        <4>2. Len(Tail(F)) \in 1..Len(F) - 1 /\ Len(Tail(F)) + 1 = Len(F)
          BY <3>1, <4>1
        <4> QED BY <3>1, <4>2
      <3> QED BY <2>1, <3>2 DEF Direction, Kept, IsNext
    <2>3. in # None
      BY <2>1, RingAssumption
    <2> QED BY <1>1, <2>1, <2>2, <2>3 DEF Direction
  <1>2. CASE NoForce(back) /\ Unplaced(in, esc, L, F, out, last, t)
    <2>1. /\ Asked(in, FALSE, Tail(L), F, out, last, t) /\ in = None
          /\ esc => Special(Xor(Head(L)))
      BY <1>2, UnplacedCharacter
    <2>2. F # <<>> /\ t.step = "idle"
      BY <2>1, OneInFlight DEF Asked, Flights
    <2>3. Stuck(in, L, F)
      BY <1>2, <2>2, StuckAlone
    <2> QED BY <1>2, <2>1, <2>2, <2>3, AppendForce DEF Direction
  <1>3. CASE OneForce(back) /\ Asked(in, esc, L, F, out, last, t)
    BY <1>3, AskedTail, SpecialBytes
  <1> QED BY <1>1, <1>2, <1>3 DEF Direction

LEMMA DirectionRestart ==
  ASSUME NEW in, NEW esc \in BOOLEAN, NEW L \in Seq(Byte), NEW F \in Flights, NEW out,
         NEW last, NEW t, NEW back, Direction(in, esc, L, F, out, last, t, back),
         Len(F) <= 1, F # <<>> => last # NoLast \/ t.step # "idle"
  PROVE  Direction(None, FALSE, L, F, out, last, t, back)
  <1>1. CASE NoForce(back) /\ Coded(in, esc, L, F, out, t)
    <2>1. F # <<>> => Len(F) = 1
      <3>1. Len(F) \in Nat /\ (F # <<>> => Len(F) # 0)
        BY EmptySeq DEF Flights
      <3> QED BY <3>1, AtMostOne
    <2>2. Repeatable(F, out, last, t)
      BY <2>1 DEF Direction, Kept, Repeatable
    <2> QED BY <1>1, <2>2, CodedRestart DEF Direction
  <1>2. CASE NoForce(back) /\ Unplaced(in, esc, L, F, out, last, t)
    BY <1>2, UnplacedRestart DEF Direction
  <1>3. CASE OneForce(back) /\ Asked(in, esc, L, F, out, last, t)
    BY <1>3 DEF Direction, Asked
  <1> QED BY <1>1, <1>2, <1>3 DEF Direction

(* What reaches a receiver that does not run is lost.                      *)
LEMMA DirectionLose ==
  ASSUME NEW L \in Seq(Byte), L # <<>>, NEW F \in Flights, NEW out, NEW last, NEW t,
         NEW back, Direction(None, FALSE, L, F, out, last, t, back), NEW G \in Flights,
         G = IF Special(Head(L)) \/ F = <<>> THEN F ELSE Tail(F),
         Len(G) <= 1, G # <<>> => last # NoLast \/ t.step # "idle"
  PROVE  Direction(None, FALSE, Tail(L), G, out, last, t, back)
  <1>1. CASE Special(Head(L))
    <2> DEFINE new == IF IsId(Head(L)) THEN Head(L).base ELSE None
    <2>1. (Head(L) = ESC) \in BOOLEAN /\ FALSE \in BOOLEAN
      OBVIOUS
    <2> HIDE DEF new
    <2>2. Direction(new, Head(L) = ESC, Tail(L), F, out, last, t, back)
      BY <1>1, <2>1, DirectionSpecial DEF new
    <2>3. Tail(L) \in Seq(Byte) /\ G = F
      BY <1>1, TailFacts
    <2> QED BY <2>2, <2>3, DirectionRestart
  <1>2. CASE ~ Special(Head(L))
    <2>1. ~ Coded(None, FALSE, L, F, out, t)
      BY <1>2, CodedCharacter, RingAssumption
    <2>2. ~ Asked(None, FALSE, L, F, out, last, t)
      BY <1>2, AskedTail, SpecialBytes
    <2>3. NoForce(back) /\ Unplaced(None, FALSE, L, F, out, last, t)
      BY <2>1, <2>2 DEF Direction
    <2>4. Asked(None, FALSE, Tail(L), F, out, last, t)
      BY <1>2, <2>3, UnplacedCharacter
    <2>5. Len(F) = 1 /\ F # <<>>
      BY <2>4, OneInFlight DEF Asked, Flights
    <2>6. G = <<>>
      <3>1. G = Tail(F) /\ Len(Tail(F)) = 0
        BY <1>2, <2>5, TailFacts DEF Flights
      <3> QED BY <3>1, EmptySeq DEF Flights
    <2>7. Tail(L) \in Seq(Byte)
      BY TailFacts
    <2>8. Unplaced(None, FALSE, Tail(L), <<>>, out, last, t)
      BY <2>4, <2>7, AskedFresh
    <2> QED BY <2>3, <2>6, <2>8 DEF Direction, Kept
  <1> QED BY <1>1, <1>2

(* A sender that forgets what it has sent can leave it to a receiver that  *)
(* is not stuck.                                                           *)
LEMMA SenderRestart ==
  ASSUME NEW in, NEW esc, NEW L \in Seq(Byte), NEW F \in Flights, NEW out, NEW last, NEW t,
         NEW back, Direction(in, esc, L, F, out, last, t, back), ~ Stuck(in, L, F),
         t.step = "idle", NEW u, u.step = "idle"
  PROVE  Direction(in, esc, L, F, None, NoLast, u, back)
  <1>1. Kept(F, None, NoLast, u)
    BY DEF Kept
  <1>2. Coded(in, esc, L, F, out, t) => Coded(in, esc, L, F, None, u)
    BY DEF Coded, Told, Counted
  <1>3. Unplaced(in, esc, L, F, out, last, t) => Unplaced(in, esc, L, F, None, NoLast, u)
    BY StuckAlone DEF Unplaced, Repeatable, Counted, Untold
  <1>4. ~ Asked(in, esc, L, F, out, last, t)
    BY StuckAlone, OneInFlight DEF Asked, Flights
  <1> QED BY <1>1, <1>2, <1>3, <1>4 DEF Direction

-----------------------------------------------------------------------------
LEMMA DirectionStart ==
  ASSUME NEW in, NEW esc, NEW L \in Seq(Byte), NEW F \in Flights, NEW out, NEW last, NEW t,
         NEW back, NEW u, NEW s \in Bufs, NEW c \in Chars,
         Direction(in, esc, L, F, out, last, t, back), t.step = "idle",
         ~ Stuck(in, L, F), u.step = "id", u.s = s, u.c = c
  PROVE  Direction(in, esc, L, Append(F, <<s, c>>), out, last, u, back)
  <1>1. Kept(Append(F, <<s, c>>), out, last, u)
    BY DEF Kept
  <1>2. CASE NoForce(back) /\ Coded(in, esc, L, F, out, t)
    BY <1>1, <1>2, CodedStart DEF Direction
  <1>3. CASE NoForce(back) /\ Unplaced(in, esc, L, F, out, last, t)
    <2>1. F = <<>>
      BY <1>3, StuckAlone
    <2> QED BY <1>1, <1>3, <2>1, UnplacedStart DEF Direction
  <1>4. CASE OneForce(back) /\ Asked(in, esc, L, F, out, last, t)
    <2>1. Len(F) = 1
      BY <1>4 DEF Asked
    <2>2. F # <<>>
      BY <2>1, OneInFlight DEF Flights
    <2> QED BY <1>4, <2>2, StuckAlone
  <1> QED BY <1>2, <1>3, <1>4 DEF Direction

LEMMA DirectionId ==
  ASSUME NEW in, NEW esc, NEW L \in Seq(Byte), NEW F \in Flights, NEW out, NEW last, NEW t,
         NEW back, NEW u, Direction(in, esc, L, F, out, last, t, back),
         t.step = "id", t.s \in Bufs, u.step = "data", u.s = t.s, u.c = t.c
  PROVE  /\ t.s = out => Direction(in, esc, L, F, out, last, u, back)
         /\ t.s # out => Direction(in, esc, Append(L, Id(t.s)), F, out, last, u, back)
  <1>1. Kept(F, out, last, u)
    BY DEF Kept
  <1>2. CASE NoForce(back) /\ Coded(in, esc, L, F, out, t)
    BY <1>1, <1>2, CodedId DEF Direction
  <1>3. CASE NoForce(back) /\ Unplaced(in, esc, L, F, out, last, t)
    BY <1>1, <1>3, UnplacedId DEF Direction
  <1>4. CASE OneForce(back) /\ Asked(in, esc, L, F, out, last, t)
    BY <1>4 DEF Asked
  <1> QED BY <1>2, <1>3, <1>4 DEF Direction

(* uart_last_sent changes before the character is on the line.             *)
LEMMA DirectionLast ==
  ASSUME NEW in, NEW esc, NEW L, NEW F, NEW out, NEW last, NEW t, NEW back, NEW new,
         Direction(in, esc, L, F, out, last, t, back), t.step # "idle"
  PROVE  Direction(in, esc, L, F, out, new, t, back)
  BY DEF Direction, Kept, Unplaced, Repeatable, Asked

LEMMA DirectionEsc ==
  ASSUME NEW in, NEW esc, NEW L \in Seq(Byte), NEW F \in Flights, NEW out, NEW last, NEW t,
         NEW back, NEW u, NEW new, Direction(in, esc, L, F, out, last, t, back),
         t.step = "data", Special(t.c), u.step = "flip", u.s = t.s, u.c = t.c
  PROVE  Direction(in, esc, Append(L, ESC), F, out, new, u, back)
  <1>1. Kept(F, out, new, u)
    BY DEF Kept
  <1>2. CASE NoForce(back) /\ Coded(in, esc, L, F, out, t)
    BY <1>1, <1>2, CodedEsc DEF Direction
  <1>3. CASE NoForce(back) /\ Unplaced(in, esc, L, F, out, last, t)
    BY <1>1, <1>3, UnplacedEsc DEF Direction
  <1>4. CASE OneForce(back) /\ Asked(in, esc, L, F, out, last, t)
    BY <1>4 DEF Asked
  <1> QED BY <1>2, <1>3, <1>4 DEF Direction

LEMMA DirectionData ==
  ASSUME NEW in, NEW esc, NEW L \in Seq(Byte), NEW F \in Flights, NEW out, NEW last, NEW t,
         NEW back, NEW u, Direction(in, esc, L, F, out, last, t, back),
         t.s \in Bufs, t.c \in Byte, t.step = (IF Special(t.c) THEN "flip" ELSE "data"),
         u.step = "idle"
  PROVE  Direction(in, esc, Append(L, Enc(t.c)), F, t.s, LastSent(t.c), u, back)
  <1>1. t.step \in {"data", "flip"}
    OBVIOUS
  <1>2. CASE NoForce(back) /\ Coded(in, esc, L, F, out, t)
    <2>1. \E d : Counted(d[Len(L)], F, t)
      BY <1>2 DEF Coded
    <2>2. F[Len(F)] = <<t.s, t.c>>
      BY <1>1, <2>1 DEF Counted
    <2>3. Kept(F, t.s, LastSent(t.c), u)
      BY <2>2 DEF Kept
    <2> QED BY <1>2, <2>3, CodedData DEF Direction
  <1>3. CASE NoForce(back) /\ Unplaced(in, esc, L, F, out, last, t)
    <2>1. \E d : Counted(d[Len(L)], F, t)
      BY <1>3 DEF Unplaced
    <2>2. F[Len(F)] = <<t.s, t.c>>
      BY <1>1, <2>1 DEF Counted
    <2>3. Kept(F, t.s, LastSent(t.c), u)
      BY <2>2 DEF Kept
    <2> QED BY <1>1, <1>3, <2>3, UnplacedData DEF Direction
  <1>4. CASE OneForce(back) /\ Asked(in, esc, L, F, out, last, t)
    BY <1>1, <1>4 DEF Asked
  <1> QED BY <1>2, <1>3, <1>4 DEF Direction

(* The bytes of a character c for the service s, after L.                  *)
Announced(L, s, out) == IF s # out THEN Append(L, Id(s)) ELSE L

Escaped(L, c) == IF Special(c) THEN Append(L, ESC) ELSE L

Transmitted(L, s, out, c) == Append(Escaped(Announced(L, s, out), c), Enc(c))

Sequel(s, out, c) == (IF s # out THEN <<Id(s)>> ELSE <<>>)
                     \o (IF Special(c) THEN <<ESC, Xor(c)>> ELSE <<c>>)

LEMMA TransmittedLine ==
  ASSUME NEW L \in Seq(Byte), NEW s \in Bufs, NEW out, NEW c \in Byte
  PROVE  /\ Announced(L, s, out) \in Seq(Byte)
         /\ Escaped(Announced(L, s, out), c) \in Seq(Byte)
         /\ Transmitted(L, s, out, c) \in Seq(Byte)
         /\ Quiet(L, Transmitted(L, s, out, c))
         /\ Transmitted(L, s, out, c) = L \o Sequel(s, out, c)
  <1>1. /\ Id(s) \in Byte /\ Id(s) # FORCE /\ ESC \in Byte /\ ESC # FORCE
        /\ Enc(c) \in Byte /\ Enc(c) # FORCE /\ Enc(c) = IF Special(c) THEN Xor(c) ELSE c
    BY SpecialBytes, Encoded DEF Special
  <1>2. \A K \in Seq(Byte) : Quiet(K, K)
    BY DEF Quiet
  <1>3. Announced(L, s, out) \in Seq(Byte) /\ Quiet(L, Announced(L, s, out))
    BY <1>1, <1>2, QuietAppend, AppendFacts DEF Announced
  <1> DEFINE A == Announced(L, s, out)
             E == Escaped(A, c)
  <1>4. E \in Seq(Byte) /\ Quiet(A, E)
    BY <1>1, <1>2, <1>3, QuietAppend, AppendFacts DEF Escaped
  <1>5. Append(E, Enc(c)) \in Seq(Byte) /\ Quiet(E, Append(E, Enc(c)))
    BY <1>1, <1>4, QuietAppend, AppendFacts
  <1>6. Quiet(L, Append(E, Enc(c)))
    BY <1>3, <1>4, <1>5 DEF Quiet
  <1>7. /\ \A x \in Byte : L \o <<x>> = Append(L, x)
        /\ \A x \in Byte, y \in Byte : L \o <<x, y>> = Append(Append(L, x), y)
        /\ \A x \in Byte, y \in Byte, z \in Byte :
             L \o <<x, y, z>> = Append(Append(Append(L, x), y), z)
    OBVIOUS
  <1>8. Append(E, Enc(c)) = L \o Sequel(s, out, c)
    BY <1>1, <1>7 DEF Announced, Escaped, Sequel
  <1> QED BY <1>3, <1>4, <1>5, <1>6, <1>8 DEF Transmitted

(* So does an end that repeats it.                                         *)
Again(out, last) == <<Id(out)>> \o (IF last.esc THEN <<ESC>> ELSE <<>>) \o <<last.byte>>

LEMMA RepeatedLine ==
  ASSUME NEW L \in Seq(Byte), NEW out \in Bufs, NEW last, NEW c \in Byte, last = LastSent(c)
  PROVE  Transmitted(L, out, None, c) = L \o Again(out, last)
  <1>1. /\ Id(out) \in Byte /\ ESC \in Byte /\ Enc(c) \in Byte /\ out # None
        /\ (last.esc <=> Special(c)) /\ last.byte = Enc(c)
    BY SpecialBytes, Encoded
  <1>2. /\ \A x \in Byte, y \in Byte : L \o (<<x>> \o <<>> \o <<y>>) = Append(Append(L, x), y)
        /\ \A x \in Byte, y \in Byte, z \in Byte :
             L \o (<<x>> \o <<y>> \o <<z>>) = Append(Append(Append(L, x), y), z)
    OBVIOUS
  <1>3. CASE Special(c)
    <2>1. Again(out, last) = <<Id(out)>> \o <<ESC>> \o <<Enc(c)>>
      BY <1>1, <1>3 DEF Again
    <2>2. Transmitted(L, out, None, c) = Append(Append(Append(L, Id(out)), ESC), Enc(c))
      BY <1>1, <1>3 DEF Transmitted, Announced, Escaped
    <2>3. L \o (<<Id(out)>> \o <<ESC>> \o <<Enc(c)>>)
            = Append(Append(Append(L, Id(out)), ESC), Enc(c))
      BY <1>1, <1>2, Zenon
    <2> QED BY <2>1, <2>2, <2>3, Zenon
  <1>4. CASE ~ Special(c)
    <2>1. Again(out, last) = <<Id(out)>> \o <<>> \o <<Enc(c)>>
      BY <1>1, <1>4 DEF Again
    <2>2. Transmitted(L, out, None, c) = Append(Append(L, Id(out)), Enc(c))
      BY <1>1, <1>4 DEF Transmitted, Announced, Escaped
    <2> QED BY <1>1, <1>2, <2>1, <2>2
  <1> QED BY <1>3, <1>4

LEMMA CodedSend ==
  ASSUME NEW in, NEW esc, NEW L \in Seq(Byte), NEW F \in Flights, NEW out, NEW t,
         NEW s \in Bufs, NEW c \in Chars, Coded(in, esc, L, F, out, t), t.step = "idle"
  PROVE  Coded(in, esc, Transmitted(L, s, out, c), Append(F, <<s, c>>), s, t)
  <1> DEFINE G == Append(F, <<s, c>>)
             x == [step |-> "id", s |-> s, c |-> c]
             y == [step |-> "data", s |-> s, c |-> c]
             z == [step |-> "flip", s |-> s, c |-> c]
             A == Announced(L, s, out)
             E == Escaped(A, c)
  <1>1. /\ x.step = "id" /\ x.s = s /\ x.c = c /\ y.step = "data" /\ y.s = s /\ y.c = c
        /\ z.step = "flip" /\ z.s = s /\ z.c = c
    OBVIOUS
  <1>2. c \in Byte
    BY SermuxAssumption
  <1>3. A \in Seq(Byte) /\ E \in Seq(Byte)
    BY <1>2, TransmittedLine
  <1>4. G \in Flights
    BY DEF Flights
  <1> HIDE DEF G, x, y, z
  <1>5. Coded(in, esc, L, G, out, x)
    BY <1>1, CodedStart DEF G
  <1>6. Coded(in, esc, A, G, out, y)
    BY <1>1, <1>4, <1>5, CodedId DEF Announced
  <1> HIDE DEF A
  <1>7. CASE Special(c)
    <2>1. E = Append(A, ESC)
      BY <1>7 DEF Escaped
    <2>2. Coded(in, esc, E, G, out, z)
      BY <1>1, <1>3, <1>4, <1>6, <1>7, <2>1, CodedEsc
    <2> HIDE DEF E
    <2>3. Coded(in, esc, Append(E, Enc(c)), G, s, t)
      BY <1>1, <1>2, <1>3, <1>4, <1>7, <2>2, CodedData
    <2> QED BY <2>3 DEF Transmitted, A, E, G
  <1>8. CASE ~ Special(c)
    <2>1. E = A
      BY <1>8 DEF Escaped
    <2>2. Coded(in, esc, E, G, out, y)
      BY <1>6, <2>1
    <2> HIDE DEF E
    <2>3. Coded(in, esc, Append(E, Enc(c)), G, s, t)
      BY <1>1, <1>2, <1>3, <1>4, <1>8, <2>2, CodedData
    <2> QED BY <2>3 DEF Transmitted, A, E, G
  <1> QED BY <1>7, <1>8

LEMMA UnplacedSend ==
  ASSUME NEW in, NEW esc, NEW L \in Seq(Byte), NEW F \in Flights, NEW out, NEW last, NEW t,
         NEW s \in Bufs, NEW c \in Chars, Unplaced(in, esc, L, F, out, last, t),
         F = <<>>, t.step = "idle", s = out
  PROVE  Unplaced(in, esc, Transmitted(L, s, out, c), Append(F, <<s, c>>), s, LastSent(c), t)
  <1> DEFINE G == Append(F, <<s, c>>)
             x == [step |-> "id", s |-> s, c |-> c]
             y == [step |-> "data", s |-> s, c |-> c]
             z == [step |-> "flip", s |-> s, c |-> c]
             E == Escaped(L, c)
  <1>1. /\ x.step = "id" /\ x.s = s /\ x.c = c /\ y.step = "data" /\ y.s = s /\ y.c = c
        /\ z.step = "flip" /\ z.s = s /\ z.c = c
    OBVIOUS
  <1>2. c \in Byte
    BY SermuxAssumption
  <1>3. Announced(L, s, out) = L
    BY DEF Announced
  <1>4. E \in Seq(Byte)
    BY <1>2, <1>3, TransmittedLine
  <1>5. G \in Flights
    BY DEF Flights
  <1> HIDE DEF G, x, y, z
  <1>6. Unplaced(in, esc, L, G, out, last, x)
    BY <1>1, UnplacedStart DEF G
  <1>7. Unplaced(in, esc, L, G, out, last, y)
    BY <1>1, <1>5, <1>6, UnplacedId
  <1>8. CASE Special(c)
    <2>1. E = Append(L, ESC)
      BY <1>8 DEF Escaped
    <2>2. Unplaced(in, esc, E, G, out, last, z)
      BY <1>1, <1>4, <1>5, <1>7, <1>8, <2>1, UnplacedEsc
    <2> HIDE DEF E
    <2>3. Unplaced(in, esc, Append(E, Enc(c)), G, s, LastSent(c), t)
      BY <1>1, <1>2, <1>4, <1>5, <2>2, UnplacedData
    <2> QED BY <1>3, <2>3 DEF Transmitted, E, G
  <1>9. CASE ~ Special(c)
    <2>1. E = L
      BY <1>9 DEF Escaped
    <2>2. Unplaced(in, esc, E, G, out, last, y)
      BY <1>7, <2>1
    <2> HIDE DEF E
    <2>3. Unplaced(in, esc, Append(E, Enc(c)), G, s, LastSent(c), t)
      BY <1>1, <1>2, <1>4, <1>5, <2>2, UnplacedData
    <2> QED BY <1>3, <2>3 DEF Transmitted, E, G
  <1> QED BY <1>8, <1>9

LEMMA DirectionSend ==
  ASSUME NEW in, NEW esc, NEW L \in Seq(Byte), NEW F \in Flights, NEW out, NEW last, NEW t,
         NEW back, NEW s \in Bufs, NEW c \in Chars,
         Direction(in, esc, L, F, out, last, t, back), t.step = "idle",
         ~ Stuck(in, L, F)
  PROVE  Direction(in, esc, Transmitted(L, s, out, c), Append(F, <<s, c>>), s, LastSent(c), t, back)
  <1> DEFINE G == Append(F, <<s, c>>)
  <1>1. G[Len(G)] = <<s, c>>
    BY DEF Flights
  <1>2. Kept(G, s, LastSent(c), t)
    BY <1>1 DEF Kept
  <1>3. CASE NoForce(back) /\ Coded(in, esc, L, F, out, t)
    BY <1>2, <1>3, CodedSend DEF Direction
  <1>4. CASE NoForce(back) /\ Unplaced(in, esc, L, F, out, last, t)
    <2>1. F = <<>>
      BY <1>4, StuckAlone
    <2>2. CASE s = out
      BY <1>2, <1>4, <2>1, <2>2, UnplacedSend DEF Direction
    <2>3. CASE s # out
      <3>1. Coded(in, esc, L, F, None, t)
        BY <1>4, <2>1, UnplacedFresh
      <3>2. Coded(in, esc, Transmitted(L, s, None, c), G, s, t)
        BY <3>1, CodedSend
      <3>3. Transmitted(L, s, None, c) = Transmitted(L, s, out, c)
        BY <2>3, RingAssumption DEF Transmitted, Announced
      <3> QED BY <1>2, <1>4, <3>2, <3>3 DEF Direction
    <2> QED BY <2>2, <2>3
  <1>5. CASE OneForce(back) /\ Asked(in, esc, L, F, out, last, t)
    <2>1. Len(F) = 1
      BY <1>5 DEF Asked
    <2>2. F # <<>>
      BY <2>1, OneInFlight DEF Flights
    <2> QED BY <1>5, <2>2, StuckAlone
  <1> QED BY <1>3, <1>4, <1>5 DEF Direction

(* The one character under way is sent again.                              *)
LEMMA DirectionRepeat ==
  ASSUME NEW in, NEW esc \in BOOLEAN, NEW L \in Seq(Byte), NEW F \in Flights, NEW out,
         NEW last, NEW t, NEW back, NEW s \in Bufs, NEW c \in Chars,
         Asked(in, esc, L, F, out, last, t), NoForce(back), F[1] = <<s, c>>
  PROVE  Direction(in, esc, Transmitted(L, s, None, c), F, s, NoLast, t, back)
  <1>1. Coded(in, esc, L, <<>>, None, t)
    BY AskedFresh
  <1>2. t.step = "idle" /\ Len(F) = 1
    BY DEF Asked
  <1>3. F = Append(<<>>, <<s, c>>)
    BY <1>2, OneInFlight DEF Flights
  <1>4. <<>> \in Flights
    BY DEF Flights
  <1>5. Coded(in, esc, Transmitted(L, s, None, c), Append(<<>>, <<s, c>>), s, t)
    BY <1>1, <1>2, <1>4, CodedSend
  <1>6. Coded(in, esc, Transmitted(L, s, None, c), F, s, t)
    BY <1>3, <1>5
  <1>7. Kept(F, s, NoLast, t)
    BY <1>2 DEF Kept
  <1> QED BY <1>6, <1>7 DEF Direction

-----------------------------------------------------------------------------
(* An end with in and esc takes a byte off the line L towards it; its own  *)
(* characters go out on the line K                                         *)

Both(in, esc, L, F, out, last, t, in2, esc2, K, G, out2, last2, t2) ==
  /\ Direction(in, esc, L, F, out, last, t, K)
  /\ Direction(in2, esc2, K, G, out2, last2, t2, L)

(* An escape or an identifier.                                             *)
LEMMA ReceiveSpecial ==
  ASSUME NEW in, NEW esc \in BOOLEAN, NEW L \in Seq(Byte), L # <<>>, NEW F \in Flights,
         NEW out, NEW last, NEW t, NEW K,
         NEW in2, NEW esc2, NEW G, NEW out2, NEW last2, NEW t2,
         Both(in, esc, L, F, out, last, t, in2, esc2, K, G, out2, last2, t2)
  PROVE  /\ Head(L) = ESC =>
              Both(in, TRUE, Tail(L), F, out, last, t, in2, esc2, K, G, out2, last2, t2)
         /\ IsId(Head(L)) =>
              Both(Head(L).base, esc, Tail(L), F, out, last, t, in2, esc2, K, G, out2, last2, t2)
  <1> USE DEF Both
  <1>1. Head(L) \in Byte
    BY TailFacts
  <1>2. Head(L) # FORCE => Direction(in2, esc2, K, G, out2, last2, t2, Tail(L))
    BY TailForce, DirectionQuiet
  <1>3. ASSUME Head(L) = ESC PROVE Direction(in, TRUE, Tail(L), F, out, last, t, K)
    <2>1. Special(Head(L)) /\ ~ IsId(Head(L))
      BY <1>3, SpecialBytes
    <2> QED BY <1>3, <2>1, DirectionSpecial
  <1>4. ASSUME IsId(Head(L))
        PROVE  Direction(Head(L).base, esc, Tail(L), F, out, last, t, K)
    <2>1. Special(Head(L)) /\ Head(L) # ESC
      BY <1>4, SpecialBytes DEF Special
    <2> QED BY <1>4, <2>1, DirectionSpecial
  <1>5. (Head(L) = ESC => Head(L) # FORCE) /\ (IsId(Head(L)) => Head(L) # FORCE)
    BY SpecialBytes
  <1> QED BY <1>2, <1>3, <1>4, <1>5

(* A request: the end still has the character.                             *)
LEMMA ReceiveForce ==
  ASSUME NEW in, NEW esc \in BOOLEAN, NEW L \in Seq(Byte), L # <<>>, NEW F \in Flights,
         NEW out, NEW last, NEW t, NEW K \in Seq(Byte),
         NEW in2, NEW esc2 \in BOOLEAN, NEW G \in Flights, NEW out2, NEW last2, NEW t2,
         Both(in, esc, L, F, out, last, t, in2, esc2, K, G, out2, last2, t2), Head(L) = FORCE
  PROVE  /\ last2 # NoLast /\ out2 \in Bufs /\ K \o Again(out2, last2) \in Seq(Byte)
         /\ Both(in, esc, Tail(L), F, out, last, t,
                 in2, esc2, K \o Again(out2, last2), G, out2, NoLast, t2)
  <1> USE DEF Both
  <1>1. /\ Asked(in2, esc2, K, G, out2, last2, t2) /\ NoForce(Tail(L)) /\ last2 # NoLast
        /\ Len(G) = 1 /\ G[1][1] \in Bufs /\ G[1][2] \in Chars /\ G[1][2] \in Byte
    BY RequestAnswered
  <1> DEFINE s == G[1][1]
             c == G[1][2]
             M == Transmitted(K, s, None, c)
  <1>2. out2 = s /\ last2 = LastSent(c)
    BY <1>1 DEF Asked
  <1>3. G[1] = <<s, c>>
    <2>1. 1 \in 1..Len(G)
      BY <1>1
    <2>2. G[1] \in Bufs \X Chars
      BY <2>1 DEF Flights
    <2> QED BY <2>2
  <1>4. s \in Bufs /\ c \in Chars /\ c \in Byte /\ s # None
    BY <1>1, RingAssumption
  <1> HIDE DEF s, c
  <1>5. M \in Seq(Byte) /\ Quiet(K, M)
    BY <1>4, TransmittedLine
  <1>6. M = K \o Again(out2, last2)
    BY <1>2, <1>4, RepeatedLine
  <1>9. Direction(in2, esc2, M, G, s, NoLast, t2, Tail(L))
    BY <1>1, <1>3, <1>4, DirectionRepeat
  <1>10. Direction(in, esc, Tail(L), F, out, last, t, K)
    <2>1. Special(Head(L)) /\ ~ IsId(Head(L)) /\ Head(L) # ESC
      BY SpecialBytes
    <2> QED BY <2>1, DirectionSpecial
  <1>11. Direction(in, esc, Tail(L), F, out, last, t, M)
    BY <1>5, <1>10, DirectionQuiet
  <1> QED BY <1>1, <1>2, <1>4, <1>5, <1>6, <1>9, <1>11

(* A character.                                                            *)
LEMMA ReceiveCharacter ==
  ASSUME NEW in, NEW esc \in BOOLEAN, NEW L \in Seq(Byte), L # <<>>, NEW F \in Flights,
         NEW out, NEW last, NEW t, NEW K \in Seq(Byte),
         NEW in2, NEW esc2, NEW G \in Flights, NEW out2, NEW last2, NEW t2,
         Both(in, esc, L, F, out, last, t, in2, esc2, K, G, out2, last2, t2), ~ Special(Head(L))
  PROVE  /\ esc => Special(Decoded(esc, Head(L)))
         /\ in # None =>
              /\ IsNext(F, in, Decoded(esc, Head(L)))
              /\ Both(in, FALSE, Tail(L), Tail(F), out, last, t, in2, esc2, K, G, out2, last2, t2)
         /\ in = None =>
              /\ Stuck(in, L, F) /\ t.step = "idle"
              /\ Both(in, FALSE, Tail(L), F, out, last, t,
                      in2, esc2, Append(K, FORCE), G, out2, last2, t2)
  <1> USE DEF Both
  <1>1. Head(L) # FORCE
    BY SpecialBytes
  <1>2. Direction(in2, esc2, K, G, out2, last2, t2, Tail(L))
    BY <1>1, TailForce, DirectionQuiet
  <1>3. Direction(in2, esc2, Append(K, FORCE), G, out2, last2, t2, Tail(L))
    BY <1>2, DirectionForce
  <1>4. esc => Decoded(esc, Head(L)) = Xor(Head(L))
    BY DEF Decoded
  <1> QED BY <1>2, <1>3, <1>4, DirectionCharacter

-----------------------------------------------------------------------------
(* The two directions of the line *)

(* The board has put the whole character on the line, but has not noted it *)
(* yet (uart_last_sent, uart_service_id_out).                              *)
Written == tx.step \in {"mark", "out"}

(* What platform_uart_send has done as far as the PC can tell.             *)
PcTx == IF tx.step = "idle" \/ Written THEN NoTx
        ELSE [step |-> IF tx.step = "last" THEN "data" ELSE tx.step, s |-> tx.s, c |-> tx.c]

PcOut == IF Written THEN tx.s ELSE dev.out

PcLast == IF Written THEN LastSent(tx.c) ELSE dev.last

(* What uart_last_sent holds meanwhile.                                    *)
TxNotes ==
  /\ tx.step \in {"data", "flip", "mark"} => dev.last = [esc |-> FALSE, byte |-> tx.c]
  /\ tx.step = "out" => dev.last = LastSent(tx.c)

BoardDir == Direction(dev.in, dev.esc, line["board"], flight["board"], host.out, host.last,
                      NoTx, line["pc"])

PcDir == Direction(host.in, host.esc, line["pc"], flight["pc"], PcOut, PcLast, PcTx,
                   line["board"])

Ordered == wrong = {} /\ BoardDir /\ PcDir /\ TxNotes

LEMMA StuckEnds ==
  /\ Unplaceable("board") <=> Stuck(dev.in, line["board"], flight["board"])
  /\ Unplaceable("pc") <=> Stuck(host.in, line["pc"], flight["pc"])
  BY DEF Unplaceable, Stuck, Service

LEMMA PcIdle ==
  ASSUME tx.step = "idle"
  PROVE  PcTx = NoTx /\ PcOut = dev.out /\ PcLast = dev.last
  BY DEF PcTx, PcOut, PcLast, Written

LEMMA HasLast ==
  ASSUME MuxTypes, TxNotes, PcLast # NoLast
  PROVE  dev.last # NoLast
  <1>1. Written => tx.c \in Byte
    BY TypeFacts DEF Written
  <1>2. None \notin Byte
    BY RingAssumption, SermuxAssumption
  <1>3. tx.step = "mark" => [esc |-> FALSE, byte |-> tx.c] # NoLast
    BY <1>1, <1>2 DEF Written, NoLast
  <1> QED BY <1>3 DEF PcLast, Written, TxNotes

LEMMA OrderUnchanged ==
  ASSUME Ordered, UNCHANGED <<dev, tx, host, line, flight, wrong>>
  PROVE  Ordered'
  <1>1. PcTx' = PcTx /\ PcOut' = PcOut /\ PcLast' = PcLast /\ NoTx' = NoTx
    BY DEF PcTx, PcOut, PcLast, Written, NoTx
  <1> QED BY <1>1 DEF Ordered, BoardDir, PcDir, TxNotes

LEMMA DevSendOrder ==
  ASSUME MuxTypes, Ordered, NEW s \in Bufs, NEW c \in Chars, DevSend(s, c), ~ trouble'
  PROVE  Ordered'
  <1> DEFINE G == Append(flight["pc"], <<s, c>>)
  <1>1. /\ tx.step = "idle" /\ tx' = [step |-> "id", s |-> s, c |-> c]
        /\ UNCHANGED <<dev, host, line, wrong>> /\ Send("pc", s, c)
    BY DEF DevSend
  <1>2. /\ flight'["pc"] = G /\ flight'["board"] = flight["board"]
        /\ ~ Stuck(host.in, line["pc"], flight["pc"])
    BY <1>1, SendTypes, EndFacts, StuckEnds
  <1>3. PcTx'.step = "id" /\ PcTx'.s = s /\ PcTx'.c = c /\ PcOut' = PcOut /\ PcLast' = PcLast
    BY <1>1 DEF PcTx, PcOut, PcLast, Written
  <1>4. PcTx.step = "idle"
    BY <1>1, PcIdle, TypeFacts
  <1>5. Direction(host.in, host.esc, line["pc"], G, PcOut, PcLast, PcTx', line["board"])
    BY <1>2, <1>3, <1>4, DirectionStart, TypeFacts DEF Ordered, PcDir
  <1>6. PcDir'
    BY <1>1, <1>2, <1>3, <1>5 DEF PcDir
  <1>7. BoardDir'
    BY <1>1, <1>2 DEF Ordered, BoardDir, NoTx
  <1>8. TxNotes'
    BY <1>1 DEF TxNotes
  <1> QED BY <1>1, <1>6, <1>7, <1>8 DEF Ordered

(* The steps of platform_uart_send put bytes on the line that are no       *)
(* requests.                                                               *)
LEMMA TxBoard ==
  ASSUME MuxTypes, BoardDir, NEW K, Quiet(line["pc"], K), line'["pc"] = K,
         line'["board"] = line["board"], dev'.in = dev.in, dev'.esc = dev.esc,
         UNCHANGED <<host, flight>>
  PROVE  BoardDir'
  <1>1. Direction(dev.in, dev.esc, line["board"], flight["board"], host.out, host.last, NoTx, K)
    BY DirectionQuiet DEF BoardDir
  <1> QED BY <1>1 DEF BoardDir, NoTx

LEMMA TxGoesOn ==
  ASSUME MuxTypes, NEW from \in Steps, NEW to \in Steps, NEW bytes \in Seq(Byte),
         NEW l \in Noted, NEW o \in Bufs \cup {None}, TxStep(from, to, bytes, l, o)
  PROVE  /\ line'["pc"] = line["pc"] \o bytes /\ line'["board"] = line["board"]
         /\ dev'.in = dev.in /\ dev'.esc = dev.esc /\ dev'.last = l /\ dev'.out = o
         /\ tx' = [step |-> to, s |-> tx.s, c |-> tx.c] /\ UNCHANGED <<host, flight, wrong>>
  <1>1. to \in Steps \cup {"idle"} /\ to # "idle"
    BY DEF Steps
  <1> QED BY <1>1, TxStepTypes

LEMMA TxDev ==
  ASSUME MuxTypes, NEW from, NEW to, NEW bytes, NEW l, NEW o, TxStep(from, to, bytes, l, o)
  PROVE  dev'.in = dev.in /\ dev'.esc = dev.esc /\ dev'.last = l /\ dev'.out = o
  <1>1. dev' = [dev EXCEPT !.last = l, !.out = o]
    BY DEF TxStep
  <1>2. dev = [in |-> dev.in, out |-> dev.out, esc |-> dev.esc, last |-> dev.last]
    BY DEF MuxTypes, State
  <1> QED BY <1>1, <1>2

LEMMA TxPuts ==
  ASSUME MuxTypes, NEW from, NEW to, NEW bytes \in Seq(Byte), NEW l, NEW o,
         TxStep(from, to, bytes, l, o)
  PROVE  line'["pc"] = line["pc"] \o bytes /\ line'["board"] = line["board"]
  BY PutTyped, EndFacts DEF TxStep

LEMMA TxEnds ==
  ASSUME MuxTypes, NEW from \in Steps, NEW bytes \in Seq(Byte),
         NEW l \in Noted, NEW o \in Bufs \cup {None}, TxStep(from, "idle", bytes, l, o)
  PROVE  /\ line'["pc"] = line["pc"] \o bytes /\ line'["board"] = line["board"]
         /\ dev'.in = dev.in /\ dev'.esc = dev.esc /\ dev'.last = l /\ dev'.out = o
         /\ tx' = NoTx /\ UNCHANGED <<host, flight, wrong>>
  <1>1. "idle" \in Steps \cup {"idle"}
    OBVIOUS
  <1>2. tx' = IF "idle" = "idle" THEN NoTx ELSE [step |-> "idle", s |-> tx.s, c |-> tx.c]
    BY <1>1, TxStepTypes
  <1>3. line'["pc"] = line["pc"] \o bytes /\ line'["board"] = line["board"]
    BY <1>1, TxStepTypes
  <1>4. dev'.in = dev.in /\ dev'.esc = dev.esc /\ dev'.last = l /\ dev'.out = o
    BY TxDev
  <1>5. UNCHANGED <<host, flight, wrong>>
    BY <1>1, TxStepTypes
  <1> QED BY <1>2, <1>3, <1>4, <1>5

LEMMA TxIdOrder ==
  ASSUME MuxTypes, Ordered, TxId
  PROVE  Ordered'
  <1> DEFINE bytes == IF tx.s # dev.out THEN <<Id(tx.s)>> ELSE <<>>
             K == IF tx.s # dev.out THEN Append(line["pc"], Id(tx.s)) ELSE line["pc"]
  <1>1. tx.step = "id" /\ TxStep("id", "last", bytes, dev.last, dev.out)
    BY DEF TxId, TxStep
  <1>2. /\ line'["pc"] = line["pc"] \o bytes /\ line'["board"] = line["board"]
        /\ dev'.in = dev.in /\ dev'.esc = dev.esc /\ dev'.last = dev.last /\ dev'.out = dev.out
        /\ tx' = [step |-> "last", s |-> tx.s, c |-> tx.c] /\ UNCHANGED <<host, flight, wrong>>
    <2>1. /\ bytes \in Seq(Byte) /\ dev.last \in Noted /\ dev.out \in Bufs \cup {None}
          /\ "id" \in Steps /\ "last" \in Steps
      BY <1>1, TransmitFacts DEF Steps
    <2> HIDE DEF bytes
    <2> QED BY <1>1, <2>1, TxGoesOn
  <1>3. tx.s \in Bufs /\ Id(tx.s) \in Byte /\ Id(tx.s) # FORCE
    BY <1>1, TypeFacts, SpecialBytes
  <1>4. line["pc"] \o bytes = K
    <2>1. line["pc"] \o <<Id(tx.s)>> = Append(line["pc"], Id(tx.s)) /\ line["pc"] \o <<>> = line["pc"]
      BY <1>3, TypeFacts
    <2> QED BY <2>1, Zenon
  <1>5. Quiet(line["pc"], K)
    BY <1>3, TypeFacts, QuietAppend DEF Quiet
  <1>6. /\ PcTx.step = "id" /\ PcTx.s = tx.s /\ PcTx.c = tx.c /\ PcOut = dev.out
        /\ PcTx'.step = "data" /\ PcTx'.s = tx.s /\ PcTx'.c = tx.c
        /\ PcOut' = PcOut /\ PcLast' = PcLast
    BY <1>1, <1>2 DEF PcTx, PcOut, PcLast, Written
  <1>7. Direction(host.in, host.esc, K, flight["pc"], PcOut, PcLast, PcTx', line["board"])
    BY <1>3, <1>6, TypeFacts, DirectionId DEF Ordered, PcDir
  <1>8. PcDir'
    BY <1>2, <1>4, <1>6, <1>7 DEF PcDir
  <1>9. BoardDir'
    BY <1>2, <1>4, <1>5, TxBoard DEF Ordered
  <1>10. TxNotes'
    BY <1>2 DEF TxNotes
  <1> QED BY <1>2, <1>8, <1>9, <1>10 DEF Ordered

(* Steps that put nothing on the line.                                     *)
LEMMA TxNoteOrder ==
  ASSUME MuxTypes, Ordered, TxLast \/ TxMark \/ TxOut
  PROVE  Ordered'
  <1>1. tx.step \in {"last", "mark", "out"} /\ tx.step # "idle"
    BY DEF TxLast, TxMark, TxOut, TxStep
  <1>2. line["pc"] \o <<>> = line["pc"] /\ <<>> \in Seq(Byte)
    BY TypeFacts
  <1>3. /\ "last" \in Steps /\ "data" \in Steps /\ "mark" \in Steps /\ "out" \in Steps
        /\ dev.last \in Noted /\ dev.out \in Bufs \cup {None} /\ tx.s \in Bufs \cup {None}
        /\ LastSent(tx.c) \in Noted /\ [esc |-> FALSE, byte |-> tx.c] \in Noted
    BY <1>1, TransmitFacts DEF Steps
  <1>4. Quiet(line["pc"], line["pc"])
    BY DEF Quiet
  <1>5. CASE TxLast
    <2>1. /\ tx.step = "last" /\ line'["pc"] = line["pc"] /\ line'["board"] = line["board"]
          /\ dev'.in = dev.in /\ dev'.esc = dev.esc /\ dev'.out = dev.out
          /\ dev'.last = [esc |-> FALSE, byte |-> tx.c]
          /\ tx' = [step |-> "data", s |-> tx.s, c |-> tx.c] /\ UNCHANGED <<host, flight, wrong>>
      <3>1. TxStep("last", "data", <<>>, [esc |-> FALSE, byte |-> tx.c], dev.out)
        BY <1>5 DEF TxLast
      <3>2. tx.step = "last"
        BY <3>1 DEF TxStep
      <3>3. line'["pc"] = line["pc"] \o <<>> /\ line'["board"] = line["board"]
        BY <1>2, <3>1, TxPuts
      <3>4. /\ dev'.in = dev.in /\ dev'.esc = dev.esc /\ dev'.out = dev.out
            /\ dev'.last = [esc |-> FALSE, byte |-> tx.c]
        BY <3>1, TxDev
      <3>5. tx' = [step |-> "data", s |-> tx.s, c |-> tx.c] /\ UNCHANGED <<host, flight, wrong>>
        BY <1>2, <1>3, <3>1, TxGoesOn
      <3> QED BY <1>2, <3>2, <3>3, <3>4, <3>5
    <2>2. PcTx' = PcTx /\ PcOut' = PcOut /\ PcTx.step # "idle"
      BY <2>1 DEF PcTx, PcOut, Written
    <2>3. Direction(host.in, host.esc, line["pc"], flight["pc"], PcOut, PcLast', PcTx, line["board"])
      BY <2>2, DirectionLast DEF Ordered, PcDir
    <2>4. PcDir'
      BY <2>1, <2>2, <2>3 DEF PcDir
    <2>5. BoardDir'
      BY <1>4, <2>1, TxBoard DEF Ordered
    <2>6. TxNotes'
      BY <2>1 DEF TxNotes
    <2> QED BY <2>1, <2>4, <2>5, <2>6 DEF Ordered
  <1>6. CASE TxMark
    <2>1. /\ tx.step = "mark" /\ line'["pc"] = line["pc"] /\ line'["board"] = line["board"]
          /\ dev'.in = dev.in /\ dev'.esc = dev.esc /\ dev'.out = dev.out
          /\ dev'.last = LastSent(tx.c)
          /\ tx' = [step |-> "out", s |-> tx.s, c |-> tx.c] /\ UNCHANGED <<host, flight, wrong>>
      <3>1. TxStep("mark", "out", <<>>, LastSent(tx.c), dev.out)
        BY <1>6 DEF TxMark
      <3>2. tx.step = "mark"
        BY <3>1 DEF TxStep
      <3>3. line'["pc"] = line["pc"] \o <<>> /\ line'["board"] = line["board"]
        BY <1>2, <3>1, TxPuts
      <3>4. /\ dev'.in = dev.in /\ dev'.esc = dev.esc /\ dev'.out = dev.out
            /\ dev'.last = LastSent(tx.c)
        BY <3>1, TxDev
      <3>5. tx' = [step |-> "out", s |-> tx.s, c |-> tx.c] /\ UNCHANGED <<host, flight, wrong>>
        BY <1>2, <1>3, <3>1, TxGoesOn
      <3> QED BY <1>2, <3>2, <3>3, <3>4, <3>5
    <2>2. PcTx' = PcTx /\ PcOut' = PcOut /\ PcLast' = PcLast
      BY <2>1 DEF PcTx, PcOut, PcLast, Written, NoTx, LastSent, Special, Xor, IsId, ESC, FORCE
    <2>3. PcDir'
      BY <2>1, <2>2 DEF Ordered, PcDir
    <2>4. BoardDir'
      BY <1>4, <2>1, TxBoard DEF Ordered
    <2>5. TxNotes'
      BY <2>1 DEF TxNotes, LastSent, Special, Xor, IsId, ESC, FORCE
    <2> QED BY <2>1, <2>3, <2>4, <2>5 DEF Ordered
  <1>7. CASE TxOut
    <2>1. /\ tx.step = "out" /\ line'["pc"] = line["pc"] /\ line'["board"] = line["board"]
          /\ dev'.in = dev.in /\ dev'.esc = dev.esc /\ dev'.out = tx.s
          /\ dev'.last = dev.last
          /\ tx' = NoTx /\ UNCHANGED <<host, flight, wrong>>
      <3>1. TxStep("out", "idle", <<>>, dev.last, tx.s)
        BY <1>7 DEF TxOut
      <3>2. tx.step = "out"
        BY <3>1 DEF TxStep
      <3>3. line'["pc"] = line["pc"] \o <<>> /\ line'["board"] = line["board"]
        BY <1>2, <3>1, TxPuts
      <3>4. /\ dev'.in = dev.in /\ dev'.esc = dev.esc /\ dev'.out = tx.s
            /\ dev'.last = dev.last
        BY <3>1, TxDev
      <3>5. tx' = NoTx /\ UNCHANGED <<host, flight, wrong>>
        BY <1>2, <1>3, <3>1, TxEnds
      <3> QED BY <1>2, <3>2, <3>3, <3>4, <3>5
    <2>2. PcTx' = PcTx /\ PcOut' = PcOut /\ PcLast' = PcLast
      BY <2>1, TypeFacts DEF PcTx, PcOut, PcLast, Written, NoTx, Ordered, TxNotes
    <2>3. PcDir'
      BY <2>1, <2>2 DEF Ordered, PcDir
    <2>4. BoardDir'
      BY <1>4, <2>1, TxBoard DEF Ordered
    <2>5. TxNotes'
      BY <2>1 DEF TxNotes, NoTx
    <2> QED BY <2>1, <2>3, <2>4, <2>5 DEF Ordered
  <1> QED BY <1>5, <1>6, <1>7

LEMMA TxEscOrder ==
  ASSUME MuxTypes, Ordered, TxData, Special(tx.c)
  PROVE  Ordered'
  <1> DEFINE K == Append(line["pc"], ESC)
  <1>1. tx.step = "data" /\ TxStep("data", "flip", <<ESC>>, dev.last, dev.out)
    BY DEF TxData
  <1>2. line["pc"] \o <<ESC>> = K /\ Quiet(line["pc"], K)
    BY SpecialBytes, TypeFacts, QuietAppend
  <1>3. /\ line'["pc"] = K /\ line'["board"] = line["board"]
        /\ dev'.in = dev.in /\ dev'.esc = dev.esc /\ dev'.last = dev.last /\ dev'.out = dev.out
        /\ tx' = [step |-> "flip", s |-> tx.s, c |-> tx.c] /\ UNCHANGED <<host, flight, wrong>>
    <2>1. /\ "data" \in Steps /\ "flip" \in Steps /\ <<ESC>> \in Seq(Byte)
          /\ dev.last \in Noted /\ dev.out \in Bufs \cup {None}
      BY <1>1, TransmitFacts DEF Steps
    <2>2. line'["pc"] = line["pc"] \o <<ESC>> /\ line'["board"] = line["board"]
      BY <1>1, <2>1, TxPuts
    <2>3. dev'.in = dev.in /\ dev'.esc = dev.esc /\ dev'.last = dev.last /\ dev'.out = dev.out
      BY <1>1, TxDev
    <2>4. tx' = [step |-> "flip", s |-> tx.s, c |-> tx.c] /\ UNCHANGED <<host, flight, wrong>>
      BY <1>1, <2>1, TxGoesOn
    <2> QED BY <1>2, <2>2, <2>3, <2>4
  <1> HIDE DEF K
  <1>4. /\ PcTx.step = "data" /\ PcTx.s = tx.s /\ PcTx.c = tx.c
        /\ PcTx'.step = "flip" /\ PcTx'.s = tx.s /\ PcTx'.c = tx.c
        /\ PcOut' = PcOut /\ PcLast' = PcLast
    BY <1>1, <1>3 DEF PcTx, PcOut, PcLast, Written
  <1>5. Direction(host.in, host.esc, K, flight["pc"], PcOut, PcLast, PcTx', line["board"])
    BY <1>4, TypeFacts, DirectionEsc DEF Ordered, PcDir, K
  <1>6. PcDir'
    BY <1>3, <1>4, <1>5 DEF PcDir
  <1>7. BoardDir'
    BY <1>2, <1>3, TxBoard DEF Ordered
  <1>8. TxNotes'
    BY <1>1, <1>3 DEF Ordered, TxNotes
  <1> QED BY <1>3, <1>6, <1>7, <1>8 DEF Ordered

(* The last byte of the character.                                         *)
LEMMA TxByteOrder ==
  ASSUME MuxTypes, Ordered, TxFlip \/ (TxData /\ ~ Special(tx.c))
  PROVE  Ordered'
  <1> DEFINE K == Append(line["pc"], Enc(tx.c))
  <1>1. /\ tx.step = IF TxFlip THEN "flip" ELSE "data"
        /\ TxStep(tx.step, IF TxFlip THEN "mark" ELSE "out",
                  <<IF TxFlip THEN Xor(tx.c) ELSE tx.c>>, dev.last, dev.out)
    BY DEF TxData, TxFlip, TxStep
  <1>2. tx.s \in Bufs /\ tx.c \in Byte /\ tx.step # "idle" /\ tx.step \in Steps
    BY <1>1, TypeFacts
  <1>3. PcTx.step = tx.step /\ PcTx.s = tx.s /\ PcTx.c = tx.c
    BY <1>1 DEF PcTx, Written
  <1>4. TxFlip <=> Special(tx.c)
    <2>1. tx.step = "flip" => Special(tx.c)
      <3> SUFFICES ASSUME tx.step = "flip" PROVE Special(tx.c)
        OBVIOUS
      <3>1. \E d : Counted(d[Len(line["pc"])], flight["pc"], PcTx)
        BY <1>3 DEF Ordered, PcDir, Direction, Coded, Unplaced, Asked
      <3> QED BY <1>3, <3>1 DEF Counted
    <2> QED BY <1>1, <2>1
  <1>5. /\ Enc(tx.c) \in Byte /\ Enc(tx.c) # FORCE
        /\ Enc(tx.c) = IF TxFlip THEN Xor(tx.c) ELSE tx.c
    BY <1>2, <1>4, Encoded, SpecialBytes
  <1>6. line["pc"] \o <<Enc(tx.c)>> = K /\ Quiet(line["pc"], K) /\ <<Enc(tx.c)>> \in Seq(Byte)
    BY <1>5, TypeFacts, QuietAppend
  <1>7. /\ line'["pc"] = K /\ line'["board"] = line["board"]
        /\ dev'.in = dev.in /\ dev'.esc = dev.esc /\ dev'.last = dev.last /\ dev'.out = dev.out
        /\ tx' = [step |-> IF TxFlip THEN "mark" ELSE "out", s |-> tx.s, c |-> tx.c]
        /\ UNCHANGED <<host, flight, wrong>>
    <2> DEFINE to == IF TxFlip THEN "mark" ELSE "out"
    <2>1. to \in Steps
      BY DEF Steps
    <2>2. TxStep(tx.step, to, <<Enc(tx.c)>>, dev.last, dev.out)
      BY <1>1, <1>5, Zenon
    <2> HIDE DEF to
    <2>3. /\ dev.last \in Noted /\ dev.out \in Bufs \cup {None}
      BY <1>2, TransmitFacts
    <2>4. /\ line'["pc"] = line["pc"] \o <<Enc(tx.c)>> /\ line'["board"] = line["board"]
          /\ dev'.in = dev.in /\ dev'.esc = dev.esc /\ dev'.last = dev.last /\ dev'.out = dev.out
          /\ tx' = [step |-> to, s |-> tx.s, c |-> tx.c] /\ UNCHANGED <<host, flight, wrong>>
      BY <1>2, <1>6, <2>1, <2>2, <2>3, TxGoesOn
    <2> QED BY <1>6, <2>4 DEF to
  <1> HIDE DEF K
  <1>8. /\ PcTx.step = (IF Special(PcTx.c) THEN "flip" ELSE "data") /\ PcTx'.step = "idle"
        /\ PcOut' = tx.s
    BY <1>1, <1>3, <1>4, <1>7 DEF PcTx, PcOut, Written, NoTx
  <1>9. PcLast' = LastSent(tx.c)
    BY <1>7 DEF PcLast, Written, LastSent, Special, Xor, IsId, ESC, FORCE
  <1>10. Direction(host.in, host.esc, K, flight["pc"], tx.s, LastSent(tx.c), PcTx', line["board"])
    BY <1>2, <1>3, <1>8, TypeFacts, DirectionData DEF Ordered, PcDir, K
  <1>11. PcDir'
    BY <1>7, <1>8, <1>9, <1>10 DEF PcDir
  <1>12. BoardDir'
    BY <1>6, <1>7, TxBoard DEF Ordered
  <1>13. TxNotes'
    <2>1. dev.last = [esc |-> FALSE, byte |-> tx.c]
      BY <1>1 DEF Ordered, TxNotes
    <2>2. ~ TxFlip => LastSent(tx.c) = [esc |-> FALSE, byte |-> tx.c]
      BY <1>4 DEF LastSent
    <2>3. tx'.c = tx.c /\ tx'.step = IF TxFlip THEN "mark" ELSE "out"
      BY <1>7
    <2> QED BY <1>7, <2>1, <2>2, <2>3 DEF TxNotes, LastSent, Special, Xor, IsId, ESC, FORCE
  <1> QED BY <1>7, <1>11, <1>12, <1>13 DEF Ordered

LEMMA HostSendOrder ==
  ASSUME MuxTypes, Ordered, NEW s \in Bufs, NEW c \in Chars, HostSend(s, c), ~ trouble'
  PROVE  Ordered'
  <1> DEFINE G == Append(flight["board"], <<s, c>>)
             K == Transmitted(line["board"], s, host.out, c)
  <1>1. /\ host' = [host EXCEPT !.out = s, !.last = LastSent(c)]
        /\ UNCHANGED <<dev, tx, wrong>> /\ Send("board", s, c)
        /\ Put("board", Sequel(s, host.out, c))
    BY DEF HostSend, Sequel
  <1>2. /\ flight'["board"] = G /\ flight'["pc"] = flight["pc"]
        /\ ~ Stuck(dev.in, line["board"], flight["board"])
    BY <1>1, SendTypes, EndFacts, StuckEnds
  <1>3. c \in Byte /\ G \in Flights
    BY TypeFacts DEF Flights
  <1>4. /\ K \in Seq(Byte) /\ Quiet(line["board"], K)
        /\ K = line["board"] \o Sequel(s, host.out, c)
    BY <1>3, TypeFacts, TransmittedLine
  <1>5. line' = [line EXCEPT !["board"] = K] /\ line \in [Ends -> Seq(Byte)]
    BY <1>1, <1>4, Zenon DEF Put, MuxTypes
  <1> HIDE DEF G, K
  <1>6. line'["board"] = K /\ line'["pc"] = line["pc"]
    BY <1>5, EndFacts
  <1>7. host'.in = host.in /\ host'.esc = host.esc /\ host'.out = s /\ host'.last = LastSent(c)
    BY <1>1 DEF MuxTypes, State
  <1>8. Direction(dev.in, dev.esc, K, G, s, LastSent(c), NoTx, line["pc"])
    BY <1>2, TypeFacts, DirectionSend DEF Ordered, BoardDir, G, K
  <1>9. BoardDir'
    BY <1>1, <1>2, <1>6, <1>7, <1>8 DEF BoardDir, NoTx
  <1>10. Direction(host.in, host.esc, line["pc"], flight["pc"], PcOut, PcLast, PcTx, K)
    BY <1>4, DirectionQuiet DEF Ordered, PcDir
  <1>11. PcTx' = PcTx /\ PcOut' = PcOut /\ PcLast' = PcLast
    BY <1>1 DEF PcTx, PcOut, PcLast, Written, NoTx, LastSent, Special, Xor, IsId, ESC, FORCE
  <1>12. PcDir'
    BY <1>2, <1>6, <1>7, <1>10, <1>11 DEF PcDir
  <1>13. TxNotes'
    BY <1>1 DEF Ordered, TxNotes, LastSent, Special, Xor, IsId, ESC, FORCE
  <1> QED BY <1>1, <1>9, <1>12, <1>13 DEF Ordered

-----------------------------------------------------------------------------
(* A byte is taken off the line *)

(* What the end with x does with the byte b of the line L: y is what it    *)
(* knows then, and K, with what it sends back, is the line the other way.  *)
Takes(x, y, L, K, M) ==
  LET b == Head(L) IN
  \/ /\ b = ESC /\ M = K
     /\ y.in = x.in /\ y.esc = TRUE /\ y.out = x.out /\ y.last = x.last
  \/ /\ IsId(b) /\ M = K
     /\ y.in = b.base /\ y.esc = x.esc /\ y.out = x.out /\ y.last = x.last
  \/ /\ b = FORCE /\ x.last # NoLast /\ M = K \o Repeated(x)
     /\ y.in = x.in /\ y.esc = x.esc /\ y.out = x.out /\ y.last = NoLast
  \/ /\ ~ Special(b) /\ x.in = None /\ M = Append(K, FORCE)
     /\ y.in = x.in /\ y.esc = FALSE /\ y.out = x.out /\ y.last = x.last

(* It takes the byte as a character for the service it knows.              *)
Places(x, y, L, K, M) ==
  /\ ~ Special(Head(L)) /\ x.in # None /\ M = K
  /\ y.in = x.in /\ y.esc = FALSE /\ y.out = x.out /\ y.last = x.last

LEMMA DevReceiveCases ==
  ASSUME MuxTypes, DevReceive
  PROVE  /\ line["board"] # <<>> /\ line'["board"] = Tail(line["board"])
         /\ UNCHANGED <<tx, host, up, sent, restarts>>
         /\ \/ /\ Takes(dev, dev', line["board"], line["pc"], line'["pc"])
               /\ UNCHANGED <<flight, wrong>>
               /\ Head(line["board"]) # FORCE => trouble' = trouble
               /\ Head(line["board"]) = FORCE => trouble' = (trouble \/ tx.step # "idle")
            \/ /\ Places(dev, dev', line["board"], line["pc"], line'["pc"])
               /\ \E taken : Deliver("board", dev.in, Decoded(dev.esc, Head(line["board"])), taken)
               /\ trouble' = trouble
            \/ Head(line["board"]) = FORCE /\ dev.last = NoLast
  <1> DEFINE L == line["board"]
             K == line["pc"]
             b == Head(L)
  <1>1. L # <<>> /\ UNCHANGED <<tx, host, up, sent, restarts>>
    BY DEF DevReceive
  <1>2. L \in Seq(Byte) /\ K \in Seq(Byte) /\ dev \in State
    BY TypeFacts DEF MuxTypes
  <1>3. \A bytes \in Seq(Byte) :
          Answer("board", bytes) => line'["board"] = Tail(L) /\ line'["pc"] = K \o bytes
    BY <1>1, Answered, EndFacts
  <1>4. /\ <<>> \in Seq(Byte) /\ <<FORCE>> \in Seq(Byte) /\ K \o <<>> = K
        /\ K \o <<FORCE>> = Append(K, FORCE)
    BY <1>2, SpecialBytes
  <1>5. dev.last # NoLast => Repeated(dev) \in Seq(Byte)
    BY <1>2, RepeatedBytes
  <1>6. ESC # FORCE /\ (IsId(b) => b # FORCE) /\ (~ Special(b) => b # FORCE)
    BY SpecialBytes
  <1>7. dev = [in |-> dev.in, out |-> dev.out, esc |-> dev.esc, last |-> dev.last]
    BY <1>2 DEF State
  <1>8. \/ /\ b = ESC /\ dev' = [dev EXCEPT !.esc = TRUE] /\ Answer("board", <<>>)
           /\ UNCHANGED <<flight, wrong, trouble>>
        \/ /\ IsId(b) /\ dev' = [dev EXCEPT !.in = b.base] /\ Answer("board", <<>>)
           /\ UNCHANGED <<flight, wrong, trouble>>
        \/ /\ b = FORCE /\ dev.last # NoLast /\ dev' = [dev EXCEPT !.last = NoLast]
           /\ Answer("board", Repeated(dev)) /\ trouble' = (trouble \/ tx.step # "idle")
           /\ UNCHANGED <<flight, wrong>>
        \/ b = FORCE /\ dev.last = NoLast
        \/ /\ ~ Special(b) /\ dev' = [dev EXCEPT !.esc = FALSE] /\ dev.in = None
           /\ Answer("board", <<FORCE>>) /\ UNCHANGED <<flight, wrong, trouble>>
        \/ /\ ~ Special(b) /\ dev' = [dev EXCEPT !.esc = FALSE] /\ dev.in # None
           /\ Answer("board", <<>>) /\ trouble' = trouble
           /\ \E taken : Deliver("board", dev.in, Decoded(dev.esc, b), taken)
    BY Zenon DEF DevReceive, Request, Decoded
  <1>9. line'["board"] = Tail(L)
    <2>1. \E bytes \in Seq(Byte) : Answer("board", bytes)
      <3>1. \/ Answer("board", <<>>) \/ Answer("board", <<FORCE>>)
            \/ dev.last # NoLast /\ Answer("board", Repeated(dev))
        BY Zenon DEF DevReceive, Request
      <3> QED BY <1>4, <1>5, <3>1
    <2> QED BY <1>3, <2>1
  <1> HIDE DEF L, K, b
  <1>10. CASE b = ESC /\ dev' = [dev EXCEPT !.esc = TRUE] /\ Answer("board", <<>>)
              /\ UNCHANGED <<flight, wrong, trouble>>
    BY <1>1, <1>3, <1>4, <1>6, <1>7, <1>9, <1>10 DEF Takes, L, K, b
  <1>11. CASE IsId(b) /\ dev' = [dev EXCEPT !.in = b.base] /\ Answer("board", <<>>)
              /\ UNCHANGED <<flight, wrong, trouble>>
    BY <1>1, <1>3, <1>4, <1>6, <1>7, <1>9, <1>11 DEF Takes, L, K, b
  <1>12. CASE b = FORCE /\ dev.last # NoLast /\ dev' = [dev EXCEPT !.last = NoLast]
              /\ Answer("board", Repeated(dev)) /\ trouble' = (trouble \/ tx.step # "idle")
              /\ UNCHANGED <<flight, wrong>>
    BY <1>1, <1>3, <1>5, <1>7, <1>9, <1>12 DEF Takes, L, K, b
  <1>13. CASE ~ Special(b) /\ dev' = [dev EXCEPT !.esc = FALSE] /\ dev.in = None
              /\ Answer("board", <<FORCE>>) /\ UNCHANGED <<flight, wrong, trouble>>
    BY <1>1, <1>3, <1>4, <1>6, <1>7, <1>9, <1>13 DEF Takes, L, K, b
  <1>14. CASE ~ Special(b) /\ dev' = [dev EXCEPT !.esc = FALSE] /\ dev.in # None
              /\ Answer("board", <<>>) /\ trouble' = trouble
              /\ \E taken : Deliver("board", dev.in, Decoded(dev.esc, b), taken)
    BY <1>1, <1>3, <1>4, <1>7, <1>9, <1>14 DEF Places, L, K, b
  <1>15. CASE b = FORCE /\ dev.last = NoLast
    BY <1>1, <1>9, <1>15 DEF L, b
  <1> QED BY <1>8, <1>10, <1>11, <1>12, <1>13, <1>14, <1>15

LEMMA HostReceiveCases ==
  ASSUME MuxTypes, HostReceive
  PROVE  /\ line["pc"] # <<>> /\ line'["pc"] = Tail(line["pc"])
         /\ UNCHANGED <<dev, tx, sent, trouble, restarts>>
         /\ \/ /\ Takes(host, host', line["pc"], line["board"], line'["board"])
               /\ UNCHANGED <<up, flight, wrong>>
            \/ /\ Places(host, host', line["pc"], line["board"], line'["board"])
               /\ \E taken : Deliver("pc", host.in, Decoded(host.esc, Head(line["pc"])), taken)
               /\ UNCHANGED up
            \/ Head(line["pc"]) = FORCE /\ host.last = NoLast
            \/ /\ ~ Special(Head(line["pc"])) /\ host.esc
               /\ ~ Special(Decoded(host.esc, Head(line["pc"])))
  <1> DEFINE L == line["pc"]
             K == line["board"]
             b == Head(L)
             c == Decoded(host.esc, b)
  <1>1. L # <<>> /\ UNCHANGED <<dev, tx, sent, trouble, restarts>>
    BY DEF HostReceive
  <1>2. L \in Seq(Byte) /\ K \in Seq(Byte) /\ host \in State
    BY TypeFacts DEF MuxTypes
  <1>3. \A bytes \in Seq(Byte) :
          Answer("pc", bytes) => line'["pc"] = Tail(L) /\ line'["board"] = K \o bytes
    BY <1>1, Answered, EndFacts
  <1>4. /\ <<>> \in Seq(Byte) /\ <<FORCE>> \in Seq(Byte) /\ K \o <<>> = K
        /\ K \o <<FORCE>> = Append(K, FORCE)
    BY <1>2, SpecialBytes
  <1>5. host.last # NoLast => Repeated(host) \in Seq(Byte)
    BY <1>2, RepeatedBytes
  <1>7. host = [in |-> host.in, out |-> host.out, esc |-> host.esc, last |-> host.last]
    BY <1>2 DEF State
  <1>8. \/ /\ b = ESC /\ host' = [host EXCEPT !.esc = TRUE] /\ Answer("pc", <<>>)
           /\ UNCHANGED <<up, flight, wrong>>
        \/ /\ IsId(b) /\ host' = [host EXCEPT !.in = b.base] /\ Answer("pc", <<>>)
           /\ UNCHANGED <<up, flight, wrong>>
        \/ /\ b = FORCE /\ host.last # NoLast /\ host' = [host EXCEPT !.last = NoLast]
           /\ Answer("pc", Repeated(host)) /\ UNCHANGED <<up, flight, wrong>>
        \/ b = FORCE /\ host.last = NoLast
        \/ ~ Special(b) /\ host.esc /\ ~ Special(c)
        \/ /\ ~ Special(b) /\ host' = [host EXCEPT !.esc = FALSE] /\ host.in = None
           /\ Answer("pc", <<FORCE>>) /\ UNCHANGED <<up, flight, wrong>>
        \/ /\ ~ Special(b) /\ host' = [host EXCEPT !.esc = FALSE] /\ host.in # None
           /\ Answer("pc", <<>>) /\ UNCHANGED up
           /\ \E taken : Deliver("pc", host.in, c, taken)
    BY Zenon DEF HostReceive, Request, Decoded
  <1>9. line'["pc"] = Tail(L)
    <2>1. \E bytes \in Seq(Byte) : Answer("pc", bytes)
      <3>1. \/ Answer("pc", <<>>) \/ Answer("pc", <<FORCE>>)
            \/ host.last # NoLast /\ Answer("pc", Repeated(host))
        BY Zenon DEF HostReceive, Exit, Request
      <3> QED BY <1>4, <1>5, <3>1
    <2> QED BY <1>3, <2>1
  <1> HIDE DEF L, K, b, c
  <1>10. CASE b = ESC /\ host' = [host EXCEPT !.esc = TRUE] /\ Answer("pc", <<>>)
              /\ UNCHANGED <<up, flight, wrong>>
    BY <1>1, <1>3, <1>4, <1>7, <1>9, <1>10 DEF Takes, L, K, b
  <1>11. CASE IsId(b) /\ host' = [host EXCEPT !.in = b.base] /\ Answer("pc", <<>>)
              /\ UNCHANGED <<up, flight, wrong>>
    BY <1>1, <1>3, <1>4, <1>7, <1>9, <1>11 DEF Takes, L, K, b
  <1>12. CASE b = FORCE /\ host.last # NoLast /\ host' = [host EXCEPT !.last = NoLast]
              /\ Answer("pc", Repeated(host)) /\ UNCHANGED <<up, flight, wrong>>
    BY <1>1, <1>3, <1>5, <1>7, <1>9, <1>12 DEF Takes, L, K, b
  <1>13. CASE ~ Special(b) /\ host' = [host EXCEPT !.esc = FALSE] /\ host.in = None
              /\ Answer("pc", <<FORCE>>) /\ UNCHANGED <<up, flight, wrong>>
    BY <1>1, <1>3, <1>4, <1>7, <1>9, <1>13 DEF Takes, L, K, b
  <1>14. CASE ~ Special(b) /\ host' = [host EXCEPT !.esc = FALSE] /\ host.in # None
              /\ Answer("pc", <<>>) /\ UNCHANGED up
              /\ \E taken : Deliver("pc", host.in, c, taken)
    BY <1>1, <1>3, <1>4, <1>7, <1>9, <1>14 DEF Places, L, K, b, c
  <1>15. CASE (b = FORCE /\ host.last = NoLast) \/ (~ Special(b) /\ host.esc /\ ~ Special(c))
    BY <1>1, <1>9, <1>15 DEF L, b, c
  <1> QED BY <1>8, <1>10, <1>11, <1>12, <1>13, <1>14, <1>15

(* Both directions go on from what the end knows then.                     *)
LEMMA Received ==
  ASSUME NEW x \in State, NEW y, NEW L \in Seq(Byte), L # <<>>, NEW F \in Flights,
         NEW out, NEW last, NEW t, NEW K \in Seq(Byte), NEW M,
         NEW in2, NEW esc2 \in BOOLEAN, NEW G \in Flights, NEW out2, NEW last2, NEW t2,
         Both(x.in, x.esc, L, F, out, last, t, in2, esc2, K, G, out2, last2, t2),
         Takes(x, y, L, K, M), Head(L) = FORCE => out2 = x.out /\ last2 = x.last
  PROVE  Both(y.in, y.esc, Tail(L), F, out, last, t, in2, esc2, M, G, out2,
              IF Head(L) = FORCE THEN NoLast ELSE last2, t2)
  <1>1. x.esc \in BOOLEAN /\ ESC # FORCE
    BY SpecialBytes DEF State
  <1>2. ASSUME Head(L) = ESC, M = K, y.in = x.in, y.esc = TRUE
        PROVE  Both(y.in, y.esc, Tail(L), F, out, last, t, in2, esc2, M, G, out2, last2, t2)
    BY <1>1, <1>2, ReceiveSpecial
  <1>3. ASSUME IsId(Head(L)), M = K, y.in = Head(L).base, y.esc = x.esc
        PROVE  /\ Both(y.in, y.esc, Tail(L), F, out, last, t, in2, esc2, M, G, out2, last2, t2)
               /\ Head(L) # FORCE
    BY <1>1, <1>3, ReceiveSpecial, SpecialBytes
  <1>4. ASSUME Head(L) = FORCE, M = K \o Repeated(x), y.in = x.in, y.esc = x.esc
        PROVE  Both(y.in, y.esc, Tail(L), F, out, last, t, in2, esc2, M, G, out2, NoLast, t2)
    <2>1. /\ last2 # NoLast /\ out2 \in Bufs
          /\ Both(x.in, x.esc, Tail(L), F, out, last, t,
                  in2, esc2, K \o Again(out2, last2), G, out2, NoLast, t2)
      BY <1>1, <1>4, ReceiveForce
    <2>2. out2 = x.out /\ last2 = x.last /\ x.out # None
      BY <1>4, <2>1, RingAssumption
    <2>3. Repeated(x) = Again(out2, last2)
      BY <2>2 DEF Repeated, Again
    <2> QED BY <1>4, <2>1, <2>3
  <1>5. ASSUME ~ Special(Head(L)), x.in = None, M = Append(K, FORCE), y.in = x.in, y.esc = FALSE
        PROVE  /\ Both(y.in, y.esc, Tail(L), F, out, last, t, in2, esc2, M, G, out2, last2, t2)
               /\ Head(L) # FORCE
    <2>1. Head(L) # FORCE
      BY <1>5, SpecialBytes
    <2>2. Both(x.in, FALSE, Tail(L), F, out, last, t, in2, esc2, Append(K, FORCE), G,
               out2, last2, t2)
      BY <1>1, <1>5, ReceiveCharacter
    <2> QED BY <1>5, <2>1, <2>2
  <1> QED BY <1>1, <1>2, <1>3, <1>4, <1>5 DEF Takes

LEMMA DevReceiveOrder ==
  ASSUME MuxTypes, Ordered, DevReceive, ~ trouble'
  PROVE  Ordered'
  <1> DEFINE L == line["board"]
             K == line["pc"]
             F == flight["board"]
             G == flight["pc"]
             c == Decoded(dev.esc, Head(L))
  <1>1. /\ L # <<>> /\ L \in Seq(Byte) /\ K \in Seq(Byte) /\ F \in Flights /\ G \in Flights
        /\ dev \in State /\ host.esc \in BOOLEAN /\ dev.esc \in BOOLEAN
    BY TypeFacts, DevReceiveCases DEF MuxTypes
  <1>2. line'["board"] = Tail(L) /\ UNCHANGED <<tx, host>>
    BY DevReceiveCases
  <1>3. Both(dev.in, dev.esc, L, F, host.out, host.last, NoTx,
             host.in, host.esc, K, G, PcOut, PcLast, PcTx)
    BY DEF Both, Ordered, BoardDir, PcDir
  <1> HIDE DEF L, K, F, G
  <1>4. Head(L) = FORCE => dev.last # NoLast
    <2>1. ASSUME Head(L) = FORCE PROVE PcLast # NoLast
      BY <1>1, <1>3, <2>1, RequestAnswered DEF Both
    <2> QED BY <2>1, HasLast DEF Ordered
  <1>5. \/ /\ Takes(dev, dev', L, K, line'["pc"])
           /\ UNCHANGED <<flight, wrong>>
           /\ Head(L) = FORCE => tx.step = "idle"
        \/ /\ Places(dev, dev', L, K, line'["pc"])
           /\ \E taken : Deliver("board", dev.in, c, taken)
    BY <1>4, DevReceiveCases DEF L, K
  <1> HIDE DEF c
  <1>6. CASE /\ Takes(dev, dev', L, K, line'["pc"])
             /\ UNCHANGED <<flight, wrong>>
             /\ Head(L) = FORCE => tx.step = "idle"
    <2> DEFINE last2 == IF Head(L) = FORCE THEN NoLast ELSE PcLast
    <2>1. Head(L) = FORCE => PcOut = dev.out /\ PcLast = dev.last
      BY <1>6, PcIdle
    <2>2. Both(dev'.in, dev'.esc, Tail(L), F, host.out, host.last, NoTx,
               host.in, host.esc, line'["pc"], G, PcOut, last2, PcTx)
      BY <1>1, <1>3, <1>6, <2>1, Received, ZenonT(60)
    <2>3. /\ dev'.out = dev.out
          /\ dev'.last = IF Head(L) = FORCE THEN NoLast ELSE dev.last
      <3>1. ESC # FORCE /\ (IsId(Head(L)) => Head(L) # FORCE)
            /\ (~ Special(Head(L)) => Head(L) # FORCE)
        BY SpecialBytes
      <3> QED BY <1>6, <3>1 DEF Takes
    <2>4. PcTx' = PcTx /\ PcOut' = PcOut /\ PcLast' = last2
      <3>1. PcTx' = PcTx /\ PcOut' = PcOut
        BY <1>2, <2>3 DEF PcTx, PcOut, Written, NoTx
      <3>2. CASE Head(L) = FORCE
        BY <1>2, <1>6, <2>3, <3>1, <3>2 DEF PcLast, Written
      <3>3. CASE Head(L) # FORCE
        BY <1>2, <2>3, <3>1, <3>3 DEF PcLast, Written, LastSent, Special, Xor, IsId, ESC, FORCE
      <3> QED BY <3>1, <3>2, <3>3, Zenon
    <2> HIDE DEF last2
    <2>5. BoardDir' /\ PcDir'
      BY <1>2, <1>6, <2>2, <2>4 DEF Both, BoardDir, PcDir, NoTx, F, G
    <2>6. TxNotes'
      BY <1>2, <1>6, <2>3 DEF Ordered, TxNotes, LastSent, Special, Xor, IsId, ESC, FORCE
    <2> QED BY <1>6, <2>5, <2>6 DEF Ordered
  <1>7. CASE /\ Places(dev, dev', L, K, line'["pc"])
             /\ \E taken : Deliver("board", dev.in, c, taken)
    <2>1. /\ IsNext(F, dev.in, c)
          /\ Both(dev.in, FALSE, Tail(L), Tail(F), host.out, host.last, NoTx,
                  host.in, host.esc, K, G, PcOut, PcLast, PcTx)
      BY <1>1, <1>3, <1>7, ReceiveCharacter DEF Places, c
    <2>2. flight'["board"] = Tail(F) /\ flight'["pc"] = G /\ wrong' = wrong
      BY <1>7, <2>1, Delivered, EndFacts DEF F, G
    <2>3. /\ dev'.out = dev.out /\ dev'.last = dev.last /\ dev'.in = dev.in
          /\ dev'.esc = FALSE /\ line'["pc"] = K
      BY <1>7 DEF Places
    <2>4. PcTx' = PcTx /\ PcOut' = PcOut /\ PcLast' = PcLast
      BY <1>2, <2>3 DEF PcTx, PcOut, PcLast, Written, NoTx, LastSent, Special, Xor, IsId, ESC, FORCE
    <2>5. BoardDir' /\ PcDir'
      BY <1>2, <2>1, <2>2, <2>3, <2>4 DEF Both, BoardDir, PcDir, NoTx
    <2>6. TxNotes'
      BY <1>2, <2>3 DEF Ordered, TxNotes, LastSent, Special, Xor, IsId, ESC, FORCE
    <2> QED BY <2>2, <2>5, <2>6 DEF Ordered
  <1> QED BY <1>5, <1>6, <1>7

LEMMA HostReceiveOrder ==
  ASSUME MuxTypes, Ordered, HostReceive
  PROVE  Ordered' /\ up' = up
  <1> DEFINE L == line["pc"]
             K == line["board"]
             F == flight["pc"]
             G == flight["board"]
             c == Decoded(host.esc, Head(L))
  <1>1. /\ L # <<>> /\ L \in Seq(Byte) /\ K \in Seq(Byte) /\ F \in Flights /\ G \in Flights
        /\ host \in State /\ host.esc \in BOOLEAN /\ dev.esc \in BOOLEAN
    BY TypeFacts, HostReceiveCases DEF MuxTypes
  <1>2. line'["pc"] = Tail(L) /\ UNCHANGED <<tx, dev>>
    BY HostReceiveCases
  <1>3. Both(host.in, host.esc, L, F, PcOut, PcLast, PcTx,
             dev.in, dev.esc, K, G, host.out, host.last, NoTx)
    BY DEF Both, Ordered, BoardDir, PcDir
  <1> HIDE DEF L, K, F, G
  <1>4. ASSUME Head(L) = FORCE PROVE host.last # NoLast
    BY <1>1, <1>3, <1>4, RequestAnswered DEF Both
  <1>5. ~ Special(Head(L)) /\ host.esc => Special(c)
    BY <1>1, <1>3, ReceiveCharacter
  <1>6. \/ /\ Takes(host, host', L, K, line'["board"])
           /\ UNCHANGED <<up, flight, wrong>>
        \/ /\ Places(host, host', L, K, line'["board"])
           /\ UNCHANGED up
           /\ \E taken : Deliver("pc", host.in, c, taken)
    BY <1>4, <1>5, HostReceiveCases DEF L, K
  <1> HIDE DEF c
  <1>7. PcTx' = PcTx /\ PcOut' = PcOut /\ PcLast' = PcLast /\ NoTx' = NoTx
    BY <1>2 DEF PcTx, PcOut, PcLast, Written, NoTx, LastSent, Special, Xor, IsId, ESC, FORCE
  <1>8. TxNotes'
    BY <1>2 DEF Ordered, TxNotes, LastSent, Special, Xor, IsId, ESC, FORCE
  <1>9. CASE /\ Takes(host, host', L, K, line'["board"])
             /\ UNCHANGED <<up, flight, wrong>>
    <2> DEFINE last2 == IF Head(L) = FORCE THEN NoLast ELSE host.last
    <2>1. Both(host'.in, host'.esc, Tail(L), F, PcOut, PcLast, PcTx,
               dev.in, dev.esc, line'["board"], G, host.out, last2, NoTx)
      BY <1>1, <1>3, <1>9, Received, ZenonT(60)
    <2>2. host'.out = host.out /\ host'.last = last2
      <3>1. ESC # FORCE /\ (IsId(Head(L)) => Head(L) # FORCE)
            /\ (~ Special(Head(L)) => Head(L) # FORCE)
        BY SpecialBytes
      <3> QED BY <1>9, <3>1 DEF Takes
    <2> HIDE DEF last2
    <2>3. BoardDir' /\ PcDir'
      BY <1>2, <1>7, <1>9, <2>1, <2>2 DEF Both, BoardDir, PcDir, F, G
    <2> QED BY <1>8, <1>9, <2>3 DEF Ordered
  <1>10. CASE /\ Places(host, host', L, K, line'["board"])
              /\ UNCHANGED up
              /\ \E taken : Deliver("pc", host.in, c, taken)
    <2>1. /\ IsNext(F, host.in, c)
          /\ Both(host.in, FALSE, Tail(L), Tail(F), PcOut, PcLast, PcTx,
                  dev.in, dev.esc, K, G, host.out, host.last, NoTx)
      BY <1>1, <1>3, <1>10, ReceiveCharacter DEF Places, c
    <2>2. flight'["pc"] = Tail(F) /\ flight'["board"] = G /\ wrong' = wrong
      BY <1>10, <2>1, Delivered, EndFacts DEF F, G
    <2>3. /\ host'.out = host.out /\ host'.last = host.last /\ host'.in = host.in
          /\ host'.esc = FALSE /\ line'["board"] = K
      BY <1>10 DEF Places
    <2>4. BoardDir' /\ PcDir'
      BY <1>2, <1>7, <2>1, <2>2, <2>3 DEF Both, BoardDir, PcDir
    <2> QED BY <1>8, <1>10, <2>2, <2>4 DEF Ordered
  <1> QED BY <1>6, <1>9, <1>10

-----------------------------------------------------------------------------
(* An end stops, and what reaches it is lost *)

LEMMA PcCanRepeat ==
  ASSUME MuxTypes, CanRepeat("pc")
  PROVE  PcLast # NoLast \/ PcTx.step # "idle"
  <1>1. dev.last # NoLast \/ tx.step # "idle"
    BY EndFacts DEF CanRepeat, Service
  <1>2. Written => PcLast # NoLast
    BY TypeFacts, Encoded DEF Written, PcLast
  <1>3. ~ Written /\ tx.step # "idle" => PcTx.step = tx.step \/ PcTx.step = "data"
    BY DEF PcTx
  <1>4. ~ Written => PcLast = dev.last
    BY DEF PcLast
  <1> QED BY <1>1, <1>2, <1>3, <1>4

LEMMA NotHopeless ==
  ASSUME MuxTypes, NEW e \in Ends, NEW F \in Flights, ~ Hopeless(e, F)
  PROVE  /\ Len(F) <= 1
         /\ F # <<>> => CanRepeat(e)
  <1>1. Len(F) \in Nat /\ (F = <<>> => Len(F) = 0)
    BY DEF Flights
  <1> QED BY <1>1 DEF Hopeless

LEMMA HostStopOrder ==
  ASSUME MuxTypes, Ordered, HostStop, ~ trouble'
  PROVE  Ordered'
  <1>1. /\ UNCHANGED <<dev, tx, line, flight, wrong>> /\ host' = FreshEnd
        /\ ~ Hopeless("pc", flight["pc"]) /\ ~ Unplaceable("board")
    BY EndFacts DEF HostStop, Stop
  <1>2. PcTx' = PcTx /\ PcOut' = PcOut /\ PcLast' = PcLast
    BY <1>1 DEF PcTx, PcOut, PcLast, Written, NoTx, LastSent, Special, Xor, IsId, ESC, FORCE
  <1>3. Len(flight["pc"]) <= 1 /\ (flight["pc"] # <<>> => PcLast # NoLast \/ PcTx.step # "idle")
    BY <1>1, NotHopeless, PcCanRepeat, EndFacts, TypeFacts
  <1>4. Direction(None, FALSE, line["pc"], flight["pc"], PcOut, PcLast, PcTx, line["board"])
    BY <1>3, DirectionRestart, TypeFacts DEF Ordered, PcDir
  <1>5. Direction(dev.in, dev.esc, line["board"], flight["board"], None, NoLast, NoTx, line["pc"])
    BY <1>1, StuckEnds, SenderRestart, TypeFacts DEF Ordered, BoardDir
  <1>6. BoardDir' /\ PcDir'
    BY <1>1, <1>2, <1>4, <1>5, FreshFacts DEF BoardDir, PcDir, NoTx
  <1>7. TxNotes'
    BY <1>1 DEF Ordered, TxNotes, LastSent, Special, Xor, IsId, ESC, FORCE
  <1> QED BY <1>1, <1>6, <1>7 DEF Ordered

LEMMA DevStopOrder ==
  ASSUME MuxTypes, Ordered, DevStop, ~ trouble'
  PROVE  Ordered'
  <1>1. /\ UNCHANGED <<host, line, flight, wrong>> /\ dev' = FreshEnd /\ tx' = NoTx
        /\ ~ Hopeless("board", flight["board"]) /\ ~ Unplaceable("pc") /\ tx.step = "idle"
    BY EndFacts DEF DevStop, Stop
  <1>2. PcTx = NoTx /\ PcTx' = NoTx /\ PcOut' = None /\ PcLast' = NoLast
    BY <1>1, PcIdle, FreshFacts DEF PcTx, PcOut, PcLast, Written
  <1>3. Len(flight["board"]) <= 1 /\ (flight["board"] # <<>> => host.last # NoLast)
    BY <1>1, NotHopeless, EndFacts, TypeFacts DEF CanRepeat, Service
  <1>4. Direction(None, FALSE, line["board"], flight["board"], host.out, host.last, NoTx, line["pc"])
    BY <1>3, DirectionRestart, TypeFacts DEF Ordered, BoardDir
  <1>5. Direction(host.in, host.esc, line["pc"], flight["pc"], None, NoLast, NoTx, line["board"])
    BY <1>1, <1>2, StuckEnds, SenderRestart, TypeFacts DEF Ordered, PcDir
  <1>6. BoardDir' /\ PcDir'
    BY <1>1, <1>2, <1>4, <1>5, FreshFacts DEF BoardDir, PcDir, NoTx
  <1>7. TxNotes'
    BY <1>1, FreshFacts DEF TxNotes
  <1> QED BY <1>1, <1>6, <1>7 DEF Ordered

LEMMA LoseOrder ==
  ASSUME MuxTypes, Ordered, NEW e \in Ends, Lose(e), ~ trouble'
  PROVE  Ordered'
  <1> DEFINE L == line[e]
             F == flight[e]
             G == Rest(e)
  <1>1. /\ e \notin up /\ L # <<>> /\ line'[e] = Tail(L) /\ line'[Other(e)] = line[Other(e)]
        /\ flight'[e] = G /\ flight'[Other(e)] = flight[Other(e)] /\ G \in Flights
        /\ ~ Hopeless(e, G) /\ UNCHANGED <<dev, tx, host, wrong>>
    BY LoseTypes
  <1>2. L \in Seq(Byte) /\ F \in Flights
    BY TypeFacts DEF Ends
  <1>3. G = IF Special(Head(L)) \/ F = <<>> THEN F ELSE Tail(F)
    BY DEF Rest
  <1>4. Len(G) <= 1 /\ (G # <<>> => CanRepeat(e))
    BY <1>1, NotHopeless
  <1> HIDE DEF L, F, G
  <1>5. PcTx' = PcTx /\ PcOut' = PcOut /\ PcLast' = PcLast /\ NoTx' = NoTx
    BY <1>1 DEF PcTx, PcOut, PcLast, Written, NoTx, LastSent, Special, Xor, IsId, ESC, FORCE
  <1>6. TxNotes'
    BY <1>1 DEF Ordered, TxNotes, LastSent, Special, Xor, IsId, ESC, FORCE
  <1>7. Head(L) # FORCE => Quiet(L, Tail(L))
    BY <1>1, <1>2, TailForce
  <1>8. CASE e = "board"
    <2>1. dev = FreshEnd /\ tx = NoTx
      BY <1>1, <1>8 DEF MuxTypes
    <2>2. dev.in = None /\ dev.esc = FALSE /\ PcLast = NoLast
      BY <2>1, FreshFacts, PcIdle
    <2>3. /\ Direction(None, FALSE, L, F, host.out, host.last, NoTx, line["pc"])
          /\ Direction(host.in, host.esc, line["pc"], flight["pc"], PcOut, PcLast, PcTx, L)
      BY <1>8, <2>2 DEF Ordered, BoardDir, PcDir, L, F
    <2>4. G # <<>> => host.last # NoLast
      BY <1>4, <1>8, EndFacts DEF CanRepeat, Service
    <2>5. Direction(None, FALSE, Tail(L), G, host.out, host.last, NoTx, line["pc"])
      BY <1>1, <1>2, <1>3, <1>4, <2>3, <2>4, DirectionLose
    <2>6. Head(L) # FORCE
      BY <1>1, <1>2, <2>2, <2>3, RequestAnswered, TypeFacts
    <2>7. Direction(host.in, host.esc, line["pc"], flight["pc"], PcOut, PcLast, PcTx, Tail(L))
      BY <1>7, <2>3, <2>6, DirectionQuiet
    <2>8. BoardDir' /\ PcDir'
      BY <1>1, <1>5, <1>8, <2>2, <2>5, <2>7, EndFacts DEF BoardDir, PcDir
    <2> QED BY <1>1, <1>6, <2>8 DEF Ordered
  <1>9. CASE e = "pc"
    <2>1. host = FreshEnd
      BY <1>1, <1>9 DEF MuxTypes
    <2>2. host.in = None /\ host.esc = FALSE /\ host.last = NoLast
      BY <2>1, FreshFacts
    <2>3. /\ Direction(None, FALSE, L, F, PcOut, PcLast, PcTx, line["board"])
          /\ Direction(dev.in, dev.esc, line["board"], flight["board"], host.out, host.last, NoTx, L)
      BY <1>9, <2>2 DEF Ordered, BoardDir, PcDir, L, F
    <2>4. G # <<>> => PcLast # NoLast \/ PcTx.step # "idle"
      BY <1>4, <1>9, PcCanRepeat
    <2>5. Direction(None, FALSE, Tail(L), G, PcOut, PcLast, PcTx, line["board"])
      BY <1>1, <1>2, <1>3, <1>4, <2>3, <2>4, DirectionLose
    <2>6. Head(L) # FORCE
      BY <1>1, <1>2, <2>2, <2>3, RequestAnswered, TypeFacts
    <2>7. Direction(dev.in, dev.esc, line["board"], flight["board"], host.out, host.last, NoTx, Tail(L))
      BY <1>7, <2>3, <2>6, DirectionQuiet
    <2>8. BoardDir' /\ PcDir'
      BY <1>1, <1>5, <1>9, <2>2, <2>5, <2>7, EndFacts DEF BoardDir, PcDir
    <2> QED BY <1>1, <1>6, <2>8 DEF Ordered
  <1> QED BY <1>8, <1>9 DEF Ends

-----------------------------------------------------------------------------
(* Both directions are in order, but for what the protocol cannot repair.  *)
Order == ~ trouble => Ordered

(* Nothing is on a line yet.                                               *)
LEMMA DirectionInit == Direction(None, FALSE, <<>>, <<>>, None, NoLast, NoTx, <<>>)
  <1> DEFINE z == [in |-> None, esc |-> FALSE, n |-> 0]
             d == [p \in 0..0 |-> z]
  <1>1. Len(<<>>) = 0 /\ 1..0 = {} /\ NoTx.step = "idle"
    BY DEF NoTx
  <1>2. d \in [0..0 -> Decoder] /\ d[0] = z
    BY DEF Decoder
  <1>3. z.in = None /\ z.esc = FALSE /\ z.n = 0
    OBVIOUS
  <1> HIDE DEF d, z
  <1>4. \A p \in 0..0 : p = 0
    OBVIOUS
  <1>5. Reading(d, None, FALSE, <<>>)
    BY <1>1, <1>2, <1>3, <1>4 DEF Reading
  <1>6. Matches(d, <<>>, <<>>) /\ AllPlaced(d, <<>>, <<>>)
    BY <1>1, <1>2, <1>3, <1>4 DEF Matches, AllPlaced, Fits
  <1>7. Counted(d[Len(<<>>)], <<>>, NoTx) /\ Told(d[Len(<<>>)], None, NoTx)
    BY <1>1, <1>2, <1>3 DEF Counted, Told
  <1>8. Coded(None, FALSE, <<>>, <<>>, None, NoTx)
    BY <1>5, <1>6, <1>7 DEF Coded
  <1>9. NoForce(<<>>) /\ Kept(<<>>, None, NoLast, NoTx)
    BY <1>1 DEF NoForce, Kept
  <1> QED BY <1>8, <1>9 DEF Direction

LEMMA InitOrder == Init => Order
  <1> SUFFICES ASSUME Init PROVE Ordered
    BY DEF Order
  <1>1. /\ dev = FreshEnd /\ host = FreshEnd /\ tx = NoTx /\ wrong = {}
        /\ line["board"] = <<>> /\ line["pc"] = <<>>
        /\ flight["board"] = <<>> /\ flight["pc"] = <<>>
    BY EndFacts DEF Init
  <1>2. PcTx = NoTx /\ PcOut = None /\ PcLast = NoLast
    BY <1>1, FreshFacts, PcIdle
  <1>3. BoardDir /\ PcDir
    BY <1>1, <1>2, FreshFacts, DirectionInit DEF BoardDir, PcDir
  <1>4. TxNotes
    BY <1>1, FreshFacts DEF TxNotes
  <1> QED BY <1>1, <1>3, <1>4 DEF Ordered

LEMMA TransmitOrder ==
  ASSUME MuxTypes, Ordered, Transmit
  PROVE  Ordered'
  <1>1. TxData => Special(tx.c) \/ ~ Special(tx.c)
    OBVIOUS
  <1> QED BY <1>1, TxIdOrder, TxNoteOrder, TxEscOrder, TxByteOrder DEF Transmit

LEMMA NextOrder ==
  ASSUME MuxTypes, Order, [Next]_vars
  PROVE  Order'
  <1> SUFFICES ASSUME ~ trouble' PROVE Ordered'
    BY DEF Order
  <1>1. ASSUME NEW s \in Bufs, NEW c \in Chars, DevSend(s, c) PROVE Ordered'
    <2>1. ~ trouble
      BY <1>1, EndFacts, SendTypes DEF DevSend
    <2> QED BY <1>1, <2>1, DevSendOrder DEF Order
  <1>2. ASSUME NEW s \in Bufs, NEW c \in Chars, HostSend(s, c) PROVE Ordered'
    <2>1. ~ trouble
      BY <1>2, EndFacts, SendTypes DEF HostSend
    <2> QED BY <1>2, <2>1, HostSendOrder DEF Order
  <1>3. CASE Transmit
    <2>1. ~ trouble
      BY <1>3 DEF Transmit, TxId, TxLast, TxData, TxFlip, TxMark, TxOut, TxStep
    <2> QED BY <1>3, <2>1, TransmitOrder DEF Order
  <1>4. CASE DevReceive
    <2>1. ~ trouble
      BY <1>4 DEF DevReceive
    <2> QED BY <1>4, <2>1, DevReceiveOrder DEF Order
  <1>5. CASE UNCHANGED muxVars
    BY <1>5, OrderUnchanged DEF muxVars, Order
  <1>6. CASE HostReceive
    BY <1>6, HostReceiveCases, HostReceiveOrder DEF Order
  <1>7. CASE HostStop
    BY <1>7, HostStopOrder DEF Order, HostStop, Stop
  <1>8. CASE DevStop
    BY <1>8, DevStopOrder DEF Order, DevStop, Stop
  <1>9. ASSUME NEW e \in Ends, Lose(e) PROVE Ordered'
    BY <1>9, LoseTypes, LoseOrder DEF Order
  <1>10. ASSUME NEW e \in Ends, Start(e) PROVE Ordered'
    BY <1>10, OrderUnchanged DEF Order, Start
  <1>11. ASSUME NEW s \in Bufs, DevRead(s) PROVE Ordered'
    BY <1>5, <1>11 DEF DevRead
  <1>12. CASE DevReadOn
    BY <1>5, <1>12 DEF DevReadOn
  <1>13. CASE UNCHANGED vars
    BY <1>5, <1>13 DEF vars
  <1> QED BY <1>1, <1>2, <1>3, <1>4, <1>6, <1>7, <1>8, <1>9, <1>10, <1>11, <1>12, <1>13 DEF Next

-----------------------------------------------------------------------------
(* Without a restart there is nothing to repair *)

IdOn(L) == \E i \in 1..Len(L) : IsId(L[i])

(* What is under way to an end that knows no service follows an identifier.*)
KnownBoard ==
  dev.in = None => \/ IdOn(line["board"])
                   \/ flight["board"] = <<>> /\ host.out = None

KnownPc ==
  host.in = None => \/ IdOn(line["pc"])
                    \/ /\ dev.out = None
                       /\ tx.step = "id" \/ (tx.step = "idle" /\ flight["pc"] = <<>>)

Known == up = Ends /\ KnownBoard /\ KnownPc

Calm == restarts = 0 => ~ trouble /\ Known

LEMMA IdStays ==
  ASSUME NEW L \in Seq(Byte), NEW B \in Seq(Byte)
  PROVE  /\ IdOn(L) => IdOn(L \o B)
         /\ \A s \in Bufs : IdOn(L \o (<<Id(s)>> \o B))
  <1>1. /\ L \o B \in Seq(Byte) /\ Len(L \o B) = Len(L) + Len(B)
        /\ \A i \in 1..Len(L) : (L \o B)[i] = L[i]
    OBVIOUS
  <1>2. ASSUME IdOn(L) PROVE IdOn(L \o B)
    <2>1. PICK i \in 1..Len(L) : IsId(L[i])
      BY <1>2 DEF IdOn
    <2>2. i \in 1..Len(L \o B) /\ IsId((L \o B)[i])
      BY <1>1, <2>1
    <2> QED BY <2>2 DEF IdOn
  <1>3. ASSUME NEW s \in Bufs PROVE IdOn(L \o (<<Id(s)>> \o B))
    <2> DEFINE C == <<Id(s)>> \o B
               m == Len(L) + 1
    <2>1. Id(s) \in Byte /\ IsId(Id(s))
      BY SpecialBytes
    <2>2. C \in Seq(Byte) /\ Len(C) = Len(B) + 1 /\ C[1] = Id(s)
      BY <2>1
    <2> HIDE DEF C
    <2>3. m \in 1..Len(L \o C) /\ (L \o C)[m] = C[1]
      BY <2>2
    <2> QED BY <2>1, <2>2, <2>3 DEF IdOn, C
  <1> QED BY <1>2, <1>3

LEMMA IdTail ==
  ASSUME NEW L \in Seq(Byte), L # <<>>, IdOn(L), ~ IsId(Head(L))
  PROVE  IdOn(Tail(L))
  <1>1. PICK i \in 1..Len(L) : IsId(L[i])
    BY DEF IdOn
  <1>2. i # 1
    BY <1>1, TailFacts
  <1>3. i - 1 \in 1..Len(Tail(L)) /\ Tail(L)[i - 1] = L[i]
    BY <1>1, <1>2, TailFacts
  <1> QED BY <1>1, <1>3 DEF IdOn

(* Then neither end is stuck, and nothing is to be repeated.               *)
LEMMA NotStuck ==
  ASSUME MuxTypes, Known
  PROVE  /\ ~ Stuck(dev.in, line["board"], flight["board"])
         /\ PcTx.step = "idle" \/ tx.step = "idle" => ~ Stuck(host.in, line["pc"], flight["pc"])
  <1>1. \A L : (\A i \in 1..Len(L) : ~ IsId(L[i])) => ~ IdOn(L)
    BY DEF IdOn
  <1>2. tx.step = "id" => PcTx.step = "id"
    BY DEF PcTx, Written
  <1> QED BY <1>1, <1>2 DEF Stuck, Known, KnownBoard, KnownPc

LEMMA NoRequest ==
  ASSUME MuxTypes, Ordered, Known
  PROVE  /\ line["board"] # <<>> => Head(line["board"]) # FORCE
         /\ line["pc"] # <<>> => Head(line["pc"]) # FORCE
  <1>1. ASSUME line["board"] # <<>>, Head(line["board"]) = FORCE PROVE FALSE
    <2>1. /\ Asked(host.in, host.esc, line["pc"], flight["pc"], PcOut, PcLast, PcTx)
          /\ Len(flight["pc"]) = 1
      BY <1>1, RequestAnswered, TypeFacts DEF Ordered, PcDir
    <2>2. flight["pc"] # <<>> /\ PcTx.step = "idle"
      BY <2>1, OneInFlight, TypeFacts DEF Asked, Flights
    <2> QED BY <2>1, <2>2, StuckAlone, NotStuck, TypeFacts
  <1>2. ASSUME line["pc"] # <<>>, Head(line["pc"]) = FORCE PROVE FALSE
    <2>1. /\ Asked(dev.in, dev.esc, line["board"], flight["board"], host.out, host.last, NoTx)
          /\ Len(flight["board"]) = 1
      BY <1>2, RequestAnswered, TypeFacts DEF Ordered, BoardDir
    <2>2. flight["board"] # <<>>
      BY <2>1, OneInFlight, TypeFacts DEF Flights
    <2> QED BY <2>1, <2>2, StuckAlone, NotStuck, TypeFacts
  <1> QED BY <1>1, <1>2

(* A byte that is taken off the line is an escape, an identifier or a      *)
(* character of a known service.                                           *)
LEMMA TakesKnown ==
  ASSUME NEW x, NEW y, NEW L \in Seq(Byte), L # <<>>, NEW K, NEW M, Head(L) # FORCE,
         Takes(x, y, L, K, M) => Special(Head(L)),
         Takes(x, y, L, K, M) \/ Places(x, y, L, K, M)
  PROVE  /\ M = K /\ y.out = x.out
         /\ y.in = None => x.in = None /\ (IdOn(L) => IdOn(Tail(L)))
  <1>1. IsId(Head(L)) => Head(L).base # None
    BY RingAssumption DEF IsId
  <1>2. ASSUME ~ IsId(Head(L)) PROVE IdOn(L) => IdOn(Tail(L))
    BY <1>2, IdTail
  <1>3. ~ IsId(ESC) /\ (~ Special(Head(L)) => ~ IsId(Head(L)))
    BY SpecialBytes DEF Special
  <1> QED BY <1>1, <1>2, <1>3 DEF Takes, Places

LEMMA DevSendKnown ==
  ASSUME MuxTypes, Known, ~ trouble, NEW s \in Bufs, NEW c \in Chars, DevSend(s, c)
  PROVE  ~ trouble' /\ Known'
  <1>1. /\ tx.step = "idle" /\ tx'.step = "id" /\ UNCHANGED <<dev, host, up, line>>
        /\ Send("pc", s, c)
    BY DEF DevSend
  <1>2. ~ trouble' /\ flight'["board"] = flight["board"]
    BY <1>1, NotStuck, StuckEnds, SendTypes, EndFacts DEF Send
  <1> QED BY <1>1, <1>2 DEF Known, KnownBoard, KnownPc

LEMMA HostSendKnown ==
  ASSUME MuxTypes, Known, ~ trouble, NEW s \in Bufs, NEW c \in Chars, HostSend(s, c)
  PROVE  ~ trouble' /\ Known'
  <1> DEFINE B == IF Special(c) THEN <<ESC, Xor(c)>> ELSE <<c>>
             A == IF s # host.out THEN <<Id(s)>> ELSE <<>>
  <1>1. /\ UNCHANGED <<dev, tx, up>> /\ Send("board", s, c) /\ Put("board", A \o B)
        /\ host'.in = host.in
    BY DEF HostSend, MuxTypes, State
  <1>2. ~ trouble' /\ flight'["pc"] = flight["pc"]
    BY <1>1, NotStuck, StuckEnds, SendTypes, EndFacts DEF Send
  <1>3. B \in Seq(Byte) /\ A \in Seq(Byte) /\ A \o B \in Seq(Byte) /\ s # None
    <2>1. c \in Byte /\ Xor(c) \in Byte /\ ESC \in Byte /\ Id(s) \in Byte /\ s # None
      BY TypeFacts, Bytes, SpecialBytes
    <2>2. B \in Seq(Byte) /\ A \in Seq(Byte)
      BY <2>1
    <2> QED BY <2>1, <2>2
  <1>4. line'["board"] = line["board"] \o (A \o B) /\ line'["pc"] = line["pc"]
    BY <1>1, <1>3, PutTyped, EndFacts
  <1>5. IdOn(line["board"]) => IdOn(line'["board"])
    BY <1>3, <1>4, IdStays, TypeFacts
  <1>6. s # host.out => IdOn(line'["board"])
    BY <1>3, <1>4, IdStays, TypeFacts
  <1> QED BY <1>1, <1>2, <1>3, <1>4, <1>5, <1>6 DEF Known, KnownBoard, KnownPc

LEMMA TransmitKnown ==
  ASSUME MuxTypes, Known, ~ trouble, Transmit
  PROVE  ~ trouble' /\ Known'
  <1>1. PICK from \in Steps, to \in Steps \cup {"idle"}, bytes \in Seq(Byte), l \in Noted,
             o \in Bufs \cup {None} :
          /\ TxStep(from, to, bytes, l, o) /\ to # "id" /\ tx.step # "idle"
          /\ from = "id" => /\ bytes = IF tx.s # dev.out THEN <<Id(tx.s)>> ELSE <<>>
                            /\ o = dev.out
    <2>1. tx.step # "idle" /\ tx.step \in Steps
      BY TypeFacts DEF Transmit, TxId, TxLast, TxData, TxFlip, TxMark, TxOut, TxStep
    <2>2. /\ "id" \in Steps /\ "last" \in Steps /\ "data" \in Steps /\ "flip" \in Steps
          /\ "mark" \in Steps /\ "out" \in Steps /\ "idle" \in Steps \cup {"idle"}
      BY DEF Steps
    <2> USE TransmitFacts
    <2>3. CASE TxId
      BY <2>1, <2>2, <2>3 DEF TxId
    <2>4. CASE TxLast
      BY <2>1, <2>2, <2>4 DEF TxLast
    <2>5. CASE TxData
      BY <2>1, <2>2, <2>5 DEF TxData
    <2>6. CASE TxFlip
      BY <2>1, <2>2, <2>6 DEF TxFlip
    <2>7. CASE TxMark
      BY <2>1, <2>2, <2>7 DEF TxMark
    <2>8. CASE TxOut
      BY <2>1, <2>2, <2>8 DEF TxOut
    <2> QED BY <2>3, <2>4, <2>5, <2>6, <2>7, <2>8 DEF Transmit
  <1>2. /\ tx.step = from /\ line'["pc"] = line["pc"] \o bytes /\ line'["board"] = line["board"]
        /\ dev'.in = dev.in /\ UNCHANGED <<host, up, flight, trouble>>
    <2>1. line'["pc"] = line["pc"] \o bytes /\ line'["board"] = line["board"]
      BY <1>1, TxPuts
    <2>2. dev'.in = dev.in
      BY <1>1, TxDev
    <2> QED BY <1>1, <2>1, <2>2 DEF TxStep
  <1>3. IdOn(line["pc"]) => IdOn(line'["pc"])
    BY <1>1, <1>2, IdStays, TypeFacts
  <1>4. ASSUME from = "id", dev.out = None PROVE IdOn(line'["pc"])
    <2>1. tx.s \in Bufs /\ tx.s # None
      BY <1>1, TypeFacts, SpecialBytes
    <2>2. bytes = <<Id(tx.s)>> /\ <<>> \in Seq(Byte) /\ Id(tx.s) \in Byte
      BY <1>1, <1>4, <2>1, SpecialBytes
    <2>3. <<Id(tx.s)>> \o <<>> = <<Id(tx.s)>>
      BY <2>2
    <2>4. IdOn(line["pc"] \o (<<Id(tx.s)>> \o <<>>))
      BY <2>1, <2>2, IdStays, TypeFacts
    <2> QED BY <1>2, <2>2, <2>3, <2>4
  <1>5. host.in = None => IdOn(line'["pc"])
    BY <1>1, <1>2, <1>3, <1>4 DEF Known, KnownPc
  <1> QED BY <1>2, <1>5 DEF Known, KnownBoard, KnownPc

LEMMA DevReceiveKnown ==
  ASSUME MuxTypes, Ordered, Known, ~ trouble, DevReceive
  PROVE  ~ trouble' /\ Known'
  <1> DEFINE L == line["board"]
             K == line["pc"]
             M == line'["pc"]
             F == flight["board"]
  <1>1. /\ L # <<>> /\ line'["board"] = Tail(L) /\ UNCHANGED <<tx, host, up>>
        /\ L \in Seq(Byte) /\ F \in Flights /\ dev.esc \in BOOLEAN /\ K \in Seq(Byte)
    BY DevReceiveCases, TypeFacts
  <1>2. Head(L) # FORCE
    BY <1>1, NoRequest
  <1>3. /\ trouble' = trouble
        /\ Takes(dev, dev', L, K, M) \/ Places(dev, dev', L, K, M)
        /\ flight' = flight \/ \E s, c, taken : Deliver("board", s, c, taken)
    BY <1>2, DevReceiveCases
  <1>4. ASSUME dev.in = None PROVE Special(Head(L)) \/ Places(dev, dev', L, K, M)
    BY <1>1, <1>4, DirectionCharacter, NotStuck DEF Ordered, BoardDir
  <1>5. Takes(dev, dev', L, K, M) /\ ~ Special(Head(L)) => dev.in = None
    BY <1>2, SpecialBytes DEF Takes, Special
  <1>6. Places(dev, dev', L, K, M) => dev.in # None
    BY DEF Places
  <1>7. Takes(dev, dev', L, K, M) => Special(Head(L))
    BY <1>4, <1>5, <1>6
  <1>8. /\ M = K /\ dev'.out = dev.out
        /\ dev'.in = None => dev.in = None /\ (IdOn(L) => IdOn(Tail(L)))
    <2> HIDE DEF L, K, M
    <2> QED BY <1>1, <1>2, <1>3, <1>7, TakesKnown
  <1>9. flight'["pc"] = flight["pc"] /\ (F = <<>> => flight'["board"] = <<>>)
    BY <1>3, EndFacts DEF Deliver, MuxTypes
  <1>10. host'.in = host.in /\ tx'.step = tx.step /\ up' = Ends
    BY <1>1 DEF Known
  <1>11. KnownBoard'
    BY <1>1, <1>8, <1>9 DEF Known, KnownBoard
  <1>12. KnownPc'
    BY <1>8, <1>9, <1>10 DEF Known, KnownPc
  <1> QED BY <1>3, <1>10, <1>11, <1>12 DEF Known

LEMMA HostReceiveKnown ==
  ASSUME MuxTypes, Ordered, Known, ~ trouble, HostReceive
  PROVE  ~ trouble' /\ Known'
  <1> DEFINE L == line["pc"]
             K == line["board"]
             M == line'["board"]
             F == flight["pc"]
  <1>1. /\ L # <<>> /\ line'["pc"] = Tail(L) /\ UNCHANGED <<tx, dev, up, trouble>>
        /\ L \in Seq(Byte) /\ F \in Flights /\ host.esc \in BOOLEAN /\ K \in Seq(Byte)
    BY HostReceiveCases, HostReceiveOrder, TypeFacts
  <1>2. Head(L) # FORCE
    BY <1>1, NoRequest
  <1>3. ASSUME ~ Special(Head(L))
        PROVE  /\ host.in # None
               /\ host.esc => Special(Decoded(host.esc, Head(L)))
    <2> HIDE DEF L, K, F
    <2>1. Direction(host.in, host.esc, L, F, PcOut, PcLast, PcTx, K)
      BY DEF Ordered, PcDir, L, K, F
    <2>2. /\ host.esc => Special(Xor(Head(L)))
          /\ host.in = None => Stuck(host.in, L, F) /\ PcTx.step = "idle"
      BY <1>1, <1>3, <2>1, DirectionCharacter
    <2>3. ~ (host.in = None)
      BY <2>2, NotStuck DEF L, F
    <2> QED BY <2>2, <2>3 DEF Decoded
  <1>4. /\ Takes(host, host', L, K, M) \/ Places(host, host', L, K, M)
        /\ flight' = flight \/ \E s, c, taken : Deliver("pc", s, c, taken)
    BY <1>2, <1>3, HostReceiveCases
  <1>5. Takes(host, host', L, K, M) => Special(Head(L))
    BY <1>2, <1>3, SpecialBytes DEF Takes, Special
  <1>6. /\ M = K /\ host'.out = host.out
        /\ host'.in = None => host.in = None /\ (IdOn(L) => IdOn(Tail(L)))
    <2> HIDE DEF L, K, M
    <2> QED BY <1>1, <1>2, <1>4, <1>5, TakesKnown
  <1>7. flight'["board"] = flight["board"] /\ (F = <<>> => flight'["pc"] = <<>>)
    BY <1>4, EndFacts DEF Deliver, MuxTypes
  <1> QED BY <1>1, <1>6, <1>7 DEF Known, KnownBoard, KnownPc

LEMMA InitCalm == Init => Calm
  BY EndFacts, FreshFacts DEF Init, Calm, Known, KnownBoard, KnownPc

LEMMA NextCalm ==
  ASSUME MuxTypes, Order, Calm, [Next]_vars
  PROVE  Calm'
  <1> SUFFICES ASSUME restarts' = 0 PROVE ~ trouble' /\ Known'
    BY DEF Calm
  <1>1. restarts' = restarts \/ restarts' = restarts + 1
    BY DEF Next, DevSend, HostSend, Transmit, TxId, TxLast, TxData, TxFlip, TxMark, TxOut,
           TxStep, DevReceive, DevRead, DevReadOn, HostReceive, HostStop, DevStop, Stop,
           Lose, Start, muxVars, vars
  <1>2. restarts = 0 /\ restarts' = restarts
    BY <1>1, SermuxAssumption DEF MuxTypes
  <1>3. ~ trouble /\ Known /\ Ordered
    BY <1>2 DEF Calm, Order
  <1>4. ~ HostStop /\ ~ DevStop
    BY <1>2 DEF HostStop, DevStop, Stop
  <1>5. ASSUME NEW e \in Ends PROVE ~ Lose(e) /\ ~ Start(e)
    BY <1>3 DEF Known, Lose, Start
  <1>6. ASSUME UNCHANGED muxVars PROVE ~ trouble' /\ Known'
    BY <1>3, <1>6 DEF muxVars, Known, KnownBoard, KnownPc
  <1>7. ASSUME NEW s \in Bufs, DevRead(s) PROVE ~ trouble' /\ Known'
    BY <1>6, <1>7 DEF DevRead
  <1>8. CASE DevReadOn
    BY <1>6, <1>8 DEF DevReadOn
  <1>9. CASE UNCHANGED vars
    BY <1>6, <1>9 DEF vars
  <1>10. ASSUME NEW s \in Bufs, NEW c \in Chars, DevSend(s, c) \/ HostSend(s, c)
         PROVE  ~ trouble' /\ Known'
    BY <1>3, <1>10, DevSendKnown, HostSendKnown
  <1>11. CASE Transmit
    BY <1>3, <1>11, TransmitKnown
  <1>12. CASE DevReceive
    BY <1>3, <1>12, DevReceiveKnown
  <1>13. CASE HostReceive
    BY <1>3, <1>13, HostReceiveKnown
  <1> QED BY <1>4, <1>5, <1>7, <1>8, <1>9, <1>10, <1>11, <1>12, <1>13 DEF Next

(* Every character reaches the service it was sent to, unchanged, once and *)
(* in the order of the line, and the program of the PC does not end on a   *)
(* protocol error, across escapes, changes of service, restarts and        *)
(* repetitions, whatever the interrupt of the board cuts into: unless the  *)
(* protocol cannot repair a restart (trouble), which takes a restart.      *)
THEOREM CharactersInOrder == Spec => []DeliveredInOrder
  <1>1. Init => Order /\ Calm
    BY InitOrder, InitCalm
  <1>2. (RingInv /\ MuxTypes) /\ (Order /\ Calm) /\ [Next]_vars => (Order /\ Calm)'
    BY NextOrder, NextCalm
  <1>3. MuxTypes /\ Order /\ Calm => DeliveredInOrder
    BY SermuxAssumption DEF MuxTypes, Order, Ordered, Calm, DeliveredInOrder
  <1> QED BY <1>1, <1>2, <1>3, TypesInvariant, PTL DEF Spec
=============================================================================
