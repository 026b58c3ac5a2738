---------------------------- MODULE SerialProofs ----------------------------
(***************************************************************************)
(* Proofs about the two transfers over the serial line: receiving a        *)
(* program with XMODEM (module Xmodem) and the remote file system (module  *)
(* RemoteFs).  For each its type invariant and the safety properties that  *)
(* its run checks, for every size of the file, of the buffers and of the   *)
(* line, and every number of faults.                                       *)
(***************************************************************************)
EXTENDS Xmodem, RemoteFs, SequenceTheorems, TLAPS

-----------------------------------------------------------------------------
(* Sequences: their elements stay in the set they are taken from *)

LEMMA SubSeqStays ==
  ASSUME NEW S, NEW s \in Seq(S), NEW k \in 0 .. Len(s)
  PROVE  /\ SubSeq(s, k + 1, Len(s)) \in Seq(S)
         /\ SubSeq(s, 1, k) \in Seq(S)
<1>1. \A i \in k + 1 .. Len(s) : s[i] \in S
  OBVIOUS
<1>2. \A i \in 1 .. k : s[i] \in S
  OBVIOUS
<1>3. SubSeq(s, k + 1, Len(s)) \in Seq(S)
  BY <1>1, SubSeqProperties
<1>4. SubSeq(s, 1, k) \in Seq(S)
  BY <1>2, SubSeqProperties
<1> QED
  BY <1>3, <1>4

LEMMA TailStays ==
  ASSUME NEW S, NEW s \in Seq(S), s # << >>
  PROVE  Head(s) \in S /\ Tail(s) \in Seq(S)
  BY HeadTailProperties

LEMMA SeqOfMore ==
  ASSUME NEW S, NEW T, S \subseteq T, NEW s \in Seq(S)
  PROVE  s \in Seq(T)
  OBVIOUS

LEMMA SeqOfElements ==
  ASSUME NEW S, NEW T, NEW s \in Seq(S), \A i \in 1 .. Len(s) : s[i] \in T
  PROVE  s \in Seq(T)
<1>1. s = [i \in 1 .. Len(s) |-> s[i]] /\ Len(s) \in Nat
  OBVIOUS
<1>2. [i \in 1 .. Len(s) |-> s[i]] \in Seq(T)
  BY <1>1
<1> QED
  BY <1>1, <1>2

LEMMA WithoutStays ==
  ASSUME NEW S, NEW s \in Seq(S), NEW i \in 1 .. Len(s)
  PROVE  Without(s, i) \in Seq(S)
<1>1. i - 1 \in 0 .. Len(s) /\ i \in 0 .. Len(s)
  OBVIOUS
<1>2. SubSeq(s, 1, i - 1) \in Seq(S)
  BY <1>1, SubSeqStays
<1>3. SubSeq(s, i + 1, Len(s)) \in Seq(S)
  BY <1>1, SubSeqStays
<1> QED
  BY <1>2, <1>3, ConcatProperties DEF Without

LEMMA LostAtStays ==
  ASSUME NEW S, NEW s \in Seq(S), NEW i \in 1 .. Len(s)
  PROVE  LostAt(s, i) \in Seq(S)
<1>1. i - 1 \in 0 .. Len(s) /\ i \in 0 .. Len(s)
  OBVIOUS
<1>2. SubSeq(s, 1, i - 1) \in Seq(S)
  BY <1>1, SubSeqStays
<1>3. SubSeq(s, i + 1, Len(s)) \in Seq(S)
  BY <1>1, SubSeqStays
<1> QED
  BY <1>2, <1>3, ConcatProperties DEF LostAt

-----------------------------------------------------------------------------
(* Arithmetic of the byte packnum *)

LEMMA DivMod ==
  ASSUME NEW N \in Nat, N > 1, NEW x \in Nat
  PROVE  x = N * (x \div N) + (x % N) /\ x % N \in 0 .. N - 1 /\ x \div N \in Nat
  OBVIOUS

LEMMA ModUnique ==
  ASSUME NEW N \in Nat, N > 1, NEW q \in Nat, NEW r \in 0 .. N - 1
  PROVE  (N * q + r) % N = r
  OBVIOUS

LEMMA ModSucc ==
  ASSUME NEW N \in Nat, N > 1, NEW x \in Nat
  PROVE  (x + 1) % N = IF x % N = N - 1 THEN 0 ELSE (x % N) + 1
<1>1. x = N * (x \div N) + (x % N) /\ x % N \in 0 .. N - 1 /\ x \div N \in Nat
  BY DivMod
<1>2. CASE x % N = N - 1
  <2>1. x + 1 = N * (x \div N + 1) + 0
    BY <1>1, <1>2
  <2>2. x \div N + 1 \in Nat /\ 0 \in 0 .. N - 1
    BY <1>1
  <2> QED
    BY <1>2, <2>1, <2>2, ModUnique
<1>3. CASE x % N # N - 1
  <2> DEFINE q == x \div N
             r == (x % N) + 1
  <2>1. r \in 0 .. N - 1
    BY <1>1, <1>3
  <2>2. x + 1 = N * q + r /\ q \in Nat
    BY <1>1, <1>3
  <2> HIDE DEF q, r
  <2>3. (x + 1) % N = r
    BY <2>1, <2>2, ModUnique
  <2> QED
    BY <1>3, <2>3 DEF r
<1> QED
  BY <1>2, <1>3

\* Consecutive blocks have different numbers.
LEMMA ModDiffers ==
  ASSUME NEW N \in Nat, N > 1, NEW x \in Nat
  PROVE  (x + 1) % N # x % N
<1> DEFINE r == x % N
<1>1. r \in 0 .. N - 1
  BY DivMod
<1>2. (x + 1) % N = IF r = N - 1 THEN 0 ELSE r + 1
  BY ModSucc
<1> HIDE DEF r
<1>3. (x + 1) % N # r
  BY <1>1, <1>2
<1> QED
  BY <1>3 DEF r

\* The number of the next block is one more, in a byte.
LEMMA ModNext ==
  ASSUME NEW N \in Nat, N > 1, NEW x \in Nat
  PROVE  ((x % N) + 1) % N = (x + 1) % N
<1> DEFINE y == x % N
<1>1. y \in 0 .. N - 1 /\ y \in Nat
  BY DivMod
<1>2. y % N = y
  BY <1>1
<1>3. (y + 1) % N = IF y % N = N - 1 THEN 0 ELSE (y % N) + 1
  BY <1>1, ModSucc
<1> QED
  BY <1>2, <1>3, ModSucc

-----------------------------------------------------------------------------
(* XMODEM *)

\* The receiver has not left its loop.
Running == at \in {"loop", "control", "record", "flush"}

\* Units of the blocks m and b, or damaged; EOT only after the last block.
Window(m, b) == {u \in Units : u.b \in {0, m, b} /\ (u.c = "EOT" => b > Blocks)}

\* Replies other than an acknowledgement.
Asking == Replies \ {"ACK"}

OneAck(s) == \A i, j \in 1 .. Len(s) : s[i] = "ACK" /\ s[j] = "ACK" => i = j

\* The sender, which is at block b, is at the block after the n received and has no
\* acknowledgement to read, or it is at the last of them and has one at most.
Acknowledged(n, b, s) ==
  \/ b = n + 1 /\ s \in Seq(Asking)
  \/ b = n /\ OneAck(s)

\* While the receiver runs, the number it waits for is the one after the n blocks
\* it has, and whatever is on its way belongs to the last block or the next one.
InStep(n) ==
  /\ result = "none" /\ packnum = (n + 1) % NUMBERS
  /\ Acknowledged(n, block, back)
  /\ line \in Seq(Window(n, block)) /\ rec \in Seq(Window(n, block))
  /\ rest \in Seq(Window(block, block))
  /\ at = "flush" => IsRecord(rec)

\* Until the sender starts there is nothing.
NotStarted ==
  /\ at \in {"loop", "control"} /\ dest = << >>
  /\ block = 1 /\ line = << >> /\ rest = << >> /\ rec = << >>
  /\ back \in Seq({"C"})

Ordered ==
  /\ InOrder
  /\ Len(dest) <= Blocks
  /\ CompleteUnlessMisread
  /\ Running => InStep(Len(dest))
  /\ Running /\ sender = "idle" => NotStarted

-----------------------------------------------------------------------------
Grave == {"start", "stop", "control", "reply", "pause"}

\* The sender has not started: a 'C' for every pass, and the passes that are over.
Beginning ==
  /\ sender = "idle" /\ starting /\ line = << >>
  /\ \/ at = "loop" /\ retries + late = RETRY_LIMIT
     \/ at = "control" /\ retries + late = RETRY_LIMIT - 1

\* The retries left, the passes before the start and the faults, with the pass that
\* has begun, make up for the passes that are needed.
Budget(d) == retries + late + faults + (IF at = "control" THEN 1 ELSE 0) >= RETRY_LIMIT + d

\* The reply is on its way.
Replied ==
  /\ sender = "waiting" /\ at \in {"loop", "control"} /\ ~starting /\ line = << >>
  /\ \/ back = <<"ACK">> /\ block = Len(dest)
     \/ back = <<"NAK">> /\ block = Len(dest) + 1
  /\ Budget(0)

\* The block is on its way, as it was sent or with a fault.
Sending ==
  /\ sender = "waiting" /\ at \in {"loop", "control"} /\ (at = "loop" => ~starting)
  /\ back = << >> /\ block = Len(dest) + 1
  /\ \/ line = Sent(block) /\ Budget(0)
     \/ /\ block <= Blocks /\ line # << >> /\ Head(line) = Control("SOH")
        /\ Len(line) <= RECORD + 1 /\ Budget(1)

\* The record is being read.
Reading ==
  /\ sender = "waiting" /\ at = "record" /\ ~starting /\ back = << >>
  /\ block = Len(dest) + 1 /\ block <= Blocks
  /\ Len(rec) < RECORD /\ Len(rec) + Len(line) <= RECORD
  /\ \/ rec \o line = Record(block) /\ retries + late + faults >= RETRY_LIMIT - 1
     \/ retries + late + faults >= RETRY_LIMIT

\* The record has been read.
Taken == sender = "waiting" /\ at = "flush" /\ ~starting /\ back = << >> /\ line = << >>

Lockstep ==
  Running /\ trouble \cap Grave = {}
    => rest = << >> /\ (Beginning \/ Replied \/ Sending \/ Reading \/ Taken)

-----------------------------------------------------------------------------
(* The blocks the sender sends *)

LEMMA WindowUnits ==
  ASSUME NEW m, NEW b
  PROVE  Window(m, b) \subseteq Units
  BY DEF Window

LEMMA ControlFacts ==
  ASSUME NEW c
  PROVE  Control(c).c = c /\ Control(c).b = 0
  BY DEF Control

LEMMA DataFacts ==
  ASSUME NEW b, NEW j
  PROVE  Data(b, j).c = "data" /\ Data(b, j).b = b
  BY DEF Data

LEMMA ControlUnits ==
  ASSUME NEW c \in {"SOH", "EOT", "CAN"}
  PROVE  Control(c) \in Units
  BY DEF Units

LEMMA DataUnits ==
  ASSUME NEW b \in 0 .. Blocks, NEW j \in 0 .. RECORD
  PROVE  Data(b, j) \in Units
  BY DEF Units, Data

LEMMA DamagedInWindow ==
  ASSUME NEW m, NEW b
  PROVE  Damaged \in Window(m, b)
<1>1. Damaged \in Units
  BY DataUnits, XmodemAssumption DEF Damaged
<1> QED
  BY <1>1, DataFacts DEF Damaged, Window

LEMMA RecordFacts ==
  ASSUME NEW b \in 1 .. Blocks
  PROVE  /\ Record(b) \in Seq(Window(b, b)) /\ Len(Record(b)) = RECORD
         /\ \A j \in 1 .. RECORD : Record(b)[j] = Data(b, j)
<1>1. RECORD \in Nat /\ Blocks \in Nat
  BY XmodemAssumption
<1>2. \A j \in 1 .. RECORD : Data(b, j) \in Window(b, b)
  <2> SUFFICES ASSUME NEW j \in 1 .. RECORD PROVE Data(b, j) \in Window(b, b)
    OBVIOUS
  <2>1. Data(b, j) \in Units
    BY <1>1, DataUnits
  <2> QED
    BY <2>1, DataFacts DEF Window
<1>3. Record(b) \in Seq(Window(b, b)) /\ Len(Record(b)) = RECORD
  BY <1>1, <1>2 DEF Record
<1> QED
  BY <1>3 DEF Record

LEMMA SentFacts ==
  ASSUME NEW b \in 1 .. Blocks + 1
  PROVE  /\ Sent(b) \in Seq(Window(b, b)) /\ Sent(b) # << >>
         /\ b <= Blocks => /\ Len(Sent(b)) = RECORD + 1 /\ Sent(b)[1] = Control("SOH")
                           /\ \A i \in 2 .. Len(Sent(b)) : Sent(b)[i].c = "data"
                           /\ Tail(Sent(b)) = Record(b)
         /\ b > Blocks => Sent(b) = <<Control("EOT")>>
<1>1. RECORD \in Nat \ {0} /\ Blocks \in Nat
  BY XmodemAssumption
<1>2. CASE b > Blocks
  <2>1. Sent(b) = <<Control("EOT")>>
    BY <1>2 DEF Sent
  <2>2. Control("EOT") \in Window(b, b)
    BY <1>2, ControlUnits, ControlFacts DEF Window
  <2> QED
    BY <1>1, <1>2, <2>1, <2>2
<1>3. CASE b <= Blocks
  <2>1. Sent(b) = <<Control("SOH")>> \o Record(b)
    BY <1>1, <1>3 DEF Sent
  <2>2. Control("SOH") \in Window(b, b)
    BY ControlUnits, ControlFacts DEF Window
  <2>3. Record(b) \in Seq(Window(b, b)) /\ Len(Record(b)) = RECORD
        /\ \A j \in 1 .. RECORD : Record(b)[j] = Data(b, j)
    BY <1>1, <1>3, RecordFacts
  <2> DEFINE h == <<Control("SOH")>>
  <2>4. h \in Seq(Window(b, b)) /\ Len(h) = 1 /\ h[1] = Control("SOH")
    BY <2>2
  <2> HIDE DEF h
  <2>5. /\ Sent(b) \in Seq(Window(b, b)) /\ Len(Sent(b)) = RECORD + 1
        /\ Sent(b)[1] = Control("SOH")
        /\ \A i \in 2 .. RECORD + 1 : Sent(b)[i] = Record(b)[i - 1]
    <3>1. Sent(b) = h \o Record(b)
      BY <2>1 DEF h
    <3>2. /\ Sent(b) \in Seq(Window(b, b)) /\ Len(Sent(b)) = 1 + RECORD
          /\ \A i \in 1 .. 1 + RECORD : Sent(b)[i] = IF i <= 1 THEN h[i] ELSE Record(b)[i - 1]
      <4> DEFINE t == Record(b)
      <4>1. t \in Seq(Window(b, b)) /\ Len(t) = RECORD
        BY <2>3
      <4> HIDE DEF t
      <4>2. /\ h \o t \in Seq(Window(b, b)) /\ Len(h \o t) = Len(h) + Len(t)
            /\ \A i \in 1 .. Len(h) + Len(t) :
                 (h \o t)[i] = IF i <= Len(h) THEN h[i] ELSE t[i - Len(h)]
        BY <2>4, <4>1, ConcatProperties
      <4> QED
        BY <2>4, <3>1, <4>1, <4>2, Zenon DEF t
    <3>3. Sent(b)[1] = Control("SOH")
      BY <1>1, <2>4, <3>2
    <3>4. ASSUME NEW i \in 2 .. RECORD + 1 PROVE Sent(b)[i] = Record(b)[i - 1]
      BY <1>1, <3>2, <3>4
    <3>5. 1 + RECORD = RECORD + 1
      BY <1>1
    <3> QED
      BY <3>2, <3>3, <3>4, <3>5
  <2>6. \A i \in 2 .. RECORD + 1 : Sent(b)[i].c = "data"
    <3> SUFFICES ASSUME NEW i \in 2 .. RECORD + 1 PROVE Sent(b)[i].c = "data"
      OBVIOUS
    <3>1. i - 1 \in 1 .. RECORD
      BY <1>1
    <3>2. Sent(b)[i] = Data(b, i - 1)
      BY <2>3, <2>5, <3>1
    <3> QED
      BY <3>2, DataFacts
  <2>7. Tail(Sent(b)) = Record(b)
    <3>1. Sent(b) # << >>
      BY <1>1, <2>5
    <3>2. /\ Tail(Sent(b)) \in Seq(Window(b, b)) /\ Len(Tail(Sent(b))) = RECORD
          /\ \A i \in 1 .. RECORD : Tail(Sent(b))[i] = Sent(b)[i + 1]
      BY <1>1, <2>5, <3>1, HeadTailProperties
    <3>3. \A i \in 1 .. RECORD : Tail(Sent(b))[i] = Record(b)[i]
      <4> SUFFICES ASSUME NEW i \in 1 .. RECORD PROVE Tail(Sent(b))[i] = Record(b)[i]
        OBVIOUS
      <4>1. i + 1 \in 2 .. RECORD + 1 /\ (i + 1) - 1 = i
        BY <1>1
      <4>2. Sent(b)[i + 1] = Record(b)[i]
        BY <2>5, <4>1
      <4> QED
        BY <3>2, <4>2
    <3> QED
      BY <2>3, <3>2, <3>3, SeqEqual
  <2> QED
    BY <1>1, <1>3, <2>5, <2>6, <2>7
<1> QED
  BY <1>1, <1>2, <1>3

\* What SendBlock puts on the line are units of the block and damaged ones.
LEMMA SendBlockStays ==
  ASSUME NEW S, NEW T, T \subseteq S, line \in Seq(S), Damaged \in T,
         NEW b \in 1 .. Blocks + 1, Sent(b) \in Seq(T), NEW w, SendBlock(b, w)
  PROVE  line' \in Seq(S) /\ rest' \in Seq(T)
<1> DEFINE s == Sent(b)
<1>1. ASSUME NEW t \in Seq(T), line' = line \o t PROVE line' \in Seq(S)
  <2>1. t \in Seq(S)
    BY SeqOfMore
  <2> QED
    BY <1>1, <2>1, ConcatProperties
<1>2. s \in Seq(T)
  OBVIOUS
<1> HIDE DEF s
<1>3. << >> \in Seq(T)
  OBVIOUS
<1>4. CASE line' = line \o s /\ rest' = << >>
  BY <1>1, <1>2, <1>3, <1>4
<1>5. CASE \E i \in 1 .. Len(s) :
             /\ \/ line' = line \o Without(s, i)
                \/ line' = line \o [s EXCEPT ![i] = Damaged]
             /\ rest' = << >>
  <2>1. PICK i \in 1 .. Len(s) :
             /\ \/ line' = line \o Without(s, i)
                \/ line' = line \o [s EXCEPT ![i] = Damaged]
             /\ rest' = << >>
    BY <1>5
  <2>2. Without(s, i) \in Seq(T)
    BY <1>2, WithoutStays
  <2>3. [s EXCEPT ![i] = Damaged] \in Seq(T)
    BY <1>2
  <2> QED
    BY <1>1, <1>3, <2>1, <2>2, <2>3
<1>6. CASE \E i \in 1 .. Len(s) - 1 : line' = line \o SubSeq(s, 1, i)
                                       /\ rest' = SubSeq(s, i + 1, Len(s))
  <2>1. PICK i \in 1 .. Len(s) - 1 : line' = line \o SubSeq(s, 1, i)
                                       /\ rest' = SubSeq(s, i + 1, Len(s))
    BY <1>6
  <2>2. i \in 0 .. Len(s)
    BY <1>2
  <2>3. SubSeq(s, 1, i) \in Seq(T) /\ SubSeq(s, i + 1, Len(s)) \in Seq(T)
    BY <1>2, <2>2, SubSeqStays
  <2> QED
    BY <1>1, <2>1, <2>3
<1> QED
  BY <1>4, <1>5, <1>6 DEF SendBlock, s

-----------------------------------------------------------------------------
(* Type correctness *)

LEMMA SendBlockTypes ==
  ASSUME TypeOK, NEW b \in 1 .. Blocks + 1, NEW w, SendBlock(b, w), trouble \subseteq w,
         w \subseteq {"start", "misread", "control", "pause", "reply", "stop"}
  PROVE  /\ line' \in Seq(Units) /\ rest' \in Seq(Units)
         /\ block' = b /\ sender' = "waiting"
         /\ faults' \in 0 .. MaxFaults /\ faults <= faults'
         /\ trouble' \subseteq {"start", "misread", "control", "pause", "reply", "stop"}
         /\ trouble \subseteq trouble'
<1>1. Damaged \in Units
  BY DamagedInWindow, WindowUnits
<1>2. Sent(b) \in Seq(Units)
  BY SentFacts, WindowUnits, SeqOfMore
<1>3. line' \in Seq(Units) /\ rest' \in Seq(Units)
  BY <1>1, <1>2, SendBlockStays DEF TypeOK
<1>4. block' = b /\ sender' = "waiting"
  BY DEF SendBlock
<1>5. faults' = faults \/ (faults < MaxFaults /\ faults' = faults + 1)
  BY DEF SendBlock
<1>6. trouble' \in {w, w \cup {"control"}, w \cup {"pause"}}
  BY DEF SendBlock
<1>7. faults' \in 0 .. MaxFaults /\ faults <= faults'
  BY <1>5, XmodemAssumption DEF TypeOK
<1>8. /\ trouble' \subseteq {"start", "misread", "control", "pause", "reply", "stop"}
      /\ trouble \subseteq trouble'
  BY <1>6, Zenon DEF TypeOK
<1> QED
  BY <1>3, <1>4, <1>7, <1>8

LEMMA ReplyTypes ==
  ASSUME back \in Seq(Replies), NEW c \in Replies, Reply(c)
  PROVE  back' \in Seq(Replies)
  BY AppendProperties DEF Reply

LEMMA NumberType == packnum \in Nat => Number \in 0 .. NUMBERS - 1
  BY XmodemAssumption DEF Number

LEMMA LoopTypes ==
  ASSUME TypeOK, Loop
  PROVE  TypeOK'
<1>1. back' \in Seq(Replies)
  <2>1. back' = back \/ Reply("C")
    BY DEF Loop
  <2> QED
    BY <2>1, ReplyTypes DEF TypeOK, Replies
<1>2. retries' \in 0 .. RETRY_LIMIT
  BY XmodemAssumption DEF Loop, TypeOK
<1>3. at' \in {"flush_cancel", "control"} /\ result' \in {result, "retryexceed"}
  BY DEF Loop
<1>4. UNCHANGED <<starting, packnum, limit, dest, rec, line, pc, faults, late, trouble>>
  BY DEF Loop
<1> QED
  BY <1>1, <1>2, <1>3, <1>4 DEF TypeOK, pc

LEMMA ControlTimeoutTypes ==
  ASSUME TypeOK, ControlTimeout
  PROVE  TypeOK'
<1>1. late' \in Nat
  BY DEF ControlTimeout, TypeOK
<1>2. at' = "loop" /\ UNCHANGED <<starting, packnum, retries, limit, dest, rec, result, line, back,
                                 pc, faults, trouble>>
  BY DEF ControlTimeout
<1> QED
  BY <1>1, <1>2 DEF TypeOK, pc

LEMMA ReadControlTypes ==
  ASSUME TypeOK, NEW c \in {"SOH", "EOT", "CAN", "other"}, ReadControl(c)
  PROVE  TypeOK'
<1>1. line' \in Seq(Units)
  BY TailStays DEF ReadControl, TypeOK
<1>2. trouble' \in {trouble, trouble \cup {"misread"}}
  BY DEF ReadControl
<1>3. UNCHANGED <<packnum, retries, limit, dest, pc, faults, late>>
  BY DEF ReadControl
<1>4. /\ at' \in {"flush_end", "record", "loop"}
      /\ result' \in {result, "size", "remotecancel"}
      /\ back' = back \/ Reply("ACK")
      /\ starting' = starting \/ starting' = FALSE
      /\ rec' = rec \/ rec' = << >>
  BY DEF ReadControl
<1>5. back' \in Seq(Replies)
  BY <1>4, ReplyTypes DEF TypeOK, Replies
<1>6. starting' \in BOOLEAN
  BY <1>4, Zenon DEF TypeOK
<1>7. rec' \in Seq(Units)
  <2>1. << >> \in Seq(Units) /\ rec \in Seq(Units)
    BY DEF TypeOK
  <2> QED
    BY <1>4, <2>1, Zenon
<1> QED
  BY <1>1, <1>2, <1>3, <1>4, <1>5, <1>6, <1>7 DEF TypeOK, pc

LEMMA ReadRecordTypes ==
  ASSUME TypeOK, ReadRecord
  PROVE  TypeOK'
<1>1. Head(line) \in Units /\ line' \in Seq(Units)
  BY TailStays DEF ReadRecord, TypeOK
<1>2. Append(rec, Head(line)) \in Seq(Units)
  BY <1>1, AppendProperties DEF TypeOK
<1>3. rec' \in {Append(rec, Head(line)), << >>} /\ at' \in {at, "flush", "loop"}
      /\ (back' = back \/ Reply("NAK"))
  BY DEF ReadRecord, BadRecord
<1>4. back' \in Seq(Replies)
  BY <1>3, ReplyTypes DEF TypeOK, Replies
<1>5. rec' \in Seq(Units)
  <2>1. << >> \in Seq(Units)
    OBVIOUS
  <2>2. rec' = Append(rec, Head(line)) \/ rec' = << >>
    BY <1>3
  <2> QED
    BY <1>2, <2>1, <2>2, Zenon
<1>6. UNCHANGED <<starting, packnum, retries, limit, dest, result, pc, faults, late, trouble>>
  BY DEF ReadRecord
<1> QED
  BY <1>1, <1>3, <1>4, <1>5, <1>6 DEF TypeOK, pc

LEMMA RecordTimeoutTypes ==
  ASSUME TypeOK, RecordTimeout
  PROVE  TypeOK'
<1>1. at' = "loop" /\ Reply("NAK") /\ rec' = << >>
  BY DEF RecordTimeout, BadRecord
<1>2. back' \in Seq(Replies) /\ rec' \in Seq(Units)
  BY <1>1, ReplyTypes DEF TypeOK, Replies
<1>3. UNCHANGED <<starting, packnum, retries, limit, dest, result, line, pc, faults, late, trouble>>
  BY DEF RecordTimeout
<1> QED
  BY <1>1, <1>2, <1>3 DEF TypeOK, pc

LEMMA FlushTypes ==
  ASSUME TypeOK, Flush
  PROVE  TypeOK'
<1>1. line' \in Seq(Units)
  BY TailStays DEF Flush, TypeOK
<1>2. UNCHANGED <<board, back, pc, faults, late, trouble>>
  BY DEF Flush
<1> QED
  BY <1>1, <1>2 DEF TypeOK, board, pc

\* A valid record is of some block.
LEMMA ValidRecord ==
  ASSUME NEW r, IsRecord(r)
  PROVE  r[1].b \in 1 .. Blocks /\ r = Record(r[1].b) /\ r[1].b % NUMBERS = packnum
<1>1. PICK b \in 1 .. Blocks : r = Record(b) /\ b % NUMBERS = packnum
  BY DEF IsRecord
<1>2. r[1] = Data(b, 1)
  BY <1>1, RecordFacts, XmodemAssumption
<1> QED
  BY <1>1, <1>2, DataFacts

LEMMA FinishTypes ==
  ASSUME TypeOK, Finish
  PROVE  TypeOK'
<1>1. back' = back \/ Reply("CAN")
  BY DEF Finish
<1>2. back' \in Seq(Replies)
  BY <1>1, ReplyTypes DEF TypeOK, Replies
<1>3. at' = "returned"
      /\ UNCHANGED <<starting, packnum, retries, limit, dest, rec, result, line, pc, faults, late, trouble>>
  BY DEF Finish
<1> QED
  BY <1>2, <1>3 DEF TypeOK, pc

LEMMA GotRecordTypes ==
  ASSUME TypeOK, at = "flush" => IsRecord(rec), NEW memory \in BOOLEAN, GotRecord(memory)
  PROVE  TypeOK'
<1>1. rec[1].b \in 0 .. Blocks
  BY ValidRecord, XmodemAssumption DEF GotRecord
<1>2. /\ dest' \in {dest, Append(dest, rec[1].b)}
      /\ at' \in {"flush_cancel", "loop"} /\ result' \in {result, "outofmem"}
      /\ back' = back \/ Reply("ACK")
  BY DEF GotRecord
<1>3. dest' \in Seq(0 .. Blocks)
  <2>1. dest \in Seq(0 .. Blocks) /\ Append(dest, rec[1].b) \in Seq(0 .. Blocks)
    BY <1>1, AppendProperties DEF TypeOK
  <2>2. dest' = dest \/ dest' = Append(dest, rec[1].b)
    BY <1>2
  <2> QED
    BY <2>1, <2>2, Zenon
<1>4. back' \in Seq(Replies)
  BY <1>2, ReplyTypes DEF TypeOK, Replies
<1>5. retries' \in 0 .. RETRY_LIMIT
  BY XmodemAssumption DEF GotRecord, AfterRecord
<1>6. packnum' \in 0 .. NUMBERS - 1
  BY NumberType DEF GotRecord, TypeOK
<1>7. limit' \in Nat
  BY XmodemAssumption DEF GotRecord, TypeOK
<1>8. rec' = << >> /\ late' = 0 /\ UNCHANGED <<starting, line, pc, faults, trouble>>
  BY DEF GotRecord
<1>9. rec' \in Seq(Units)
  BY <1>8
<1> QED
  BY <1>2, <1>3, <1>4, <1>5, <1>6, <1>7, <1>8, <1>9 DEF TypeOK, pc

LEMMA StartFacts ==
  ASSUME TypeOK, Start
  PROVE  /\ sender = "idle" /\ UNCHANGED <<board, late>>
         /\ \E i \in 1 .. Len(back), w \in {trouble, trouble \cup {"start"}} :
              /\ back[i] = "C" /\ back' = SubSeq(back, i + 1, Len(back)) /\ SendBlock(1, w)
              /\ "start" \notin w => at = "control" /\ i = Len(back)
              /\ trouble \subseteq w
              /\ w \subseteq {"start", "misread", "control", "pause", "reply", "stop"}
<1>1. PICK i \in 1 .. Len(back) :
        /\ back[i] = "C" /\ back' = SubSeq(back, i + 1, Len(back))
        /\ SendBlock(1, IF at = "control" /\ i = Len(back) THEN trouble
                        ELSE trouble \cup {"start"})
  BY DEF Start
<1>2. PICK w \in {trouble, trouble \cup {"start"}} :
        SendBlock(1, w) /\ w = IF at = "control" /\ i = Len(back) THEN trouble
                                ELSE trouble \cup {"start"}
  BY <1>1
<1>3. /\ trouble \subseteq w /\ ("start" \notin w => at = "control" /\ i = Len(back))
      /\ w \subseteq {"start", "misread", "control", "pause", "reply", "stop"}
  BY <1>2 DEF TypeOK
<1> QED
  BY <1>1, <1>2, <1>3 DEF Start

LEMMA StartTypes ==
  ASSUME TypeOK, Start
  PROVE  TypeOK'
<1>1. PICK i \in 1 .. Len(back), w \in {trouble, trouble \cup {"start"}} :
        /\ back' = SubSeq(back, i + 1, Len(back)) /\ SendBlock(1, w)
        /\ trouble \subseteq w
        /\ w \subseteq {"start", "misread", "control", "pause", "reply", "stop"}
  BY StartFacts
<1>2. back \in Seq(Replies) /\ i \in 0 .. Len(back) /\ 1 \in 1 .. Blocks + 1
  BY XmodemAssumption DEF TypeOK
<1>3. back' \in Seq(Replies) /\ UNCHANGED <<board, late>>
  BY <1>1, <1>2, SubSeqStays DEF Start
<1> QED
  BY <1>1, <1>2, <1>3, SendBlockTypes DEF TypeOK, board

LEMMA SenderReplyTypes ==
  ASSUME TypeOK, SenderReply
  PROVE  TypeOK'
<1>1. back' \in Seq(Replies) /\ UNCHANGED <<board, late>>
  BY TailStays DEF SenderReply, TypeOK
<1>2. ASSUME NEW b \in 1 .. Blocks + 1, SendBlock(b, trouble) PROVE TypeOK'
  BY <1>1, <1>2, SendBlockTypes DEF TypeOK, board
<1>3. CASE sender' \in {"done", "stopped"} /\ UNCHANGED <<line, block, rest, faults, trouble>>
  BY <1>1, <1>3 DEF TypeOK, board
<1>4. \/ sender' \in {"done", "stopped"} /\ UNCHANGED <<line, block, rest, faults, trouble>>
      \/ ~(block > Blocks) /\ SendBlock(block + 1, trouble)
      \/ SendBlock(block, trouble)
  BY DEF SenderReply
<1>5. block \in 1 .. Blocks + 1 /\ (~(block > Blocks) => block + 1 \in 1 .. Blocks + 1)
  BY XmodemAssumption DEF TypeOK
<1> QED
  BY <1>2, <1>3, <1>4, <1>5

LEMMA SenderTimeoutTypes ==
  ASSUME TypeOK, SenderTimeout
  PROVE  TypeOK'
<1>1. SendBlock(block, trouble) /\ UNCHANGED <<board, back, late>> /\ block \in 1 .. Blocks + 1
  BY DEF SenderTimeout, TypeOK
<1> QED
  BY <1>1, SendBlockTypes DEF TypeOK, board

LEMMA SendRestTypes ==
  ASSUME TypeOK, SendRest
  PROVE  TypeOK'
<1>1. line' \in Seq(Units)
  BY ConcatProperties DEF SendRest, TypeOK
<1>2. rest' \in Seq(Units)
  BY DEF SendRest
<1>3. UNCHANGED <<board, back, sender, block, faults, late, trouble>>
  BY DEF SendRest
<1> QED
  BY <1>1, <1>2, <1>3 DEF TypeOK, board

LEMMA StopTypes ==
  ASSUME TypeOK, Stop
  PROVE  TypeOK'
<1>1. line' \in Seq(Units)
  <2>1. line \in Seq(Units) /\ Append(line, Control("CAN")) \in Seq(Units)
    BY ControlUnits, AppendProperties DEF TypeOK
  <2>2. line' = line \/ line' = Append(line, Control("CAN"))
    BY DEF Stop
  <2> QED
    BY <2>1, <2>2, Zenon
<1>2. rest' \in Seq(Units)
  BY DEF Stop
<1>3. sender' = "stopped" /\ trouble' = trouble \cup {"stop"}
      /\ UNCHANGED <<board, back, block, faults, late>>
  BY DEF Stop
<1> QED
  BY <1>1, <1>2, <1>3 DEF TypeOK, board

LEMMA LoseReplyTypes ==
  ASSUME TypeOK, LoseReply
  PROVE  TypeOK'
<1>1. back' \in Seq(Replies)
  BY TailStays DEF LoseReply, TypeOK
<1>2. faults' \in 0 .. MaxFaults
  BY XmodemAssumption DEF LoseReply, TypeOK
<1>3. trouble' = trouble \cup {"reply"} /\ UNCHANGED <<board, line, pc, late>>
  BY DEF LoseReply
<1> QED
  BY <1>1, <1>2, <1>3 DEF TypeOK, board, pc

LEMMA XmodemInitTypes == Init => TypeOK
<1> SUFFICES ASSUME Init PROVE TypeOK
  OBVIOUS
<1>1. starting \in BOOLEAN
  BY Zenon DEF Init
<1>2. /\ rec \in Seq(Units) /\ line \in Seq(Units) /\ rest \in Seq(Units)
      /\ back \in Seq(Replies) /\ dest \in Seq(0 .. Blocks)
  BY DEF Init
<1> QED
  BY <1>1, <1>2, XmodemAssumption DEF Init, TypeOK

LEMMA XmodemStepTypes ==
  ASSUME TypeOK, at = "flush" => IsRecord(rec), [Next]_vars
  PROVE  TypeOK'
<1>1. CASE UNCHANGED vars
  BY <1>1 DEF vars, board, pc, TypeOK
<1>2. CASE Receive
  BY <1>2, LoopTypes, ControlTimeoutTypes, ReadControlTypes, ReadRecordTypes, RecordTimeoutTypes,
     FlushTypes, GotRecordTypes, FinishTypes DEF Receive
<1>3. CASE Sender
  BY <1>3, StartTypes, SenderReplyTypes, SenderTimeoutTypes, SendRestTypes, StopTypes DEF Sender
<1>4. CASE LoseReply
  BY <1>4, LoseReplyTypes
<1> QED
  BY <1>1, <1>2, <1>3, <1>4 DEF Next

-----------------------------------------------------------------------------
(* Blocks are received in order *)

LEMMA AcknowledgedAppend ==
  ASSUME NEW n, NEW b, NEW s \in Seq(Replies), NEW c \in Asking, Acknowledged(n, b, s)
  PROVE  Acknowledged(n, b, Append(s, c))
<1>1. c # "ACK" /\ c \in Replies
  BY DEF Asking
<1>2. CASE b = n + 1 /\ s \in Seq(Asking)
  BY <1>2, AppendProperties DEF Acknowledged
<1>3. CASE b = n /\ OneAck(s)
  <2>1. /\ Len(Append(s, c)) = Len(s) + 1 /\ Append(s, c)[Len(s) + 1] = c
        /\ \A i \in 1 .. Len(s) : Append(s, c)[i] = s[i]
    BY <1>1, AppendProperties
  <2>2. ASSUME NEW i \in 1 .. Len(s) + 1, Append(s, c)[i] = "ACK"
        PROVE  i \in 1 .. Len(s) /\ s[i] = "ACK"
    BY <1>1, <2>1, <2>2
  <2>3. OneAck(Append(s, c))
    BY <1>3, <2>1, <2>2 DEF OneAck
  <2> QED
    BY <1>3, <2>3 DEF Acknowledged
<1> QED
  BY <1>2, <1>3 DEF Acknowledged

LEMMA AcknowledgedTail ==
  ASSUME NEW n \in Nat, NEW b, NEW s \in Seq(Replies), s # << >>, Acknowledged(n, b, s)
  PROVE  /\ Acknowledged(n, b, Tail(s))
         /\ Head(s) = "ACK" => b = n /\ Tail(s) \in Seq(Asking)
<1>1. /\ Tail(s) \in Seq(Replies) /\ Len(Tail(s)) = Len(s) - 1 /\ Len(s) \in Nat /\ Len(s) >= 1
      /\ \A i \in 1 .. Len(Tail(s)) : Tail(s)[i] = s[i + 1]
      /\ Head(s) = s[1]
  BY HeadTailProperties
<1>2. CASE b = n + 1 /\ s \in Seq(Asking)
  <2>1. Head(s) \in Asking /\ Tail(s) \in Seq(Asking)
    BY <1>2, TailStays
  <2> QED
    BY <1>2, <2>1 DEF Acknowledged, Asking
<1>3. CASE b = n /\ OneAck(s)
  <2>1. ASSUME NEW i \in 1 .. Len(Tail(s)), Tail(s)[i] = "ACK"
        PROVE  i + 1 \in 1 .. Len(s) /\ s[i + 1] = "ACK"
    BY <1>1, <2>1
  <2>2. OneAck(Tail(s))
    <3> SUFFICES ASSUME NEW i \in 1 .. Len(Tail(s)), NEW j \in 1 .. Len(Tail(s)),
                        Tail(s)[i] = "ACK", Tail(s)[j] = "ACK"
                 PROVE  i = j
      BY DEF OneAck
    <3>1. i + 1 = j + 1
      BY <1>3, <2>1 DEF OneAck
    <3> QED
      BY <3>1
  <2>3. ASSUME Head(s) = "ACK" PROVE Tail(s) \in Seq(Asking)
    <3>1. \A i \in 1 .. Len(Tail(s)) : Tail(s)[i] \in Asking
      <4> SUFFICES ASSUME NEW i \in 1 .. Len(Tail(s)) PROVE Tail(s)[i] \in Asking
        OBVIOUS
      <4>1. Tail(s)[i] \in Replies
        BY <1>1
      <4>2. 1 \in 1 .. Len(s) /\ s[1] = "ACK" /\ i + 1 # 1
        BY <1>1, <2>3
      <4>3. Tail(s)[i] # "ACK"
        BY <1>3, <2>1, <4>2 DEF OneAck
      <4> QED
        BY <4>1, <4>3 DEF Asking
    <3> QED
      BY <1>1, <3>1, SeqOfElements
  <2> QED
    BY <1>3, <2>2, <2>3 DEF Acknowledged
<1> QED
  BY <1>2, <1>3 DEF Acknowledged

LEMMA WindowGrows ==
  ASSUME NEW n \in Nat, n <= Blocks, NEW m, NEW b
  PROVE  /\ Window(n, n) \subseteq Window(n, n + 1)
         /\ Window(b, b) \subseteq Window(m, b)
  BY XmodemAssumption DEF Window

LEMMA AckAppended ==
  ASSUME NEW s \in Seq(Asking)
  PROVE  OneAck(Append(s, "ACK"))
<1>1. /\ Len(Append(s, "ACK")) = Len(s) + 1
      /\ \A i \in 1 .. Len(s) : Append(s, "ACK")[i] = s[i]
  OBVIOUS
<1>2. ASSUME NEW i \in 1 .. Len(s) + 1, Append(s, "ACK")[i] = "ACK"
      PROVE  i = Len(s) + 1
  <2>1. CASE i \in 1 .. Len(s)
    <3>1. s[i] \in Asking /\ s[i] = "ACK"
      BY <1>1, <1>2, <2>1
    <3> QED
      BY <3>1 DEF Asking
  <2> QED
    BY <2>1
<1> QED
  BY <1>1, <1>2 DEF OneAck

\* What has to be shown of a step that receives no block.
LEMMA OrderedKept ==
  ASSUME Ordered, dest' = dest, CompleteUnlessMisread',
         Running' => InStep(Len(dest))',
         Running' /\ sender' = "idle" => NotStarted'
  PROVE  Ordered'
  BY DEF Ordered, InOrder

LEMMA StillComplete ==
  ASSUME CompleteUnlessMisread, dest' = dest, trouble \subseteq trouble',
         result' = result \/ result' # "size"
  PROVE  CompleteUnlessMisread'
  BY DEF CompleteUnlessMisread

\* A step after the receiver has left its loop.
LEMMA OverOrdered ==
  ASSUME Ordered, ~Running', dest' = dest, trouble \subseteq trouble',
         result' = result \/ result' # "size"
  PROVE  Ordered'
<1>1. CompleteUnlessMisread'
  BY StillComplete DEF Ordered
<1> QED
  BY <1>1, OrderedKept

\* What is known of the receiver in its loop.
LEMMA RunningFacts ==
  ASSUME TypeOK, Ordered, Running
  PROVE  /\ InStep(Len(dest)) /\ Len(dest) \in Nat /\ Len(dest) <= Blocks
         /\ block \in Nat /\ packnum \in Nat
         /\ back \in Seq(Replies)
  BY XmodemAssumption DEF TypeOK, Ordered

LEMMA LoopOrdered ==
  ASSUME TypeOK, Ordered, Loop
  PROVE  Ordered'
<1>1. UNCHANGED <<packnum, dest, rec, line, sender, block, rest, trouble>> /\ at = "loop"
  BY DEF Loop, pc
<1>2. CASE retries = 0
  <2>1. at' = "flush_cancel" /\ result' = "retryexceed"
    BY <1>2 DEF Loop
  <2> QED
    BY <1>1, <2>1, OverOrdered DEF Running
<1>3. CASE retries # 0
  <2>1. at' = "control" /\ result' = result /\ (back' = back \/ back' = Append(back, "C"))
    BY <1>3 DEF Loop, Reply
  <2>2. CompleteUnlessMisread'
    BY <1>1, <2>1, StillComplete DEF Ordered
  <2>3. InStep(Len(dest))
    BY <1>1, RunningFacts DEF Running
  <2>4. Acknowledged(Len(dest), block, back)'
    <3>2. "C" \in Asking /\ back \in Seq(Replies) /\ Acknowledged(Len(dest), block, back)
      BY <2>3 DEF InStep, TypeOK, Asking, Replies
    <3>3. Acknowledged(Len(dest), block, Append(back, "C"))
      BY <3>2, AcknowledgedAppend
    <3>1. Acknowledged(Len(dest), block, back')
      BY <2>1, <3>2, <3>3, Zenon
    <3> QED
      BY <1>1, <3>1, Zenon DEF Acknowledged
  <2>5. InStep(Len(dest))'
    BY <1>1, <2>1, <2>3, <2>4 DEF InStep
  <2>6. ASSUME sender' = "idle" PROVE NotStarted'
    <3>1. NotStarted
      BY <1>1, <2>6 DEF Ordered, Running
    <3>2. back' \in Seq({"C"})
      BY <2>1, <3>1, AppendProperties DEF NotStarted
    <3> QED
      BY <1>1, <2>1, <3>1, <3>2 DEF NotStarted
  <2> QED
    BY <1>1, <2>2, <2>5, <2>6, OrderedKept
<1> QED
  BY <1>2, <1>3

LEMMA ControlTimeoutOrdered ==
  ASSUME TypeOK, Ordered, ControlTimeout
  PROVE  Ordered'
<1>1. /\ at = "control" /\ at' = "loop" /\ trouble \subseteq trouble'
      /\ UNCHANGED <<packnum, dest, rec, result, line, back, sender, block, rest>>
  BY DEF ControlTimeout, pc
<1>2. CompleteUnlessMisread'
  BY <1>1, StillComplete DEF Ordered
<1>3. InStep(Len(dest))'
  <2>1. InStep(Len(dest))
    BY <1>1, RunningFacts DEF Running
  <2> QED
    BY <1>1, <2>1 DEF InStep, Acknowledged
<1>4. sender' = "idle" => NotStarted'
  BY <1>1 DEF Ordered, Running, NotStarted
<1> QED
  BY <1>1, <1>2, <1>3, <1>4, OrderedKept

LEMMA ReadControlOrdered ==
  ASSUME TypeOK, Ordered, NEW c \in {"SOH", "EOT", "CAN", "other"}, ReadControl(c)
  PROVE  Ordered'
<1>1. /\ at = "control" /\ line # << >> /\ line' = Tail(line)
      /\ c \in Looks(Head(line))
      /\ trouble' = IF Head(line).c = "data" /\ c = "EOT" THEN trouble \cup {"misread"} ELSE trouble
      /\ UNCHANGED <<packnum, dest, sender, block, rest>>
  BY DEF ReadControl, pc
<1>2. /\ InStep(Len(dest)) /\ Len(dest) \in Nat /\ Len(dest) <= Blocks /\ block \in Nat
  BY <1>1, RunningFacts DEF Running
<1>3. Head(line) \in Window(Len(dest), block) /\ Tail(line) \in Seq(Window(Len(dest), block))
  BY <1>1, <1>2, TailStays DEF InStep
<1>4. sender # "idle"
  BY <1>1 DEF Ordered, Running, NotStarted
<1>5. CASE c = "EOT"
  <2>1. at' = "flush_end" /\ result' = "size"
    BY <1>5 DEF ReadControl
  <2>2. CompleteUnlessMisread'
    <3>1. CASE Head(line).c = "data"
      BY <1>1, <1>5, <3>1 DEF CompleteUnlessMisread
    <3>2. CASE Head(line).c # "data"
      <4>1. Head(line).c = "EOT"
        BY <1>1, <1>5, <3>2 DEF Looks
      <4>2. block > Blocks
        BY <1>3, <4>1 DEF Window
      <4>3. block = Len(dest) + 1 \/ block = Len(dest)
        BY <1>2 DEF InStep, Acknowledged
      <4>4. Len(dest) = Blocks
        BY <1>2, <4>2, <4>3, XmodemAssumption
      <4> QED
        BY <1>1, <4>4 DEF CompleteUnlessMisread
    <3> QED
      BY <3>1, <3>2
  <2> QED
    BY <1>1, <2>1, <2>2, OrderedKept DEF Running
<1>6. CASE c = "CAN"
  <2>1. at' = "flush_end" /\ result' = "remotecancel" /\ trouble \subseteq trouble'
    BY <1>1, <1>6 DEF ReadControl
  <2> QED
    BY <1>1, <2>1, OverOrdered DEF Running
<1>7. CASE c \in {"SOH", "other"}
  <2>1. /\ at' \in {"record", "loop"} /\ result' = result /\ back' = back
        /\ rec' = rec \/ rec' = << >>
        /\ trouble \subseteq trouble'
    BY <1>1, <1>7 DEF ReadControl
  <2>2. CompleteUnlessMisread'
    BY <1>1, <2>1, StillComplete DEF Ordered
  <2>3. rec' \in Seq(Window(Len(dest), block))
    <3>1. << >> \in Seq(Window(Len(dest), block)) /\ rec \in Seq(Window(Len(dest), block))
      BY <1>2 DEF InStep
    <3> QED
      BY <2>1, <3>1, Zenon
  <2>4. InStep(Len(dest))'
    BY <1>1, <1>2, <1>3, <2>1, <2>3 DEF InStep, Acknowledged
  <2> QED
    BY <1>1, <1>4, <2>2, <2>4, OrderedKept
<1> QED
  BY <1>5, <1>6, <1>7

\* A bad record: it is asked for again.
LEMMA AskAgain ==
  ASSUME TypeOK, Ordered, at = "record", at' = "loop", Reply("NAK"), rec' = << >>,
         line' = line \/ (line # << >> /\ line' = Tail(line)),
         UNCHANGED <<packnum, dest, result, sender, block, rest, trouble>>
  PROVE  Ordered'
<1>1. InStep(Len(dest))
  BY RunningFacts DEF Running
<1>2. CompleteUnlessMisread'
  BY StillComplete DEF Ordered
<1>3. sender # "idle"
  BY DEF Ordered, Running, NotStarted
<1>4. Acknowledged(Len(dest), block, back)'
  <2>1. Acknowledged(Len(dest), block, Append(back, "NAK"))
    BY <1>1, AcknowledgedAppend DEF InStep, TypeOK, Asking, Replies
  <2> QED
    BY <2>1 DEF Reply, Acknowledged
<1>5. line' \in Seq(Window(Len(dest), block))
  BY <1>1, TailStays DEF InStep
<1>6. rec' \in Seq(Window(Len(dest), block))
  OBVIOUS
<1>7. InStep(Len(dest))'
  BY <1>1, <1>4, <1>5, <1>6 DEF InStep
<1> QED
  BY <1>2, <1>3, <1>7, OrderedKept

LEMMA ReadRecordOrdered ==
  ASSUME TypeOK, Ordered, ReadRecord
  PROVE  Ordered'
<1>1. /\ at = "record" /\ line # << >> /\ line' = Tail(line)
      /\ UNCHANGED <<packnum, dest, result, sender, block, rest, trouble>>
  BY DEF ReadRecord, pc
<1> DEFINE r == Append(rec, Head(line))
<1>2. CASE at' = "loop" /\ Reply("NAK") /\ rec' = << >>
  BY <1>1, <1>2, AskAgain
<1>3. CASE rec' = r /\ back' = back /\ (at' = at \/ (at' = "flush" /\ IsRecord(r)))
  <2>1. InStep(Len(dest))
    BY <1>1, RunningFacts DEF Running
  <2>2. Head(line) \in Window(Len(dest), block) /\ Tail(line) \in Seq(Window(Len(dest), block))
    BY <1>1, <2>1, TailStays DEF InStep
  <2>3. r \in Seq(Window(Len(dest), block))
    BY <2>1, <2>2, AppendProperties DEF InStep
  <2>4. CompleteUnlessMisread'
    BY <1>1, StillComplete DEF Ordered
  <2>5. sender # "idle"
    BY <1>1 DEF Ordered, Running, NotStarted
  <2> HIDE DEF r
  <2>6. (at = "flush" => IsRecord(rec))'
    BY <1>1, <1>3 DEF IsRecord
  <2>7. InStep(Len(dest))'
    BY <1>1, <1>3, <2>1, <2>2, <2>3, <2>6 DEF InStep, Acknowledged
  <2> QED
    BY <1>1, <2>4, <2>5, <2>7, OrderedKept
<1>4. \/ at' = "loop" /\ Reply("NAK") /\ rec' = << >>
      \/ rec' = r /\ back' = back /\ (at' = at \/ (at' = "flush" /\ IsRecord(r)))
  BY Zenon DEF ReadRecord, BadRecord
<1> QED
  BY <1>2, <1>3, <1>4

LEMMA FlushOrdered ==
  ASSUME TypeOK, Ordered, Flush
  PROVE  Ordered'
<1>1. /\ line # << >> /\ line' = Tail(line)
      /\ UNCHANGED <<at, packnum, dest, rec, result, back, sender, block, rest, trouble>>
  BY DEF Flush, board, pc
<1>2. CASE at = "flush"
  <2>1. InStep(Len(dest))
    BY <1>2, RunningFacts DEF Running
  <2>2. Tail(line) \in Seq(Window(Len(dest), block))
    BY <1>1, <2>1, TailStays DEF InStep
  <2>3. CompleteUnlessMisread'
    BY <1>1, StillComplete DEF Ordered
  <2>4. sender # "idle"
    BY <1>2 DEF Ordered, Running, NotStarted
  <2>5. IsRecord(rec)'
    BY <1>1, <1>2, <2>1 DEF InStep, IsRecord
  <2>6. InStep(Len(dest))'
    BY <1>1, <2>1, <2>2, <2>5 DEF InStep, Acknowledged
  <2> QED
    BY <1>1, <2>3, <2>4, <2>6, OrderedKept
<1>3. CASE at # "flush"
  <2>1. ~Running'
    BY <1>1, <1>3 DEF Flush, Running
  <2> QED
    BY <1>1, <2>1, OverOrdered
<1> QED
  BY <1>2, <1>3

\* A valid record is the next block.
LEMMA RecordIsNext ==
  ASSUME TypeOK, Ordered, at = "flush"
  PROVE  /\ rec[1].b = Len(dest) + 1 /\ block = Len(dest) + 1
         /\ Len(dest) + 1 <= Blocks
<1> DEFINE n == Len(dest)
           b == rec[1].b
<1>1. InStep(n) /\ n \in Nat /\ n <= Blocks /\ block \in Nat
  BY RunningFacts DEF Running
<1>2. IsRecord(rec)
  BY <1>1 DEF InStep
<1>3. b \in 1 .. Blocks /\ rec = Record(b) /\ b % NUMBERS = packnum
  BY <1>2, ValidRecord
<1>4. Len(rec) = RECORD
  BY <1>3, RecordFacts
<1>5. rec[1] \in Window(n, block)
  <2>1. rec \in Seq(Window(n, block)) /\ 1 \in 1 .. Len(rec)
    BY <1>1, <1>4, XmodemAssumption DEF InStep
  <2> QED
    BY <2>1
<1>6. b \in {0, n, block}
  BY <1>5 DEF Window
<1>7. packnum = (n + 1) % NUMBERS
  BY <1>1 DEF InStep
<1>8. block \in {n, n + 1}
  BY <1>1 DEF InStep, Acknowledged
<1> HIDE DEF n, b
<1>9. b # n
  BY <1>1, <1>3, <1>7, ModDiffers, XmodemAssumption
<1>10. b = n + 1 /\ block = n + 1
  BY <1>1, <1>3, <1>6, <1>8, <1>9, XmodemAssumption
<1>11. n + 1 <= Blocks
  BY <1>3, <1>10, XmodemAssumption
<1> QED
  BY <1>10, <1>11 DEF n, b

LEMMA GotRecordOrdered ==
  ASSUME TypeOK, Ordered, NEW memory \in BOOLEAN, GotRecord(memory)
  PROVE  Ordered'
<1> DEFINE n == Len(dest)
<1>1. /\ at = "flush" /\ line = << >> /\ rec' = << >> /\ packnum' = Number
      /\ UNCHANGED <<line, sender, block, rest, trouble>>
  BY DEF GotRecord, pc
<1>2. CASE at' = "flush_cancel" /\ result' = "outofmem" /\ dest' = dest
  BY <1>1, <1>2, OverOrdered DEF Running
<1>3. CASE /\ at' = "loop" /\ Reply("ACK") /\ dest' = Append(dest, rec[1].b)
           /\ result' = result
  <2>1. rec[1].b = n + 1 /\ block = n + 1 /\ n + 1 <= Blocks
    BY <1>1, RecordIsNext
  <2>2. InStep(n) /\ n \in Nat
    BY <1>1, RunningFacts DEF Running
  <2>3. dest \in Seq(0 .. Blocks) /\ rec[1].b \in 0 .. Blocks
    BY <2>1, <2>2, XmodemAssumption DEF TypeOK
  <2>4. /\ Len(dest') = n + 1 /\ dest'[n + 1] = n + 1
        /\ \A i \in 1 .. n : dest'[i] = dest[i]
    BY <1>3, <2>1, <2>3, AppendProperties
  <2>5. InOrder'
    <3> SUFFICES ASSUME NEW i \in 1 .. Len(dest') PROVE dest'[i] = i
      BY DEF InOrder
    <3>1. CASE i \in 1 .. n
      BY <2>4, <3>1 DEF Ordered, InOrder
    <3>2. CASE i = n + 1
      BY <2>4, <3>2
    <3> QED
      BY <2>2, <2>4, <3>1, <3>2
  <2>6. CompleteUnlessMisread'
    BY <1>3, <2>2 DEF InStep, CompleteUnlessMisread
  <2>7. packnum' = ((n + 1) + 1) % NUMBERS
    <3>1. packnum = (n + 1) % NUMBERS
      BY <2>2 DEF InStep
    <3>2. NUMBERS \in Nat /\ NUMBERS > 1 /\ n + 1 \in Nat
      BY <2>2, XmodemAssumption
    <3>3. (((n + 1) % NUMBERS) + 1) % NUMBERS = ((n + 1) + 1) % NUMBERS
      BY <3>2, ModNext
    <3> QED
      BY <1>1, <3>1, <3>3 DEF Number
  <2>8. back \in Seq(Asking)
    BY <2>1, <2>2 DEF InStep, Acknowledged
  <2>9. Acknowledged(Len(dest), block, back)'
    <3>1. OneAck(Append(back, "ACK"))
      BY <2>8, AckAppended
    <3>2. OneAck(back')
      BY <1>3, <3>1 DEF Reply
    <3>3. block' = Len(dest')
      BY <1>1, <2>1, <2>4
    <3> QED
      BY <3>2, <3>3 DEF Acknowledged, OneAck
  <2>10. /\ line' \in Seq(Window(Len(dest'), block')) /\ rec' \in Seq(Window(Len(dest'), block'))
         /\ rest' \in Seq(Window(block', block'))
    <3>1. line' = << >> /\ rec' = << >> /\ rest' = rest /\ block' = block
      BY <1>1
    <3>2. rest \in Seq(Window(block, block))
      BY <2>2 DEF InStep
    <3> QED
      BY <3>1, <3>2
  <2>11. InStep(Len(dest))'
    BY <1>3, <2>2, <2>4, <2>7, <2>9, <2>10 DEF InStep
  <2>12. sender' # "idle"
    BY <1>1 DEF Ordered, Running, NotStarted
  <2> QED
    BY <2>1, <2>4, <2>5, <2>6, <2>11, <2>12 DEF Ordered
<1> QED
  BY <1>2, <1>3 DEF GotRecord

\* The sender sends the block b, which is the last one received or the next.
LEMMA SendBlockOrdered ==
  ASSUME TypeOK, Ordered, NEW b \in 1 .. Blocks + 1, NEW w, SendBlock(b, w), UNCHANGED board,
         trouble \subseteq w, w \subseteq {"start", "misread", "control", "pause", "reply", "stop"},
         Running => /\ line \in Seq(Window(Len(dest), b)) /\ rec \in Seq(Window(Len(dest), b))
                    /\ Acknowledged(Len(dest), b, back')
  PROVE  Ordered'
<1>1. UNCHANGED <<at, packnum, dest, rec, result>>
  BY DEF board
<1>2. block' = b /\ sender' = "waiting" /\ trouble \subseteq trouble'
  BY SendBlockTypes
<1>3. CASE ~Running
  BY <1>1, <1>2, <1>3, OverOrdered DEF Running
<1>4. CASE Running
  <2> DEFINE S == Window(Len(dest), b)
  <2>1. InStep(Len(dest)) /\ Len(dest) \in Nat /\ Len(dest) <= Blocks
    BY <1>4, RunningFacts
  <2>2. Window(b, b) \subseteq S /\ Damaged \in Window(b, b) /\ Sent(b) \in Seq(Window(b, b))
    BY <2>1, WindowGrows, DamagedInWindow, SentFacts
  <2>3. line' \in Seq(S) /\ rest' \in Seq(Window(b, b))
    <3>1. line \in Seq(S)
      BY <1>4
    <3> HIDE DEF S
    <3> QED
      BY <2>2, <3>1, SendBlockStays
  <2>4. rec \in Seq(S)
    BY <1>4
  <2>5. CompleteUnlessMisread'
    BY <1>1, <1>2, StillComplete DEF Ordered
  <2>6. Acknowledged(Len(dest), block, back)'
    BY <1>1, <1>2, <1>4 DEF Acknowledged
  <2>7. (at = "flush" => IsRecord(rec))'
    BY <1>1, <2>1 DEF InStep, IsRecord
  <2>8. InStep(Len(dest))'
    BY <1>1, <1>2, <2>1, <2>3, <2>4, <2>6, <2>7 DEF InStep
  <2> QED
    BY <1>1, <1>2, <2>5, <2>8, OrderedKept
<1> QED
  BY <1>3, <1>4

LEMMA StartOrdered ==
  ASSUME TypeOK, Ordered, Start
  PROVE  Ordered'
<1>1. PICK i \in 1 .. Len(back), w \in {trouble, trouble \cup {"start"}} :
        /\ back' = SubSeq(back, i + 1, Len(back)) /\ SendBlock(1, w)
        /\ trouble \subseteq w
        /\ w \subseteq {"start", "misread", "control", "pause", "reply", "stop"}
  BY StartFacts
<1>2. sender = "idle" /\ UNCHANGED board /\ (Running => NotStarted)
  BY DEF Start, Ordered
<1>3. ASSUME Running
      PROVE  /\ line \in Seq(Window(Len(dest), 1)) /\ rec \in Seq(Window(Len(dest), 1))
             /\ Acknowledged(Len(dest), 1, back')
  <2>1. dest = << >> /\ line = << >> /\ rec = << >> /\ back \in Seq({"C"})
    BY <1>2, <1>3 DEF NotStarted
  <2>2. i \in 0 .. Len(back) /\ {"C"} \subseteq Asking
    BY <2>1 DEF Asking, Replies
  <2>3. back' \in Seq({"C"})
    BY <1>1, <2>1, <2>2, SubSeqStays
  <2>4. back' \in Seq(Asking) /\ Len(dest) = 0
    BY <2>1, <2>2, <2>3, SeqOfMore
  <2> QED
    BY <2>1, <2>4 DEF Acknowledged
<1>4. 1 \in 1 .. Blocks + 1
  BY XmodemAssumption
<1> QED
  BY <1>1, <1>2, <1>3, <1>4, SendBlockOrdered

LEMMA SenderReplyOrdered ==
  ASSUME TypeOK, Ordered, SenderReply
  PROVE  Ordered'
<1> DEFINE n == Len(dest)
<1>1. /\ sender = "waiting" /\ rest = << >> /\ back # << >> /\ back' = Tail(back)
      /\ UNCHANGED board
  BY DEF SenderReply
<1>2. UNCHANGED <<at, packnum, dest, rec, result>>
  BY <1>1 DEF board
<1>3. ASSUME Running
      PROVE  /\ InStep(n) /\ n \in Nat /\ n <= Blocks
             /\ Acknowledged(n, block, Tail(back))
             /\ Head(back) = "ACK" => block = n /\ Tail(back) \in Seq(Asking)
  <2>1. InStep(n) /\ n \in Nat /\ n <= Blocks /\ back \in Seq(Replies)
    BY <1>3, RunningFacts
  <2>2. Acknowledged(n, block, back)
    BY <2>1 DEF InStep
  <2> HIDE DEF n
  <2> QED
    BY <1>1, <2>1, <2>2, AcknowledgedTail
<1>4. CASE sender' \in {"done", "stopped"} /\ UNCHANGED <<line, block, rest, faults, trouble>>
  <2>1. CASE ~Running
    BY <1>2, <1>4, <2>1, OverOrdered DEF Running
  <2>2. CASE Running
    <3>1. CompleteUnlessMisread'
      BY <1>2, <1>4, StillComplete DEF Ordered
    <3>2. Acknowledged(Len(dest), block, back)'
      BY <1>1, <1>2, <1>3, <1>4, <2>2 DEF Acknowledged
    <3>3. (at = "flush" => IsRecord(rec))'
      BY <1>2, <1>3, <2>2 DEF InStep, IsRecord
    <3>4. InStep(Len(dest))'
      BY <1>2, <1>3, <1>4, <2>2, <3>2, <3>3 DEF InStep
    <3> QED
      BY <1>2, <1>4, <3>1, <3>4, OrderedKept
  <2> QED
    BY <2>1, <2>2
<1>5. CASE Head(back) = "ACK" /\ ~(block > Blocks) /\ SendBlock(block + 1, trouble)
  <2>1. ASSUME Running
        PROVE  /\ line \in Seq(Window(n, block + 1)) /\ rec \in Seq(Window(n, block + 1))
               /\ Acknowledged(n, block + 1, back')
    <3>1. block = n /\ back' \in Seq(Asking)
      BY <1>1, <1>3, <1>5, <2>1
    <3>2. /\ line \in Seq(Window(n, n)) /\ rec \in Seq(Window(n, n))
          /\ n \in Nat /\ n <= Blocks
      BY <1>3, <2>1, <3>1 DEF InStep
    <3> HIDE DEF n
    <3>3. Window(n, n) \subseteq Window(n, n + 1)
      BY <3>2, WindowGrows
    <3>4. line \in Seq(Window(n, n + 1)) /\ rec \in Seq(Window(n, n + 1))
      BY <3>2, <3>3, SeqOfMore
    <3> QED
      BY <3>1, <3>4 DEF Acknowledged
  <2>2. block + 1 \in 1 .. Blocks + 1
    BY <1>5, XmodemAssumption DEF TypeOK
  <2> QED
    BY <1>1, <1>5, <2>1, <2>2, SendBlockOrdered DEF TypeOK
<1>6. CASE SendBlock(block, trouble)
  <2>1. ASSUME Running
        PROVE  /\ line \in Seq(Window(n, block)) /\ rec \in Seq(Window(n, block))
               /\ Acknowledged(n, block, back')
    BY <1>1, <1>3, <2>1 DEF InStep
  <2>2. block \in 1 .. Blocks + 1
    BY DEF TypeOK
  <2> QED
    BY <1>1, <1>6, <2>1, <2>2, SendBlockOrdered DEF TypeOK
<1>7. \/ sender' \in {"done", "stopped"} /\ UNCHANGED <<line, block, rest, faults, trouble>>
      \/ Head(back) = "ACK" /\ ~(block > Blocks) /\ SendBlock(block + 1, trouble)
      \/ SendBlock(block, trouble)
  BY DEF SenderReply
<1> QED
  BY <1>4, <1>5, <1>6, <1>7

LEMMA SenderTimeoutOrdered ==
  ASSUME TypeOK, Ordered, SenderTimeout
  PROVE  Ordered'
<1>1. SendBlock(block, trouble) /\ UNCHANGED board /\ back' = back /\ block \in 1 .. Blocks + 1
  BY DEF SenderTimeout, TypeOK
<1>2. ASSUME Running
      PROVE  /\ line \in Seq(Window(Len(dest), block)) /\ rec \in Seq(Window(Len(dest), block))
             /\ Acknowledged(Len(dest), block, back')
  BY <1>1, <1>2, RunningFacts DEF InStep
<1> QED
  BY <1>1, <1>2, SendBlockOrdered DEF TypeOK

\* The sender or the line change what is on its way, and nothing else.
LEMMA TransitOrdered ==
  ASSUME TypeOK, Ordered, UNCHANGED board, block' = block, trouble \subseteq trouble',
         Running => /\ line' \in Seq(Window(Len(dest), block))
                    /\ rest' \in Seq(Window(block, block))
                    /\ Acknowledged(Len(dest), block, back'),
         Running /\ sender' = "idle" => NotStarted'
  PROVE  Ordered'
<1>1. UNCHANGED <<at, packnum, dest, rec, result>>
  BY DEF board
<1>2. CompleteUnlessMisread'
  BY <1>1, StillComplete DEF Ordered
<1>3. Running' = Running
  BY <1>1 DEF Running
<1>4. ASSUME Running PROVE InStep(Len(dest))'
  <2>1. InStep(Len(dest))
    BY <1>4, RunningFacts
  <2>2. Acknowledged(Len(dest), block, back)'
    BY <1>1, <1>4 DEF Acknowledged
  <2>3. (at = "flush" => IsRecord(rec))'
    BY <1>1, <2>1 DEF InStep, IsRecord
  <2> QED
    BY <1>1, <1>4, <2>1, <2>2, <2>3 DEF InStep
<1> QED
  BY <1>1, <1>2, <1>3, <1>4, OrderedKept

LEMMA SendRestOrdered ==
  ASSUME TypeOK, Ordered, SendRest
  PROVE  Ordered'
<1>1. /\ rest # << >> /\ line' = line \o rest /\ rest' = << >>
      /\ UNCHANGED <<back, sender, block, trouble>> /\ UNCHANGED board
  BY DEF SendRest
<1>2. ASSUME Running
      PROVE  /\ line' \in Seq(Window(Len(dest), block)) /\ rest' \in Seq(Window(block, block))
             /\ Acknowledged(Len(dest), block, back')
  <2>1. InStep(Len(dest)) /\ Len(dest) \in Nat /\ Len(dest) <= Blocks
    BY <1>2, RunningFacts
  <2>2. rest \in Seq(Window(Len(dest), block))
    <3>1. Window(block, block) \subseteq Window(Len(dest), block)
      BY <2>1, WindowGrows
    <3> QED
      BY <2>1, <3>1, SeqOfMore DEF InStep
  <2>3. line' \in Seq(Window(Len(dest), block))
    BY <1>1, <2>1, <2>2, ConcatProperties DEF InStep
  <2> QED
    BY <1>1, <2>1, <2>3 DEF InStep
<1>3. Running => sender' # "idle"
  BY <1>1 DEF Ordered, NotStarted
<1> QED
  BY <1>1, <1>2, <1>3, TransitOrdered

LEMMA StopOrdered ==
  ASSUME TypeOK, Ordered, Stop
  PROVE  Ordered'
<1>1. /\ sender' = "stopped" /\ rest' = << >> /\ UNCHANGED <<back, block>> /\ UNCHANGED board
      /\ trouble \subseteq trouble' /\ (line' = line \/ line' = Append(line, Control("CAN")))
  BY DEF Stop
<1>2. ASSUME Running
      PROVE  /\ line' \in Seq(Window(Len(dest), block)) /\ rest' \in Seq(Window(block, block))
             /\ Acknowledged(Len(dest), block, back')
  <2>1. InStep(Len(dest))
    BY <1>2, RunningFacts
  <2>2. Control("CAN") \in Window(Len(dest), block)
    BY ControlUnits, ControlFacts DEF Window
  <2>3. line \in Seq(Window(Len(dest), block))
        /\ Append(line, Control("CAN")) \in Seq(Window(Len(dest), block))
    BY <2>1, <2>2, AppendProperties DEF InStep
  <2>4. line' \in Seq(Window(Len(dest), block))
    BY <1>1, <2>3, Zenon
  <2> QED
    BY <1>1, <2>1, <2>4 DEF InStep
<1> QED
  BY <1>1, <1>2, TransitOrdered

LEMMA LoseReplyOrdered ==
  ASSUME TypeOK, Ordered, LoseReply
  PROVE  Ordered'
<1>1. /\ back # << >> /\ back' = Tail(back) /\ trouble \subseteq trouble'
      /\ UNCHANGED <<line, sender, block, rest>> /\ UNCHANGED board
  BY DEF LoseReply, pc
<1>2. ASSUME Running
      PROVE  /\ line' \in Seq(Window(Len(dest), block)) /\ rest' \in Seq(Window(block, block))
             /\ Acknowledged(Len(dest), block, back')
  <2>1. InStep(Len(dest)) /\ Len(dest) \in Nat /\ back \in Seq(Replies)
    BY <1>2, RunningFacts
  <2>2. Acknowledged(Len(dest), block, Tail(back))
    BY <1>1, <2>1, AcknowledgedTail DEF InStep
  <2> QED
    BY <1>1, <2>1, <2>2 DEF InStep
<1>3. ASSUME Running, sender' = "idle" PROVE NotStarted'
  <2>1. NotStarted
    BY <1>1, <1>3 DEF Ordered
  <2>2. back' \in Seq({"C"})
    BY <1>1, <2>1, TailStays DEF NotStarted
  <2> QED
    BY <1>1, <2>1, <2>2 DEF NotStarted, board
<1> QED
  BY <1>1, <1>2, <1>3, TransitOrdered

LEMMA XmodemStepOrdered ==
  ASSUME TypeOK, Ordered, [Next]_vars
  PROVE  TypeOK' /\ Ordered'
<1>1. TypeOK'
  <2>1. at = "flush" => IsRecord(rec)
    BY DEF Ordered, Running, InStep
  <2> QED
    BY <2>1, XmodemStepTypes
<1> SUFFICES Ordered'
  BY <1>1
<1>2. CASE UNCHANGED vars
  BY <1>2 DEF vars, board, pc, Ordered, InOrder, CompleteUnlessMisread, Running, InStep,
     NotStarted, Acknowledged, IsRecord
<1>3. ASSUME RecordTimeout PROVE Ordered'
  <2>1. /\ at = "record" /\ at' = "loop" /\ Reply("NAK") /\ rec' = << >> /\ line' = line
        /\ UNCHANGED <<packnum, dest, result, sender, block, rest, trouble>>
    BY <1>3 DEF RecordTimeout, BadRecord, pc
  <2> QED
    BY <2>1, AskAgain
<1>4. ASSUME Finish PROVE Ordered'
  <2>1. at' = "returned" /\ UNCHANGED <<dest, result, trouble>>
    BY <1>4 DEF Finish
  <2> QED
    BY <2>1, OverOrdered DEF Running
<1>5. CASE Receive
  BY <1>3, <1>4, <1>5, LoopOrdered, ControlTimeoutOrdered, ReadControlOrdered, ReadRecordOrdered,
     FlushOrdered, GotRecordOrdered DEF Receive
<1>6. CASE Sender
  BY <1>6, StartOrdered, SenderReplyOrdered, SenderTimeoutOrdered, SendRestOrdered, StopOrdered
     DEF Sender
<1>7. CASE LoseReply
  BY <1>7, LoseReplyOrdered
<1> QED
  BY <1>1, <1>2, <1>5, <1>6, <1>7 DEF Next

LEMMA XmodemInitOrdered == Init => Ordered
<1> SUFFICES ASSUME Init PROVE Ordered
  OBVIOUS
<1>1. dest = << >> /\ Len(dest) = 0 /\ block = 1 /\ back = << >> /\ line = << >> /\ rec = << >>
      /\ rest = << >> /\ at = "loop" /\ result = "none" /\ packnum = 1
  BY DEF Init
<1>2. InOrder /\ CompleteUnlessMisread /\ Len(dest) <= Blocks
  BY <1>1, XmodemAssumption DEF InOrder, CompleteUnlessMisread
<1>3. (0 + 1) % NUMBERS = 1
  BY XmodemAssumption
<1>4. InStep(Len(dest))
  BY <1>1, <1>3 DEF InStep, Acknowledged
<1>5. NotStarted
  BY <1>1 DEF NotStarted
<1> QED
  BY <1>2, <1>4, <1>5 DEF Ordered

\* The type invariant of the XMODEM transfer holds (xmodem.c).
THEOREM XmodemTypeCorrect == Spec => []TypeOK
<1>1. TypeOK /\ Ordered /\ [Next]_vars => TypeOK' /\ Ordered'
  BY XmodemStepOrdered
<1> QED
  BY <1>1, XmodemInitTypes, XmodemInitOrdered, PTL DEF Spec

\* The blocks received are the first ones of the file, each once and in order,
\* whatever is repeated, damaged or lost, and for files of any length, far beyond
\* the wrap of the byte packnum (xmodem.c:111-175).
THEOREM XmodemInOrder == Spec => []InOrder
<1>1. TypeOK /\ Ordered /\ [Next]_vars => TypeOK' /\ Ordered'
  BY XmodemStepOrdered
<1>2. Ordered => InOrder
  BY DEF Ordered
<1> QED
  BY <1>1, <1>2, XmodemInitTypes, XmodemInitOrdered, PTL DEF Spec

\* A transfer that ends well has the whole file, unless a byte of a record was read
\* as EOT (xmodem.c:136).
THEOREM XmodemComplete == Spec => []CompleteUnlessMisread
<1>1. TypeOK /\ Ordered /\ [Next]_vars => TypeOK' /\ Ordered'
  BY XmodemStepOrdered
<1>2. Ordered => CompleteUnlessMisread
  BY DEF Ordered
<1> QED
  BY <1>1, <1>2, XmodemInitTypes, XmodemInitOrdered, PTL DEF Spec

-----------------------------------------------------------------------------
(* Damaged records are repaired *)

LEMMA WithoutFacts ==
  ASSUME NEW S, NEW s \in Seq(S), NEW i \in 2 .. Len(s)
  PROVE  Without(s, i) # << >> /\ Head(Without(s, i)) = s[1] /\ Len(Without(s, i)) = Len(s) - 1
<1> DEFINE f == SubSeq(s, 1, i - 1)
           g == SubSeq(s, i + 1, Len(s))
<1>1. i \in Nat /\ Len(s) \in Nat /\ 2 <= i /\ i <= Len(s)
  OBVIOUS
<1>2. f \in Seq(S) /\ g \in Seq(S)
  <2>1. i - 1 \in 0 .. Len(s) /\ i \in 0 .. Len(s)
    BY <1>1
  <2> QED
    BY <2>1, SubSeqStays
<1>3. Len(f) = i - 1 /\ f[1] = s[1]
  BY <1>1
<1>4. Len(g) = Len(s) - i
  BY <1>1
<1> HIDE DEF f, g
<1>5. /\ f \o g \in Seq(S) /\ Len(f \o g) = Len(f) + Len(g)
      /\ \A k \in 1 .. Len(f) + Len(g) : (f \o g)[k] = IF k <= Len(f) THEN f[k] ELSE g[k - Len(f)]
  BY <1>2, ConcatProperties
<1>6. Len(f \o g) = Len(s) - 1 /\ Len(s) - 1 >= 1
  BY <1>1, <1>3, <1>4, <1>5
<1>7. (f \o g)[1] = s[1]
  BY <1>1, <1>3, <1>4, <1>5
<1>8. f \o g # << >> /\ Head(f \o g) = s[1]
  BY <1>5, <1>6, <1>7
<1> QED
  BY <1>6, <1>8 DEF Without, f, g

\* A fault of a block that leaves its control character alone is a fault counted,
\* and what arrives begins like the block and is no longer.
LEMMA SendBlockFault ==
  ASSUME TypeOK, line = << >>, NEW b \in 1 .. Blocks + 1, NEW w, SendBlock(b, w),
         trouble' \cap Grave = {}
  PROVE  /\ rest' = << >>
         /\ \/ line' = Sent(b) /\ faults' = faults
            \/ /\ b <= Blocks /\ line' # << >> /\ Head(line') = Control("SOH")
               /\ Len(line') <= RECORD + 1 /\ faults' = faults + 1
<1> DEFINE s == Sent(b)
<1>1. s \in Seq(Units)
  BY SentFacts, WindowUnits, SeqOfMore
<1>2. ASSUME NEW t \in Seq(Units) PROVE line \o t = t
  BY <1>2
<1>3. RECORD \in Nat \ {0} /\ Blocks \in Nat
  BY XmodemAssumption
<1>4. CASE line' = line \o s /\ rest' = << >> /\ faults' = faults
  BY <1>1, <1>2, <1>4
<1>5. ASSUME NEW i \in 1 .. Len(s), faults' = faults + 1, rest' = << >>,
             line' = line \o Without(s, i) \/ line' = line \o [s EXCEPT ![i] = Damaged],
             trouble' = IF s[i].c = "data" THEN w ELSE w \cup {"control"}
      PROVE  /\ b <= Blocks /\ line' # << >> /\ Head(line') = Control("SOH")
             /\ Len(line') <= RECORD + 1
  <2>1. s[i].c = "data"
    BY <1>5 DEF Grave
  <2>2. b <= Blocks
    <3>1. b > Blocks => s = <<Control("EOT")>>
      BY SentFacts
    <3> HIDE DEF s
    <3>2. ASSUME b > Blocks PROVE s[i].c = "EOT"
      <4>1. Len(s) = 1 /\ s[1] = Control("EOT")
        BY <3>1, <3>2
      <4>2. i = 1
        BY <4>1
      <4> QED
        BY <4>1, <4>2, ControlFacts
    <3> QED
      BY <1>3, <2>1, <3>2
  <2>3. Len(s) = RECORD + 1 /\ s[1] = Control("SOH")
    BY <2>2, SentFacts
  <2>4. i # 1
    BY <2>1, <2>3, ControlFacts
  <2> HIDE DEF s
  <2>5. i \in 2 .. Len(s)
    BY <1>1, <2>4
  <2>6. CASE line' = line \o Without(s, i)
    <3>1. line' = Without(s, i)
      BY <1>1, <1>2, <2>6, WithoutStays
    <3> QED
      BY <1>1, <1>3, <2>2, <2>3, <2>5, <3>1, WithoutFacts
  <2>7. CASE line' = line \o [s EXCEPT ![i] = Damaged]
    <3> DEFINE t == [s EXCEPT ![i] = Damaged]
    <3>1. Damaged \in Units
      BY DamagedInWindow, WindowUnits
    <3>2. t \in Seq(Units) /\ Len(t) = Len(s) /\ t[1] = s[1]
      BY <1>1, <2>5, <3>1
    <3> HIDE DEF t
    <3>3. line' = t
      BY <1>2, <2>7, <3>2 DEF t
    <3> QED
      BY <1>3, <2>2, <2>3, <3>2, <3>3
  <2> QED
    BY <1>5, <2>6, <2>7
<1>6. ASSUME trouble' = w \cup {"pause"} PROVE FALSE
  BY <1>6 DEF Grave
<1> QED
  BY <1>4, <1>5, <1>6 DEF SendBlock

\* Replies and faults keep the property that is proved.
LEMMA RepairedKept ==
  ASSUME TypeOK, TypeOK', DamageIsRepaired, faults <= faults', late <= late',
         trouble \subseteq trouble', result' = result \/ result' # "retryexceed"
  PROVE  DamageIsRepaired'
<1>1. ASSUME late + faults >= RETRY_LIMIT PROVE late' + faults' >= RETRY_LIMIT
  <2>1. /\ late \in Nat /\ faults \in Nat /\ late' \in Nat /\ faults' \in Nat
        /\ RETRY_LIMIT \in Nat
    BY XmodemAssumption DEF TypeOK
  <2>2. ASSUME NEW l \in Nat, NEW f \in Nat, NEW l2 \in Nat, NEW f2 \in Nat, NEW n \in Nat,
               l <= l2, f <= f2, l + f >= n
        PROVE  l2 + f2 >= n
    BY <2>2
  <2> QED
    BY <1>1, <2>1, <2>2
<1> QED
  BY <1>1 DEF DamageIsRepaired

\* A message of one reply.
LEMMA OneReply ==
  ASSUME NEW c
  PROVE  /\ Append(<< >>, c) = <<c>> /\ <<c>> # << >>
         /\ Head(<<c>>) = c /\ Tail(<<c>>) = << >>
  OBVIOUS

LEMMA LoopLockstep ==
  ASSUME TypeOK, TypeOK', Ordered, Lockstep, DamageIsRepaired, Loop
  PROVE  Lockstep' /\ DamageIsRepaired'
<1>1. UNCHANGED <<starting, dest, rec, line, sender, block, rest, faults, late, trouble>>
      /\ at = "loop"
  BY DEF Loop, pc
<1>2. Running /\ result = "none"
  BY <1>1, RunningFacts DEF Running, InStep
<1>3. retries \in Nat /\ faults \in Nat /\ late \in Nat /\ RETRY_LIMIT \in Nat \ {0}
  BY XmodemAssumption DEF TypeOK
<1>4. CASE retries = 0
  <2>1. ~Running'
    BY <1>4 DEF Loop, Running
  <2>2. ASSUME trouble \cap Grave = {} PROVE late + faults >= RETRY_LIMIT
    <3>1. Beginning \/ Replied \/ Sending
      BY <1>1, <1>2, <2>2 DEF Lockstep, Reading, Taken
    <3>2. retries + late = RETRY_LIMIT \/ Budget(0) \/ Budget(1)
      BY <1>1, <3>1 DEF Beginning, Replied, Sending
    <3> QED
      BY <1>1, <1>3, <1>4, <3>2 DEF Budget
  <2> QED
    BY <1>1, <2>1, <2>2 DEF Lockstep, DamageIsRepaired, Grave
<1>5. CASE retries # 0
  <2>1. /\ at' = "control" /\ retries' = retries - 1 /\ result' = result
        /\ starting => back' = Append(back, "C")
        /\ ~starting => back' = back
    BY <1>5 DEF Loop, Reply
  <2>2. DamageIsRepaired'
    BY <1>2, <2>1 DEF DamageIsRepaired
  <2>3. ASSUME trouble \cap Grave = {}
        PROVE  rest' = << >> /\ (Beginning' \/ Replied' \/ Sending')
    <3>1. rest = << >> /\ (Beginning \/ Replied \/ Sending)
      BY <1>1, <1>2, <2>3 DEF Lockstep, Reading, Taken
    <3>2. ASSUME NEW d \in {0, 1}, Budget(d) PROVE Budget(d)'
      BY <1>1, <1>3, <2>1, <3>2 DEF Budget
    <3>3. CASE Beginning
      BY <1>1, <1>3, <2>1, <3>1, <3>3 DEF Beginning
    <3>4. CASE Replied
      <4>1. ~starting /\ Budget(0)'
        BY <3>2, <3>4 DEF Replied
      <4> QED
        BY <1>1, <2>1, <3>1, <3>4, <4>1 DEF Replied
    <3>5. CASE Sending
      <4>1. ~starting
        BY <1>1, <3>5 DEF Sending
      <4>2. (Budget(0) => Budget(0)') /\ (Budget(1) => Budget(1)')
        BY <3>2
      <4>3. Sent(block)' = Sent(block)
        BY <1>1 DEF Sent
      <4> QED
        BY <1>1, <2>1, <3>1, <3>5, <4>1, <4>2, <4>3 DEF Sending
    <3> QED
      BY <3>1, <3>3, <3>4, <3>5
  <2> QED
    BY <1>1, <2>2, <2>3 DEF Lockstep
<1> QED
  BY <1>4, <1>5

LEMMA ControlTimeoutLockstep ==
  ASSUME TypeOK, Lockstep, ControlTimeout
  PROVE  Lockstep'
<1> SUFFICES ASSUME trouble' \cap Grave = {} PROVE rest' = << >> /\ Beginning'
  BY DEF Lockstep
<1>1. /\ at = "control" /\ line = << >> /\ (back = << >> \/ sender # "waiting") /\ at' = "loop"
      /\ UNCHANGED <<starting, retries, line, sender, rest, trouble>>
      /\ sender = "idle" => late' = late + 1
  BY DEF ControlTimeout, Silent, pc
<1>2. rest = << >> /\ (Beginning \/ Replied \/ Sending)
  BY <1>1 DEF Lockstep, Running, Reading, Taken
<1>3. Sent(block) # << >>
  BY SentFacts DEF TypeOK
<1>4. Beginning
  BY <1>1, <1>2, <1>3 DEF Replied, Sending
<1>5. retries \in Nat /\ late \in Nat /\ RETRY_LIMIT \in Nat
  BY XmodemAssumption DEF TypeOK
<1> QED
  BY <1>1, <1>2, <1>4, <1>5 DEF Beginning

LEMMA ReadControlLockstep ==
  ASSUME TypeOK, Ordered, Lockstep, NEW c \in {"SOH", "EOT", "CAN", "other"}, ReadControl(c)
  PROVE  Lockstep'
<1> SUFFICES ASSUME trouble' \cap Grave = {}, Running'
             PROVE  rest' = << >> /\ Reading'
  BY DEF Lockstep
<1>1. /\ at = "control" /\ line # << >> /\ line' = Tail(line) /\ c \in Looks(Head(line))
      /\ UNCHANGED <<packnum, retries, dest, sender, block, rest, faults, late>>
      /\ trouble \subseteq trouble'
  BY DEF ReadControl, pc
<1>2. Sending /\ rest = << >>
  BY <1>1 DEF Lockstep, Running, Beginning, Replied, Reading, Taken
<1>3. block \in 1 .. Blocks + 1 /\ RECORD \in Nat \ {0} /\ Blocks \in Nat
      /\ retries \in Nat /\ late \in Nat /\ faults \in Nat /\ RETRY_LIMIT \in Nat
  BY XmodemAssumption DEF TypeOK
<1>4. c # "EOT"
  BY DEF ReadControl, Running
<1>5. block <= Blocks
  <2>1. ASSUME block > Blocks PROVE FALSE
    <3>1. line = <<Control("EOT")>>
      BY <1>2, <1>3, <2>1, SentFacts DEF Sending
    <3>2. Head(line).c = "EOT"
      BY <3>1, OneReply, ControlFacts
    <3> QED
      BY <1>1, <1>4, <3>2 DEF Looks
  <2> QED
    BY <1>3, <2>1
<1>6. Head(line) = Control("SOH") /\ line \in Seq(Units) /\ Len(line) <= RECORD + 1
  BY <1>2, <1>3, <1>5, SentFacts DEF Sending, TypeOK
<1>7. c = "SOH"
  BY <1>1, <1>6, ControlFacts DEF Looks
<1>8. at' = "record" /\ ~starting' /\ rec' = << >> /\ back' = back
  BY <1>7 DEF ReadControl
<1>9. line' \in Seq(Units) /\ Len(line') <= RECORD
  BY <1>1, <1>3, <1>6, HeadTailProperties
<1>10. Len(rec') = 0 /\ rec' \o line' = line' /\ Len(line') \in Nat
  BY <1>8, <1>9
<1>11. \/ rec' \o line' = Record(block) /\ retries + late + faults >= RETRY_LIMIT - 1
       \/ retries + late + faults >= RETRY_LIMIT
  <2>1. CASE line = Sent(block) /\ Budget(0)
    <3>1. line' = Record(block)
      BY <1>1, <1>3, <1>5, <2>1, SentFacts
    <3> QED
      BY <1>1, <1>3, <1>10, <2>1, <3>1 DEF Budget
  <2>2. CASE Budget(1)
    BY <1>1, <1>3, <2>2 DEF Budget
  <2> QED
    BY <1>2, <2>1, <2>2 DEF Sending
<1>12. Record(block)' = Record(block)
  BY <1>1 DEF Record
<1> QED
  BY <1>1, <1>2, <1>3, <1>5, <1>8, <1>9, <1>10, <1>11, <1>12 DEF Reading, Sending

\* A record that is asked for again.
LEMMA AskAgainLockstep ==
  ASSUME TypeOK, Reading, rest = << >>, at' = "loop", Reply("NAK"), line' = << >>,
         retries + late + faults >= RETRY_LIMIT,
         UNCHANGED <<starting, retries, dest, sender, block, rest, faults, late>>
  PROVE  rest' = << >> /\ Replied'
<1>1. back' = <<"NAK">>
  BY OneReply DEF Reading, Reply
<1>2. Budget(0)'
  BY XmodemAssumption DEF Budget, TypeOK
<1> QED
  BY <1>1, <1>2 DEF Replied, Reading

LEMMA ReadRecordLockstep ==
  ASSUME TypeOK, Ordered, Lockstep, ReadRecord
  PROVE  Lockstep'
<1> SUFFICES ASSUME trouble' \cap Grave = {}
             PROVE  rest' = << >> /\ (Reading' \/ Taken' \/ Replied')
  BY DEF Lockstep
<1>1. /\ at = "record" /\ line # << >> /\ line' = Tail(line)
      /\ UNCHANGED <<starting, packnum, retries, dest, sender, block, rest, faults, late, trouble>>
  BY DEF ReadRecord, pc
<1>2. Reading /\ rest = << >>
  BY <1>1 DEF Lockstep, Running, Beginning, Replied, Sending, Taken
<1> DEFINE r == Append(rec, Head(line))
<1>3. /\ RECORD \in Nat /\ rec \in Seq(Units) /\ line \in Seq(Units)
      /\ retries \in Nat /\ late \in Nat /\ faults \in Nat /\ RETRY_LIMIT \in Nat
  BY XmodemAssumption DEF TypeOK
<1>4. /\ r \in Seq(Units) /\ Len(r) = Len(rec) + 1 /\ Tail(line) \in Seq(Units)
      /\ Len(Tail(line)) = Len(line) - 1 /\ Len(line) \in Nat /\ Len(rec) \in Nat
      /\ Head(line) \in Units
  BY <1>1, <1>3, HeadTailProperties, AppendProperties
<1>5. r \o Tail(line) = rec \o line
  BY <1>1, <1>3, <1>4
<1> HIDE DEF r
<1>6. Len(r) + Len(Tail(line)) <= RECORD
  BY <1>2, <1>3, <1>4 DEF Reading
<1>7. CASE Len(r) < RECORD
  <2>1. rec' = r /\ at' = "record" /\ back' = back
    BY <1>1, <1>7 DEF ReadRecord, r
  <2>2. rec' \o line' = rec \o line /\ Record(block)' = Record(block)
    BY <1>1, <1>5, <2>1 DEF Record
  <2> QED
    BY <1>1, <1>2, <1>6, <1>7, <2>1, <2>2 DEF Reading
<1>8. CASE ~(Len(r) < RECORD)
  <2>1. Len(Tail(line)) = 0
    BY <1>3, <1>4, <1>6, <1>8
  <2>2. line' = << >>
    BY <1>1, <1>4, <2>1
  <2>3. CASE IsRecord(r)
    <3>1. at' = "flush" /\ back' = back
      BY <1>8, <2>3 DEF ReadRecord, r
    <3> QED
      BY <1>1, <1>2, <2>2, <3>1 DEF Taken, Reading
  <2>4. CASE ~IsRecord(r)
    <3>1. at' = "loop" /\ Reply("NAK")
      BY <1>8, <2>4 DEF ReadRecord, BadRecord, r
    <3>2. retries + late + faults >= RETRY_LIMIT
      <4>1. ASSUME rec \o line = Record(block) PROVE FALSE
        <5>1. r = Record(block)
          <6>1. r \o << >> = r
            BY <1>4
          <6> QED
            BY <1>1, <1>5, <2>2, <4>1, <6>1
        <5>2. InStep(Len(dest)) /\ Len(dest) \in Nat
          BY <1>1, RunningFacts DEF Running
        <5>3. block = Len(dest) + 1 /\ block <= Blocks
          BY <1>2 DEF Reading
        <5>4. block \in 1 .. Blocks /\ block % NUMBERS = packnum
          BY <5>2, <5>3, XmodemAssumption DEF InStep
        <5> QED
          BY <2>4, <5>1, <5>4 DEF IsRecord
      <4> QED
        BY <1>2, <4>1 DEF Reading
    <3> QED
      BY <1>1, <1>2, <2>2, <3>1, <3>2, AskAgainLockstep
  <2> QED
    BY <2>3, <2>4
<1> QED
  BY <1>7, <1>8

LEMMA RecordTimeoutLockstep ==
  ASSUME TypeOK, Lockstep, RecordTimeout
  PROVE  Lockstep'
<1> SUFFICES ASSUME trouble' \cap Grave = {}
             PROVE  rest' = << >> /\ Replied'
  BY DEF Lockstep
<1>1. /\ at = "record" /\ at' = "loop" /\ Reply("NAK") /\ line' = line
      /\ line = << >> /\ (back = << >> \/ sender # "waiting")
      /\ UNCHANGED <<starting, retries, dest, sender, block, rest, faults, late, trouble>>
  BY DEF RecordTimeout, BadRecord, Silent, pc
<1>2. Reading /\ rest = << >>
  BY <1>1 DEF Lockstep, Running, Beginning, Replied, Sending, Taken
<1>3. rec \in Seq(Units) /\ Len(rec) \in Nat /\ rec \o << >> = rec
  BY DEF TypeOK
<1>4. Len(Record(block)) = RECORD /\ RECORD \in Nat
  BY <1>2, RecordFacts, XmodemAssumption DEF Reading, TypeOK
<1>5. retries + late + faults >= RETRY_LIMIT
  <2>1. rec \o line # Record(block)
    BY <1>1, <1>2, <1>3, <1>4 DEF Reading
  <2> QED
    BY <1>2, <2>1 DEF Reading
<1> QED
  BY <1>1, <1>2, <1>5, AskAgainLockstep

LEMMA FlushLockstep ==
  ASSUME Lockstep, Flush
  PROVE  Lockstep'
<1>1. line # << >> /\ at' = at /\ trouble' = trouble /\ at \in {"flush", "flush_end", "flush_cancel"}
  BY DEF Flush, board
<1>2. Running' /\ trouble' \cap Grave = {} => Taken
  BY <1>1 DEF Lockstep, Running, Beginning, Replied, Sending, Reading
<1> QED
  BY <1>1, <1>2 DEF Lockstep, Taken

LEMMA GotRecordLockstep ==
  ASSUME TypeOK, Ordered, Lockstep, NEW memory \in BOOLEAN, GotRecord(memory)
  PROVE  Lockstep'
<1> SUFFICES ASSUME trouble' \cap Grave = {}, Running'
             PROVE  rest' = << >> /\ Replied'
  BY DEF Lockstep
<1>1. /\ at = "flush" /\ retries' = RETRY_LIMIT /\ late' = 0
      /\ UNCHANGED <<starting, line, sender, block, rest, faults, trouble>>
  BY DEF GotRecord, AfterRecord, pc
<1>2. Taken /\ rest = << >>
  BY <1>1 DEF Lockstep, Running, Beginning, Replied, Sending, Reading
<1>3. at' = "loop" /\ Reply("ACK") /\ dest' = Append(dest, rec[1].b)
  BY DEF GotRecord, Running
<1>4. rec[1].b = Len(dest) + 1 /\ block = Len(dest) + 1 /\ Len(dest) + 1 <= Blocks
  BY <1>1, RecordIsNext
<1>5. Len(dest') = Len(dest) + 1
  <2>1. dest \in Seq(0 .. Blocks) /\ rec[1].b \in 0 .. Blocks
    BY <1>4, XmodemAssumption DEF TypeOK
  <2> QED
    BY <1>3, <2>1, AppendProperties
<1>6. back' = <<"ACK">>
  BY <1>2, <1>3, OneReply DEF Taken, Reply
<1>7. Budget(0)'
  BY <1>1, <1>3, XmodemAssumption DEF Budget, TypeOK
<1> QED
  BY <1>1, <1>2, <1>3, <1>4, <1>5, <1>6, <1>7 DEF Taken, Replied

\* The next block is on its way.
LEMMA SendBlockLockstep ==
  ASSUME TypeOK, line = << >>, NEW b \in 1 .. Blocks + 1, NEW w, SendBlock(b, w), b = Len(dest) + 1,
         UNCHANGED <<board, late>>, back' = << >>, at \in {"loop", "control"}, at = "loop" => ~starting,
         Budget(0), trouble' \cap Grave = {}
  PROVE  rest' = << >> /\ Sending'
<1>1. rest' = << >>
  BY SendBlockFault
<1>2. UNCHANGED <<at, starting, retries, dest, late>> /\ block' = b /\ sender' = "waiting"
  BY DEF board, SendBlock
<1>3. retries \in Nat /\ late \in Nat /\ faults \in Nat /\ RETRY_LIMIT \in Nat
  BY XmodemAssumption DEF TypeOK
<1>4. \/ line' = Sent(block') /\ Budget(0)'
      \/ /\ block' <= Blocks /\ line' # << >> /\ Head(line') = Control("SOH")
         /\ Len(line') <= RECORD + 1 /\ Budget(1)'
  <2>1. CASE line' = Sent(b) /\ faults' = faults
    <3>1. Budget(0)'
      BY <1>2, <2>1 DEF Budget
    <3> QED
      BY <1>2, <2>1, <3>1
  <2>2. CASE /\ b <= Blocks /\ line' # << >> /\ Head(line') = Control("SOH")
             /\ Len(line') <= RECORD + 1 /\ faults' = faults + 1
    <3>1. Budget(1)'
      BY <1>2, <1>3, <2>2 DEF Budget
    <3> QED
      BY <1>2, <2>2, <3>1
  <2> QED
    BY <2>1, <2>2, SendBlockFault
<1>5. Sent(block)' = Sent(block')
  BY DEF Sent, Record
<1> QED
  BY <1>1, <1>2, <1>4, <1>5 DEF Sending

LEMMA StartLockstep ==
  ASSUME TypeOK, TypeOK', Ordered, Lockstep, Start
  PROVE  Lockstep'
<1> SUFFICES ASSUME trouble' \cap Grave = {}, Running'
             PROVE  rest' = << >> /\ Sending'
  BY DEF Lockstep
<1>1. sender = "idle" /\ UNCHANGED <<board, late>>
  BY DEF Start
<1>2. PICK i \in 1 .. Len(back), w \in {trouble, trouble \cup {"start"}} :
        /\ back' = SubSeq(back, i + 1, Len(back)) /\ SendBlock(1, w)
        /\ "start" \notin w => at = "control" /\ i = Len(back)
        /\ trouble \subseteq w
        /\ w \subseteq {"start", "misread", "control", "pause", "reply", "stop"}
  BY StartFacts
<1>3. w \subseteq trouble' /\ 1 \in 1 .. Blocks + 1
  BY <1>2, XmodemAssumption DEF SendBlock
<1>4. at = "control" /\ i = Len(back) /\ trouble \cap Grave = {}
  BY <1>2, <1>3 DEF Grave
<1>5. NotStarted /\ Beginning /\ rest = << >>
  BY <1>1, <1>4 DEF Lockstep, Ordered, Running, Replied, Sending, Reading, Taken
<1>6. back' = << >>
  <2>1. back \in Seq(Replies) /\ Len(back) \in Nat
    BY DEF TypeOK
  <2> QED
    BY <1>2, <1>4, <2>1
<1>7. 1 = Len(dest) + 1 /\ line = << >>
  BY <1>5 DEF NotStarted
<1>8. Budget(0)
  BY <1>4, <1>5, XmodemAssumption DEF Budget, Beginning, TypeOK
<1> QED
  BY <1>1, <1>2, <1>3, <1>4, <1>6, <1>7, <1>8, SendBlockLockstep

LEMMA SenderReplyLockstep ==
  ASSUME TypeOK, Ordered, Lockstep, SenderReply
  PROVE  Lockstep'
<1> SUFFICES ASSUME trouble' \cap Grave = {}, Running'
             PROVE  rest' = << >> /\ Sending'
  BY DEF Lockstep
<1>1. sender = "waiting" /\ back # << >> /\ back' = Tail(back) /\ UNCHANGED <<board, late>>
  BY DEF SenderReply
<1>2. Running
  BY <1>1 DEF Running, board
<1>3. block \in 1 .. Blocks + 1 /\ Blocks \in Nat /\ Len(dest) \in Nat /\ Len(dest) <= Blocks
  BY <1>2, RunningFacts, XmodemAssumption DEF TypeOK
<1>4. trouble \subseteq trouble'
  <2>1. ~(block > Blocks) => block + 1 \in 1 .. Blocks + 1
    BY <1>3
  <2> QED
    BY <1>3, <2>1, SendBlockTypes DEF SenderReply, TypeOK
<1>5. Replied
  BY <1>1, <1>2, <1>4 DEF Lockstep, Beginning, Sending, Reading, Taken
<1>6. line = << >> /\ Budget(0) /\ at \in {"loop", "control"} /\ ~starting
  BY <1>5 DEF Replied
<1>7. CASE back = <<"ACK">> /\ block = Len(dest)
  <2>1. SendBlock(block + 1, trouble) /\ back' = << >>
    BY <1>1, <1>3, <1>7, OneReply DEF SenderReply
  <2>2. block + 1 \in 1 .. Blocks + 1 /\ block + 1 = Len(dest) + 1
    BY <1>3, <1>7
  <2> QED
    BY <1>1, <1>6, <2>1, <2>2, SendBlockLockstep
<1>8. CASE back = <<"NAK">> /\ block = Len(dest) + 1
  <2>1. SendBlock(block, trouble) /\ back' = << >>
    BY <1>1, <1>8, OneReply DEF SenderReply
  <2> QED
    BY <1>1, <1>3, <1>6, <1>8, <2>1, SendBlockLockstep
<1> QED
  BY <1>5, <1>7, <1>8 DEF Replied

LEMMA SenderTimeoutLockstep ==
  ASSUME TypeOK, Lockstep, SenderTimeout
  PROVE  Lockstep'
<1>1. /\ sender = "waiting" /\ back = << >> /\ line = << >> /\ at' = at
      /\ at \in {"control", "returned"}
  BY DEF SenderTimeout, board
<1>2. block \in 1 .. Blocks + 1 /\ SendBlock(block, trouble)
  BY DEF TypeOK, SenderTimeout
<1>3. trouble \subseteq trouble'
  BY <1>2, SendBlockTypes DEF TypeOK
<1>4. ~(Running /\ trouble \cap Grave = {})
  <2>1. Sent(block) # << >>
    BY <1>2, SentFacts
  <2> QED
    BY <1>1, <2>1 DEF Lockstep, Beginning, Replied, Sending, Reading, Taken
<1> QED
  BY <1>1, <1>3, <1>4 DEF Lockstep, Running

\* No step before the receiver gives up makes the property false, and only Loop
\* gives up.
LEMMA OtherRepaired ==
  ASSUME TypeOK, TypeOK', Ordered, DamageIsRepaired, Next, ~Loop
  PROVE  DamageIsRepaired'
<1>1. ASSUME NEW memory \in BOOLEAN, GotRecord(memory) PROVE DamageIsRepaired'
  <2>1. at = "flush" /\ result' \in {result, "outofmem"}
    BY <1>1 DEF GotRecord
  <2>2. result = "none"
    BY <2>1, RunningFacts DEF Running, InStep
  <2> QED
    BY <2>1, <2>2 DEF DamageIsRepaired
<1>2. ASSUME ControlTimeout \/ ReadRecord \/ RecordTimeout \/ Flush \/ Finish
             \/ \E c \in {"SOH", "EOT", "CAN", "other"} : ReadControl(c)
      PROVE  DamageIsRepaired'
  <2>1. faults' = faults /\ (late' = late \/ late' = late + 1) /\ trouble \subseteq trouble'
    BY <1>2 DEF ControlTimeout, ReadControl, ReadRecord, RecordTimeout, Flush, Finish
  <2>2. result' = result \/ result' # "retryexceed"
    BY <1>2 DEF ControlTimeout, ReadControl, ReadRecord, RecordTimeout, Flush, Finish, board
  <2>3. faults \in Nat /\ late \in Nat
    BY XmodemAssumption DEF TypeOK
  <2> QED
    BY <2>1, <2>2, <2>3, RepairedKept
<1>3. ASSUME Sender \/ LoseReply PROVE DamageIsRepaired'
  <2>1. result' = result /\ late' = late
    BY <1>3 DEF Sender, Start, SenderReply, SenderTimeout, SendRest, Stop, LoseReply, board
  <2>2. faults \in Nat /\ late \in Nat /\ faults' \in Nat
    BY XmodemAssumption DEF TypeOK
  <2>3. ASSUME NEW b \in 1 .. Blocks + 1, NEW w, SendBlock(b, w), trouble \subseteq w
        PROVE  (faults' = faults \/ faults' = faults + 1) /\ trouble \subseteq trouble'
    BY <2>3 DEF SendBlock
  <2>4. (faults' = faults \/ faults' = faults + 1) /\ trouble \subseteq trouble'
    <3>1. CASE Start
      BY <2>3, <3>1, StartFacts, XmodemAssumption
    <3>2. CASE SenderReply
      <4>1. \/ UNCHANGED <<faults, trouble>>
            \/ ~(block > Blocks) /\ SendBlock(block + 1, trouble)
            \/ SendBlock(block, trouble)
        BY <3>2 DEF SenderReply
      <4>2. block \in 1 .. Blocks + 1 /\ (~(block > Blocks) => block + 1 \in 1 .. Blocks + 1)
        BY XmodemAssumption DEF TypeOK
      <4> QED
        BY <2>3, <4>1, <4>2
    <3>3. CASE SenderTimeout
      BY <2>3, <3>3 DEF SenderTimeout, TypeOK
    <3>4. CASE SendRest \/ Stop \/ LoseReply
      BY <3>4 DEF SendRest, Stop, LoseReply
    <3> QED
      BY <1>3, <3>1, <3>2, <3>3, <3>4 DEF Sender
  <2>5. faults <= faults' /\ late <= late'
    BY <2>1, <2>2, <2>4
  <2> QED
    BY <2>1, <2>4, <2>5, RepairedKept
<1> QED
  BY <1>1, <1>2, <1>3 DEF Next, Receive

XmodemInv == TypeOK /\ Ordered /\ Lockstep /\ DamageIsRepaired

LEMMA XmodemStepInv == XmodemInv /\ [Next]_vars => XmodemInv'
<1> SUFFICES ASSUME TypeOK, Ordered, Lockstep, DamageIsRepaired, [Next]_vars PROVE XmodemInv'
  BY DEF XmodemInv
<1>1. TypeOK' /\ Ordered'
  BY XmodemStepOrdered
<1> SUFFICES Lockstep' /\ DamageIsRepaired'
  BY <1>1 DEF XmodemInv
<1>2. CASE UNCHANGED vars
  BY <1>2 DEF vars, board, pc, Lockstep, DamageIsRepaired, Running, Beginning, Replied, Sending,
     Reading, Taken, Budget, Sent
<1>3. CASE Loop
  BY <1>1, <1>3, LoopLockstep
<1>4. CASE Next /\ ~Loop
  <2>1. DamageIsRepaired'
    BY <1>1, <1>4, OtherRepaired
  <2>2. Lockstep'
    <3>1. ASSUME Finish PROVE Lockstep'
      BY <3>1 DEF Finish, Lockstep, Running
    <3>2. ASSUME SendRest PROVE Lockstep'
      BY <3>2 DEF SendRest, Lockstep, Running, board
    <3>3. ASSUME Stop \/ LoseReply PROVE Lockstep'
      BY <3>3 DEF Stop, LoseReply, Lockstep, Grave
    <3>4. CASE Receive
      BY <1>4, <3>1, <3>4, ControlTimeoutLockstep, ReadControlLockstep, ReadRecordLockstep,
         RecordTimeoutLockstep, FlushLockstep, GotRecordLockstep DEF Receive
    <3>5. CASE Sender
      BY <1>1, <3>2, <3>3, <3>5, StartLockstep, SenderReplyLockstep, SenderTimeoutLockstep
         DEF Sender
    <3> QED
      BY <1>4, <3>3, <3>4, <3>5 DEF Next
  <2> QED
    BY <2>1, <2>2
<1> QED
  BY <1>2, <1>3, <1>4

\* Records that are damaged on the way are repeated until they come, for every
\* number of retries: a transfer is given up only after trouble of another kind,
\* or when the passes before the sender started and the faults are as many as the
\* retries (xmodem.c:115, xmodem.c:156).
THEOREM XmodemRepairs == Spec => []DamageIsRepaired
<1>1. Init => XmodemInv
  <2> SUFFICES ASSUME Init PROVE XmodemInv
    OBVIOUS
  <2>1. DamageIsRepaired
    BY DEF Init, DamageIsRepaired
  <2>2. Beginning /\ rest = << >>
    BY XmodemAssumption DEF Init, Beginning
  <2> QED
    BY <2>1, <2>2, XmodemInitTypes, XmodemInitOrdered DEF XmodemInv, Lockstep
<1>2. XmodemInv => DamageIsRepaired
  BY DEF XmodemInv
<1> QED
  BY <1>1, <1>2, XmodemStepInv, PTL DEF Spec

-----------------------------------------------------------------------------
(* The remote file system *)

\* A set of units with the tails of its units.
Closed(S) == \A u \in S : Tail4(u) \in S

LEMMA UnitsClosed == Closed(RfsUnits)
  BY DEF Closed, RfsUnits, Tail4, Unit

LEMMA TailFirst ==
  ASSUME NEW S, Closed(S), NEW s \in Seq(S), s # << >>
  PROVE  <<Tail4(Head(s))>> \o Tail(s) \in Seq(S)
<1>1. Tail4(Head(s)) \in S /\ Tail(s) \in Seq(S)
  BY TailStays DEF Closed
<1>2. <<Tail4(Head(s))>> \in Seq(S)
  BY <1>1
<1> QED
  BY <1>1, <1>2, ConcatProperties

LEMMA LeftoverFirst ==
  ASSUME NEW S, Closed(S), NEW u \in S, NEW t \in Seq(S), NEW left \in Leftovers(u)
  PROVE  left \o t \in Seq(S)
<1>1. Tail4(u) \in S
  BY DEF Closed
<1>2. << >> \in Seq(S) /\ <<Tail4(u)>> \in Seq(S)
  BY <1>1
<1>3. left \in Seq(S)
  BY <1>2 DEF Leftovers
<1> QED
  BY <1>3, ConcatProperties

\* The actions that put no packet on a line.
NoPacketSent ==
  \/ \E c \in Calls : Begin(c)
  \/ RecvHead \/ RecvBody \/ Timeout \/ Reset \/ ServerHead \/ Swallow \/ Lose

LEMMA LinesStay ==
  ASSUME NEW S, Closed(S), toPC \in Seq(S),
         NEW T, Closed(T), toBoard \in Seq(T), NoPacketSent
  PROVE  toPC' \in Seq(S) /\ toBoard' \in Seq(T)
<1>1. CASE \E c \in Calls : Begin(c)
  BY <1>1 DEF Begin
<1>2. CASE RecvHead
  <2>1. toBoard # << >> /\ toPC' = toPC
    BY <1>2 DEF RecvHead
  <2>2. Head(toBoard) \in T /\ Tail(toBoard) \in Seq(T)
    BY <2>1, TailStays
  <2>3. CASE toBoard' = Tail(toBoard)
    BY <2>1, <2>2, <2>3
  <2>4. CASE \E left \in Leftovers(Head(toBoard)) : toBoard' = left \o Tail(toBoard)
    BY <2>1, <2>2, <2>4, LeftoverFirst
  <2> QED
    BY <1>2, <2>3, <2>4 DEF RecvHead
<1>3. CASE RecvBody
  <2>1. toBoard # << >> /\ toPC' = toPC
    BY <1>3 DEF RecvBody
  <2>2. CASE toBoard' = Tail(toBoard)
    BY <2>1, <2>2, TailStays
  <2>3. CASE \E k \in 1 .. Len(toBoard) : \E left \in Leftovers(toBoard[k]) :
               toBoard' = left \o SubSeq(toBoard, k + 1, Len(toBoard))
    <3>1. PICK k \in 1 .. Len(toBoard) : \E left \in Leftovers(toBoard[k]) :
               toBoard' = left \o SubSeq(toBoard, k + 1, Len(toBoard))
      BY <2>3
    <3>2. PICK left \in Leftovers(toBoard[k]) :
               toBoard' = left \o SubSeq(toBoard, k + 1, Len(toBoard))
      BY <3>1
    <3>3. toBoard[k] \in T
      OBVIOUS
    <3>4. SubSeq(toBoard, k + 1, Len(toBoard)) \in Seq(T)
      BY SubSeqStays
    <3> QED
      BY <2>1, <3>2, <3>3, <3>4, LeftoverFirst
  <2> QED
    BY <1>3, <2>2, <2>3 DEF RecvBody
<1>4. CASE Timeout
  BY <1>4 DEF Timeout
<1>5. CASE ServerHead
  <2>1. toPC # << >> /\ toBoard' = toBoard
    BY <1>5 DEF ServerHead
  <2>2. CASE toPC' = Tail(toPC)
    BY <2>1, <2>2, TailStays
  <2>3. CASE \E k \in 1 .. Len(toPC) : toPC' = SubSeq(toPC, k + 1, Len(toPC))
    BY <2>1, <2>3, SubSeqStays
  <2>4. CASE toPC' = <<Tail4(Head(toPC))>> \o Tail(toPC)
    BY <2>1, <2>4, TailFirst
  <2> QED
    BY <1>5, <2>2, <2>3, <2>4 DEF ServerHead
<1>6. CASE Swallow
  BY <1>6, TailStays DEF Swallow
<1>7. CASE Lose
  BY <1>7, LostAtStays DEF Lose
<1>8. CASE Reset
  BY <1>8 DEF Reset
<1> QED
  BY <1>1, <1>2, <1>3, <1>4, <1>5, <1>6, <1>7, <1>8 DEF NoPacketSent

\* What remains when the receive buffer is emptied is a line of units.
LEMMA EmptiedStays ==
  ASSUME NEW S, Closed(S), NEW s \in Seq(S), NEW k \in 0 .. Len(s), NEW part \in BOOLEAN,
         part => k < Len(s)
  PROVE  Emptied(s, k, part).left \in Seq(S)
<1>1. CASE ~part
  <2>1. Emptied(s, k, part).left = SubSeq(s, k + 1, Len(s))
    BY <1>1 DEF Emptied
  <2> QED
    BY <2>1, SubSeqStays
<1>2. CASE part
  <2>1. Emptied(s, k, part).left = <<Tail4(s[k + 1])>> \o SubSeq(s, k + 2, Len(s))
    BY <1>2 DEF Emptied
  <2>2. k + 1 \in 1 .. Len(s)
    BY <1>2
  <2>3. Tail4(s[k + 1]) \in S
    BY <2>2 DEF Closed
  <2>4. SubSeq(s, k + 2, Len(s)) \in Seq(S)
    <3>1. SubSeq(s, (k + 1) + 1, Len(s)) \in Seq(S)
      BY <2>2, SubSeqStays
    <3>2. (k + 1) + 1 = k + 2
      BY <2>2
    <3> QED
      BY <3>1, <3>2
  <2>5. <<Tail4(s[k + 1])>> \in Seq(S)
    BY <2>3
  <2> QED
    BY <2>1, <2>4, <2>5, ConcatProperties
<1> QED
  BY <1>1, <1>2

LEMMA TwoUnits ==
  ASSUME NEW S, NEW s \in Seq(S), NEW u \in S, NEW v \in S
  PROVE  s \o <<u, v>> \in Seq(S)
<1>1. <<u, v>> \in Seq(S)
  OBVIOUS
<1> QED
  BY <1>1, ConcatProperties

\* A request asks for no less than nothing: only an answer reports an error.
RequestUnits == {u \in RfsUnits : u.packet.n >= 0}

\* The type invariant, and the sizes of the requests.
RfsTypes ==
  /\ RfsTypeOK
  /\ toPC \in Seq(RequestUnits)
  /\ server.req.n >= 0

LEMMA RequestUnitsClosed == Closed(RequestUnits)
  BY DEF Closed, RequestUnits, RfsUnits, Tail4, Unit

LEMMA Min2Facts ==
  ASSUME NEW a \in Int, NEW b \in Int
  PROVE  Min2(a, b) \in {a, b} /\ Min2(a, b) <= a /\ Min2(a, b) <= b
  BY DEF Min2

LEMMA ChunkType ==
  ASSUME call \in [op : Ops, len : Nat]
  PROVE  Chunk \in 0 .. BUFFER
  BY RfsAssumption, Min2Facts DEF Chunk

\* The answer an execution gives is a packet, and the position stays in the file.
LEMMA ExecutionTypes ==
  ASSUME pos \in 0 .. FileLen, NEW p \in Packets, p.n >= 0, NEW r \in Executions(p)
  PROVE  /\ r.n \in -1 .. BUFFER /\ r.pos \in 0 .. FileLen
         /\ [p EXCEPT !.kind = "response", !.n = r.n] \in Packets
<1> DEFINE m == Min2(p.n, FileLen - pos)
<1>1. m \in 0 .. BUFFER /\ pos + m \in 0 .. FileLen
  BY RfsAssumption, Min2Facts DEF Packets
<1>2. \/ r = [n |-> m, pos |-> pos + m]
      \/ r = [n |-> -1, pos |-> pos]
      \/ r = [n |-> 0, pos |-> pos]
      \/ r = [n |-> 0, pos |-> 0]
  BY DEF Executions
<1>3. r.n \in -1 .. BUFFER /\ r.pos \in 0 .. FileLen
  BY <1>1, <1>2, RfsAssumption
<1>4. [p EXCEPT !.kind = "response", !.n = r.n] \in Packets
  BY <1>3 DEF Packets
<1> QED
  BY <1>3, <1>4

\* A unit marked as belonging to an old request is a unit.
LEMMA OldTypes ==
  ASSUME NEW s \in Seq(RfsUnits)
  PROVE  /\ OldUnits(s) \in Seq(RfsUnits)
         /\ s \in Seq(RequestUnits) => OldUnits(s) \in Seq(RequestUnits)
<1>1. \A u \in RfsUnits : Old(u) \in RfsUnits /\ Old(u).packet.n = u.packet.n
  BY DEF Old, RfsUnits, Packets
<1>2. OldUnits(s) \in Seq(RfsUnits)
  BY <1>1 DEF OldUnits
<1>3. ASSUME s \in Seq(RequestUnits) PROVE OldUnits(s) \in Seq(RequestUnits)
  <2>1. \A u \in RequestUnits : Old(u) \in RequestUnits
    BY <1>1 DEF RequestUnits
  <2> QED
    BY <2>1, <1>3 DEF OldUnits
<1> QED
  BY <1>2, <1>3

LEMMA ReturnTypes ==
  ASSUME RfsTypeOK, NEW n \in Nat, NEW ok \in BOOLEAN, Return(n, ok)
  PROVE  /\ client' \in {"idle", "send", "head", "body", "fault"}
         /\ call' \in [op : Ops, len : Nat]
         /\ apppos' \in Nat /\ failed' \in BOOLEAN
<1>1. failed' \in BOOLEAN
  BY Zenon DEF Return
<1>2. client' = "idle" /\ call' = NoCall
  BY DEF Return
<1>4. NoCall \in [op : Ops, len : Nat]
  BY DEF NoCall, Ops
<1>3. apppos' \in Nat
  <2>1. apppos' = 0 \/ apppos' = apppos + n
    BY Zenon DEF Return
  <2> QED
    BY <2>1 DEF RfsTypeOK
<1> QED
  BY <1>1, <1>2, <1>3, <1>4

LEMMA AnswerTypes ==
  ASSUME RfsTypeOK, NEW q \in Packets, Answer(q)
  PROVE  /\ client' \in {"idle", "send", "head", "body", "fault"}
         /\ call' \in [op : Ops, len : Nat]
         /\ apppos' \in Nat /\ failed' \in BOOLEAN
<1>1. Chunk \in Nat /\ q.n \in Int /\ q.n >= -1
  BY ChunkType, RfsAssumption DEF RfsTypeOK, Packets
<1>2. CASE call.op \in Sized /\ q.n >= Chunk /\ call.len > Chunk
  <2>1. /\ client' = "send" /\ failed' = failed
        /\ call' = [call EXCEPT !.len = @ - Chunk]
        /\ apppos' = 0 \/ apppos' = apppos + q.n
    BY <1>2, Zenon DEF Answer
  <2>2. call' \in [op : Ops, len : Nat]
    BY <1>1, <1>2, <2>1, SMTT(30) DEF RfsTypeOK
  <2>3. apppos' \in Nat
    BY <1>1, <1>2, <2>1 DEF RfsTypeOK
  <2> QED
    BY <2>1, <2>2, <2>3 DEF RfsTypeOK
<1>3. CASE ~(call.op \in Sized /\ q.n >= Chunk /\ call.len > Chunk)
  <2> DEFINE n == IF call.op \in Sized /\ q.n # -1 THEN q.n ELSE 0
  <2>1. n \in Nat
    BY <1>1
  <2>2. Return(n, TRUE)
    BY <1>3 DEF Answer
  <2> HIDE DEF n
  <2> QED
    BY <2>1, <2>2, ReturnTypes
<1> QED
  BY <1>2, <1>3

-----------------------------------------------------------------------------
(* Type correctness *)

LEMMA WaitingTypes ==
  /\ Waiting \in [at : {"head", "body", "junk"}, req : Packets, owed : 0 .. MaxSwallow]
  /\ Waiting.req.n >= 0
  BY RfsAssumption DEF Waiting, NoPacket, Packets, Ops

LEMMA InitTypes == RfsInit => RfsTypes
<1> SUFFICES ASSUME RfsInit PROVE RfsTypes
  OBVIOUS
<1>1. NoCall \in [op : Ops, len : Nat] /\ NoPacket \in Packets
  BY RfsAssumption DEF NoCall, NoPacket, Packets, Ops
<1>2. /\ toPC \in Seq(RfsUnits) /\ toBoard \in Seq(RfsUnits)
      /\ toPC \in Seq(RequestUnits)
  BY DEF RfsInit
<1>3. pos \in 0 .. FileLen /\ apppos \in Nat /\ losses \in 0 .. MaxLosses
  BY RfsAssumption DEF RfsInit
<1>4. failed \in BOOLEAN /\ stale \in BOOLEAN
  BY Zenon DEF RfsInit
<1>5. client = "idle" /\ call = NoCall /\ resp = NoPacket /\ server = Waiting /\ wrong = {}
  BY DEF RfsInit
<1> QED
  BY <1>1, <1>2, <1>3, <1>4, <1>5, WaitingTypes DEF RfsTypes, RfsTypeOK

LEMMA LinesTypes ==
  ASSUME RfsTypes, NoPacketSent
  PROVE  /\ toPC' \in Seq(RfsUnits) /\ toPC' \in Seq(RequestUnits)
         /\ toBoard' \in Seq(RfsUnits)
<1>1. toPC \in Seq(RfsUnits) /\ toPC \in Seq(RequestUnits) /\ toBoard \in Seq(RfsUnits)
  BY DEF RfsTypes, RfsTypeOK
<1>2. toPC' \in Seq(RfsUnits) /\ toBoard' \in Seq(RfsUnits)
  BY <1>1, UnitsClosed, LinesStay
<1>3. toPC' \in Seq(RequestUnits)
  BY <1>1, UnitsClosed, RequestUnitsClosed, LinesStay
<1> QED
  BY <1>2, <1>3

LEMMA BeginTypes ==
  ASSUME RfsTypes, NEW c \in Calls, Begin(c)
  PROVE  RfsTypes'
<1>1. NoPacketSent
  BY DEF NoPacketSent
<1> QED
  BY <1>1, LinesTypes, RfsAssumption DEF Begin, RfsTypes, RfsTypeOK, fileVars

LEMMA SendRequestTypes ==
  ASSUME RfsTypes, NEW left \in Seq(RfsUnits), NEW more \in BOOLEAN, SendRequest(left, more),
         UNCHANGED <<resp, pos, losses>>
  PROVE  RfsTypes'
<1> DEFINE p == Packet("request", call.op, Chunk)
<1>1. Chunk \in 0 .. BUFFER
  BY ChunkType DEF RfsTypes, RfsTypeOK
<1>2. p \in Packets /\ p.n >= 0
  BY <1>1, RfsAssumption DEF RfsTypes, RfsTypeOK, Packet, Packets
<1>3. /\ Unit("head", p) \in RfsUnits /\ Unit("body", p) \in RfsUnits
      /\ Unit("head", p) \in RequestUnits /\ Unit("body", p) \in RequestUnits
  BY <1>2 DEF Unit, RfsUnits, RequestUnits
<1>4. toPC' \in Seq(RfsUnits) /\ toPC' \in Seq(RequestUnits)
  <2>1. toPC' = OldUnits(toPC) \o <<Unit("head", p), Unit("body", p)>>
    BY DEF SendRequest
  <2>2. OldUnits(toPC) \in Seq(RfsUnits) /\ OldUnits(toPC) \in Seq(RequestUnits)
    BY OldTypes DEF RfsTypes, RfsTypeOK
  <2> HIDE DEF p
  <2> QED
    BY <1>3, <2>1, <2>2, TwoUnits
<1>5. toBoard' \in Seq(RfsUnits)
  BY OldTypes DEF SendRequest
<1>6. /\ server' \in [at : {"head", "body", "junk"}, req : Packets, owed : 0 .. MaxSwallow]
      /\ server'.req.n >= 0
  BY DEF SendRequest, RfsTypes, RfsTypeOK, Packets
<1>7. stale' \in BOOLEAN
  BY Zenon DEF SendRequest
<1>8. apppos' \in Nat /\ failed' \in BOOLEAN
  <2>1. (failed' = FALSE /\ apppos' = 0) \/ (failed' = failed /\ apppos' = apppos)
    BY Zenon DEF SendRequest
  <2>2. CASE failed' = FALSE /\ apppos' = 0
    BY <2>2
  <2>3. CASE failed' = failed /\ apppos' = apppos
    BY <2>3 DEF RfsTypes, RfsTypeOK
  <2> QED
    BY <2>1, <2>2, <2>3
<1>9. /\ client' = "head" /\ wrong' = {}
      /\ call' = call /\ resp' = resp /\ pos' = pos /\ losses' = losses
  BY DEF SendRequest
<1> QED
  BY <1>4, <1>5, <1>6, <1>7, <1>8, <1>9 DEF RfsTypes, RfsTypeOK

\* A request is sent, or nothing is.
LEMMA SendCases ==
  ASSUME NEW k, NEW part, Send(k, part)
  PROVE  /\ client = "send" /\ UNCHANGED <<resp, pos, losses>>
         /\ part => k < Len(toBoard)
         /\ \/ SendRequest(Emptied(toBoard, k, part).left, k < Len(toBoard))
            \/ SendNothing(Emptied(toBoard, k, part).left)
  BY DEF Send

LEMMA SendTypes ==
  ASSUME RfsTypes, NEW k \in 0 .. Len(toBoard), NEW part \in BOOLEAN, Send(k, part)
  PROVE  RfsTypes'
<1> DEFINE left == Emptied(toBoard, k, part).left
<1>1. left \in Seq(RfsUnits)
  BY EmptiedStays, UnitsClosed, SendCases DEF RfsTypes, RfsTypeOK
<1>2. UNCHANGED <<resp, pos, losses>>
  BY SendCases
<1> HIDE DEF left
<1>3. CASE SendRequest(left, k < Len(toBoard))
  <2>1. (k < Len(toBoard)) \in BOOLEAN
    OBVIOUS
  <2> QED
    BY <1>1, <1>2, <1>3, <2>1, SendRequestTypes
<1>4. CASE SendNothing(left)
  <2>1. Return(0, FALSE) /\ toBoard' = left /\ UNCHANGED <<toPC, server, stale, wrong>>
    BY <1>4 DEF SendNothing, Fail
  <2>2. /\ client' \in {"idle", "send", "head", "body", "fault"}
        /\ call' \in [op : Ops, len : Nat]
        /\ apppos' \in Nat /\ failed' \in BOOLEAN
    BY <2>1, ReturnTypes DEF RfsTypes
  <2> QED
    BY <1>1, <1>2, <2>1, <2>2 DEF RfsTypes, RfsTypeOK
<1> QED
  BY <1>3, <1>4, SendCases DEF left

LEMMA RecvHeadTypes ==
  ASSUME RfsTypes, RecvHead
  PROVE  RfsTypes'
<1>1. NoPacketSent
  BY DEF NoPacketSent
<1>2. Head(toBoard) \in RfsUnits
  BY TailStays DEF RecvHead, RfsTypes, RfsTypeOK
<1>3. /\ client' \in {"idle", "send", "head", "body", "fault"}
      /\ call' \in [op : Ops, len : Nat]
      /\ apppos' \in Nat /\ failed' \in BOOLEAN
      /\ resp' \in Packets
  <2>1. CASE Head(toBoard).part = "head"
    BY <1>2, <2>1 DEF RecvHead, RfsTypes, RfsTypeOK, RfsUnits
  <2>2. CASE Head(toBoard).part # "head"
    <3>1. Return(0, FALSE) /\ resp' = resp
      BY <2>2 DEF RecvHead, Fail
    <3> QED
      BY <3>1, ReturnTypes DEF RfsTypes, RfsTypeOK
  <2> QED
    BY <2>1, <2>2
<1>4. UNCHANGED <<server, pos, stale, wrong, losses>>
  BY DEF RecvHead
<1> QED
  BY <1>1, <1>3, <1>4, LinesTypes DEF RfsTypes, RfsTypeOK

LEMMA RecvBodyTypes ==
  ASSUME RfsTypes, RecvBody
  PROVE  RfsTypes'
<1>1. NoPacketSent
  BY DEF NoPacketSent
<1>2. /\ client' \in {"idle", "send", "head", "body", "fault"}
      /\ call' \in [op : Ops, len : Nat]
      /\ apppos' \in Nat /\ failed' \in BOOLEAN
  <2>1. CASE Answer(resp)
    BY <2>1, AnswerTypes DEF RfsTypes, RfsTypeOK
  <2>2. CASE Fail
    BY <2>2, ReturnTypes DEF Fail, RfsTypes
  <2>3. CASE client' = "fault" /\ failed' = TRUE /\ UNCHANGED <<call, apppos>>
    <3>1. failed' \in BOOLEAN
      BY <2>3
    <3> QED
      BY <2>3, <3>1 DEF RfsTypes, RfsTypeOK
  <2> QED
    BY <2>1, <2>2, <2>3 DEF RecvBody, AnswerWild
<1>3. wrong' \subseteq {"foreign", "overflow"}
  BY DEF RecvBody, RfsTypes, RfsTypeOK
<1>4. resp' \in Packets
  BY RfsAssumption DEF RecvBody, NoPacket, Packets, Ops
<1>5. UNCHANGED <<server, pos, stale, losses>>
  BY DEF RecvBody
<1> QED
  BY <1>1, <1>2, <1>3, <1>4, <1>5, LinesTypes DEF RfsTypes, RfsTypeOK

LEMMA TimeoutTypes ==
  ASSUME RfsTypes, Timeout
  PROVE  RfsTypes'
<1>1. NoPacketSent
  BY DEF NoPacketSent
<1>2. /\ client' \in {"idle", "send", "head", "body", "fault"}
      /\ call' \in [op : Ops, len : Nat]
      /\ apppos' \in Nat /\ failed' \in BOOLEAN
  BY ReturnTypes DEF Timeout, Fail, RfsTypes
<1>3. losses' \in 0 .. MaxLosses
  BY RfsAssumption DEF Timeout, RfsTypes, RfsTypeOK
<1>4. resp' \in Packets
  BY RfsAssumption DEF Timeout, NoPacket, Packets, Ops
<1>5. UNCHANGED <<server, pos, stale, wrong>>
  BY DEF Timeout
<1> QED
  BY <1>1, <1>2, <1>3, <1>4, <1>5, LinesTypes DEF RfsTypes, RfsTypeOK

LEMMA ResetTypes ==
  ASSUME RfsTypes, Reset
  PROVE  RfsTypes'
<1>1. NoPacketSent
  BY DEF NoPacketSent
<1>2. client' = "idle" /\ call' \in [op : Ops, len : Nat]
  BY DEF Reset, NoCall, Ops
<1>3. UNCHANGED <<resp, server, fileVars, stale, wrong, losses>>
  BY DEF Reset
<1> QED
  BY <1>1, <1>2, <1>3, LinesTypes DEF RfsTypes, RfsTypeOK, fileVars

LEMMA ServerHeadTypes ==
  ASSUME RfsTypes, ServerHead
  PROVE  RfsTypes'
<1>1. NoPacketSent
  BY DEF NoPacketSent
<1>2. Head(toPC) \in RfsUnits /\ Head(toPC) \in RequestUnits
  BY TailStays DEF ServerHead, RfsTypes, RfsTypeOK
<1>3. /\ server' \in [at : {"head", "body", "junk"}, req : Packets, owed : 0 .. MaxSwallow]
      /\ server'.req.n >= 0
  BY <1>2 DEF ServerHead, RfsTypes, RfsTypeOK, RfsUnits, RequestUnits
<1>4. UNCHANGED <<client, call, resp, fileVars, stale, wrong, losses>>
  BY DEF ServerHead
<1> QED
  BY <1>1, <1>3, <1>4, LinesTypes DEF RfsTypes, RfsTypeOK, fileVars

LEMMA AnsweredTypes ==
  ASSUME NEW S, NEW s \in Seq(S), NEW p, Unit("head", p) \in S, Unit("body", p) \in S
  PROVE  s \o Answered(p) \in Seq(S)
  BY TwoUnits DEF Answered

LEMMA ExecuteTypes ==
  ASSUME RfsTypes, Execute
  PROVE  RfsTypes'
<1>1. PICK r \in Executions(server.req) :
        /\ pos' = r.pos
        /\ toBoard' = toBoard \o Answered([server.req EXCEPT !.kind = "response", !.n = r.n])
  BY DEF Execute
<1> DEFINE q == [server.req EXCEPT !.kind = "response", !.n = r.n]
<1>2. r.pos \in 0 .. FileLen /\ q \in Packets
  BY ExecutionTypes DEF RfsTypes, RfsTypeOK
<1>3. Unit("head", q) \in RfsUnits /\ Unit("body", q) \in RfsUnits
  BY <1>2 DEF Unit, RfsUnits
<1>4. toBoard' \in Seq(RfsUnits)
  <2> HIDE DEF q
  <2> QED
    BY <1>1, <1>3, AnsweredTypes DEF RfsTypes, RfsTypeOK, q
<1>5. toPC' \in Seq(RfsUnits) /\ toPC' \in Seq(RequestUnits)
  BY TailStays DEF Execute, RfsTypes, RfsTypeOK
<1>6. server' = Waiting /\ UNCHANGED <<client, call, resp, apppos, failed, stale, wrong, losses>>
  BY DEF Execute
<1> QED
  BY <1>1, <1>2, <1>4, <1>5, <1>6, WaitingTypes DEF RfsTypes, RfsTypeOK

LEMMA SwallowTypes ==
  ASSUME RfsTypes, Swallow
  PROVE  RfsTypes'
<1>1. NoPacketSent
  BY DEF NoPacketSent
<1>2. /\ server' \in [at : {"head", "body", "junk"}, req : Packets, owed : 0 .. MaxSwallow]
      /\ server'.req.n >= 0
  <2>1. server \in [at : {"head", "body", "junk"}, req : Packets, owed : 0 .. MaxSwallow]
        /\ server.req.n >= 0
    BY DEF RfsTypes, RfsTypeOK
  <2> DEFINE m == IF server.at = "body" THEN MaxSwallow - 1 ELSE server.owed - 1
  <2>2. m \in 0 .. MaxSwallow
    BY <2>1, RfsAssumption DEF Swallow
  <2>3. server' = [server EXCEPT !.at = "junk", !.owed = m]
    BY Zenon DEF Swallow
  <2> HIDE DEF m
  <2> QED
    BY <2>1, <2>2, <2>3
<1>3. UNCHANGED <<client, call, resp, fileVars, stale, wrong, losses>>
  BY DEF Swallow
<1> QED
  BY <1>1, <1>2, <1>3, LinesTypes DEF RfsTypes, RfsTypeOK, fileVars

LEMMA EchoRequestTypes ==
  ASSUME RfsTypes, EchoRequest
  PROVE  RfsTypes'
<1>1. Unit("head", server.req) \in RfsUnits /\ Unit("body", server.req) \in RfsUnits
  BY DEF RfsTypes, RfsTypeOK, Unit, RfsUnits
<1>2. toBoard' \in Seq(RfsUnits)
  BY <1>1, AnsweredTypes DEF EchoRequest, RfsTypes, RfsTypeOK
<1>3. toPC' \in Seq(RfsUnits) /\ toPC' \in Seq(RequestUnits)
  <2>1. toPC \in Seq(RfsUnits) /\ toPC \in Seq(RequestUnits)
    BY DEF RfsTypes, RfsTypeOK
  <2>2. CASE toPC' = toPC
    BY <2>1, <2>2
  <2>3. CASE toPC # << >> /\ toPC' = <<Tail4(Head(toPC))>> \o Tail(toPC)
    BY <2>1, <2>3, TailFirst, UnitsClosed, RequestUnitsClosed
  <2> QED
    BY <2>2, <2>3 DEF EchoRequest
<1>4. server' = Waiting /\ UNCHANGED <<client, call, resp, fileVars, stale, wrong, losses>>
  BY DEF EchoRequest
<1> QED
  BY <1>2, <1>3, <1>4, WaitingTypes DEF RfsTypes, RfsTypeOK, fileVars

LEMMA LoseTypes ==
  ASSUME RfsTypes, Lose
  PROVE  RfsTypes'
<1>1. NoPacketSent
  BY DEF NoPacketSent
<1>2. losses' \in 0 .. MaxLosses
  BY RfsAssumption DEF Lose, RfsTypes, RfsTypeOK
<1>3. UNCHANGED <<client, call, resp, server, fileVars, stale, wrong>>
  BY DEF Lose
<1> QED
  BY <1>1, <1>2, <1>3, LinesTypes DEF RfsTypes, RfsTypeOK, fileVars

LEMMA StepTypes == RfsTypes /\ [RfsNext]_rfsVars => RfsTypes'
<1> SUFFICES ASSUME RfsTypes, [RfsNext]_rfsVars PROVE RfsTypes'
  OBVIOUS
<1>1. CASE UNCHANGED rfsVars
  BY <1>1 DEF rfsVars, RfsTypes, RfsTypeOK
<1>2. CASE RfsNext
  BY <1>2, BeginTypes, SendTypes, RecvHeadTypes, RecvBodyTypes, TimeoutTypes, ResetTypes,
     ServerHeadTypes, ExecuteTypes, SwallowTypes, EchoRequestTypes, LoseTypes
     DEF RfsNext, Application, Board, PC
<1> QED
  BY <1>1, <1>2

-----------------------------------------------------------------------------
(* Answers belong to the present request *)

\* The packets of the present request, which asks for n bytes.
MinePackets(n) == {p \in Packets : p.mine = TRUE /\ p.n <= n}
MineUnits(n) == {u \in RfsUnits : u.packet \in MinePackets(n)}

\* Nothing of an old request is on the lines or being read.
LinesMine(n) ==
  /\ toPC \in Seq(MineUnits(n)) /\ toBoard \in Seq(MineUnits(n))
  /\ server.at # "head" => server.req \in MinePackets(n)
  /\ client = "body" => resp \in MinePackets(n)

\* If nothing was left when the present request was sent, no wrong answer has been
\* taken, and none is there to be taken.
OnlyMine ==
  ~stale => /\ wrong = {}
            /\ client \in {"head", "body"} => LinesMine(Chunk)

LEMMA MineClosed ==
  ASSUME NEW n
  PROVE  Closed(MineUnits(n))
  BY DEF Closed, MineUnits, RfsUnits, Tail4, Unit

\* Where the board waits for an answer before and after a step, the lines have to
\* stay mine, and no wrong answer to be taken.
LEMMA MineIfLinesMine ==
  ASSUME OnlyMine, stale' = stale, wrong' = wrong,
         \/ client' \notin {"head", "body"}
         \/ /\ client \in {"head", "body"} /\ call' = call
            /\ LinesMine(Chunk) => LinesMine(Chunk)'
  PROVE  OnlyMine'
<1>1. CASE client' \notin {"head", "body"}
  BY <1>1, Zenon DEF OnlyMine
<1>2. CASE /\ client \in {"head", "body"} /\ call' = call
           /\ LinesMine(Chunk) => LinesMine(Chunk)'
  <2>1. Chunk' = Chunk
    BY <1>2 DEF Chunk
  <2> QED
    BY <1>2, <2>1, Zenon DEF OnlyMine
<1> QED
  BY <1>1, <1>2

\* What the board has asked for, and the answer that reports n bytes.
Asked == Packet("request", call.op, Chunk)
Reported(n) == Packet("response", call.op, n)

\* The parts of a packet on the line.
HeadOf(p) == Unit("head", p)
BodyOf(p) == Unit("body", p)
TailOf(p) == Unit("tail", p)

\* A request that is sent while nothing of an old one is left is alone on the lines.
LEMMA SentAlone ==
  ASSUME RfsTypes, NEW k \in 0 .. Len(toBoard), NEW part \in BOOLEAN, part => k < Len(toBoard),
         SendRequest(Emptied(toBoard, k, part).left, k < Len(toBoard)), ~stale'
  PROVE  /\ toPC' = <<HeadOf(Asked), BodyOf(Asked)>> /\ toBoard' = << >>
         /\ server'.at = "head" /\ client' = "head" /\ call' = call
<1>1. server.at = "head" /\ toPC = << >> /\ k = Len(toBoard) /\ ~part
  <2>1. ~(server.at # "head" \/ toPC # << >> \/ k < Len(toBoard))
    BY Zenon DEF SendRequest
  <2>2. k \in Nat /\ Len(toBoard) \in Nat /\ k <= Len(toBoard)
    BY DEF RfsTypes, RfsTypeOK
  <2> QED
    BY <2>1, <2>2
<1>2. toPC' = <<HeadOf(Asked), BodyOf(Asked)>>
  <2>1. OldUnits(toPC) = << >>
    BY <1>1 DEF OldUnits
  <2>2. toPC' = OldUnits(toPC) \o <<HeadOf(Asked), BodyOf(Asked)>>
    BY DEF SendRequest, Asked, HeadOf, BodyOf
  <2> QED
    BY <2>1, <2>2
<1>3. toBoard' = << >>
  <2>1. SubSeq(toBoard, k + 1, Len(toBoard)) = << >>
    BY <1>1 DEF RfsTypes, RfsTypeOK
  <2>2. Emptied(toBoard, k, part).left = << >>
    BY <1>1, <2>1 DEF Emptied
  <2> QED
    BY <2>2, SMTT(30) DEF SendRequest, OldUnits
<1> QED
  BY <1>1, <1>2, <1>3 DEF SendRequest, RfsTypes, RfsTypeOK

LEMMA SendMine ==
  ASSUME RfsTypes, OnlyMine, NEW k \in 0 .. Len(toBoard), NEW part \in BOOLEAN, Send(k, part)
  PROVE  OnlyMine'
<1> DEFINE left == Emptied(toBoard, k, part).left
<1>1. CASE SendNothing(left)
  <2>1. client' = "idle" /\ stale' = stale /\ wrong' = wrong
    BY <1>1 DEF SendNothing, Fail, Return
  <2> QED
    BY <2>1, MineIfLinesMine
<1>2. CASE SendRequest(left, k < Len(toBoard))
  <2> SUFFICES ASSUME ~stale' PROVE wrong' = {} /\ LinesMine(Chunk)'
    BY DEF OnlyMine
  <2>1. /\ toPC' = <<HeadOf(Asked), BodyOf(Asked)>> /\ toBoard' = << >>
        /\ server'.at = "head" /\ client' = "head" /\ call' = call
    BY <1>2, SentAlone, SendCases
  <2>2. Chunk' = Chunk /\ Chunk \in 0 .. BUFFER
    BY <2>1, ChunkType DEF Chunk, RfsTypes, RfsTypeOK
  <2>3. Asked \in MinePackets(Chunk)
    BY <2>2, RfsAssumption DEF Asked, MinePackets, Packet, Packets, RfsTypes, RfsTypeOK
  <2>4. HeadOf(Asked) \in MineUnits(Chunk) /\ BodyOf(Asked) \in MineUnits(Chunk)
    BY <2>3 DEF MineUnits, MinePackets, RfsUnits, HeadOf, BodyOf, Unit
  <2>5. toPC' \in Seq(MineUnits(Chunk)) /\ toBoard' \in Seq(MineUnits(Chunk))
    BY <2>1, <2>4
  <2>6. wrong' = {}
    BY <1>2 DEF SendRequest
  <2> QED
    BY <2>1, <2>2, <2>5, <2>6 DEF LinesMine
<1> QED
  BY <1>1, <1>2, SendCases

LEMMA RecvHeadMine ==
  ASSUME RfsTypes, OnlyMine, RecvHead
  PROVE  OnlyMine'
<1>1. UNCHANGED <<toPC, server, stale, wrong>> /\ client = "head" /\ toBoard # << >>
  BY DEF RecvHead
<1>2. CASE Head(toBoard).part = "head"
  <2>1. /\ client' = "body" /\ resp' = Head(toBoard).packet
        /\ toBoard' = Tail(toBoard) /\ call' = call
    BY <1>2 DEF RecvHead
  <2>2. ASSUME LinesMine(Chunk) PROVE LinesMine(Chunk)'
    <3>1. Chunk' = Chunk
      BY <2>1 DEF Chunk
    <3>2. Head(toBoard) \in MineUnits(Chunk) /\ Tail(toBoard) \in Seq(MineUnits(Chunk))
      BY <1>1, <2>2, TailStays DEF LinesMine
    <3>3. resp' \in MinePackets(Chunk)
      BY <2>1, <3>2 DEF MineUnits
    <3> QED
      BY <1>1, <2>1, <2>2, <3>1, <3>2, <3>3 DEF LinesMine
  <2> QED
    BY <1>1, <2>1, <2>2, MineIfLinesMine
<1>3. CASE Head(toBoard).part # "head"
  <2>1. client' = "idle"
    BY <1>3 DEF RecvHead, Fail, Return
  <2> QED
    BY <1>1, <2>1, MineIfLinesMine
<1> QED
  BY <1>2, <1>3

LEMMA RecvBodyMine ==
  ASSUME RfsTypes, OnlyMine, RecvBody
  PROVE  OnlyMine'
<1>1. client' \notin {"head", "body"}
  BY DEF RecvBody, Answer, AnswerWild, Fail, Return
<1>2. stale' = stale /\ client = "body"
  BY DEF RecvBody
<1>3. CASE wrong' = wrong
  BY <1>1, <1>2, <1>3, MineIfLinesMine
<1>4. CASE wrong' = wrong \cup (IF resp.mine THEN {} ELSE {"foreign"})
                          \cup (IF resp.n > Chunk THEN {"overflow"} ELSE {})
  <2> SUFFICES ASSUME ~stale PROVE wrong' = {}
    BY <1>1, <1>2 DEF OnlyMine
  <2>1. wrong = {} /\ resp \in MinePackets(Chunk)
    BY <1>2 DEF OnlyMine, LinesMine
  <2>2. Chunk \in Int /\ resp.n \in Int
    BY ChunkType DEF RfsTypes, RfsTypeOK, Packets
  <2>3. resp.mine /\ ~(resp.n > Chunk)
    BY <2>1, <2>2 DEF MinePackets
  <2> QED
    BY <1>4, <2>1, <2>3
<1> QED
  BY <1>3, <1>4 DEF RecvBody

LEMMA TimeoutMine ==
  ASSUME OnlyMine, Timeout
  PROVE  OnlyMine'
<1>1. client' = "idle" /\ stale' = stale /\ wrong' = wrong
  BY DEF Timeout, Fail, Return
<1> QED
  BY <1>1, MineIfLinesMine

LEMMA ResetMine ==
  ASSUME OnlyMine, Reset
  PROVE  OnlyMine'
<1>1. client' = "idle" /\ stale' = stale /\ wrong' = wrong
  BY DEF Reset
<1> QED
  BY <1>1, MineIfLinesMine

\* What the server and the line do while the board waits.
LEMMA PCMine ==
  ASSUME RfsTypes, OnlyMine, PC \/ Lose
  PROVE  OnlyMine'
<1>1. UNCHANGED <<client, call, resp, stale, wrong>>
  BY DEF PC, Lose, ServerHead, Execute, Swallow, EchoRequest
<1>2. CASE client \notin {"head", "body"}
  BY <1>1, <1>2, MineIfLinesMine
<1>3. CASE client \in {"head", "body"}
  <2> SUFFICES ASSUME LinesMine(Chunk) PROVE LinesMine(Chunk)'
    BY <1>1, <1>3, MineIfLinesMine
  <2> DEFINE S == MineUnits(Chunk)
  <2>1. Chunk' = Chunk
    BY <1>1 DEF Chunk
  <2>2. toPC \in Seq(S) /\ toBoard \in Seq(S) /\ Closed(S)
    BY MineClosed DEF LinesMine
  <2>3. SUFFICES /\ toPC' \in Seq(S) /\ toBoard' \in Seq(S)
                 /\ server'.at # "head" => server'.req \in MinePackets(Chunk)
    BY <1>1, <2>1 DEF LinesMine
  <2>4. ASSUME NEW q \in MinePackets(Chunk)
        PROVE  Unit("head", q) \in S /\ Unit("body", q) \in S
    BY <2>4 DEF MineUnits, MinePackets, RfsUnits, Unit
  <2>5. Chunk \in 0 .. BUFFER
    BY ChunkType DEF RfsTypes, RfsTypeOK
  <2> HIDE DEF S
  <2>6. CASE ServerHead
    <3>1. NoPacketSent
      BY <2>6 DEF NoPacketSent
    <3>2. Head(toPC) \in S
      BY <2>2, <2>6, TailStays DEF ServerHead
    <3>3. server' = server \/ server'.req = Head(toPC).packet
      BY <2>6 DEF ServerHead, RfsTypes, RfsTypeOK
    <3>4. server'.at # "head" => server'.req \in MinePackets(Chunk)
      BY <3>2, <3>3 DEF S, MineUnits, LinesMine
    <3> QED
      BY <2>2, <3>1, <3>4, LinesStay
  <2>7. CASE Execute
    <3>1. PICK r \in Executions(server.req) :
            toBoard' = toBoard \o Answered([server.req EXCEPT !.kind = "response", !.n = r.n])
      BY <2>7 DEF Execute
    <3> DEFINE q == [server.req EXCEPT !.kind = "response", !.n = r.n]
    <3>2. server.req \in MinePackets(Chunk)
      BY <2>7 DEF Execute, LinesMine
    <3>3. q \in Packets /\ r.n \in -1 .. BUFFER
      BY ExecutionTypes DEF RfsTypes, RfsTypeOK
    <3>4. r.n <= Chunk
      <4>1. server.req.n \in 0 .. BUFFER /\ server.req.n <= Chunk /\ FileLen - pos \in Int
        BY <3>2, RfsAssumption DEF MinePackets, RfsTypes, RfsTypeOK, Packets
      <4>2. r.n \in {-1, 0, Min2(server.req.n, FileLen - pos)}
        BY DEF Executions
      <4> QED
        BY <2>5, <4>1, <4>2, Min2Facts
    <3>5. q \in MinePackets(Chunk)
      BY <3>2, <3>3, <3>4 DEF MinePackets, Packets
    <3>6. toBoard' \in Seq(S)
      <4> HIDE DEF q
      <4> QED
        BY <2>2, <2>4, <3>1, <3>5, AnsweredTypes DEF q
    <3>7. toPC' \in Seq(S) /\ server'.at = "head"
      BY <2>2, <2>7, TailStays DEF Execute, Waiting
    <3> QED
      BY <3>6, <3>7
  <2>8. CASE Swallow
    <3>1. NoPacketSent
      BY <2>8 DEF NoPacketSent
    <3>2. server.at # "head" /\ server'.req = server.req
      BY <2>8 DEF Swallow, RfsTypes, RfsTypeOK
    <3> QED
      BY <2>2, <3>1, <3>2, LinesStay DEF LinesMine
  <2>9. CASE EchoRequest
    <3>1. server.req \in MinePackets(Chunk)
      BY <2>9 DEF EchoRequest, LinesMine
    <3>2. toBoard' \in Seq(S)
      BY <2>2, <2>4, <2>9, <3>1, AnsweredTypes DEF EchoRequest
    <3>3. toPC' \in Seq(S)
      <4>1. CASE toPC' = toPC
        BY <2>2, <4>1
      <4>2. CASE toPC # << >> /\ toPC' = <<Tail4(Head(toPC))>> \o Tail(toPC)
        BY <2>2, <4>2, TailFirst
      <4> QED
        BY <2>9, <4>1, <4>2 DEF EchoRequest
    <3>4. server'.at = "head"
      BY <2>9 DEF EchoRequest, Waiting
    <3> QED
      BY <3>2, <3>3, <3>4
  <2>10. CASE Lose
    <3>1. NoPacketSent /\ server' = server
      BY <2>10 DEF NoPacketSent, Lose
    <3> QED
      BY <2>2, <3>1, LinesStay DEF LinesMine
  <2> QED
    BY <2>6, <2>7, <2>8, <2>9, <2>10 DEF PC
<1> QED
  BY <1>2, <1>3

LEMMA StepMine == RfsTypes /\ OnlyMine /\ [RfsNext]_rfsVars => OnlyMine'
<1> SUFFICES ASSUME RfsTypes, OnlyMine, [RfsNext]_rfsVars PROVE OnlyMine'
  OBVIOUS
<1>1. CASE UNCHANGED rfsVars
  BY <1>1 DEF rfsVars, OnlyMine, LinesMine, Chunk
<1>2. ASSUME NEW c \in Calls, Begin(c) PROVE OnlyMine'
  <2>1. client' = "send" /\ stale' = stale /\ wrong' = wrong
    BY <1>2 DEF Begin
  <2> QED
    BY <2>1, MineIfLinesMine
<1>3. CASE RfsNext
  BY <1>2, <1>3, SendMine, RecvHeadMine, RecvBodyMine, TimeoutMine, ResetMine, PCMine
     DEF RfsNext, Application, Board
<1> QED
  BY <1>1, <1>3

\* The type invariant of the remote file system holds: whatever is lost, both lines
\* hold units of packets, and the position stays within the file (elua_rfs.c,
\* client.c, server.c).
THEOREM RfsTypeCorrect == RfsSpec => []RfsTypeOK
<1>1. RfsTypes => RfsTypeOK
  BY DEF RfsTypes
<1> QED
  BY <1>1, InitTypes, StepTypes, PTL DEF RfsSpec

\* A wrong answer is taken only if something of an old request was left when the
\* present one was sent (client.c:41).
THEOREM RfsAnswersAreMine == RfsSpec => []AnswersAreMine
<1>1. RfsInit => OnlyMine
  BY DEF RfsInit, OnlyMine
<1>2. OnlyMine => AnswersAreMine
  BY DEF OnlyMine, AnswersAreMine
<1> QED
  BY <1>1, <1>2, InitTypes, StepTypes, StepMine, PTL DEF RfsSpec

-----------------------------------------------------------------------------
(* The position of the file *)

\* The position is known before the request is executed, or will be.
KnownBefore == IF call.op = "open" THEN apppos = 0 ELSE pos = apppos

\* The position is known if the answer that reports n bytes arrives.
KnownAfter(n) ==
  /\ call.op = "open" => pos = 0 /\ apppos = 0
  /\ call.op = "lseek" => pos = 0
  /\ call.op = "other" => pos = apppos
  /\ call.op \in Sized => pos = apppos + (IF n = -1 THEN 0 ELSE n)

\* Nothing is on its way.
AtRest == server.at = "head" /\ Quiet /\ pos = apppos

\* The request is on its way, or what the line has left of it.
Requested ==
  /\ client = "head" /\ toBoard = << >> /\ server.at = "head"
  /\ toPC \in {<<HeadOf(Asked), BodyOf(Asked)>>, <<HeadOf(Asked)>>, <<BodyOf(Asked)>>, <<TailOf(Asked)>>, << >>}
  /\ KnownBefore

\* The server has read the size of the request.
Accepted ==
  /\ client = "head" /\ toBoard = << >> /\ server.at = "body" /\ server.req = Asked
  /\ toPC \in {<<BodyOf(Asked)>>, << >>}
  /\ KnownBefore

\* The request has been executed and its answer is on its way.
Executed(n) ==
  /\ toPC = << >> /\ server.at = "head"
  /\ \/ /\ client = "head"
        /\ toBoard \in {<<HeadOf(Reported(n)), BodyOf(Reported(n))>>, <<HeadOf(Reported(n))>>,
                        <<BodyOf(Reported(n))>>, << >>}
     \/ /\ client = "body" /\ resp = Reported(n)
        /\ toBoard \in {<<BodyOf(Reported(n))>>, << >>}
  /\ KnownAfter(n)

\* As long as no request has failed, the position is known, or one request is
\* being served that will tell it.
Known ==
  ~failed => \/ client \in {"idle", "send"} /\ AtRest
             \/ Requested \/ Accepted
             \/ \E n \in -1 .. BUFFER : Executed(n)

\* Lines of one unit or two.
LEMMA OneUnitLine ==
  ASSUME NEW a
  PROVE  /\ <<a>> # << >> /\ Head(<<a>>) = a /\ Tail(<<a>>) = << >>
         /\ \A k \in 1 .. Len(<<a>>) : SubSeq(<<a>>, k + 1, Len(<<a>>)) = << >>
         /\ \A i \in 1 .. Len(<<a>>) : LostAt(<<a>>, i) = << >>
<1>1. Len(<<a>>) = 1 /\ <<a>> \in Seq({a}) /\ 1 .. 1 = {1}
  OBVIOUS
<1>2. /\ <<a>> # << >> /\ Head(<<a>>) = a /\ Tail(<<a>>) = << >>
      /\ \A k \in 1 .. Len(<<a>>) : SubSeq(<<a>>, k + 1, Len(<<a>>)) = << >>
  OBVIOUS
<1>3. SubSeq(<<a>>, 1, 0) = << >> /\ SubSeq(<<a>>, 2, 1) = << >>
  OBVIOUS
<1>4. LostAt(<<a>>, 1) = << >>
  BY <1>1, <1>3 DEF LostAt
<1> QED
  BY <1>1, <1>2, <1>4

LEMMA SingleUnit ==
  ASSUME NEW S, NEW s \in Seq(S), NEW i \in 1 .. Len(s)
  PROVE  SubSeq(s, i, i) = <<s[i]>>
<1> DEFINE t == SubSeq(s, i, i)
<1>1. i \in 1 .. Len(s) + 1 /\ i \in i - 1 .. Len(s)
  OBVIOUS
<1>2. t \in Seq(S) /\ Len(t) = 1 /\ t[1] = s[i]
  BY <1>1
<1>3. <<s[i]>> \in Seq(S) /\ Len(<<s[i]>>) = 1 /\ <<s[i]>>[1] = s[i]
  OBVIOUS
<1> HIDE DEF t
<1>4. \A j \in 1 .. Len(t) : t[j] = <<s[i]>>[j]
  BY <1>2, <1>3
<1>5. t = <<s[i]>>
  BY <1>2, <1>3, <1>4, SeqEqual
<1> QED
  BY <1>5 DEF t

LEMMA TwoUnitLine ==
  ASSUME NEW a, NEW b
  PROVE  /\ <<a, b>> # << >> /\ Head(<<a, b>>) = a /\ Tail(<<a, b>>) = <<b>>
         /\ \A i \in 1 .. Len(<<a, b>>) : LostAt(<<a, b>>, i) \in {<<a>>, <<b>>}
<1> DEFINE s == <<a, b>>
<1>1. s \in Seq({a, b}) /\ Len(s) = 2 /\ s[1] = a /\ s[2] = b
  OBVIOUS
<1>2. s # << >> /\ Head(s) = a /\ Tail(s) = <<b>>
  OBVIOUS
<1> HIDE DEF s
<1>3. SubSeq(s, 1, 0) = << >>
  BY <1>1
<1>4. SubSeq(s, 3, 2) = << >>
  BY <1>1
<1>5. SubSeq(s, 2, 2) = <<b>>
  BY <1>1, SingleUnit
<1>6. SubSeq(s, 1, 1) = <<a>>
  BY <1>1, SingleUnit
<1>7. << >> \o <<b>> = <<b>> /\ <<a>> \o << >> = <<a>>
  OBVIOUS
<1> 1 - 1 = 0 /\ 1 + 1 = 2 /\ 2 - 1 = 1 /\ 2 + 1 = 3
  OBVIOUS
<1>8. LostAt(s, 1) = <<b>>
  BY <1>1, <1>3, <1>5, <1>7, Zenon DEF LostAt
<1>9. LostAt(s, 2) = <<a>>
  BY <1>1, <1>4, <1>6, <1>7, Zenon DEF LostAt
<1>10. 1 .. 2 = {1, 2}
  OBVIOUS
<1>11. \A i \in 1 .. Len(s) : LostAt(s, i) \in {<<a>>, <<b>>}
  BY <1>1, <1>8, <1>9, <1>10
<1> QED
  BY <1>2, <1>11 DEF s

LEMMA AskedUnchanged ==
  ASSUME call' = call
  PROVE  Asked' = Asked /\ \A n : Reported(n)' = Reported(n)
  BY DEF Asked, Reported, Chunk

LEMMA SendKnown ==
  ASSUME RfsTypes, Known, NEW k \in 0 .. Len(toBoard), NEW part \in BOOLEAN, Send(k, part)
  PROVE  Known'
<1> DEFINE left == Emptied(toBoard, k, part).left
<1> SUFFICES ASSUME ~failed' PROVE Requested'
  BY DEF Known
<1>1. client = "send" /\ pos' = pos /\ (part => k < Len(toBoard))
  BY SendCases
<1>2. SendRequest(left, k < Len(toBoard))
  <2>1. ~SendNothing(left)
    BY DEF SendNothing, Fail, Return
  <2> QED
    BY <2>1, SendCases
<1>3. call' = call
  BY <1>2 DEF SendRequest
<1>4. CASE failed
  <2>1. call.op = "open" /\ ~stale' /\ apppos' = 0
    BY <1>2, <1>4, Zenon DEF SendRequest
  <2>2. KnownBefore'
    BY <1>1, <1>3, <2>1 DEF KnownBefore
  <2> QED
    BY <1>1, <1>2, <2>1, <2>2, SentAlone, AskedUnchanged DEF Requested
<1>5. CASE ~failed
  <2>1. AtRest
    BY <1>1, <1>5 DEF Known, Requested, Accepted, Executed
  <2>2. ~stale'
    <3>1. k = 0 /\ Len(toBoard) = 0
      BY <2>1 DEF AtRest, Quiet
    <3>2. server.at = "head" /\ toPC = << >>
      BY <2>1 DEF AtRest, Quiet
    <3>3. ~(server.at # "head" \/ toPC # << >> \/ k < Len(toBoard))
      BY <3>1, <3>2
    <3> QED
      BY <1>2, <3>3, Zenon DEF SendRequest
  <2>3. IF call.op = "open" THEN apppos' = 0 ELSE apppos' = apppos
    BY <1>2, <2>2, Zenon DEF SendRequest
  <2>4. KnownBefore'
    BY <1>1, <1>3, <2>1, <2>3 DEF KnownBefore, AtRest
  <2> QED
    BY <1>1, <1>2, <2>2, <2>4, SentAlone, AskedUnchanged DEF Requested
<1> QED
  BY <1>4, <1>5

LEMMA RecvHeadKnown ==
  ASSUME RfsTypes, Known, RecvHead
  PROVE  Known'
<1> SUFFICES ASSUME ~failed' PROVE \E n \in -1 .. BUFFER : Executed(n)'
  BY DEF Known
<1>1. /\ client = "head" /\ toBoard # << >>
      /\ UNCHANGED <<toPC, server, pos>>
  BY DEF RecvHead
<1>2. /\ Head(toBoard).part = "head"
      /\ client' = "body" /\ resp' = Head(toBoard).packet
      /\ toBoard' = Tail(toBoard)
      /\ call' = call /\ apppos' = apppos /\ failed' = failed
  BY DEF RecvHead, Fail, Return
<1>3. PICK n \in -1 .. BUFFER : Executed(n)
  BY <1>1, <1>2 DEF Known, AtRest, Requested, Accepted
<1> DEFINE q == Reported(n)
<1>4. Reported(n)' = q
  BY <1>2, AskedUnchanged
<1>5. HeadOf(q).part = "head" /\ HeadOf(q).packet = q /\ BodyOf(q).part = "body"
  BY DEF HeadOf, BodyOf, Unit
<1>6. resp' = q /\ toBoard' \in {<<BodyOf(q)>>, << >>}
  <2>1. toBoard \in {<<HeadOf(q), BodyOf(q)>>, <<HeadOf(q)>>, <<BodyOf(q)>>}
    BY <1>1, <1>3 DEF Executed
  <2> HIDE DEF q
  <2>2. Head(toBoard) = HeadOf(q) /\ Tail(toBoard) \in {<<BodyOf(q)>>, << >>}
    <3>1. CASE toBoard = <<HeadOf(q), BodyOf(q)>>
      BY <3>1, TwoUnitLine
    <3>2. CASE toBoard = <<HeadOf(q)>>
      BY <3>2, OneUnitLine
    <3>3. CASE toBoard = <<BodyOf(q)>>
      BY <1>2, <1>5, <3>3, OneUnitLine
    <3> QED
      BY <2>1, <3>1, <3>2, <3>3
  <2> QED
    BY <1>2, <1>5, <2>2
<1>7. KnownAfter(n)'
  BY <1>1, <1>2, <1>3 DEF Executed, KnownAfter
<1>8. Executed(n)'
  BY <1>1, <1>2, <1>3, <1>4, <1>6, <1>7 DEF Executed
<1> QED
  BY <1>8

LEMMA RecvBodyKnown ==
  ASSUME RfsTypes, Known, RecvBody
  PROVE  Known'
<1> SUFFICES ASSUME ~failed' PROVE client' \in {"idle", "send"} /\ AtRest'
  BY DEF Known
<1>1. client = "body" /\ toBoard # << >> /\ UNCHANGED <<toPC, server, pos>>
  BY DEF RecvBody
<1>2. /\ toBoard' = Tail(toBoard)
      /\ Answer(resp)
  BY DEF RecvBody, AnswerWild, Fail, Return
<1>3. ~failed
  BY <1>2 DEF Answer, Return
<1>4. PICK n \in -1 .. BUFFER : Executed(n)
  BY <1>1, <1>3 DEF Known, AtRest, Requested, Accepted
<1>5. toBoard = <<BodyOf(Reported(n))>> /\ resp = Reported(n) /\ resp.n = n
  BY <1>1, <1>4 DEF Executed, Reported, Packet
<1>6. toBoard' = << >> /\ toPC' = << >> /\ server'.at = "head"
  BY <1>1, <1>2, <1>4, <1>5, OneUnitLine DEF Executed
<1>7. KnownAfter(n) /\ pos' = pos
  BY <1>1, <1>4 DEF Executed
<1>8. pos \in Int /\ apppos \in Int /\ n \in Int /\ call.op \in Ops /\ Chunk \in Nat
  BY ChunkType DEF RfsTypes, RfsTypeOK
<1>9. client' \in {"idle", "send"} /\ pos' = apppos'
  <2>1. CASE call.op \in Sized /\ n >= Chunk /\ call.len > Chunk
    <3>1. client' = "send" /\ apppos' = apppos + n
      BY <1>2, <1>3, <1>5, <2>1, Zenon DEF Answer
    <3> QED
      BY <1>7, <1>8, <2>1, <3>1 DEF KnownAfter
  <2>2. CASE ~(call.op \in Sized /\ n >= Chunk /\ call.len > Chunk)
    <3> DEFINE m == IF call.op \in Sized /\ n # -1 THEN n ELSE 0
    <3>1. Return(m, TRUE)
      BY <1>2, <1>5, <2>2, Zenon DEF Answer
    <3>2. client' = "idle" /\ apppos' = IF call.op = "lseek" THEN 0 ELSE apppos + m
      BY <3>1, Zenon DEF Return
    <3> QED
      BY <1>7, <1>8, <3>2 DEF KnownAfter, Ops, Sized
  <2> QED
    BY <2>1, <2>2
<1> QED
  BY <1>6, <1>9 DEF AtRest, Quiet

LEMMA ServerHeadKnown ==
  ASSUME RfsTypes, Known, ServerHead
  PROVE  Known'
<1> SUFFICES ASSUME ~failed' PROVE Requested' \/ Accepted'
  BY DEF Known
<1>1. /\ server.at = "head" /\ toPC # << >>
      /\ UNCHANGED <<client, call, resp, toBoard, pos, apppos, failed>>
  BY DEF ServerHead, fileVars
<1>2. Requested
  BY <1>1 DEF Known, AtRest, Quiet, Accepted, Executed
<1>3. KnownBefore' /\ Asked' = Asked
  BY <1>1, <1>2, AskedUnchanged DEF Requested, KnownBefore
<1>4. /\ HeadOf(Asked).part = "head" /\ HeadOf(Asked).packet = Asked
      /\ BodyOf(Asked).part = "body" /\ TailOf(Asked).part = "tail"
      /\ Tail4(BodyOf(Asked)) = TailOf(Asked)
  BY DEF HeadOf, BodyOf, TailOf, Unit, Tail4
<1>5. CASE Head(toPC).part = "head"
  <2>1. Head(toPC) = HeadOf(Asked) /\ Tail(toPC) \in {<<BodyOf(Asked)>>, << >>}
    <3>1. CASE toPC = <<HeadOf(Asked), BodyOf(Asked)>>
      BY <3>1, TwoUnitLine
    <3>2. CASE toPC = <<HeadOf(Asked)>>
      BY <3>2, OneUnitLine
    <3>3. CASE toPC = <<BodyOf(Asked)>>
      BY <1>4, <1>5, <3>3, OneUnitLine
    <3>4. CASE toPC = <<TailOf(Asked)>>
      BY <1>4, <1>5, <3>4, OneUnitLine
    <3> QED
      BY <1>1, <1>2, <3>1, <3>2, <3>3, <3>4 DEF Requested
  <2>2. server'.at = "body" /\ server'.req = Asked /\ toPC' = Tail(toPC)
    BY <1>4, <1>5, <2>1 DEF ServerHead, RfsTypes, RfsTypeOK
  <2> QED
    BY <1>1, <1>2, <1>3, <2>1, <2>2 DEF Accepted, Requested
<1>6. CASE Head(toPC).part # "head"
  <2>1. toPC = <<BodyOf(Asked)>> \/ toPC = <<TailOf(Asked)>>
    BY <1>1, <1>2, <1>4, <1>6, OneUnitLine, TwoUnitLine DEF Requested
  <2>2. server' = server
    BY <1>6 DEF ServerHead
  <2>3. \/ \E k \in 1 .. Len(toPC) : toPC' = SubSeq(toPC, k + 1, Len(toPC))
        \/ Head(toPC).part = "body" /\ toPC' = <<Tail4(Head(toPC))>> \o Tail(toPC)
    BY <1>6 DEF ServerHead
  <2>4. toPC' = << >> \/ toPC' = <<TailOf(Asked)>>
    <3>1. CASE \E k \in 1 .. Len(toPC) : toPC' = SubSeq(toPC, k + 1, Len(toPC))
      BY <2>1, <3>1, OneUnitLine
    <3>2. CASE Head(toPC).part = "body" /\ toPC' = <<Tail4(Head(toPC))>> \o Tail(toPC)
      <4>1. Head(toPC) = BodyOf(Asked) /\ Tail(toPC) = << >>
        BY <1>4, <2>1, <3>2, OneUnitLine
      <4>2. <<TailOf(Asked)>> \o << >> = <<TailOf(Asked)>>
        OBVIOUS
      <4> QED
        BY <1>4, <3>2, <4>1, <4>2
    <3> QED
      BY <2>3, <3>1, <3>2
  <2> QED
    BY <1>1, <1>2, <1>3, <2>2, <2>4 DEF Requested
<1> QED
  BY <1>5, <1>6

\* What the server reports is what it has done to the position.
LEMMA ExecutionKnown ==
  ASSUME RfsTypes, KnownBefore, NEW r \in Executions(Asked), pos' = r.pos,
         call' = call, apppos' = apppos
  PROVE  KnownAfter(r.n)'
<1> DEFINE m == Min2(Chunk, FileLen - pos)
<1>1. Chunk \in Nat /\ FileLen - pos \in Nat /\ pos \in Nat /\ apppos \in Nat /\ call.op \in Ops
  BY ChunkType, RfsAssumption DEF RfsTypes, RfsTypeOK
<1>2. m \in Nat
  BY <1>1, Min2Facts
<1>3. Asked.op = call.op /\ Asked.n = Chunk
  BY DEF Asked, Packet
<1> HIDE DEF m
<1>4. CASE call.op \in Sized
  <2>1. r = [n |-> m, pos |-> pos + m] \/ r = [n |-> -1, pos |-> pos]
    BY <1>3, <1>4 DEF Executions, Sized, m
  <2>2. r.pos = pos + (IF r.n = -1 THEN 0 ELSE r.n) /\ r.n \in Int
    BY <1>1, <1>2, <2>1
  <2>3. pos = apppos /\ call.op \notin {"open", "lseek", "other"}
    BY <1>4 DEF KnownBefore, Sized
  <2>4. pos' = apppos' + (IF r.n = -1 THEN 0 ELSE r.n)
    BY <2>2, <2>3
  <2> QED
    BY <1>4, <2>3, <2>4 DEF KnownAfter
<1>5. CASE call.op \notin Sized
  <2>1. r = [n |-> 0, pos |-> IF call.op = "other" THEN pos ELSE 0]
    BY <1>3, <1>5 DEF Executions, Sized
  <2>2. r.n = 0 /\ r.pos = IF call.op = "other" THEN pos ELSE 0
    BY <2>1
  <2>3. call.op \in {"open", "lseek", "other"}
    BY <1>1, <1>5 DEF Ops
  <2> QED
    BY <1>5, <2>2, <2>3 DEF KnownAfter, KnownBefore
<1> QED
  BY <1>4, <1>5

LEMMA ResponseOf ==
  ASSUME NEW n
  PROVE  [Asked EXCEPT !.kind = "response", !.n = n] = Reported(n)
<1>1. ASSUME NEW o, NEW m, NEW x
      PROVE  [[kind |-> "request", op |-> o, n |-> m, mine |-> x]
                EXCEPT !.kind = "response", !.n = n]
             = [kind |-> "response", op |-> o, n |-> n, mine |-> x]
  <2>1. [[kind |-> "request", op |-> o, n |-> m, mine |-> x] EXCEPT !.kind = "response"]
        = [kind |-> "response", op |-> o, n |-> m, mine |-> x]
    OBVIOUS
  <2>2. [[kind |-> "response", op |-> o, n |-> m, mine |-> x] EXCEPT !.n = n]
        = [kind |-> "response", op |-> o, n |-> n, mine |-> x]
    OBVIOUS
  <2> QED
    BY <2>1, <2>2
<1> QED
  BY <1>1, Zenon DEF Asked, Reported, Packet

LEMMA ExecuteKnown ==
  ASSUME RfsTypes, Known, Execute
  PROVE  Known'
<1> SUFFICES ASSUME ~failed' PROVE \E n \in -1 .. BUFFER : Executed(n)'
  BY DEF Known
<1>1. /\ server.at = "body" /\ toPC # << >> /\ toPC' = Tail(toPC) /\ server' = Waiting
      /\ UNCHANGED <<client, call, apppos, failed>>
  BY DEF Execute
<1>2. Accepted
  BY <1>1 DEF Known, AtRest, Requested, Executed
<1>3. PICK r \in Executions(server.req) :
        /\ pos' = r.pos
        /\ toBoard' = toBoard \o Answered([server.req EXCEPT !.kind = "response", !.n = r.n])
  BY DEF Execute
<1>4. server.req = Asked /\ toBoard = << >> /\ client = "head" /\ KnownBefore
  BY <1>2 DEF Accepted
<1>5. r.n \in -1 .. BUFFER
  BY ExecutionTypes DEF RfsTypes, RfsTypeOK
<1>6. [server.req EXCEPT !.kind = "response", !.n = r.n] = Reported(r.n)
  BY <1>4, ResponseOf
<1>7. toBoard' = <<HeadOf(Reported(r.n)), BodyOf(Reported(r.n))>>
  BY <1>3, <1>4, <1>6 DEF Answered, HeadOf, BodyOf
<1>8. KnownAfter(r.n)'
  BY <1>1, <1>3, <1>4, ExecutionKnown
<1>9. toPC' = << >>
  BY <1>1, <1>2, OneUnitLine DEF Accepted
<1>10. server'.at = "head"
  BY <1>1 DEF Waiting
<1>11. Reported(r.n)' = Reported(r.n)
  BY <1>1, AskedUnchanged
<1>12. Executed(r.n)'
  BY <1>1, <1>4, <1>7, <1>8, <1>9, <1>10, <1>11 DEF Executed
<1> QED
  BY <1>5, <1>12

LEMMA LoseKnown ==
  ASSUME Known, Lose
  PROVE  Known'
<1> SUFFICES ASSUME ~failed' PROVE Requested' \/ Accepted' \/ \E n \in -1 .. BUFFER : Executed(n)'
  BY DEF Known
<1>1. UNCHANGED <<client, call, resp, server, pos, apppos, failed>>
  BY DEF Lose, fileVars
<1>2. \/ (\E i \in 1 .. Len(toPC) : toPC' = LostAt(toPC, i)) /\ toBoard' = toBoard
      \/ (\E i \in 1 .. Len(toBoard) : toBoard' = LostAt(toBoard, i)) /\ toPC' = toPC
  BY DEF Lose
<1>3. Asked' = Asked /\ \A n : Reported(n)' = Reported(n)
  BY <1>1, AskedUnchanged
<1>4. Len(<< >>) = 0 /\ 1 .. 0 = {}
  OBVIOUS
<1>5. CASE AtRest
  BY <1>2, <1>4, <1>5 DEF AtRest, Quiet
<1>6. CASE Requested
  <2>1. toBoard = << >>
    BY <1>6 DEF Requested
  <2>2. toBoard' = << >> /\ \E i \in 1 .. Len(toPC) : toPC' = LostAt(toPC, i)
    BY <1>2, <1>4, <2>1
  <2>3. toPC' \in {<<HeadOf(Asked)>>, <<BodyOf(Asked)>>, << >>}
    <3>1. CASE toPC = <<HeadOf(Asked), BodyOf(Asked)>>
      BY <2>2, <3>1, TwoUnitLine
    <3>2. CASE toPC = <<HeadOf(Asked)>> \/ toPC = <<BodyOf(Asked)>> \/ toPC = <<TailOf(Asked)>>
      BY <2>2, <3>2, OneUnitLine
    <3>3. CASE toPC = << >>
      BY <1>4, <2>2, <3>3
    <3> QED
      BY <1>6, <3>1, <3>2, <3>3 DEF Requested
  <2> QED
    BY <1>1, <1>3, <1>6, <2>2, <2>3 DEF Requested, KnownBefore
<1>7. CASE Accepted
  <2>1. toBoard' = << >> /\ toPC' = << >>
    BY <1>2, <1>4, <1>7, OneUnitLine DEF Accepted
  <2> QED
    BY <1>1, <1>3, <1>7, <2>1 DEF Accepted, KnownBefore
<1>8. ASSUME NEW n \in -1 .. BUFFER, Executed(n) PROVE Executed(n)'
  <2> DEFINE q == Reported(n)
  <2>1. toPC = << >>
    BY <1>8 DEF Executed
  <2>2. toPC' = << >> /\ \E i \in 1 .. Len(toBoard) : toBoard' = LostAt(toBoard, i)
    BY <1>2, <1>4, <2>1
  <2>3. KnownAfter(n)' /\ Reported(n)' = q
    BY <1>1, <1>3, <1>8 DEF Executed, KnownAfter
  <2>4. CASE /\ client = "head"
             /\ toBoard \in {<<HeadOf(q), BodyOf(q)>>, <<HeadOf(q)>>, <<BodyOf(q)>>, << >>}
    <3> HIDE DEF q
    <3>1. toBoard' \in {<<HeadOf(q)>>, <<BodyOf(q)>>, << >>}
      <4>1. CASE toBoard = <<HeadOf(q), BodyOf(q)>>
        BY <2>2, <4>1, TwoUnitLine
      <4>2. CASE toBoard = <<HeadOf(q)>> \/ toBoard = <<BodyOf(q)>>
        BY <2>2, <4>2, OneUnitLine
      <4>3. CASE toBoard = << >>
        BY <1>4, <2>2, <4>3
      <4> QED
        BY <2>4, <4>1, <4>2, <4>3
    <3> QED
      BY <1>1, <1>8, <2>2, <2>3, <2>4, <3>1 DEF Executed
  <2>5. CASE client = "body" /\ resp = q /\ toBoard \in {<<BodyOf(q)>>, << >>}
    <3> HIDE DEF q
    <3>1. toBoard' = << >>
      BY <1>4, <2>2, <2>5, OneUnitLine
    <3> QED
      BY <1>1, <1>8, <2>2, <2>3, <2>5, <3>1 DEF Executed
  <2> QED
    BY <1>8, <2>4, <2>5 DEF Executed
<1> QED
  BY <1>1, <1>5, <1>6, <1>7, <1>8 DEF Known

LEMMA StepKnown == RfsTypes /\ Known /\ [RfsNext]_rfsVars => Known'
<1> SUFFICES ASSUME RfsTypes, Known, [RfsNext]_rfsVars PROVE Known'
  OBVIOUS
<1>1. CASE UNCHANGED rfsVars
  BY <1>1 DEF rfsVars, Known, AtRest, Quiet, Requested, Accepted, Executed, KnownBefore,
     KnownAfter, Asked, Reported, Chunk
<1>2. ASSUME NEW c \in Calls, Begin(c) PROVE Known'
  <2>1. /\ client = "idle" /\ client' = "send"
        /\ UNCHANGED <<toPC, toBoard, server, pos, apppos, failed>>
    BY <1>2 DEF Begin, fileVars
  <2>2. ~failed => AtRest
    BY <2>1 DEF Known, Requested, Accepted, Executed
  <2> QED
    BY <2>1, <2>2 DEF Known, AtRest, Quiet
<1>3. ASSUME Timeout PROVE Known'
  BY <1>3 DEF Timeout, Fail, Return, Known
<1>4. ASSUME Swallow PROVE Known'
  <2>1. failed' = failed
    BY <1>4 DEF Swallow, fileVars
  <2>2. ASSUME ~failed PROVE FALSE
    <3>1. Accepted /\ toPC # << >>
      BY <1>4, <2>2 DEF Swallow, Known, AtRest, Requested, Executed, Accepted
    <3>2. Head(toPC) = Unit("body", server.req) /\ server.at = "body"
      BY <3>1, OneUnitLine DEF Accepted, BodyOf
    <3> QED
      BY <1>4, <3>2 DEF Swallow
  <2> QED
    BY <2>1, <2>2 DEF Known
<1>5. ASSUME EchoRequest PROVE Known'
  <2>1. failed' = failed /\ server.at = "junk"
    BY <1>5 DEF EchoRequest, fileVars
  <2> QED
    BY <2>1 DEF Known, AtRest, Requested, Accepted, Executed
<1>6. ASSUME Reset PROVE Known'
  BY <1>6 DEF Reset, fileVars, Known, Requested, Accepted, Executed
<1>7. CASE RfsNext
  BY <1>2, <1>3, <1>4, <1>5, <1>6, <1>7, SendKnown, RecvHeadKnown, RecvBodyKnown, ServerHeadKnown,
     ExecuteKnown, LoseKnown DEF RfsNext, Application, Board, PC
<1> QED
  BY <1>1, <1>7

\* As long as no request has failed, the application knows the position of its
\* file: nothing is executed twice, and what an answer reports is what was done,
\* through short answers, errors of the server and calls cut into several requests
\* (elua_rfs.c:49-96, server.c).
THEOREM RfsPositionKnown == RfsSpec => []PositionKnown
<1>1. RfsInit => Known
  BY DEF RfsInit, Known, AtRest, Quiet, Waiting
<1>2. Known => PositionKnown
  BY DEF Known, AtRest, Requested, Accepted, Executed, PositionKnown
<1> QED
  BY <1>1, <1>2, InitTypes, StepTypes, StepKnown, PTL DEF RfsSpec
=============================================================================
