----------------------------- MODULE RingBuffer -----------------------------
(***************************************************************************)
(* The buffers between the receive interrupts and the programs of eLua     *)
(* (src/src/buf.c).  The interrupt writes (buf_write), the program reads   *)
(* (buf_read) in steps: it looks at count and copies the element, it loads *)
(* count and stores it decremented while the interrupts are disabled, and  *)
(* it advances rptr when they are enabled again.                           *)
(*                                                                         *)
(* Sizes and indices are counted in elements: logdsize only scales them.   *)
(* queue and overrun are history: what has been accepted and not yet been  *)
(* read, and whether an element was accepted by a buffer that was full     *)
(* (the test of buf_write lets one more in).                               *)
(***************************************************************************)
EXTENDS Naturals, Sequences

CONSTANTS
  Bufs,     \* the buffered resources (BUF_ID_UART, resnum)
  Data,     \* the elements (t_buf_data)
  SIZE,     \* BUF_REALSIZE: elements of a buffer
  None      \* no buffer, no element

ASSUME RingAssumption == /\ SIZE \in Nat \ {0}
                         /\ None \notin Bufs
                         /\ None \notin Data

VARIABLES
  desc,     \* buf_desc of each resource
  reader,   \* the buf_read under way: its buffer, next step, copy, loaded count
  queue,    \* history: the elements accepted and not yet taken off count
  overrun   \* history: an element was accepted when SIZE were already there

ringVars == <<desc, reader, queue, overrun>>

Index == 0..SIZE - 1

Desc == [wptr : Index, rptr : Index, count : 0..SIZE + 1,
         buf : [Index -> Data \cup {None}]]

RingTypeOK ==
  /\ desc \in [Bufs -> Desc]
  /\ reader \in [b : Bufs \cup {None}, step : {"idle", "load", "store", "incr"},
                 data : Data \cup {None}, n : 0..SIZE + 1]
  /\ reader.b = None <=> reader.step = "idle"
  /\ queue \in [Bufs -> Seq(Data)]
  /\ overrun \in [Bufs -> BOOLEAN]

-----------------------------------------------------------------------------
EmptyDesc == [wptr |-> 0, rptr |-> 0, count |-> 0, buf |-> [i \in Index |-> None]]

NoReader == [b |-> None, step |-> "idle", data |-> None, n |-> 0]

RingInit ==
  /\ desc = [b \in Bufs |-> EmptyDesc]
  /\ reader = NoReader
  /\ queue = [b \in Bufs |-> <<>>]
  /\ overrun = [b \in Bufs |-> FALSE]

(* BUF_MOD_INCR.                                                           *)
Incr(i) == IF i = SIZE - 1 THEN 0 ELSE i + 1

(* Mutant of InterruptsEnabled: buf_read leaves them enabled.              *)
InterruptsAlways == TRUE

(* platform_cpu_set_global_interrupts: buf_read disables the interrupts    *)
(* while it decrements count.                                              *)
InterruptsEnabled == reader.step # "store"

(* What buf_write makes of a descriptor that takes the element x.          *)
Stored(d, x) == [wptr |-> Incr(d.wptr), rptr |-> d.rptr, count |-> d.count + 1,
                 buf |-> [d.buf EXCEPT ![d.wptr] = x]]

(* buf_write: an element is refused only when count is above the size.     *)
BufWrite(b, x) ==
  IF desc[b].count > SIZE
  THEN UNCHANGED <<desc, queue, overrun>>
  ELSE /\ desc' = [desc EXCEPT ![b] = Stored(@, x)]
       /\ queue' = [queue EXCEPT ![b] = Append(@, x)]
       /\ overrun' = [overrun EXCEPT ![b] = @ \/ desc[b].count >= SIZE]

(* Mutant of ReadCopy: the element behind the oldest one.                  *)
ReadCopyNext(b) ==
  /\ reader.step = "idle"
  /\ desc[b].count # 0
  /\ reader' = [b |-> b, step |-> "load", n |-> 0,
                 data |-> desc[b].buf[Incr(desc[b].rptr)]]
  /\ UNCHANGED <<desc, queue, overrun>>

(* buf_read, up to the copy; an empty buffer is PLATFORM_UNDERFLOW, and    *)
(* nothing changes.                                                        *)
ReadCopy(b) ==
  /\ reader.step = "idle"
  /\ desc[b].count # 0
  /\ reader' = [b |-> b, step |-> "load", n |-> 0,
                 data |-> desc[b].buf[desc[b].rptr]]
  /\ UNCHANGED <<desc, queue, overrun>>

(* buf_read: the interrupts are disabled, and count is loaded.             *)
ReadLoad ==
  /\ reader.step = "load"
  /\ reader' = [reader EXCEPT !.step = "store", !.n = desc[reader.b].count]
  /\ UNCHANGED <<desc, queue, overrun>>

(* buf_read: the decremented count is stored; the element has left.        *)
ReadStore ==
  /\ reader.step = "store"
  /\ desc' = [desc EXCEPT ![reader.b].count = reader.n - 1]
  /\ queue' = [queue EXCEPT ![reader.b] = Tail(@)]
  /\ reader' = [reader EXCEPT !.step = "incr"]
  /\ UNCHANGED overrun

(* buf_read, the interrupts enabled again.                                 *)
ReadIncr ==
  /\ reader.step = "incr"
  /\ desc' = [desc EXCEPT ![reader.b].rptr = Incr(@)]
  /\ reader' = NoReader
  /\ UNCHANGED <<queue, overrun>>

RingNext ==
  \/ /\ InterruptsEnabled
     /\ \E b \in Bufs, x \in Data : BufWrite(b, x)
     /\ UNCHANGED reader
  \/ \E b \in Bufs : ReadCopy(b)
  \/ ReadLoad
  \/ ReadStore
  \/ ReadIncr

RingSpec == RingInit /\ [][RingNext]_ringVars

-----------------------------------------------------------------------------
(* Until a buffer is overrun, the element buf_read has copied is the       *)
(* oldest one that was accepted, whatever the interrupt wrote since.       *)
ReadsOldest ==
  reader.step \in {"load", "store"} /\ ~ overrun[reader.b] =>
    /\ queue[reader.b] # <<>>
    /\ reader.data = Head(queue[reader.b])

(* count is the number of elements accepted and not yet read: neither an   *)
(* increment of the interrupt nor a decrement of the program is lost.      *)
CountIsExact == \A b \in Bufs : desc[b].count = Len(queue[b])

(* The place i elements after the place p, for i up to SIZE.               *)
Place(p, i) == IF p + i < SIZE THEN p + i ELSE p + i - SIZE

(* Where the oldest element is: rptr lags behind while buf_read ends.      *)
Oldest(b) == IF reader.step = "incr" /\ reader.b = b
             THEN Incr(desc[b].rptr) ELSE desc[b].rptr

(* Until a buffer is overrun, what was accepted and not yet read lies from *)
(* the oldest element on, in order, and the next one goes behind it.       *)
HoldsQueue ==
  \A b \in Bufs : ~ overrun[b] =>
    /\ Len(queue[b]) <= SIZE
    /\ desc[b].wptr = Place(Oldest(b), Len(queue[b]))
    /\ \A i \in 1..Len(queue[b]) :
         desc[b].buf[Place(Oldest(b), i - 1)] = queue[b][i]
=============================================================================
