--------------------------- MODULE EluaIntProofs ----------------------------
(***************************************************************************)
(* Proofs about EluaInt, for every size of the queue and any sources: the  *)
(* queue keeps the order of the interrupts and the hook is never missing   *)
(* while something is queued.  And about VirtualTimers, for every number   *)
(* of timers and all periods: the same of the interrupts of the timers,    *)
(* several of which one tick may queue, and a timer set for one shot fires *)
(* once.                                                                   *)
(***************************************************************************)
EXTENDS VirtualTimers, WellFoundedInduction, TLAPS

Queue == [slot : [Slots -> Element \cup {NoElement}], writeIdx : Slots, hook : BOOLEAN,
          pending : Seq(Element)]

(* QueueSound, of a queue q, with what the steps of the hook and of        *)
(* elua_int_add rely on: the write index is behind the queue, and a queued *)
(* element has its hook.                                                   *)
AlignedQueue(q) ==
  /\ Len(q.pending) <= QSIZE
  /\ \A i \in 1..QSIZE :
       q.slot[SlotAt(OldestSlot, i - 1)] =
         IF i <= Len(q.pending) THEN q.pending[i] ELSE NoElement
  /\ q.writeIdx = SlotAt(OldestSlot, Len(q.pending))
  /\ q.pending # <<>> => q.hook

(* The hook only decides to clear itself when nothing is queued.           *)
Aligned == AlignedQueue(intq) /\ (hk.step = "clear" => intq.pending = <<>>)

(* The inductive invariant.                                                *)
IntInv == IntTypeOK /\ (~ slipped => Aligned)

-----------------------------------------------------------------------------
(* The arithmetic of the queue.                                            *)
LEMMA SlotType ==
  ASSUME NEW p \in Slots, NEW i \in 0..QSIZE
  PROVE  SlotAt(p, i) \in Slots
  BY IntAssumption DEF SlotAt, Slots

LEMMA NextType ==
  ASSUME NEW p \in Slots
  PROVE  NextIdx(p) \in Slots
  BY IntAssumption DEF NextIdx, Slots

LEMMA NextSlot ==
  ASSUME NEW p \in Slots, NEW i \in 0..QSIZE - 1
  PROVE  /\ NextIdx(SlotAt(p, i)) = SlotAt(p, i + 1)
         /\ SlotAt(NextIdx(p), i) = SlotAt(p, i + 1)
  BY IntAssumption DEF NextIdx, SlotAt, Slots

LEMMA SlotEnds ==
  ASSUME NEW p \in Slots
  PROVE  SlotAt(p, 0) = p /\ SlotAt(p, QSIZE) = p
  BY IntAssumption DEF SlotAt, Slots

LEMMA SlotInjective ==
  ASSUME NEW p \in Slots, NEW i \in 0..QSIZE - 1, NEW j \in 0..QSIZE - 1, i # j
  PROVE  SlotAt(p, i) # SlotAt(p, j)
  BY IntAssumption DEF SlotAt, Slots

(* Every slot is counted.                                                  *)
LEMMA SlotSurjective ==
  ASSUME NEW p \in Slots, NEW s \in Slots
  PROVE  \E i \in 1..QSIZE : SlotAt(p, i - 1) = s
  <1>1. CASE s >= p
    <2>1. s - p + 1 \in 1..QSIZE /\ SlotAt(p, (s - p + 1) - 1) = s
      BY <1>1, IntAssumption DEF SlotAt, Slots
    <2> QED BY <2>1
  <1>2. CASE s < p
    <2>1. s - p + QSIZE + 1 \in 1..QSIZE /\ SlotAt(p, (s - p + QSIZE + 1) - 1) = s
      BY <1>2, IntAssumption DEF SlotAt, Slots
    <2> QED BY <2>1
  <1> QED BY <1>1, <1>2, IntAssumption DEF Slots

(* An interrupt is told from an empty slot.                                *)
LEMMA ElementNotEmpty == NoElement \notin Element
  BY IntAssumption DEF NoElement, Element

LEMMA OldestSlotType ==
  ASSUME IntTypeOK
  PROVE  OldestSlot \in Slots
  BY NextType DEF IntTypeOK, OldestSlot

-----------------------------------------------------------------------------
LEMMA InitInt == IntInit => IntInv
  <1> SUFFICES ASSUME IntInit PROVE IntInv
    OBVIOUS
  <1> USE IntAssumption DEF IntInit, EmptyQueue, NoHook
  <1>1. IntTypeOK
    <2>1. 0 \in Slots /\ <<>> \in Seq(Element)
      BY DEF Slots
    <2>2. [i \in Slots |-> NoElement] \in [Slots -> Element \cup {NoElement}]
      OBVIOUS
    <2> QED BY <2>1, <2>2 DEF IntTypeOK
  <1>2. OldestSlot = 0
    BY DEF OldestSlot
  <1>3. \A i \in 1..QSIZE : SlotAt(0, i - 1) \in Slots
    <2> TAKE i \in 1..QSIZE
    <2>1. 0 \in Slots /\ i - 1 \in 0..QSIZE
      BY DEF Slots
    <2> QED BY <2>1, SlotType
  <1>4. Aligned
    <2>1. intq.writeIdx = SlotAt(OldestSlot, Len(intq.pending))
      BY <1>2 DEF SlotAt
    <2>2. ASSUME NEW i \in 1..QSIZE
          PROVE  intq.slot[SlotAt(OldestSlot, i - 1)] =
                   IF i <= Len(intq.pending) THEN intq.pending[i] ELSE NoElement
      <3>1. Len(intq.pending) = 0 /\ ~ (i <= 0)
        OBVIOUS
      <3>2. intq.slot[SlotAt(0, i - 1)] = NoElement
        BY <1>3
      <3> QED BY <3>1, <3>2, <1>2
    <2>3. /\ Len(intq.pending) <= QSIZE /\ intq.pending = <<>>
          /\ hk.step = "clear" => intq.pending = <<>>
      OBVIOUS
    <2> QED BY <2>1, <2>2, <2>3, Zenon DEF Aligned, AlignedQueue
  <1> QED BY <1>1, <1>4 DEF IntInv

(* elua_int_add keeps a queue aligned.                                     *)
LEMMA QueuedKeeps ==
  ASSUME IntTypeOK, NEW r \in Queue, ~ slipped => AlignedQueue(r), NEW e \in Element
  PROVE  Queued(r, e) \in Queue /\ (~ slipped => AlignedQueue(Queued(r, e)))
  <1> DEFINE q == r.pending
             w == r.writeIdx
             n == Queued(r, e)
  <1>1. CASE n = r
    BY <1>1
  <1>2. CASE /\ n = [slot |-> [r.slot EXCEPT ![w] = e], writeIdx |-> NextIdx(w),
                     hook |-> TRUE, pending |-> Append(q, e)]
             /\ r.slot[w] = NoElement
    <2> HIDE DEF n
    <2>1. q \in Seq(Element) /\ w \in Slots /\ r.slot \in [Slots -> Element \cup {NoElement}]
      BY DEF Queue
    <2>2. n \in Queue
      BY <1>2, <2>1, NextType DEF Queue
    <2>3. ASSUME ~ slipped PROVE AlignedQueue(n)
      <3> DEFINE o == OldestSlot
      <3>1. o \in Slots
        BY OldestSlotType
      <3>2. AlignedQueue(r)
        BY <2>3
      <3>3. Len(q) \in Nat /\ Len(q) <= QSIZE /\ w = SlotAt(o, Len(q)) /\ QSIZE \in Nat \ {0}
        BY <3>2, <2>1, IntAssumption DEF AlignedQueue
      <3>4. Len(q) # QSIZE
        <4> SUFFICES ASSUME Len(q) = QSIZE PROVE FALSE
          OBVIOUS
        <4>1. w = o /\ SlotAt(o, 0) = o
          BY <3>1, <3>3, SlotEnds
        <4>2. 1 \in 1..QSIZE /\ 1 <= Len(q) /\ 1 - 1 = 0
          BY <3>3
        <4>3. r.slot[SlotAt(o, 1 - 1)] = q[1]
          BY <4>2, <3>2 DEF AlignedQueue
        <4>4. q[1] \in Element
          BY <4>2, <2>1
        <4> QED BY <4>1, <4>2, <4>3, <4>4, <1>2, ElementNotEmpty
      <3>5. Len(q) \in 0..QSIZE - 1
        BY <3>3, <3>4
      <3>6. /\ n.pending = Append(q, e) /\ Len(n.pending) = Len(q) + 1
            /\ n.pending[Len(q) + 1] = e
            /\ \A i \in 1..Len(q) : n.pending[i] = q[i]
        BY <1>2, <2>1
      <3>7. n.writeIdx = SlotAt(o, Len(q) + 1)
        BY <1>2, <3>1, <3>3, <3>5, NextSlot
      <3>8. ASSUME NEW i \in 1..QSIZE
            PROVE  n.slot[SlotAt(o, i - 1)] =
                     IF i <= Len(q) + 1 THEN n.pending[i] ELSE NoElement
        <4>1. i - 1 \in 0..QSIZE - 1 /\ i - 1 \in 0..QSIZE
          BY <3>3
        <4>2. SlotAt(o, i - 1) \in Slots
          BY <4>1, <3>1, SlotType
        <4>3. CASE i = Len(q) + 1
          <5>1. SlotAt(o, i - 1) = w
            BY <4>3, <3>3
          <5> QED BY <5>1, <4>3, <3>6, <2>1, <1>2, <3>3
        <4>4. CASE i # Len(q) + 1
          <5>1. i - 1 # Len(q)
            BY <4>4, <3>3
          <5>2. SlotAt(o, i - 1) # w
            BY <5>1, <4>1, <3>1, <3>3, <3>5, SlotInjective
          <5>3. n.slot[SlotAt(o, i - 1)] = r.slot[SlotAt(o, i - 1)]
            BY <5>2, <4>2, <2>1, <1>2
          <5>4. r.slot[SlotAt(o, i - 1)] = IF i <= Len(q) THEN q[i] ELSE NoElement
            BY <3>2 DEF AlignedQueue
          <5>5. i <= Len(q) + 1 <=> i <= Len(q)
            BY <4>4, <3>3
          <5>6. i <= Len(q) => n.pending[i] = q[i]
            BY <3>6, <3>3
          <5> QED BY <5>3, <5>4, <5>5, <5>6
        <4> QED BY <4>3, <4>4
      <3>9. n.hook
        BY <1>2
      <3> QED BY <3>1, <3>3, <3>5, <3>6, <3>7, <3>8, <3>9 DEF AlignedQueue
    <2> QED BY <2>2, <2>3 DEF n
  <1> QED BY <1>1, <1>2 DEF Queued

(* The interrupt queues what it likes, while it is not disabled.           *)
LEMMA NewQueueKeeps ==
  ASSUME IntInv, hk.step # "clear", UNCHANGED <<readIdx, enabled, hk, lua, slipped>>,
         intq' \in Queue, ~ slipped => AlignedQueue(intq')
  PROVE  IntInv'
  <1>1. IntTypeOK'
    BY DEF IntInv, IntTypeOK, Queue
  <1>2. OldestSlot' = OldestSlot
    BY DEF OldestSlot
  <1>3. AlignedQueue(intq') => AlignedQueue(intq)'
    BY <1>2 DEF AlignedQueue
  <1> QED BY <1>1, <1>3 DEF IntInv, Aligned

LEMMA AddKeeps ==
  ASSUME IntInv, NEW e \in Element, IntAdd(e)
  PROVE  IntInv'
  <1>1. intq' = Queued(intq, e) /\ hk.step # "clear"
        /\ UNCHANGED <<readIdx, enabled, hk, lua, slipped>>
    BY DEF IntAdd, InterruptsEnabled
  <1>2. intq \in Queue /\ (~ slipped => AlignedQueue(intq)) /\ IntTypeOK
    BY DEF IntInv, IntTypeOK, Queue, Aligned
  <1>3. intq' \in Queue /\ (~ slipped => AlignedQueue(intq'))
    BY <1>1, <1>2, QueuedKeeps
  <1> QED BY <1>1, <1>3, NewQueueKeeps

(* The hook takes the oldest element.                                      *)
LEMMA TakeKeeps ==
  ASSUME IntInv, HookTake
  PROVE  IntInv'
  <1> USE DEF IntInv
  <1> DEFINE q == intq.pending
             o == readIdx
  <1>1. /\ intq' = [slot |-> [intq.slot EXCEPT ![o] = NoElement], writeIdx |-> intq.writeIdx,
                    hook |-> intq.hook, pending |-> IF q = <<>> THEN <<>> ELSE Tail(q)]
        /\ hk' = [step |-> "advance", crt |-> intq.slot[o]]
        /\ slipped' = (slipped \/ intq.slot[o] = NoElement)
        /\ UNCHANGED <<readIdx, enabled, lua>>
        /\ hk.step = "idle" /\ intq.hook
    BY DEF HookTake
  <1>2. /\ q \in Seq(Element) /\ o \in Slots /\ intq.writeIdx \in Slots
        /\ intq.slot \in [Slots -> Element \cup {NoElement}] /\ QSIZE \in Nat \ {0}
    BY IntAssumption DEF IntTypeOK
  <1>3. q # <<>> => Tail(q) \in Seq(Element) /\ Len(Tail(q)) = Len(q) - 1 /\ Len(q) \in Nat \ {0}
                    /\ \A i \in 1..Len(q) - 1 : Tail(q)[i] = q[i + 1]
    BY <1>2
  <1>4. IntTypeOK'
    <2>1. (IF q = <<>> THEN <<>> ELSE Tail(q)) \in Seq(Element)
      BY <1>2, <1>3
    <2>2. slipped' \in BOOLEAN
      BY <1>1, Zenon DEF IntTypeOK
    <2> QED BY <1>1, <1>2, <2>1, <2>2 DEF IntTypeOK
  <1>5. ASSUME ~ slipped' PROVE Aligned'
    <2>1. ~ slipped /\ intq.slot[o] # NoElement /\ Aligned
      BY <1>1, <1>5
    <2>2. OldestSlot = o /\ OldestSlot' = NextIdx(o)
      BY <1>1 DEF OldestSlot
    <2>3. q # <<>>
      <3>1. 1 \in 1..QSIZE /\ SlotAt(o, 1 - 1) = o
        BY <1>2, SlotEnds
      <3>2. intq.slot[o] = IF 1 <= Len(q) THEN q[1] ELSE NoElement
        BY <3>1, <2>1, <2>2 DEF Aligned, AlignedQueue
      <3>3. 1 <= Len(q)
        BY <3>2, <2>1
      <3> QED BY <3>3
    <2>4. /\ intq'.pending = Tail(q) /\ Len(intq'.pending) = Len(q) - 1
          /\ Len(q) \in 1..QSIZE /\ intq'.writeIdx = intq.writeIdx
          /\ intq'.slot = [intq.slot EXCEPT ![o] = NoElement] /\ intq'.hook = intq.hook
      BY <1>1, <1>3, <2>1, <2>3 DEF Aligned, AlignedQueue
    <2>5. intq.writeIdx = SlotAt(NextIdx(o), Len(q) - 1)
      <3>1. Len(q) - 1 \in 0..QSIZE - 1 /\ (Len(q) - 1) + 1 = Len(q)
        BY <2>4, <1>2
      <3>2. SlotAt(NextIdx(o), Len(q) - 1) = SlotAt(o, (Len(q) - 1) + 1)
        BY <3>1, <1>2, NextSlot
      <3> QED BY <3>1, <3>2, <2>1, <2>2 DEF Aligned, AlignedQueue
    <2>6. ASSUME NEW i \in 1..QSIZE
          PROVE  intq'.slot[SlotAt(NextIdx(o), i - 1)] =
                   IF i <= Len(q) - 1 THEN Tail(q)[i] ELSE NoElement
      <3>1. /\ i - 1 \in 0..QSIZE - 1 /\ (i - 1) + 1 = i /\ i \in 0..QSIZE
            /\ i <= Len(q) - 1 <=> i + 1 <= Len(q)
        BY <1>2, <2>4
      <3>2. SlotAt(NextIdx(o), i - 1) = SlotAt(o, (i - 1) + 1)
        BY <3>1, <1>2, NextSlot
      <3>3. SlotAt(NextIdx(o), i - 1) = SlotAt(o, i) /\ SlotAt(o, i) \in Slots
        BY <3>1, <3>2, <1>2, SlotType
      <3>4. CASE i = QSIZE
        <4>1. SlotAt(o, i) = o /\ ~ (i <= Len(q) - 1)
          BY <3>4, <1>2, <2>4, SlotEnds
        <4> QED BY <4>1, <3>3, <2>4, <1>2
      <3>5. CASE i # QSIZE
        <4>1. /\ i \in 0..QSIZE - 1 /\ i # 0 /\ i + 1 \in 1..QSIZE /\ (i + 1) - 1 = i
              /\ 0 \in 0..QSIZE - 1
          BY <3>5, <1>2
        <4>2. SlotAt(o, i) # o
          <5>1. SlotAt(o, i) # SlotAt(o, 0)
            BY <4>1, <1>2, SlotInjective
          <5> QED BY <5>1, <1>2, SlotEnds
        <4>3. intq'.slot[SlotAt(o, i)] = intq.slot[SlotAt(o, i)]
          BY <4>2, <3>3, <2>4, <1>2
        <4>4. intq.slot[SlotAt(o, (i + 1) - 1)] = IF i + 1 <= Len(q) THEN q[i + 1] ELSE NoElement
          BY <4>1, <2>1, <2>2 DEF Aligned, AlignedQueue
        <4>5. i <= Len(q) - 1 => Tail(q)[i] = q[i + 1]
          BY <1>3, <2>3, <2>4
        <4> QED BY <4>1, <4>3, <4>4, <4>5, <3>1, <3>3
      <3> QED BY <3>4, <3>5
    <2>7. intq'.hook /\ hk'.step # "clear"
      BY <1>1, <2>4
    <2> QED BY <2>2, <2>4, <2>5, <2>6, <2>7, <1>2 DEF Aligned, AlignedQueue
  <1> QED BY <1>4, <1>5

(* The other steps of the hook.                                            *)
LEMMA HookKeeps ==
  ASSUME IntInv, HookAdvance \/ HookReturn \/ HookError \/ HookTail \/ HookClear
  PROVE  IntInv'
  <1> USE DEF IntInv
  <1>1. CASE HookAdvance
    <2>1. IntTypeOK'
      BY <1>1, NextType DEF HookAdvance, IntTypeOK
    <2>2. OldestSlot' = OldestSlot /\ UNCHANGED <<intq, slipped>> /\ hk'.step # "clear"
      BY <1>1 DEF HookAdvance, OldestSlot, IntTypeOK
    <2> QED BY <2>1, <2>2 DEF Aligned, AlignedQueue
  <1>2. CASE HookReturn \/ HookError
    <2>1. IntTypeOK'
      BY <1>2 DEF HookReturn, HookError, IntTypeOK, NoHook
    <2>2. OldestSlot' = OldestSlot /\ UNCHANGED <<intq, slipped>> /\ hk'.step # "clear"
      BY <1>2 DEF HookReturn, HookError, OldestSlot, IntTypeOK, NoHook
    <2> QED BY <2>1, <2>2 DEF Aligned, AlignedQueue
  <1>3. CASE HookTail
    <2>1. IntTypeOK'
      BY <1>3 DEF HookTail, IntTypeOK, NoHook
    <2>2. /\ OldestSlot' = OldestSlot /\ OldestSlot = readIdx /\ UNCHANGED <<intq, slipped>>
          /\ hk'.step = "clear" => intq.slot[readIdx] = NoElement
      BY <1>3 DEF HookTail, OldestSlot, IntTypeOK, NoHook
    <2>3. ASSUME ~ slipped, hk'.step = "clear" PROVE intq.pending = <<>>
      <3>1. intq.pending \in Seq(Element) /\ readIdx \in Slots
        BY DEF IntTypeOK
      <3>2. 1 \in 1..QSIZE /\ SlotAt(readIdx, 1 - 1) = readIdx
        BY <3>1, IntAssumption, SlotEnds
      <3>3. NoElement = IF 1 <= Len(intq.pending) THEN intq.pending[1] ELSE NoElement
        BY <2>2, <2>3, <3>2 DEF Aligned, AlignedQueue
      <3>4. 1 <= Len(intq.pending) => intq.pending[1] \in Element
        BY <3>1
      <3> QED BY <3>1, <3>3, <3>4, ElementNotEmpty
    <2> QED BY <2>1, <2>2, <2>3 DEF Aligned, AlignedQueue
  <1>4. CASE HookClear
    <2>1. IntTypeOK'
      BY <1>4 DEF HookClear, IntTypeOK, NoHook
    <2>2. /\ OldestSlot' = OldestSlot /\ slipped' = slipped /\ hk'.step # "clear"
          /\ intq'.slot = intq.slot /\ intq'.pending = intq.pending
          /\ intq'.writeIdx = intq.writeIdx
      BY <1>4 DEF HookClear, OldestSlot, IntTypeOK, NoHook
    <2>3. ~ slipped => intq.pending = <<>>
      BY <1>4 DEF HookClear, Aligned
    <2> QED BY <2>1, <2>2, <2>3 DEF Aligned, AlignedQueue
  <1> QED BY <1>1, <1>2, <1>3, <1>4

(* cpu.set_int_handler, lua_close and lua_open.                            *)
LEMMA ProgramKeeps ==
  ASSUME IntInv, (\E id \in Ids : SetHandler(id)) \/ LuaClose \/ LuaOpen
  PROVE  IntInv'
  <1>1. CASE \E id \in Ids : SetHandler(id)
    <2>1. IntTypeOK'
      BY <1>1 DEF SetHandler, IntTypeOK, IntInv
    <2>2. UNCHANGED <<intq, slipped, hk, readIdx>>
      BY <1>1 DEF SetHandler
    <2> QED BY <2>1, <2>2 DEF IntInv, Aligned, AlignedQueue, OldestSlot
  <1>2. CASE LuaClose
    <2>1. /\ intq' = EmptyQueue /\ readIdx' = 0 /\ enabled' = {} /\ slipped' = FALSE
          /\ lua' = FALSE /\ hk' = hk /\ hk.step = "idle" /\ hk \in
               [step : {"idle", "advance", "call", "tail", "clear"}, crt : Element \cup {NoElement}]
      BY <1>2 DEF LuaClose, IntInv, IntTypeOK
    <2>2. IntTypeOK'
      BY <2>1, IntAssumption DEF IntTypeOK, EmptyQueue, Slots
    <2>3. OldestSlot' = 0 /\ 0 \in Slots /\ QSIZE \in Nat \ {0}
      BY <2>1, IntAssumption DEF OldestSlot, Slots
    <2>4. ASSUME NEW i \in 1..QSIZE PROVE EmptyQueue.slot[SlotAt(0, i - 1)] = NoElement
      <3>1. i - 1 \in 0..QSIZE
        BY <2>3
      <3>2. SlotAt(0, i - 1) \in Slots
        BY <3>1, <2>3, SlotType
      <3> QED BY <3>2 DEF EmptyQueue
    <2>5. SlotAt(0, 0) = 0
      BY <2>3, SlotEnds
    <2>6. Aligned'
      <3>1. /\ Len(EmptyQueue.pending) = 0 /\ EmptyQueue.pending = <<>>
            /\ EmptyQueue.writeIdx = 0
        BY DEF EmptyQueue
      <3>2. \A i \in 1..QSIZE : ~ (i <= 0)
        BY <2>3
      <3> QED BY <2>1, <2>3, <2>4, <2>5, <3>1, <3>2 DEF Aligned, AlignedQueue
    <2> QED BY <2>2, <2>6 DEF IntInv
  <1>3. CASE LuaOpen
    BY <1>3 DEF LuaOpen, IntInv, IntTypeOK, Aligned, AlignedQueue, OldestSlot
  <1> QED BY <1>1, <1>2, <1>3

-----------------------------------------------------------------------------
(* The invariant holds of every behaviour of the interrupt queue.          *)
LEMMA IntInvariant == IntSpec => []IntInv
  <1>1. IntInv /\ [IntNext]_intVars => IntInv'
    <2> SUFFICES ASSUME IntInv, [IntNext]_intVars PROVE IntInv'
      OBVIOUS
    <2>1. CASE UNCHANGED intVars
      BY <2>1 DEF IntInv, intVars, IntTypeOK, Aligned, AlignedQueue, OldestSlot
    <2>2. CASE \E e \in Element : IntAdd(e)
      BY <2>2, AddKeeps
    <2>3. CASE HookStep
      BY <2>3, TakeKeeps, HookKeeps DEF HookStep
    <2> QED BY <2>1, <2>2, <2>3, HookKeeps, ProgramKeeps DEF IntNext
  <1> QED BY <1>1, InitInt, PTL DEF IntSpec

(* Interrupts are handled in the order in which they came, each one once,  *)
(* for every size of the queue, until the hook has slipped.                *)
THEOREM QueueStaysSound == IntSpec => []QueueSound
  <1>1. IntInv => QueueSound
    BY DEF IntInv, Aligned, AlignedQueue, QueueSound
  <1> QED BY <1>1, IntInvariant, PTL

(* A slot in use is one of the slots that are counted.                     *)
LEMMA InvArmed == IntInv => HookArmed
  <1> SUFFICES ASSUME IntInv, ~ slipped, NEW s \in Slots, intq.slot[s] # NoElement
               PROVE  intq.hook
    BY DEF HookArmed
  <1>1. Aligned /\ OldestSlot \in Slots /\ intq.pending \in Seq(Element)
    BY OldestSlotType DEF IntInv, IntTypeOK
  <1>2. PICK i \in 1..QSIZE : SlotAt(OldestSlot, i - 1) = s
    BY <1>1, SlotSurjective
  <1>3. i <= Len(intq.pending)
    BY <1>1, <1>2 DEF Aligned, AlignedQueue
  <1>4. intq.pending # <<>>
    BY <1>3, IntAssumption
  <1> QED BY <1>1, <1>4 DEF Aligned, AlignedQueue

(* No queued interrupt is left without the hook that handles it, whatever  *)
(* the moment at which it comes, until the hook has slipped.               *)
THEOREM HookStaysArmed == IntSpec => []HookArmed
  BY InvArmed, IntInvariant, PTL

-----------------------------------------------------------------------------
(* One-shot timers.  A timer whose bit the program has not put back either *)
(* has not fired since it was set, or has fired once and is switched off.  *)
ShotInv ==
  /\ shots \in [Timers -> Nat]
  /\ \A t \in Timers \ undone : shots[t] = 0 \/ (shots[t] = 1 /\ t \notin armed)

(* The timer interrupt: a one-shot timer that fires was enabled, so it had *)
(* not fired before, and is switched off (common_tmr.c).                   *)
LEMMA TickKeeps ==
  ASSUME ShotInv, Tick
  PROVE  ShotInv'
  <1> DEFINE fires == (Matching \cap armed) \ periodic
  <1>1. /\ shots' = [t \in Timers |-> IF t \in fires /\ shots[t] < 2 THEN shots[t] + 1
                                                                     ELSE shots[t]]
        /\ armed' = armed \ (Matching \ periodic)
        /\ undone' = undone
    BY DEF Tick
  <1>2. shots' \in [Timers -> Nat]
    BY <1>1 DEF ShotInv
  <1>3. ASSUME NEW t \in Timers \ undone'
        PROVE  shots'[t] = 0 \/ (shots'[t] = 1 /\ t \notin armed')
    <2>1. shots[t] = 0 \/ (shots[t] = 1 /\ t \notin armed)
      BY <1>1, <1>3 DEF ShotInv
    <2>2. CASE t \in fires
      BY <1>1, <1>3, <2>1, <2>2
    <2>3. CASE t \notin fires
      BY <1>1, <1>3, <2>1, <2>3
    <2> QED BY <2>2, <2>3
  <1> QED BY <1>2, <1>3 DEF ShotInv

(* The store of the byte of all timers, which may be older than the last   *)
(* interrupt: a bit that it brings back belongs to a timer in undone.      *)
LEMMA StoreArmedKeeps ==
  ASSUME ShotInv, StoreArmed
  PROVE  ShotInv'
  <1>1. /\ armed' \subseteq op.load \cup {op.t}
        /\ shots' = [shots EXCEPT ![op.t] = 0]
        /\ undone' = (undone \ {op.t}) \cup ((op.load \ armed) \ {op.t})
    BY DEF StoreArmed
  <1>2. shots' \in [Timers -> Nat]
    BY <1>1 DEF ShotInv
  <1>3. ASSUME NEW t \in Timers \ undone'
        PROVE  shots'[t] = 0 \/ (shots'[t] = 1 /\ t \notin armed')
    <2>1. CASE t = op.t
      BY <1>1, <1>3, <2>1 DEF ShotInv
    <2>2. CASE t # op.t
      <3>1. t \in Timers \ undone /\ shots'[t] = shots[t] /\ (t \in op.load => t \in armed)
        BY <1>1, <1>3, <2>2 DEF ShotInv
      <3> QED BY <1>1, <2>2, <3>1 DEF ShotInv
    <2> QED BY <2>1, <2>2
  <1> QED BY <1>2, <1>3 DEF ShotInv

(* A timer set for one shot raises a single interrupt, for every number of *)
(* timers and every period, however the steps of vtmr_set_match_int and of *)
(* the other operations fall between two timer interrupts; except that the *)
(* program may have put its bit back with the byte it had loaded before.   *)
THEOREM OneShotFiresOnce == Spec => []OneShotOnce
  <1>1. Init => ShotInv
    BY DEF Init, ShotInv
  <1>2. ShotInv /\ [Next]_vars => ShotInv'
    <2> SUFFICES ASSUME ShotInv, [Next]_vars PROVE ShotInv'
      OBVIOUS
    <2>1. CASE UNCHANGED <<shots, armed, undone>>
      BY <2>1 DEF ShotInv
    <2>2. ASSUME NEW t, NEW todo, NEW period, NEW cyclic, Begin(t, todo, period, cyclic)
          PROVE  UNCHANGED <<shots, armed, undone>>
      BY <2>2 DEF Begin
    <2>3. ASSUME OpStep PROVE UNCHANGED <<shots, armed, undone>> \/ StoreArmed
      BY <2>3 DEF OpStep, SetLimit, SetType, Load, StoreFlag, Reset, Spin, Wait
    <2>4. ASSUME IntStep \/ UNCHANGED vars PROVE UNCHANGED <<shots, armed, undone>>
      BY <2>4 DEF IntStep, vars, timerVars
    <2> QED
      BY <2>1, <2>2, <2>3, <2>4, TickKeeps, StoreArmedKeeps
      DEF Next, SetMatchInt, Delay, ClearMatchInt, SetStatus, GetFlag
  <1>3. ShotInv => OneShotOnce
    BY DEF ShotInv, OneShotOnce
  <1> QED BY <1>1, <1>2, <1>3, PTL DEF Spec

-----------------------------------------------------------------------------
(* The timer interrupt queues the matches of a tick one after the other.   *)

(* What the loop of cmn_virtual_timer_cb makes of the queue q at timer t.  *)
AtTimer(t, q) == IF t \in Matching \cap armed THEN Queued(q, <<INT_TMR_MATCH, t>>) ELSE q

(* f holds the queue after each of the first n timers.                     *)
IsLoop(f, n) == f = [t \in 0..n |-> IF t = 0 THEN intq ELSE AtTimer(t, f[t - 1])]

(* A set of natural numbers has a least element.                           *)
LEMMA LeastNumber ==
  ASSUME NEW S \in SUBSET Nat, S # {}
  PROVE  \E m \in S : \A k \in S : m <= k
  <1> DEFINE R == {p \in Nat \X Nat : p[1] < p[2]}
  <1>1. IsWellFoundedOn(R, Nat)
    BY NatLessThanWellFounded DEF OpToRel
  <1>2. PICK m \in S : \A k \in S : ~ (<<k, m>> \in R)
    BY <1>1, WFMin
  <1>3. ASSUME NEW k \in S PROVE ~ (k < m)
    BY <1>2
  <1> QED BY <1>3

LEMMA LoopGoesOn ==
  ASSUME NEW n \in Nat, n # 0, NEW f, IsLoop(f, n - 1)
  PROVE  \E g : IsLoop(g, n)
  <1> DEFINE g == [t \in 0..n |-> IF t = n THEN AtTimer(n, f[n - 1]) ELSE f[t]]
             h == [t \in 0..n |-> IF t = 0 THEN intq ELSE AtTimer(t, g[t - 1])]
  <1>1. ASSUME NEW t \in 0..n PROVE g[t] = h[t]
    <2>1. CASE t = n
      <3>1. t - 1 \in 0..n /\ t - 1 # n
        BY <2>1
      <3>2. g[t - 1] = f[n - 1]
        BY <2>1, <3>1
      <3> QED BY <1>1, <2>1, <3>2
    <2>2. CASE t # n
      <3>1. t \in 0..(n - 1)
        BY <1>1, <2>2
      <3>2. g[t] = IF t = 0 THEN intq ELSE AtTimer(t, f[t - 1])
        BY <1>1, <2>2, <3>1 DEF IsLoop
      <3>3. t # 0 => t - 1 \in 0..n /\ t - 1 # n
        BY <1>1
      <3>4. t # 0 => g[t - 1] = f[t - 1]
        BY <3>3
      <3> QED BY <1>1, <3>2, <3>4
    <2> QED BY <2>1, <2>2
  <1>2. g = h
    <2>1. g = [t \in 0..n |-> g[t]] /\ h = [t \in 0..n |-> h[t]]
      OBVIOUS
    <2> HIDE DEF g, h
    <2> QED BY <1>1, <2>1
  <1>3. IsLoop(g, n)
    BY <1>2 DEF IsLoop
  <1> QED BY <1>3

(* The loop computes QueueAfter.                                           *)
LEMMA LoopIsQueueAfter == IsLoop(QueueAfter, VTMR_NUM_TIMERS)
  <1> DEFINE bad == {n \in Nat : ~ \E f : IsLoop(f, n)}
  <1>1. bad = {}
    <2> SUFFICES ASSUME bad # {} PROVE FALSE
      OBVIOUS
    <2>1. PICK n \in bad : \A k \in bad : n <= k
      BY LeastNumber
    <2>2. CASE n = 0
      <3>1. \A t \in 0..0 : t = 0
        OBVIOUS
      <3>2. IsLoop([t \in 0..0 |-> intq], 0)
        BY <3>1 DEF IsLoop
      <3> QED BY <2>1, <2>2, <3>2
    <2>3. CASE n # 0
      <3>1. n - 1 \in Nat /\ ~ (n <= n - 1)
        BY <2>3
      <3>2. \E f : IsLoop(f, n - 1)
        BY <2>1, <3>1
      <3> QED BY <2>1, <2>3, <3>2, LoopGoesOn
    <2> QED BY <2>2, <2>3
  <1>2. \E f : IsLoop(f, VTMR_NUM_TIMERS)
    BY <1>1, TimerAssumption
  <1>3. QueueAfter = CHOOSE f : IsLoop(f, VTMR_NUM_TIMERS)
    BY DEF QueueAfter, IsLoop, AtTimer
  <1> QED BY <1>2, <1>3

(* Every match of a tick is queued as elua_int_add queues any interrupt.   *)
LEMMA TickQueueKeeps ==
  ASSUME IntInv, Tick
  PROVE  IntInv'
  <1> DEFINE Fine(q) == q \in Queue /\ (~ slipped => AlignedQueue(q))
             bad == {n \in 0..VTMR_NUM_TIMERS : ~ Fine(QueueAfter[n])}
  <1>1. /\ IntTypeOK /\ Fine(intq) /\ VTMR_NUM_TIMERS \in Nat
    BY TimerAssumption DEF IntInv, IntTypeOK, Queue, Aligned
  <1>2. ASSUME NEW n \in 0..VTMR_NUM_TIMERS
        PROVE  QueueAfter[n] = IF n = 0 THEN intq ELSE AtTimer(n, QueueAfter[n - 1])
    BY LoopIsQueueAfter DEF IsLoop
  <1>3. ASSUME NEW n \in Timers, NEW q, Fine(q) PROVE Fine(AtTimer(n, q))
    <2>1. <<INT_TMR_MATCH, n>> \in Element
      BY TimerAssumption DEF Element
    <2> QED BY <1>1, <1>3, <2>1, QueuedKeeps DEF AtTimer
  <1>4. bad = {}
    <2> SUFFICES ASSUME bad # {} PROVE FALSE
      OBVIOUS
    <2>1. bad \in SUBSET Nat
      BY <1>1
    <2> HIDE DEF Fine
    <2>2. PICK n \in bad : \A k \in bad : n <= k
      BY <2>1, LeastNumber
    <2>3. n # 0
      BY <1>1, <1>2, <2>2
    <2>4. n - 1 \in 0..VTMR_NUM_TIMERS /\ n \in Timers /\ ~ (n <= n - 1)
      BY <1>1, <2>2, <2>3 DEF Timers
    <2>5. Fine(QueueAfter[n - 1])
      BY <2>2, <2>4
    <2>6. Fine(QueueAfter[n])
      BY <1>2, <1>3, <2>2, <2>3, <2>4, <2>5
    <2> QED BY <2>2, <2>6
  <1>5. Fine(intq')
    <2>1. intq' = QueueAfter[VTMR_NUM_TIMERS]
      BY DEF Tick
    <2> QED BY <1>1, <1>4, <2>1
  <1>6. hk.step # "clear" /\ UNCHANGED <<readIdx, enabled, hk, lua, slipped>>
    BY DEF Tick, InterruptsEnabled
  <1> QED BY <1>5, <1>6, NewQueueKeeps

LEMMA IntUnchanged ==
  ASSUME IntInv, UNCHANGED intVars
  PROVE  IntInv'
  BY DEF IntInv, intVars, IntTypeOK, Aligned, AlignedQueue, OldestSlot

LEMMA TimersKeepQueue == Spec => []IntInv
  <1>1. Init => IntInv
    BY InitInt DEF Init
  <1>2. IntInv /\ [Next]_vars => IntInv'
    <2> SUFFICES ASSUME IntInv, [Next]_vars PROVE IntInv'
      OBVIOUS
    <2>1. ASSUME NEW t, NEW todo, NEW period, NEW cyclic, Begin(t, todo, period, cyclic)
          PROVE  UNCHANGED intVars
      BY <2>1 DEF Begin
    <2>2. ASSUME OpStep \/ UNCHANGED vars PROVE UNCHANGED intVars
      BY <2>2 DEF OpStep, SetLimit, SetType, Load, StoreFlag, StoreArmed, Reset, Spin, Wait,
                  vars
    <2>3. CASE IntStep
      BY <2>3, TakeKeeps, HookKeeps, ProgramKeeps DEF IntStep, HookStep
    <2> QED
      BY <2>1, <2>2, <2>3, TickQueueKeeps, IntUnchanged
      DEF Next, SetMatchInt, Delay, ClearMatchInt, SetStatus, GetFlag
  <1> QED BY <1>1, <1>2, PTL DEF Spec

(* The interrupts of the virtual timers are handled in the order in which  *)
(* they came, each one once, for every number of timers and every size of  *)
(* the queue, whatever the program is doing to the timers, until the hook  *)
(* has slipped.                                                            *)
THEOREM TimerQueueSound == Spec => []QueueSound
  <1>1. IntInv => QueueSound
    BY DEF IntInv, Aligned, AlignedQueue, QueueSound
  <1> QED BY <1>1, TimersKeepQueue, PTL

(* And none of them is left without the hook that handles it.              *)
THEOREM TimerHookArmed == Spec => []HookArmed
  BY InvArmed, TimersKeepQueue, PTL
=============================================================================
