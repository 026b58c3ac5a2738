------------------------------ MODULE EluaInt -------------------------------
(***************************************************************************)
(* Interrupts handled by Lua programs (src/src/elua_int.c).  The interrupt *)
(* puts an element in a queue and sets a hook; the Lua virtual machine     *)
(* calls the hook, which takes one element, calls the program's handler    *)
(* and, with the interrupts disabled, clears the hook if the queue is      *)
(* empty.  The interrupt may come between any two other steps of the hook. *)
(*                                                                         *)
(* The hook is that of the main thread of the program.  pending and        *)
(* slipped are history: the elements queued and not yet taken, and whether *)
(* the hook took an element when there was none, which moves the read      *)
(* index past the queue.  That needs a handler that raises an error which  *)
(* the program catches: the end of the hook is skipped and it stays set.   *)
(***************************************************************************)
EXTENDS Naturals, Sequences

CONSTANTS
  Ids,        \* interrupt identifiers (elua_int_id)
  Resources,  \* resource numbers (elua_int_resnum)
  QSIZE,      \* elements of the queue: 1 << PLATFORM_INT_QUEUE_LOG_SIZE
  Empty       \* ELUA_INT_EMPTY_SLOT

ASSUME IntAssumption == QSIZE \in Nat \ {0} /\ Empty \notin Ids

VARIABLES
  intq,       \* elua_int_queue, elua_int_write_idx, L->hook; pending
  readIdx,    \* elua_int_read_idx
  enabled,    \* elua_int_flags
  hk,         \* the call of elua_int_hook under way: next step, element taken
  lua,        \* lua_getstate() is not NULL
  slipped     \* history: the hook took an element from an empty queue

intVars == <<intq, readIdx, enabled, hk, lua, slipped>>

Slots == 0..QSIZE - 1

Element == Ids \X Resources

NoElement == <<Empty, Empty>>

IntTypeOK ==
  /\ intq \in [slot : [Slots -> Element \cup {NoElement}], writeIdx : Slots,
               hook : BOOLEAN, pending : Seq(Element)]
  /\ readIdx \in Slots
  /\ enabled \subseteq Ids
  /\ hk \in [step : {"idle", "advance", "call", "tail", "clear"},
             crt : Element \cup {NoElement}]
  /\ lua \in BOOLEAN
  /\ slipped \in BOOLEAN

-----------------------------------------------------------------------------
EmptyQueue == [slot |-> [i \in Slots |-> NoElement], writeIdx |-> 0,
               hook |-> FALSE, pending |-> <<>>]

NoHook == [step |-> "idle", crt |-> NoElement]

IntInit ==
  /\ intq = EmptyQueue
  /\ readIdx = 0
  /\ enabled = {}
  /\ hk = NoHook
  /\ lua = TRUE
  /\ slipped = FALSE

(* & INT_IDX_MASK.                                                         *)
NextIdx(i) == IF i = QSIZE - 1 THEN 0 ELSE i + 1

(* Mutant of Queued: a full queue is not noticed.                          *)
QueuedAlways(q, e) ==
  IF ~ lua \/ e[1] \notin enabled THEN q
  ELSE [slot |-> [q.slot EXCEPT ![q.writeIdx] = e],
        writeIdx |-> NextIdx(q.writeIdx),
        hook |-> TRUE,
        pending |-> Append(q.pending, e)]

(* elua_int_add, on the queue q: nothing is queued without a Lua state,    *)
(* without a handler, or when the queue is full.                           *)
Queued(q, e) ==
  IF ~ lua \/ e[1] \notin enabled \/ q.slot[q.writeIdx] # NoElement THEN q
  ELSE [slot |-> [q.slot EXCEPT ![q.writeIdx] = e],
        writeIdx |-> NextIdx(q.writeIdx),
        hook |-> TRUE,
        pending |-> Append(q.pending, e)]

(* Mutant of InterruptsEnabled: the end of the hook leaves them enabled.   *)
InterruptsAlways == TRUE

(* The hook finds the queue empty and clears itself with the interrupts    *)
(* disabled.                                                               *)
InterruptsEnabled == hk.step # "clear"

(* An interrupt of any source.                                             *)
IntAdd(e) ==
  /\ InterruptsEnabled
  /\ intq' = Queued(intq, e)
  /\ UNCHANGED <<readIdx, enabled, hk, lua, slipped>>

-----------------------------------------------------------------------------
(* elua_int_hook: the element is copied and its slot is freed.             *)
HookTake ==
  /\ lua /\ intq.hook
  /\ hk.step = "idle"
  /\ hk' = [step |-> "advance", crt |-> intq.slot[readIdx]]
  /\ intq' = [slot |-> [intq.slot EXCEPT ![readIdx] = NoElement],
              writeIdx |-> intq.writeIdx,
              hook |-> intq.hook,
              pending |-> IF intq.pending = <<>> THEN <<>> ELSE Tail(intq.pending)]
  /\ slipped' = (slipped \/ intq.slot[readIdx] = NoElement)
  /\ UNCHANGED <<readIdx, enabled, lua>>

(* elua_int_hook: the read index advances; the handler is called if the    *)
(* interrupt is (still) enabled.                                           *)
HookAdvance ==
  /\ hk.step = "advance"
  /\ readIdx' = NextIdx(readIdx)
  /\ hk' = [hk EXCEPT !.step = IF hk.crt[1] \in enabled THEN "call" ELSE "tail"]
  /\ UNCHANGED <<intq, enabled, lua, slipped>>

(* The handler returns.                                                    *)
HookReturn ==
  /\ hk.step = "call"
  /\ hk' = [hk EXCEPT !.step = "tail"]
  /\ UNCHANGED <<intq, readIdx, enabled, lua, slipped>>

(* The handler raises an error, and the program goes on behind a pcall.    *)
HookError ==
  /\ hk.step = "call"
  /\ hk' = NoHook
  /\ UNCHANGED <<intq, readIdx, enabled, lua, slipped>>

(* Mutant of HookTail: the handler is called again for the next element.   *)
HookTailAgain ==
  /\ hk.step = "tail"
  /\ hk' = [hk EXCEPT !.step = IF intq.slot[readIdx] = NoElement THEN "clear" ELSE "call"]
  /\ UNCHANGED <<intq, readIdx, enabled, lua, slipped>>

(* elua_int_hook: the interrupts are disabled to see if the queue is empty. *)
HookTail ==
  /\ hk.step = "tail"
  /\ hk' = IF intq.slot[readIdx] = NoElement THEN [hk EXCEPT !.step = "clear"]
                                             ELSE NoHook
  /\ UNCHANGED <<intq, readIdx, enabled, lua, slipped>>

(* It is: the hook is cleared, and the interrupts are enabled.             *)
HookClear ==
  /\ hk.step = "clear"
  /\ intq' = [intq EXCEPT !.hook = FALSE]
  /\ hk' = NoHook
  /\ UNCHANGED <<readIdx, enabled, lua, slipped>>

(* cpu.set_int_handler, from the program or from a handler: a function     *)
(* enables the interrupt, nil disables it.                                 *)
SetHandler(id) ==
  /\ lua /\ hk.step \in {"idle", "call"}
  /\ enabled' \in {enabled \cup {id}, enabled \ {id}}
  /\ UNCHANGED <<intq, readIdx, hk, lua, slipped>>

(* lua_close: the program has ended; elua_int_cleanup, the interrupts      *)
(* disabled, puts everything back.                                         *)
LuaClose ==
  /\ lua /\ hk.step = "idle"
  /\ lua' = FALSE
  /\ intq' = EmptyQueue
  /\ readIdx' = 0
  /\ enabled' = {}
  /\ slipped' = FALSE
  /\ UNCHANGED hk

LuaOpen ==
  /\ ~ lua
  /\ lua' = TRUE
  /\ UNCHANGED <<intq, readIdx, enabled, hk, slipped>>

HookStep == HookTake \/ HookAdvance \/ HookReturn \/ HookTail \/ HookClear

IntNext ==
  \/ \E e \in Element : IntAdd(e)
  \/ HookStep
  \/ HookError
  \/ \E id \in Ids : SetHandler(id)
  \/ LuaClose
  \/ LuaOpen

IntSpec == IntInit /\ [][IntNext]_intVars

-----------------------------------------------------------------------------
(* "As long as the queue is not empty, a Lua hook is set"                  *)
(* (doc/en/inthandlers.txt): an element queued while the hook decides to   *)
(* clear itself is never left without it, until the hook has slipped.      *)
HookArmed ==
  ~ slipped /\ (\E i \in Slots : intq.slot[i] # NoElement) => intq.hook

(* The place i elements after the place p, for i up to QSIZE.              *)
SlotAt(p, i) == IF p + i < QSIZE THEN p + i ELSE p + i - QSIZE

(* Where the oldest element is: the index lags behind during the hook.     *)
OldestSlot == IF hk.step = "advance" THEN NextIdx(readIdx) ELSE readIdx

(* The slots from the oldest one on hold what was queued and not yet       *)
(* taken, in order, and the others are empty: interrupts are handled in    *)
(* the order in which they came, each one once, until the hook slips.      *)
QueueSound ==
  ~ slipped =>
    /\ Len(intq.pending) <= QSIZE
    /\ \A i \in 1..QSIZE :
         intq.slot[SlotAt(OldestSlot, i - 1)] =
           IF i <= Len(intq.pending) THEN intq.pending[i] ELSE NoElement
=============================================================================
