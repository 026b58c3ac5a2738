--------------------------- MODULE VirtualTimers ----------------------------
(***************************************************************************)
(* The virtual timers (src/src/common_tmr.c) and the interrupts they raise *)
(* for Lua programs (EluaInt).  The timer interrupt counts, compares with  *)
(* the limit, queues the match interrupt and serves the mailbox through    *)
(* which the program resets a counter.  The program's operations are       *)
(* sequences of loads and stores that the interrupt may separate: the bits *)
(* of all timers share a byte, so a store may undo what the interrupt did  *)
(* to another timer since the load.                                        *)
(***************************************************************************)
EXTENDS EluaInt

CONSTANTS
  VTMR_NUM_TIMERS,  \* number of virtual timers
  Periods,          \* periods and delays a program asks for, in ticks
  INT_TMR_MATCH,    \* the identifier of the match interrupt
  MaxOps,           \* bound: operations of the program on the timers
  NoTimer           \* vtmr_reset_idx = -1

Timers == 1..VTMR_NUM_TIMERS

(* Bound: counters above every period are not told apart.                  *)
MaxCount == CHOOSE m \in Periods : \A p \in Periods : p <= m

ASSUME TimerAssumption == /\ VTMR_NUM_TIMERS \in Nat \ {0}
                          /\ Periods \subseteq Nat \ {0}
                          /\ Periods # {}
                          /\ MaxOps \in Nat
                          /\ INT_TMR_MATCH \in Ids
                          /\ Resources = Timers

VARIABLES
  counter,     \* vtmr_counters
  limit,       \* vtmr_period_limit
  periodic,    \* vtmr_int_periodic_flag
  armed,       \* vtmr_int_enabled
  flag,        \* vtmr_int_flag
  resetIdx,    \* vtmr_reset_idx
  op,          \* the program's operation: steps left, timer, period, type, load
  ops,         \* operations begun
  shots,       \* history: one-shot interrupts of a timer since it was enabled
  undone       \* history: timers whose bit a store of the program put back

timerVars == <<counter, limit, periodic, armed, flag, resetIdx, op, ops, shots, undone>>
vars == <<intVars, timerVars>>

NoOp == [todo |-> <<>>, t |-> NoTimer, period |-> 0, cyclic |-> FALSE, load |-> {}]

TypeOK ==
  /\ IntTypeOK
  /\ counter \in [Timers -> 0..MaxCount]
  /\ limit \in [Timers -> Periods \cup {0}]
  /\ periodic \subseteq Timers
  /\ armed \subseteq Timers
  /\ flag \subseteq Timers
  /\ resetIdx \in Timers \cup {NoTimer}
  /\ op.t \in Timers \cup {NoTimer}
  /\ op.load \subseteq Timers
  /\ ops \in 0..MaxOps
  /\ shots \in [Timers -> 0..2]
  /\ undone \subseteq Timers

Init ==
  /\ IntInit
  /\ counter = [t \in Timers |-> 0]
  /\ limit = [t \in Timers |-> 0]
  /\ periodic = {}
  /\ armed = {}
  /\ flag = {}
  /\ resetIdx = NoTimer
  /\ op = NoOp
  /\ ops = 0
  /\ shots = [t \in Timers |-> 0]
  /\ undone = {}

-----------------------------------------------------------------------------
Up(n) == IF n < MaxCount THEN n + 1 ELSE n

(* The timers whose counter reaches the limit at this tick.                *)
Matching == {t \in Timers : Up(counter[t]) >= limit[t]}

(* The queue after the first timers of the loop: a match of an enabled     *)
(* timer is queued.                                                        *)
QueueAfter[t \in 0..VTMR_NUM_TIMERS] ==
  IF t = 0 THEN intq
  ELSE IF t \in Matching \cap armed THEN Queued(QueueAfter[t - 1], <<INT_TMR_MATCH, t>>)
  ELSE QueueAfter[t - 1]

(* Mutant of Tick: a one-shot timer stays enabled.                         *)
TickKeepsArmed ==
  /\ InterruptsEnabled
  /\ intq' = QueueAfter[VTMR_NUM_TIMERS]
  /\ counter' = [t \in Timers |->
                   IF t = resetIdx \/ t \in Matching \cap periodic THEN 0
                   ELSE Up(counter[t])]
  /\ flag' = flag \cup Matching
  /\ armed' = armed
  /\ resetIdx' = NoTimer
  /\ shots' = [t \in Timers |-> IF t \in (Matching \cap armed) \ periodic /\ shots[t] < 2
                                THEN shots[t] + 1 ELSE shots[t]]
  /\ UNCHANGED <<readIdx, enabled, hk, lua, slipped, limit, periodic, op, ops, undone>>

(* cmn_virtual_timer_cb: the timer interrupt.                              *)
Tick ==
  /\ InterruptsEnabled
  /\ intq' = QueueAfter[VTMR_NUM_TIMERS]
  /\ counter' = [t \in Timers |->
                   IF t = resetIdx \/ t \in Matching \cap periodic THEN 0
                   ELSE Up(counter[t])]
  /\ flag' = flag \cup Matching
  /\ armed' = armed \ (Matching \ periodic)
  /\ resetIdx' = NoTimer
  /\ shots' = [t \in Timers |-> IF t \in (Matching \cap armed) \ periodic /\ shots[t] < 2
                                THEN shots[t] + 1 ELSE shots[t]]
  /\ UNCHANGED <<readIdx, enabled, hk, lua, slipped, limit, periodic, op, ops, undone>>

-----------------------------------------------------------------------------
(* The virtual machine runs an operation of the program, or of a handler.  *)
Begin(t, todo, period, cyclic) ==
  /\ lua /\ hk.step \in {"idle", "call"}
  /\ op.todo = <<>>
  /\ ops < MaxOps
  /\ ops' = ops + 1
  /\ op' = [todo |-> todo, t |-> t, period |-> period, cyclic |-> cyclic, load |-> {}]
  /\ UNCHANGED <<intVars, counter, limit, periodic, armed, flag, resetIdx, shots, undone>>

(* vtmr_set_match_int with a period: one shot, or cyclic.                  *)
SetMatchInt(t, period, cyclic) ==
  Begin(t, <<"limit", "type", "loadFlag", "clearFlag", "reset", "spin", "load", "enable">>,
        period, cyclic)

(* vtmr_set_match_int with period 0: no more interrupts.                   *)
ClearMatchInt(t) == Begin(t, <<"load", "disable", "loadFlag", "clearFlag">>, 0, FALSE)

(* vtmr_int_set_status (cpu.sei, cpu.cli).                                 *)
SetStatus(t, on) == Begin(t, <<"load", IF on THEN "enable" ELSE "disable">>, 0, FALSE)

(* vtmr_int_get_flag, clearing it.                                         *)
GetFlag(t) == Begin(t, <<"loadFlag", "clearFlag">>, 0, FALSE)

(* vtmr_delay; without the wait, PLATFORM_TIMER_OP_START.                  *)
Delay(t, n) == Begin(t, <<"reset", "spin", "wait">>, n, FALSE)

(* The next step of the operation is s, and it is done with.               *)
At(s) == op.todo # <<>> /\ Head(op.todo) = s

Done(load) == op' = IF Tail(op.todo) = <<>> THEN NoOp
                    ELSE [op EXCEPT !.todo = Tail(@), !.load = load]

SetLimit ==
  /\ At("limit") /\ Done({})
  /\ limit' = [limit EXCEPT ![op.t] = op.period]
  /\ UNCHANGED <<intVars, counter, periodic, armed, flag, resetIdx, ops, shots, undone>>

SetType ==
  /\ At("type") /\ Done({})
  /\ periodic' = IF op.cyclic THEN periodic \cup {op.t} ELSE periodic \ {op.t}
  /\ UNCHANGED <<intVars, counter, limit, armed, flag, resetIdx, ops, shots, undone>>

(* The byte is loaded ...                                                  *)
Load ==
  /\ \/ At("load") /\ Done(armed)
     \/ At("loadFlag") /\ Done(flag)
  /\ UNCHANGED <<intVars, counter, limit, periodic, armed, flag, resetIdx, ops, shots, undone>>

(* ... and stored, with the bit of the timer changed.                      *)
StoreFlag ==
  /\ At("clearFlag") /\ Done({})
  /\ flag' = op.load \ {op.t}
  /\ UNCHANGED <<intVars, counter, limit, periodic, armed, resetIdx, ops, shots, undone>>

StoreArmed ==
  /\ \/ At("enable") /\ armed' = op.load \cup {op.t}
     \/ At("disable") /\ armed' = op.load \ {op.t}
  /\ Done({})
  /\ shots' = [shots EXCEPT ![op.t] = 0]
  /\ undone' = (undone \ {op.t}) \cup ((op.load \ armed) \ {op.t})
  /\ UNCHANGED <<intVars, counter, limit, periodic, flag, resetIdx, ops>>

(* vtmr_reset_timer: the mailbox is set, and the program spins.            *)
Reset ==
  /\ At("reset") /\ Done({})
  /\ resetIdx' = op.t
  /\ UNCHANGED <<intVars, counter, limit, periodic, armed, flag, ops, shots, undone>>

Spin ==
  /\ At("spin") /\ resetIdx = NoTimer /\ Done({})
  /\ UNCHANGED <<intVars, counter, limit, periodic, armed, flag, resetIdx, ops, shots, undone>>

(* vtmr_delay: the program spins until the counter is there.               *)
Wait ==
  /\ At("wait") /\ counter[op.t] >= op.period /\ Done({})
  /\ UNCHANGED <<intVars, counter, limit, periodic, armed, flag, resetIdx, ops, shots, undone>>

OpStep == SetLimit \/ SetType \/ Load \/ StoreFlag \/ StoreArmed \/ Reset \/ Spin \/ Wait

(* The steps of EluaInt; the hook does not run during an operation of the  *)
(* program, nor does the handler return.                                   *)
IntStep ==
  /\ op.todo = <<>>
  /\ HookStep \/ HookError \/ (\E id \in Ids : SetHandler(id)) \/ LuaClose \/ LuaOpen
  /\ UNCHANGED timerVars

Next ==
  \/ Tick
  \/ \E t \in Timers :
       \/ \E p \in Periods : \E c \in BOOLEAN : SetMatchInt(t, p, c)
       \/ \E p \in Periods : Delay(t, p)
       \/ ClearMatchInt(t)
       \/ \E on \in BOOLEAN : SetStatus(t, on)
       \/ GetFlag(t)
  \/ OpStep
  \/ IntStep

Spec == Init /\ [][Next]_vars

Fairness ==
  /\ WF_vars(Tick)
  /\ WF_vars(OpStep)
  /\ WF_vars(HookStep /\ op.todo = <<>> /\ UNCHANGED timerVars)

FairSpec == Spec /\ Fairness

-----------------------------------------------------------------------------
(* A timer set for one shot raises "a single interrupt"                    *)
(* (doc/eluadoc/refman_gen_tmr.lua), unless a store of the program to the  *)
(* byte of all timers has undone that the interrupt switched it off.       *)
OneShotOnce == \A t \in Timers \ undone : shots[t] <= 1

(* A delay on a timer whose counter a cyclic match keeps resetting.        *)
DelayStuck == At("wait") /\ op.t \in periodic

(* A queued interrupt leaves its slot as long as the virtual machine runs: *)
(* no such delay blocks it and the hook has not slipped.                   *)
InterruptsHandled ==
  \A i \in Slots :
    intq.slot[i] # NoElement ~> intq.slot[i] = NoElement \/ slipped \/ DelayStuck
=============================================================================
