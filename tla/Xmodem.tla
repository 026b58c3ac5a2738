------------------------------- MODULE Xmodem -------------------------------
(***************************************************************************)
(* Receiving a program with XMODEM (src/src/xmodem.c), the shell's "recv". *)
(* The sender is a program of the PC and not part of the repository: it is *)
(* modelled by the protocol the receiver relies on.  It starts on a 'C',   *)
(* goes on after an ACK, repeats after a NAK, another 'C' or silence, ends *)
(* with EOT and stops on CAN.                                              *)
(*                                                                         *)
(* The line keeps the order and may damage or lose bytes, and the sender   *)
(* may pause in the middle of a block.  The number of a block is checked   *)
(* twice and its data by a CRC: a record that is not the one sent is found *)
(* out.  Any byte of a record may have the value of SOH, EOT or CAN when   *)
(* it is read where a control character is expected.                       *)
(***************************************************************************)
EXTENDS Integers, Sequences

CONSTANTS
  Blocks,         \* blocks of the file
  RECORD,         \* units of a block after SOH (132 bytes)
  RETRY_LIMIT,    \* XMODEM_RETRY_LIMIT (20)
  NUMBERS,        \* values of the byte packnum (256)
  INITIAL,        \* XMODEM_INITIAL_BUFFER_SIZE, in blocks (8)
  INCREMENT,      \* XMODEM_INCREMENT_AMMOUNT, in blocks (4)
  MaxFaults       \* bound: faults of the line and pauses

ASSUME XmodemAssumption == /\ Blocks \in Nat \ {0} /\ RECORD \in Nat \ {0}
                           /\ RETRY_LIMIT \in Nat \ {0}
                           /\ NUMBERS \in Nat /\ NUMBERS > 1
                           /\ INITIAL \in Nat \ {0} /\ INCREMENT \in Nat \ {0}
                           /\ MaxFaults \in Nat

VARIABLES
  at,        \* where xmodem_receive is
  starting,  \* starting: no record has begun, a 'C' is sent in every pass
  packnum,   \* packnum
  retries,   \* retries
  limit,     \* limit: the size of the buffer, in blocks
  dest,      \* *dest: the blocks received; its length is size
  rec,       \* the units of the record read so far
  result,    \* what xmodem_receive returns
  line,      \* units on their way to the board
  back,      \* replies on their way to the sender
  sender,    \* the sender: idle, waiting for a reply, done, stopped
  block,     \* the block it sends, Blocks + 1 for EOT
  rest,      \* the rest of a block in which it pauses
  faults,    \* bound: see MaxFaults
  late,      \* history: passes over before the sender started, until retries is reset
  trouble    \* history: what else has gone wrong

board == <<at, starting, packnum, retries, limit, dest, rec, result>>
pc == <<sender, block, rest>>
vars == <<board, line, back, pc, faults, late, trouble>>

\* A unit of the line: a control character, or unit j of block b (b = 0: damaged).
Control(c) == [c |-> c, b |-> 0, j |-> 0]
Data(b, j) == [c |-> "data", b |-> b, j |-> j]
Damaged == Data(0, 0)
Record(b) == [j \in 1 .. RECORD |-> Data(b, j)]
Units == {Control(c) : c \in {"SOH", "EOT", "CAN"}} \cup [c : {"data"}, b : 0 .. Blocks, j : 0 .. RECORD]
Replies == {"C", "ACK", "NAK", "CAN"}

TypeOK ==
  /\ at \in {"loop", "control", "record", "flush", "flush_end", "flush_cancel", "returned"}
  /\ starting \in BOOLEAN
  /\ packnum \in 0 .. NUMBERS - 1
  /\ retries \in 0 .. RETRY_LIMIT
  /\ limit \in Nat /\ dest \in Seq(0 .. Blocks)
  /\ rec \in Seq(Units)
  /\ result \in {"none", "size", "remotecancel", "retryexceed", "outofmem"}
  /\ line \in Seq(Units) /\ back \in Seq(Replies)
  /\ sender \in {"idle", "waiting", "done", "stopped"}
  /\ block \in 1 .. Blocks + 1 /\ rest \in Seq(Units)
  /\ faults \in 0 .. MaxFaults
  /\ late \in Nat
  /\ trouble \subseteq {"start", "misread", "control", "pause", "reply", "stop"}

Init ==
  /\ at = "loop" /\ starting = TRUE /\ packnum = 1
  /\ retries = RETRY_LIMIT /\ limit = INITIAL
  /\ dest = << >> /\ rec = << >> /\ result = "none"
  /\ line = << >> /\ back = << >>
  /\ sender = "idle" /\ block = 1 /\ rest = << >>
  /\ faults = 0 /\ late = 0 /\ trouble = {}

-----------------------------------------------------------------------------
(* xmodem_receive, xmodem_get_record, xmodem_flush *)

Reply(c) == back' = Append(back, c)

\* Mutant of Loop: a pass that fails is not counted.
LoopForever ==
  /\ at = "loop"
  /\ at' = "control"
  /\ IF starting THEN Reply("C") ELSE UNCHANGED back
  /\ UNCHANGED <<starting, packnum, retries, limit, dest, rec, result, line, pc, faults, late, trouble>>

\* while( retries-- ).
Loop ==
  /\ at = "loop"
  /\ IF retries = 0
       THEN /\ at' = "flush_cancel" /\ result' = "retryexceed"
            /\ UNCHANGED <<retries, back>>
       ELSE /\ at' = "control" /\ retries' = retries - 1
            /\ IF starting THEN Reply("C") ELSE UNCHANGED back
            /\ UNCHANGED result
  /\ UNCHANGED <<starting, packnum, limit, dest, rec, line, pc, faults, late, trouble>>

\* XMODEM_TIMEOUT passes: nothing is on the line, and the sender has nothing to
\* react to, or does not react.
Silent == line = << >> /\ (back = << >> \/ sender # "waiting")

\* Nothing has come: the next pass.
ControlTimeout ==
  /\ at = "control" /\ Silent
  /\ at' = "loop"
  /\ late' = IF sender = "idle" THEN late + 1 ELSE late
  /\ UNCHANGED <<starting, packnum, retries, limit, dest, rec, result, line, back, pc, faults,
                 trouble>>

\* What the unit u may be when it is read as a control character.
Looks(u) == IF u.c = "data" THEN {"SOH", "EOT", "CAN", "other"} ELSE {u.c}

\* A character is read and acted upon.
ReadControl(c) ==
  /\ at = "control" /\ line # << >> /\ c \in Looks(Head(line))
  /\ line' = Tail(line)
  /\ trouble' = IF Head(line).c = "data" /\ c = "EOT" THEN trouble \cup {"misread"} ELSE trouble
  /\ CASE c = "EOT" -> /\ at' = "flush_end" /\ result' = "size" /\ Reply("ACK")
                       /\ UNCHANGED <<starting, rec>>
       [] c = "CAN" -> /\ at' = "flush_end" /\ result' = "remotecancel" /\ Reply("ACK")
                       /\ UNCHANGED <<starting, rec>>
       [] c = "SOH" -> /\ at' = "record" /\ starting' = FALSE /\ rec' = << >>
                       /\ UNCHANGED <<back, result>>
       [] OTHER     -> at' = "loop" /\ UNCHANGED <<starting, rec, back, result>>
  /\ UNCHANGED <<packnum, retries, limit, dest, pc, faults, late>>

\* Mutant of IsRecord: the number is not checked.
IsRecordAny(r) == \E b \in 1 .. Blocks : r = Record(b)

\* The checks of the number, its complement and the CRC.
IsRecord(r) == \E b \in 1 .. Blocks : r = Record(b) /\ b % NUMBERS = packnum

\* Mutant of BadRecord: acknowledged.
BadRecordAcked == at' = "loop" /\ Reply("ACK")

\* err: of xmodem_get_record.
BadRecord == at' = "loop" /\ Reply("NAK")

\* A character of the record; the last one completes it.
ReadRecord ==
  /\ at = "record" /\ line # << >>
  /\ line' = Tail(line)
  /\ LET r == Append(rec, Head(line))
     IN IF Len(r) < RECORD THEN rec' = r /\ UNCHANGED <<at, back>>
        ELSE IF IsRecord(r) THEN at' = "flush" /\ rec' = r /\ UNCHANGED back
        ELSE BadRecord /\ rec' = << >>
  /\ UNCHANGED <<starting, packnum, retries, limit, dest, result, pc, faults, late, trouble>>

RecordTimeout ==
  /\ at = "record" /\ Silent
  /\ BadRecord /\ rec' = << >>
  /\ UNCHANGED <<starting, packnum, retries, limit, dest, result, line, pc, faults, late, trouble>>

\* xmodem_flush reads whatever comes.
Flush ==
  /\ at \in {"flush", "flush_end", "flush_cancel"} /\ line # << >>
  /\ line' = Tail(line)
  /\ UNCHANGED <<board, back, pc, faults, late, trouble>>

\* The next block does not fit the buffer.
Grows == Len(dest) + 1 > limit

\* Mutant of AfterRecord: the retries are not reset.
AfterRecordCounts == retries

\* The retries after a valid record.
AfterRecord == RETRY_LIMIT

\* packnum ++.
Number == (packnum + 1) % NUMBERS

\* A valid record, once the line is quiet: room is made for it, it is acknowledged
\* and copied; or there is no memory for it.
GotRecord(memory) ==
  /\ at = "flush" /\ line = << >>
  /\ retries' = AfterRecord
  /\ packnum' = Number
  /\ limit' = IF Grows THEN limit + INCREMENT ELSE limit
  /\ rec' = << >>
  /\ IF Grows /\ ~memory
       THEN /\ at' = "flush_cancel" /\ result' = "outofmem"
            /\ UNCHANGED <<dest, back>>
       ELSE /\ at' = "loop" /\ Reply("ACK") /\ dest' = Append(dest, rec[1].b)
            /\ UNCHANGED result
  /\ late' = 0
  /\ UNCHANGED <<starting, line, pc, faults, trouble>>

\* The flush at the end is over; after an error CAN is sent.
Finish ==
  /\ at \in {"flush_end", "flush_cancel"} /\ line = << >>
  /\ at' = "returned"
  /\ IF at = "flush_cancel" THEN Reply("CAN") ELSE UNCHANGED back
  /\ UNCHANGED <<starting, packnum, retries, limit, dest, rec, result, line, pc, faults, late, trouble>>

-----------------------------------------------------------------------------
(* The sender and the line *)

\* What the sender sends for block b.
Sent(b) == IF b > Blocks THEN <<Control("EOT")>> ELSE <<Control("SOH")>> \o Record(b)

Without(s, i) == SubSeq(s, 1, i - 1) \o SubSeq(s, i + 1, Len(s))

\* The block b is sent; the line may damage or lose a unit of it, or the sender
\* pauses after some units.  w is what has gone wrong otherwise.
SendBlock(b, w) ==
  LET s == Sent(b)
  IN /\ block' = b /\ sender' = "waiting"
     /\ \/ line' = line \o s /\ rest' = << >> /\ faults' = faults /\ trouble' = w
        \/ /\ faults < MaxFaults /\ faults' = faults + 1
           /\ \/ \E i \in 1 .. Len(s) :
                   /\ \/ line' = line \o Without(s, i)
                      \/ line' = line \o [s EXCEPT ![i] = Damaged]
                   /\ trouble' = IF s[i].c = "data" THEN w ELSE w \cup {"control"}
                   /\ rest' = << >>
              \/ \E i \in 1 .. Len(s) - 1 :
                   /\ line' = line \o SubSeq(s, 1, i)
                   /\ rest' = SubSeq(s, i + 1, Len(s))
                   /\ trouble' = w \cup {"pause"}

\* The sender goes on after a pause.
SendRest ==
  /\ rest # << >>
  /\ line' = line \o rest /\ rest' = << >>
  /\ UNCHANGED <<board, back, sender, block, faults, late, trouble>>

\* The user has started the sender, and it reads a 'C', perhaps one of a pass that
\* is over; the ones before it have been read by no one.
Start ==
  /\ sender = "idle"
  /\ \E i \in 1 .. Len(back) :
       /\ back[i] = "C" /\ back' = SubSeq(back, i + 1, Len(back))
       /\ SendBlock(1, IF at = "control" /\ i = Len(back) THEN trouble
                       ELSE trouble \cup {"start"})
  /\ UNCHANGED <<board, late>>

\* A reply comes in.
SenderReply ==
  /\ sender = "waiting" /\ rest = << >> /\ back # << >>
  /\ back' = Tail(back)
  /\ CASE Head(back) = "ACK" -> IF block > Blocks
                                  THEN /\ sender' = "done"
                                       /\ UNCHANGED <<line, block, rest, faults, trouble>>
                                  ELSE SendBlock(block + 1, trouble)
       [] Head(back) = "CAN" -> /\ sender' = "stopped"
                                /\ UNCHANGED <<line, block, rest, faults, trouble>>
       [] OTHER              -> SendBlock(block, trouble)
  /\ UNCHANGED <<board, late>>

\* The sender has waited long enough, much longer than the board does.
SenderTimeout ==
  /\ sender = "waiting" /\ rest = << >> /\ back = << >> /\ line = << >>
  /\ at \in {"control", "returned"}
  /\ SendBlock(block, trouble)
  /\ UNCHANGED <<board, back, late>>

\* The sender is stopped: it says so, or its cable is pulled out.
Stop ==
  /\ sender = "waiting"
  /\ sender' = "stopped"
  /\ line' \in {line, Append(line, Control("CAN"))} /\ rest' = << >>
  /\ trouble' = trouble \cup {"stop"}
  /\ UNCHANGED <<board, back, block, faults, late>>

\* A reply is lost.
LoseReply ==
  /\ back # << >> /\ faults < MaxFaults
  /\ back' = Tail(back) /\ faults' = faults + 1
  /\ trouble' = trouble \cup {"reply"}
  /\ UNCHANGED <<board, line, pc, late>>

-----------------------------------------------------------------------------
Receive ==
  \/ Loop \/ ControlTimeout \/ ReadRecord \/ RecordTimeout \/ Flush \/ Finish
  \/ \E c \in {"SOH", "EOT", "CAN", "other"} : ReadControl(c)
  \/ \E memory \in BOOLEAN : GotRecord(memory)

Sender == Start \/ SenderReply \/ SenderTimeout \/ SendRest \/ Stop

Next == Receive \/ Sender \/ LoseReply

Spec == Init /\ [][Next]_vars

\* The receiver runs.  A sender that waits for a reply reads it, and one that has
\* paused in a block goes on, unless it is stopped.
FairSpec == Spec /\ WF_vars(Receive) /\ WF_vars(SenderReply) /\ WF_vars(SendRest)

-----------------------------------------------------------------------------
\* The blocks received are the first ones of the file, each once and in order,
\* through blocks that are repeated, and around the wrap of packnum.
InOrder == \A i \in 1 .. Len(dest) : dest[i] = i

\* A transfer that ends well has all of the file, unless a byte of a record has
\* been read where a control character was expected (xmodem.c:136) and taken for
\* EOT, whose value it had.
CompleteUnlessMisread == result = "size" => Len(dest) = Blocks \/ "misread" \in trouble

\* Records with bytes damaged or lost are repeated until they come (xmodem.c:156):
\* a transfer is given up only if the passes that were over before the sender
\* started, and the faults since, are as many as the retries; the passes before the
\* start no longer count once a record has come (xmodem.c:158).  Excepted are a
\* sender that stopped or paused, control characters and replies that were lost, and
\* a sender that started on a 'C' of an earlier pass and answers the next one too.
DamageIsRepaired ==
  result = "retryexceed"
    => \/ trouble \cap {"start", "stop", "control", "reply", "pause"} # {}
       \/ late + faults >= RETRY_LIMIT

\* xmodem_receive returns whatever the sender does.
ReceiveReturns == <>(at = "returned")
=============================================================================
