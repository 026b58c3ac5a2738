------------------------------ MODULE RemoteFs ------------------------------
(***************************************************************************)
(* The remote file system over a serial line: the board's side             *)
(* (elua_rfs.c, client.c) cuts reads and writes into requests, sends one   *)
(* request at a time and waits for its answer with a timeout; the PC's     *)
(* side (rfs_server_src: main.c, server.c) reads requests, executes them   *)
(* and answers.  Packets (eluarpc.c, remotefs.c) have no number and no     *)
(* checksum: a size in front, a signature at both ends, the operation.     *)
(*                                                                         *)
(* The line keeps the order of its bytes and may lose some.  A packet is   *)
(* two units on the line: the four bytes of its size, which both sides     *)
(* read first, and its body.  A unit with bytes lost is no longer what the *)
(* reader waits for; what it leaves behind is a "tail".                    *)
(***************************************************************************)
EXTENDS Integers, Sequences

CONSTANTS
  BUFFER,       \* RFS_REAL_BUFFER_SIZE: bytes a request reads or writes at most
  Calls,        \* what the application calls: operation and bytes
  FileLen,      \* the room of the file: a write at the end comes out short
  MaxSwallow,   \* units that the body of a damaged request may swallow
  MaxTransit,   \* bound: units on their way, in each direction, when the board
                \* sends a request
  MaxLosses     \* bound: units lost and answers that are late

\* "other" are close, opendir, readdir and closedir: one request, no position.
Sized == {"read", "write"}
Ops == Sized \cup {"open", "lseek", "other"}

ASSUME RfsAssumption == /\ BUFFER \in Nat \ {0}
                        /\ Calls \subseteq [op : Ops, len : Nat]
                        /\ \A c \in Calls : c.len > 0 <=> c.op \in Sized
                        /\ FileLen \in Nat /\ MaxSwallow \in Nat \ {0}
                        /\ MaxTransit \in Nat /\ MaxLosses \in Nat

VARIABLES
  client,   \* of rfsch_send_request_read_response: idle, send, head, body; fault
  call,     \* the call of the application: operation, bytes left
  resp,     \* the answer whose size has been read
  toPC,     \* units sent to the PC and not read
  toBoard,  \* units sent to the board and not read
  server,   \* reading: head, body, junk; the request; units it may swallow
  pos,      \* the position of the file, at the PC
  apppos,   \* history: the position of the file according to the answers, 0 after
            \* a failure
  failed,   \* history: a request has failed since the file was opened
  stale,    \* history: there was something of an old request left when the
            \* present one was sent
  wrong,    \* history: the present request took an answer it should not
  losses    \* bound: see MaxLosses

rfsVars == <<client, call, resp, toPC, toBoard, server, pos, apppos, failed, stale,
             wrong, losses>>
fileVars == <<pos, apppos, failed>>

\* A packet: n is the number of bytes asked for, or done; mine if it belongs to
\* the present request (history).
Packet(kind, op, n) == [kind |-> kind, op |-> op, n |-> n, mine |-> TRUE]
Packets == [kind : {"request", "response"}, op : Ops, n : -1 .. BUFFER, mine : BOOLEAN]
Unit(part, p) == [part |-> part, packet |-> p]
RfsUnits == [part : {"head", "body", "tail"}, packet : Packets]
NoCall == [op |-> "other", len |-> 0]
NoPacket == [kind |-> "request", op |-> "other", n |-> 0, mine |-> FALSE]
Waiting == [at |-> "head", req |-> NoPacket, owed |-> 0]
Tail4(u) == Unit("tail", u.packet)

Min2(a, b) == IF a < b THEN a ELSE b

RfsTypeOK ==
  /\ client \in {"idle", "send", "head", "body", "fault"}
  /\ call \in [op : Ops, len : Nat]
  /\ resp \in Packets
  /\ toPC \in Seq(RfsUnits) /\ toBoard \in Seq(RfsUnits)
  /\ server \in [at : {"head", "body", "junk"}, req : Packets, owed : 0 .. MaxSwallow]
  /\ pos \in 0 .. FileLen /\ apppos \in Nat
  /\ failed \in BOOLEAN /\ stale \in BOOLEAN
  /\ wrong \subseteq {"foreign", "overflow"}
  /\ losses \in 0 .. MaxLosses

RfsInit ==
  /\ client = "idle"
  /\ call = NoCall
  /\ resp = NoPacket
  /\ toPC = << >> /\ toBoard = << >>
  /\ server = Waiting
  /\ pos = 0 /\ apppos = 0
  /\ failed = FALSE /\ stale = FALSE /\ wrong = {}
  /\ losses = 0

-----------------------------------------------------------------------------
(* The board: elua_rfs.c and client.c *)

\* The bytes the present request asks for.
Chunk == IF call.op \in Sized THEN Min2(call.len, BUFFER) ELSE 0

Old(u) == [u EXCEPT !.packet.mine = FALSE]
OldUnits(s) == [i \in 1 .. Len(s) |-> Old(s[i])]

\* A call of a rfs_..._r function; one to read or write nothing returns at once.
Begin(c) ==
  /\ client = "idle"
  /\ call' = c
  /\ client' = "send"
  /\ UNCHANGED <<resp, toPC, toBoard, server, fileVars, stale, wrong, losses>>

\* The call returns.  n bytes more have been done; a failed request adds none.
Return(n, ok) ==
  /\ client' = "idle"
  /\ call' = NoCall
  /\ failed' = (failed \/ ~ok)
  /\ apppos' = IF failed' \/ call.op = "lseek" THEN 0 ELSE apppos + n

\* rfsch_send_request_read_response or the decoding of the answer fails.
Fail == Return(0, FALSE)

\* Mutant of Emptied: the receive buffer is not emptied.
EmptiedNot(s, k, part) == [left |-> s, whole |-> {TRUE}]

\* The receive buffer is emptied: k units of s have arrived, and part of the next
\* one.  Every byte is read into rfsc_buffer[ 0 ], the first one of the request that
\* is there: the request remains whole if there was none, or if the last one has
\* the value of TYPE_PKT_SIZE, which the end of a packet or of its size has not.
Emptied(s, k, part) ==
  [left  |-> IF part THEN <<Tail4(s[k + 1])>> \o SubSeq(s, k + 2, Len(s))
             ELSE SubSeq(s, k + 1, Len(s)),
   whole |-> IF k = 0 /\ ~part THEN {TRUE}
             ELSE IF part \/ s[k].part = "tail" THEN BOOLEAN
             ELSE {FALSE}]

\* The request is sent.  Of what the board had to read, left remains, and more is
\* on its way.
SendRequest(left, more) ==
  LET p == Packet("request", call.op, Chunk)
      busy == server.at # "head" \/ toPC # << >> \/ more
  IN /\ toBoard' = OldUnits(left)
     /\ toPC' = OldUnits(toPC) \o <<Unit("head", p), Unit("body", p)>>
     /\ server' = [server EXCEPT !.req.mine = FALSE]
     /\ client' = "head"
     /\ stale' = busy /\ wrong' = {}
     /\ IF call.op = "open" /\ ~busy
          THEN failed' = FALSE /\ apppos' = 0
          ELSE UNCHANGED <<failed, apppos>>
     /\ UNCHANGED call

\* eluarpc_get_packet_size does not find a request: nothing is sent.
SendNothing(left) ==
  /\ Fail
  /\ toBoard' = left
  /\ UNCHANGED <<toPC, server, stale, wrong>>

\* The receive buffer is emptied, and the request is sent if it is still there.
Send(k, part) ==
  LET e == Emptied(toBoard, k, part)
  IN /\ client = "send"
     /\ part => k < Len(toBoard) /\ toBoard[k + 1].part # "tail"
     /\ Len(toPC) <= MaxTransit /\ Len(toBoard) - k <= MaxTransit
     /\ \/ TRUE \in e.whole /\ SendRequest(e.left, k < Len(toBoard))
        \/ FALSE \in e.whole /\ SendNothing(e.left)
     /\ UNCHANGED <<resp, pos, losses>>

\* What is left when a reader takes the first bytes of the unit u.
Leftovers(u) == {<< >>} \cup (IF u.part = "tail" THEN {} ELSE {<<Tail4(u)>>})

\* ELUARPC_START_OFFSET bytes are read: a size, or bytes that are not.
RecvHead ==
  /\ client = "head" /\ toBoard # << >>
  /\ LET u == Head(toBoard)
     IN IF u.part = "head"
          THEN /\ client' = "body" /\ resp' = u.packet
               /\ toBoard' = Tail(toBoard)
               /\ UNCHANGED <<call, apppos, failed>>
          ELSE /\ Fail
               /\ \E left \in Leftovers(u) : toBoard' = left \o Tail(toBoard)
               /\ UNCHANGED resp
  /\ UNCHANGED <<toPC, server, pos, stale, wrong, losses>>

\* Mutant of Answer: a short answer does not end the call, and what it lacks is
\* taken for done.
AnswerFull(q) ==
  IF call.len > Chunk
    THEN /\ client' = "send"
         /\ call' = [call EXCEPT !.len = @ - Chunk]
         /\ apppos' = IF failed THEN 0 ELSE apppos + Chunk
         /\ UNCHANGED failed
    ELSE Return(Chunk, TRUE)

\* rfs_read_r, rfs_write_r: the loop goes on unless the answer is an error or
\* short, or everything has been done.
Answer(q) ==
  IF call.op \in Sized /\ q.n >= Chunk /\ call.len > Chunk
    THEN /\ client' = "send"
         /\ call' = [call EXCEPT !.len = @ - Chunk]
         /\ apppos' = IF failed THEN 0 ELSE apppos + q.n
         /\ UNCHANGED failed
    ELSE Return(IF call.op \in Sized /\ q.n # -1 THEN q.n ELSE 0, TRUE)

\* The answer to a read that failed: its length is -1 and the end of the packet is
\* looked for far outside of the buffer.  It is not found, or the processor faults.
AnswerWild ==
  \/ Fail
  \/ client' = "fault" /\ failed' = TRUE /\ UNCHANGED <<call, apppos>>

\* The body is read.  It is what belongs to the size, or units of other packets
\* that make up its length; the decoding wants an answer to the operation.
RecvBody ==
  /\ client = "body" /\ toBoard # << >>
  /\ LET u == Head(toBoard)
     IN IF u = Unit("body", resp)
          THEN /\ toBoard' = Tail(toBoard)
               /\ IF resp.kind = "response" /\ resp.op = call.op
                    THEN /\ IF resp.op = "read" /\ resp.n = -1 THEN AnswerWild ELSE Answer(resp)
                         /\ wrong' = wrong \cup (IF resp.mine THEN {} ELSE {"foreign"})
                                           \cup (IF resp.n > Chunk THEN {"overflow"} ELSE {})
                    ELSE Fail /\ UNCHANGED wrong
          ELSE /\ Fail /\ UNCHANGED wrong
               /\ \E k \in 1 .. Len(toBoard) : \E left \in Leftovers(toBoard[k]) :
                    toBoard' = left \o SubSeq(toBoard, k + 1, Len(toBoard))
  /\ resp' = NoPacket
  /\ UNCHANGED <<toPC, server, pos, stale, losses>>

\* The board is reset after a fault; its files are closed.
Reset ==
  /\ client = "fault"
  /\ client' = "idle" /\ call' = NoCall
  /\ UNCHANGED <<resp, toPC, toBoard, server, fileVars, stale, wrong, losses>>

\* Nothing more will come: the server waits, and the line is empty.
Quiet == toBoard = << >> /\ toPC = << >>

\* RFS_TIMEOUT passes without a byte: there is none to come, or it is late.
Timeout ==
  /\ client \in {"head", "body"}
  /\ IF Quiet THEN UNCHANGED losses
     ELSE losses < MaxLosses /\ losses' = losses + 1
  /\ Fail /\ resp' = NoPacket
  /\ UNCHANGED <<toPC, toBoard, server, pos, stale, wrong>>

-----------------------------------------------------------------------------
(* The PC: main.c and server.c *)

\* ser_read_request_packet: the size is read; on anything else what has arrived
\* is flushed.
ServerHead ==
  /\ server.at = "head" /\ toPC # << >>
  /\ LET u == Head(toPC)
     IN IF u.part = "head"
          THEN /\ server' = [server EXCEPT !.at = "body", !.req = u.packet]
               /\ toPC' = Tail(toPC)
          ELSE /\ UNCHANGED server
               /\ \/ \E k \in 1 .. Len(toPC) : toPC' = SubSeq(toPC, k + 1, Len(toPC))
                  \/ u.part = "body" /\ toPC' = <<Tail4(u)>> \o Tail(toPC)
  /\ UNCHANGED <<client, call, resp, toBoard, fileVars, stale, wrong, losses>>

\* The operating system's answer to the request p: the bytes read or written, and
\* the position after it.  A read or a write may fail.
Executions(p) ==
  CASE p.op \in Sized -> {[n |-> Min2(p.n, FileLen - pos), pos |-> pos + Min2(p.n, FileLen - pos)],
                          [n |-> -1, pos |-> pos]}
    [] p.op = "other" -> {[n |-> 0, pos |-> pos]}
    [] OTHER          -> {[n |-> 0, pos |-> 0]}

Answered(p) == <<Unit("head", p), Unit("body", p)>>

\* The request is complete: it is executed and answered.
Execute ==
  /\ server.at = "body" /\ toPC # << >>
  /\ Head(toPC) = Unit("body", server.req)
  /\ toPC' = Tail(toPC)
  /\ server' = Waiting
  /\ \E r \in Executions(server.req) :
       /\ pos' = r.pos
       /\ toBoard' = toBoard \o Answered([server.req EXCEPT !.kind = "response", !.n = r.n])
  /\ UNCHANGED <<client, call, resp, apppos, failed, stale, wrong, losses>>

\* Mutant of Swallow: what is read is not counted.
SwallowOn ==
  /\ server.at = "body" /\ toPC # << >>
  /\ Head(toPC) # Unit("body", server.req)
  /\ toPC' = Tail(toPC)
  /\ UNCHANGED <<client, call, resp, toBoard, server, fileVars, stale, wrong, losses>>

\* The body of the request is lost: the units that follow are read in its place,
\* until its length is reached.
Swallow ==
  /\ server.at \in {"body", "junk"} /\ toPC # << >>
  /\ server.at = "body" => Head(toPC) # Unit("body", server.req)
  /\ server.at = "junk" => server.owed > 0
  /\ server' = [server EXCEPT !.at = "junk",
                              !.owed = IF server.at = "body" THEN MaxSwallow - 1 ELSE @ - 1]
  /\ toPC' = Tail(toPC)
  /\ UNCHANGED <<client, call, resp, toBoard, fileVars, stale, wrong, losses>>

\* The length is reached, perhaps within a unit.  The decoding fails, nothing is
\* executed, and the packet in the buffer, a request, is sent as the answer.
EchoRequest ==
  /\ server.at = "junk"
  /\ server' = Waiting
  /\ toBoard' = toBoard \o Answered(server.req)
  /\ \/ UNCHANGED toPC
     \/ toPC # << >> /\ toPC' = <<Tail4(Head(toPC))>> \o Tail(toPC)
  /\ UNCHANGED <<client, call, resp, fileVars, stale, wrong, losses>>

-----------------------------------------------------------------------------
\* Bytes of a unit are lost, in either direction.
LostAt(s, i) == SubSeq(s, 1, i - 1) \o SubSeq(s, i + 1, Len(s))

Lose ==
  /\ losses < MaxLosses /\ losses' = losses + 1
  /\ \/ (\E i \in 1 .. Len(toPC) : toPC' = LostAt(toPC, i)) /\ UNCHANGED toBoard
     \/ (\E i \in 1 .. Len(toBoard) : toBoard' = LostAt(toBoard, i)) /\ UNCHANGED toPC
  /\ UNCHANGED <<client, call, resp, server, fileVars, stale, wrong>>

Application == \E c \in Calls : Begin(c)

Board ==
  \/ \E k \in 0 .. Len(toBoard), part \in BOOLEAN : Send(k, part)
  \/ RecvHead \/ RecvBody \/ Timeout \/ Reset

PC == ServerHead \/ Execute \/ Swallow \/ EchoRequest

RfsNext == Application \/ Board \/ PC \/ Lose

RfsSpec == RfsInit /\ [][RfsNext]_rfsVars

\* Both programs run; the board's timeout comes when no byte does.
RfsFairness ==
  /\ WF_rfsVars(\E k \in 0 .. Len(toBoard), part \in BOOLEAN : Send(k, part))
  /\ WF_rfsVars(RecvHead) /\ WF_rfsVars(RecvBody)
  /\ WF_rfsVars(Quiet /\ Timeout)
  /\ WF_rfsVars(PC)

RfsFairSpec == RfsSpec /\ RfsFairness

-----------------------------------------------------------------------------
\* The receive buffer is emptied before every request, so an answer that is late,
\* or that belongs to a request before, is taken for the present one's only if some
\* of it was still on its way when the request was sent (client.c:41).  The same
\* holds of an answer longer than the buffer of the caller, which client.c:138
\* copies.
AnswersAreMine == wrong # {} => stale

\* What the answers said is what the server did: as long as no request has failed
\* the application knows the position of its file, through short reads, writes
\* that fail and calls cut into several requests.
PositionKnown == client = "idle" /\ ~failed => pos = apppos

\* Whatever was lost or comes late, the server finds the beginning of a request
\* again (main.c:59-79), and a call that could send nothing is followed by one that
\* can (client.c:41-49): an application that goes on calling is served.
ServerRecovers == []<>(client = "send") => []<><<Execute>>_rfsVars
=============================================================================
