------------------------------- MODULE UipTcp -------------------------------
(***************************************************************************)
(* The TCP connection table of uIP (src/uip/uip.c): uip_process() for      *)
(* incoming segments, for the periodic timer and for poll requests, and    *)
(* the calls an application makes on the table (uip_listen, uip_unlisten,  *)
(* uip_connect, uip_connect_socket, uip_conn_reserve).                     *)
(*                                                                         *)
(* The remote hosts are arbitrary: any segment may arrive at any time.     *)
(* uip_process only ever compares a sequence number with rcv_nxt and an    *)
(* acknowledgment number with snd_nxt + len, so a segment carries the two  *)
(* outcomes (seqok, ackok) instead of the numbers, and len only tells      *)
(* whether something is outstanding.  PsockStream keeps the numbers.       *)
(* The application is arbitrary as well: what UIP_APPCALL() makes of an    *)
(* event is chosen from AppReactions.                                      *)
(***************************************************************************)
EXTENDS Naturals, FiniteSets

CONSTANTS
  UIP_CONNS,              \* entries of uip_conns
  UIP_LISTENPORTS,        \* entries of uip_listenports
  Remotes,                \* remote endpoints, (ripaddr, rport) pairs
  ServicePorts,           \* local ports the application listens on
  PortInit,               \* lastport after uip_init (1024)
  PortWrap,               \* the port the search restarts from (4096)
  PortEnd,                \* the first port never used (32000)
  UIP_RTO,                \* initial retransmission timeout, in ticks
  RtoValues,              \* what the RTT estimator may set rto to
  UIP_MAXRTX,             \* retransmissions before a connection is dropped
  UIP_MAXSYNRTX,          \* the same while a SYN is outstanding
  UIP_TIME_WAIT_TIMEOUT,  \* ticks a connection stays in TIME_WAIT
  U8,                     \* values of a u8_t (256)
  Segments,               \* the segments that may arrive
  ForcedPolls,            \* TRUE if the main loop uses uip_set_forced_poll
  RexmitOps               \* what an application may do when called to rexmit

ASSUME TableAssumption ==
  /\ UIP_CONNS \in Nat \ {0}
  /\ UIP_LISTENPORTS \in Nat \ {0}
ASSUME PortAssumption ==
  /\ PortInit \in Nat /\ PortWrap \in Nat \ {0} /\ PortEnd \in Nat
  /\ PortInit < PortEnd /\ PortWrap < PortEnd
  /\ ServicePorts \subseteq (Nat \ {0})
ASSUME TimerAssumption ==
  /\ U8 \in Nat /\ U8 > 1
  /\ UIP_RTO \in 0 .. U8-1
  /\ UIP_RTO * 16 \in 0 .. U8-1
  /\ RtoValues \subseteq 0 .. U8-1
  /\ UIP_MAXRTX \in Nat /\ UIP_MAXSYNRTX \in Nat
  /\ UIP_MAXSYNRTX <= UIP_MAXRTX
  /\ UIP_TIME_WAIT_TIMEOUT \in 0 .. U8-1
ASSUME AppAssumption ==
  /\ ForcedPolls \in BOOLEAN
  /\ RexmitOps \subseteq {"none", "send", "close", "abort"}

Conns == 1 .. UIP_CONNS
ListenSlots == 1 .. UIP_LISTENPORTS
LocalPorts == ServicePorts \cup 0 .. PortEnd-1

\* The values of tcpstateflags under UIP_TS_MASK.
TcpStates == {"CLOSED", "SYN_RCVD", "SYN_SENT", "ESTABLISHED", "FIN_WAIT_1",
              "FIN_WAIT_2", "CLOSING", "TIME_WAIT", "LAST_ACK", "RESERVED"}

\* struct uip_conn.  remote is the pair (ripaddr, rport); stopped is the
\* UIP_STOPPED bit of tcpstateflags; len is 1 when anything is outstanding.
UipConn == [tcpstate : TcpStates, stopped : BOOLEAN, lport : LocalPorts,
            remote : Remotes, len : {0, 1}, timer : 0 .. U8-1, nrtx : Nat]

ASSUME SegmentAssumption ==
  Segments \subseteq
    [remote : Remotes, destport : LocalPorts,
     flags : SUBSET {"SYN", "ACK", "FIN", "RST"},
     data : BOOLEAN, seqok : BOOLEAN, ackok : BOOLEAN]

\* What an application does in UIP_APPCALL(): uip_send, uip_close, uip_abort,
\* and uip_stop or uip_restart.
AppReactions == [op : {"none", "send", "close", "abort"},
                 flow : {"keep", "stop", "restart"}]

VARIABLES
  conns,        \* uip_conns
  listenports,  \* uip_listenports; 0 marks a free entry
  lastport,     \* the last port uip_find_unused_port returned
  out,          \* flags of the segment the last uip_process call sends, {}
                \* when it drops
  session,      \* history: what the application was told of each connection
  peerUp        \* FALSE once every remote host has fallen silent for good

vars == <<conns, listenports, lastport, out, session, peerUp>>

-----------------------------------------------------------------------------
\* uip_init().
Init ==
  /\ \E r \in Remotes :
       conns = [c \in Conns |-> [tcpstate |-> "CLOSED", stopped |-> FALSE,
                  lport |-> 0, remote |-> r, len |-> 0, timer |-> 0, nrtx |-> 0]]
  /\ listenports = [l \in ListenSlots |-> 0]
  /\ lastport = PortInit
  /\ out = {}
  /\ session = [c \in Conns |-> "none"]
  /\ peerUp = TRUE

\* uip_conn_active: the connections the demultiplexer looks at.
Active(c) == conns[c].tcpstate \notin {"CLOSED", "RESERVED"}

\* An assignment to tcpstateflags clears UIP_STOPPED.
Enter(r, s) == [r EXCEPT !.tcpstate = s, !.stopped = FALSE]

\* uip_stop() and uip_restart().
Flow(r, app) ==
  [r EXCEPT !.stopped = app.flow = "stop" \/ (app.flow = "keep" /\ @)]

\* What the application now believes of connection c: events are the uip_flags
\* it was called with, op is what it asked for.
Told(c, events, op) ==
  session' = [session EXCEPT ![c] =
    IF op \in {"close", "abort"} \/ events \cap {"CLOSE", "ABORT", "TIMEDOUT"} # {}
      THEN "none"
      ELSE IF "CONNECTED" \in events THEN "open" ELSE @]

\* The appsend label: what becomes of connection c, with record r, after the
\* application was called with events and has reacted with app.
AppReact(c, r, events, app) ==
  LET f == Flow(r, app)
      newdata == "NEWDATA" \in events \/ app.flow = "restart"
  IN /\ Told(c, events, app.op)
     /\ \/ /\ app.op = "abort"
           /\ conns' = [conns EXCEPT ![c] = Enter(f, "CLOSED")]
           /\ out' = {"RST", "ACK"}
        \/ /\ app.op = "close"
           /\ conns' = [conns EXCEPT ![c] =
                          [Enter(f, "FIN_WAIT_1") EXCEPT !.len = 1, !.nrtx = 0]]
           /\ out' = {"FIN", "ACK"}
        \/ /\ app.op = "send"
           /\ conns' = [conns EXCEPT ![c] = [f EXCEPT !.len = 1, !.nrtx = 0]]
           /\ out' = {"ACK", "PSH"}
        \/ /\ app.op = "none"
           /\ conns' = [conns EXCEPT ![c] = [f EXCEPT !.nrtx = 0]]
           /\ out' = IF newdata THEN {"ACK"} ELSE {}

\* Mutant of AppSend: a close is put off, and lost, while data is outstanding.
AppSendCloseLater(c, r, events) ==
  \E app \in AppReactions :
    IF app.op = "close" /\ r.len > 0
      THEN /\ Told(c, events, app.op)
           /\ conns' = [conns EXCEPT ![c] = Flow(r, app)]
           /\ out' = {}
      ELSE AppReact(c, r, events, app)

\* UIP_APPCALL() and what follows it.
AppSend(c, r, events) == \E app \in AppReactions : AppReact(c, r, events, app)

\* An end-of-connection appcall; nothing the application does has an effect.
AppEnd(c, r, event, reply) ==
  /\ Told(c, {event}, "none")
  /\ conns' = [conns EXCEPT ![c] = r]
  /\ out' = reply

\* The segment has no effect on the application.
NoCall(c, r, reply) ==
  /\ conns' = [conns EXCEPT ![c] = r]
  /\ out' = reply
  /\ UNCHANGED session

-----------------------------------------------------------------------------
(* Incoming segments *)

\* Mutant of IsFound: only established connections are looked at.
IsFoundEstablished(c, seg) ==
  /\ conns[c].tcpstate = "ESTABLISHED"
  /\ conns[c].lport = seg.destport
  /\ conns[c].remote = seg.remote

\* The first connection the segment belongs to.
IsFound(c, seg) ==
  LET matches == {d \in Conns : /\ Active(d)
                                /\ conns[d].lport = seg.destport
                                /\ conns[d].remote = seg.remote}
  IN c \in matches /\ \A d \in matches : c <= d

\* Mutant of RecvReset: the application is not called.
RecvResetSilent(c, seg) ==
  /\ "RST" \in seg.flags
  /\ NoCall(c, Enter(conns[c], "CLOSED"), {})

\* found: any RST kills the connection.
RecvReset(c, seg) ==
  /\ "RST" \in seg.flags
  /\ AppEnd(c, Enter(conns[c], "CLOSED"), "ABORT", {})

\* The segment is not the next one expected: the connection re-acknowledges.
OutOfSequence(c, seg) ==
  /\ ~(conns[c].tcpstate = "SYN_SENT" /\ seg.flags = {"SYN", "ACK"})
  /\ seg.data \/ seg.flags \cap {"SYN", "FIN"} # {}
  /\ ~seg.seqok

RecvOutOfSequence(c, seg) ==
  /\ "RST" \notin seg.flags
  /\ OutOfSequence(c, seg)
  /\ NoCall(c, conns[c], {"ACK"})

\* The segment acknowledges all that is outstanding (UIP_ACKDATA).
Acks(c, seg) == "ACK" \in seg.flags /\ conns[c].len > 0 /\ seg.ackok

\* The connection after the acknowledgment is processed, with the new rto.
Acked(c, seg, rto) ==
  IF Acks(c, seg) THEN [conns[c] EXCEPT !.len = 0, !.timer = rto] ELSE conns[c]

\* case UIP_SYN_RCVD.
RecvSynRcvd(c, seg, rto) ==
  /\ conns[c].tcpstate = "SYN_RCVD"
  /\ IF Acks(c, seg)
       THEN AppSend(c, Enter(Acked(c, seg, rto), "ESTABLISHED"),
                    {"CONNECTED"} \cup IF seg.data THEN {"NEWDATA"} ELSE {})
       ELSE NoCall(c, conns[c], {})

\* case UIP_SYN_SENT: anything but the expected SYNACK aborts the connection.
RecvSynSent(c, seg, rto) ==
  /\ conns[c].tcpstate = "SYN_SENT"
  /\ IF Acks(c, seg) /\ seg.flags = {"SYN", "ACK"}
       THEN AppSend(c, Enter(Acked(c, seg, rto), "ESTABLISHED"),
                    {"CONNECTED", "NEWDATA"})
       ELSE AppEnd(c, Enter(Acked(c, seg, rto), "CLOSED"), "ABORT", {"RST", "ACK"})

\* case UIP_ESTABLISHED, a FIN: dropped while data is outstanding.
RecvFin(c, seg, rto) ==
  LET r == Acked(c, seg, rto)
  IN /\ conns[c].tcpstate = "ESTABLISHED"
     /\ "FIN" \in seg.flags /\ ~conns[c].stopped
     /\ IF r.len > 0
          THEN NoCall(c, r, {})
          ELSE AppEnd(c, [Enter(r, "LAST_ACK") EXCEPT !.len = 1, !.nrtx = 0],
                      "CLOSE", {"FIN", "ACK"})

\* case UIP_ESTABLISHED, anything else: the application is called if the
\* segment brings new data or acknowledges old data.
RecvEstablished(c, seg, rto) ==
  LET r == Acked(c, seg, rto)
      newdata == seg.data /\ ~conns[c].stopped
  IN /\ conns[c].tcpstate = "ESTABLISHED"
     /\ "FIN" \notin seg.flags \/ conns[c].stopped
     /\ IF newdata \/ Acks(c, seg)
          THEN AppSend(c, r, (IF newdata THEN {"NEWDATA"} ELSE {})
                               \cup (IF Acks(c, seg) THEN {"ACKDATA"} ELSE {}))
          ELSE NoCall(c, r, {})

\* case UIP_LAST_ACK.
RecvLastAck(c, seg, rto) ==
  /\ conns[c].tcpstate = "LAST_ACK"
  /\ IF Acks(c, seg)
       THEN AppEnd(c, Enter(Acked(c, seg, rto), "CLOSED"), "CLOSE", {})
       ELSE NoCall(c, conns[c], {})

\* case UIP_FIN_WAIT_1.
RecvFinWait1(c, seg, rto) ==
  LET r == Acked(c, seg, rto)
  IN /\ conns[c].tcpstate = "FIN_WAIT_1"
     /\ IF "FIN" \in seg.flags
          THEN AppEnd(c, IF Acks(c, seg)
                           THEN [Enter(r, "TIME_WAIT") EXCEPT !.timer = 0]
                           ELSE Enter(r, "CLOSING"),
                      "CLOSE", {"ACK"})
          ELSE IF Acks(c, seg)
            THEN NoCall(c, Enter(r, "FIN_WAIT_2"), {})
            ELSE NoCall(c, r, IF seg.data THEN {"ACK"} ELSE {})

\* case UIP_FIN_WAIT_2.
RecvFinWait2(c, seg) ==
  /\ conns[c].tcpstate = "FIN_WAIT_2"
  /\ IF "FIN" \in seg.flags
       THEN AppEnd(c, [Enter(conns[c], "TIME_WAIT") EXCEPT !.timer = 0],
                   "CLOSE", {"ACK"})
       ELSE NoCall(c, conns[c], IF seg.data THEN {"ACK"} ELSE {})

\* case UIP_TIME_WAIT and case UIP_CLOSING.
RecvTimeWait(c) ==
  conns[c].tcpstate = "TIME_WAIT" /\ NoCall(c, conns[c], {"ACK"})

RecvClosing(c, seg, rto) ==
  /\ conns[c].tcpstate = "CLOSING"
  /\ NoCall(c, IF Acks(c, seg)
                 THEN [Enter(conns[c], "TIME_WAIT") EXCEPT !.len = 0, !.timer = 0]
                 ELSE conns[c], {})

\* A segment for a connection of the table.
RecvFound(c, seg, rto) ==
  /\ IsFound(c, seg)
  /\ \/ RecvReset(c, seg)
     \/ RecvOutOfSequence(c, seg)
     \/ /\ "RST" \notin seg.flags /\ ~OutOfSequence(c, seg)
        /\ \/ RecvSynRcvd(c, seg, rto)
           \/ RecvSynSent(c, seg, rto)
           \/ RecvFin(c, seg, rto)
           \/ RecvEstablished(c, seg, rto)
           \/ RecvLastAck(c, seg, rto)
           \/ RecvFinWait1(c, seg, rto)
           \/ RecvFinWait2(c, seg)
           \/ RecvTimeWait(c)
           \/ RecvClosing(c, seg, rto)
  /\ UNCHANGED <<listenports, lastport, peerUp>>

\* The entry a new connection takes: the first CLOSED one, or else the one that
\* has been in TIME_WAIT for longest.
IsVictim(c) ==
  LET closed == {d \in Conns : conns[d].tcpstate = "CLOSED"}
      waiting == {d \in Conns : conns[d].tcpstate = "TIME_WAIT"}
  IN IF closed # {}
       THEN c \in closed /\ \A d \in closed : c <= d
       ELSE /\ c \in waiting
            /\ \A d \in waiting : \/ conns[d].timer < conns[c].timer
                                  \/ conns[d].timer = conns[c].timer /\ c <= d

Unclaimed(seg) == \A c \in Conns : ~IsFound(c, seg)

\* found_listen: a SYN for a listening port opens a connection.
RecvSyn(c, seg) ==
  /\ Unclaimed(seg)
  /\ seg.flags = {"SYN"}
  /\ \E l \in ListenSlots : listenports[l] = seg.destport
  /\ IsVictim(c)
  /\ conns' = [conns EXCEPT ![c] =
       [tcpstate |-> "SYN_RCVD", stopped |-> FALSE, lport |-> seg.destport,
        remote |-> seg.remote, len |-> 1, timer |-> UIP_RTO, nrtx |-> 0]]
  /\ out' = {"SYN", "ACK"}
  /\ UNCHANGED <<session, listenports, lastport, peerUp>>

\* A segment no connection can take: a SYN when the table is full is dropped,
\* an RST is dropped, anything else is answered with an RST.
RecvStray(seg) ==
  /\ Unclaimed(seg)
  /\ \/ /\ seg.flags = {"SYN"}
        /\ \E l \in ListenSlots : listenports[l] = seg.destport
        /\ \A c \in Conns : ~IsVictim(c)
        /\ out' = {}
     \/ /\ seg.flags # {"SYN"} \/ \A l \in ListenSlots : listenports[l] # seg.destport
        /\ out' = IF "RST" \in seg.flags THEN {} ELSE {"RST", "ACK"}
  /\ UNCHANGED <<conns, session, listenports, lastport, peerUp>>

-----------------------------------------------------------------------------
(* The periodic timer *)

\* ++ on a u8_t.
Increment(t) == IF t = U8-1 THEN 0 ELSE t + 1

\* Mutant of TimerWait: FIN_WAIT_2 does not time out.
TimerWaitOnlyTimeWait(c) ==
  LET t == Increment(conns[c].timer)
      r == [conns[c] EXCEPT !.timer = t]
  IN /\ conns[c].tcpstate = "TIME_WAIT"
     /\ NoCall(c, IF t = UIP_TIME_WAIT_TIMEOUT THEN Enter(r, "CLOSED") ELSE r, {})

\* TIME_WAIT and FIN_WAIT_2 only wait.
TimerWait(c) ==
  LET t == Increment(conns[c].timer)
      r == [conns[c] EXCEPT !.timer = t]
  IN /\ conns[c].tcpstate \in {"TIME_WAIT", "FIN_WAIT_2"}
     /\ NoCall(c, IF t = UIP_TIME_WAIT_TIMEOUT THEN Enter(r, "CLOSED") ELSE r, {})

Outstanding(c) == Active(c) /\ conns[c].len > 0

TimerRunning(c) ==
  /\ conns[c].tcpstate \notin {"TIME_WAIT", "FIN_WAIT_2"}
  /\ Outstanding(c)

\* Nothing to retransmit yet.
TimerCount(c) ==
  /\ TimerRunning(c) /\ conns[c].timer > 0
  /\ NoCall(c, [conns[c] EXCEPT !.timer = @ - 1], {})

\* Mutant of GivesUp: an outstanding SYN has the budget of data.
GivesUpLate(c) == conns[c].nrtx = UIP_MAXRTX

GivesUp(c) ==
  \/ conns[c].nrtx = UIP_MAXRTX
  \/ conns[c].tcpstate \in {"SYN_SENT", "SYN_RCVD"} /\ conns[c].nrtx = UIP_MAXSYNRTX

\* Too many retransmissions: the application is told, the peer gets an RST.
TimerGiveUp(c) ==
  /\ TimerRunning(c) /\ conns[c].timer = 0 /\ GivesUp(c)
  /\ AppEnd(c, [Enter(conns[c], "CLOSED") EXCEPT !.timer = U8-1],
            "TIMEDOUT", {"RST", "ACK"})

\* UIP_RTO << min(nrtx, 4).
Backoff(n) == UIP_RTO * <<1, 2, 4, 8, 16>>[IF n > 4 THEN 5 ELSE n + 1]

\* A retransmission.  In ESTABLISHED the application is called to reproduce the
\* data, and apprexmit looks at nothing but the data and UIP_NEWDATA.
TimerRexmit(c) ==
  LET r == [conns[c] EXCEPT !.timer = Backoff(conns[c].nrtx), !.nrtx = @ + 1]
  IN /\ TimerRunning(c) /\ conns[c].timer = 0 /\ ~GivesUp(c)
     /\ \/ conns[c].tcpstate = "SYN_RCVD" /\ NoCall(c, r, {"SYN", "ACK"})
        \/ conns[c].tcpstate = "SYN_SENT" /\ NoCall(c, r, {"SYN"})
        \/ /\ conns[c].tcpstate \in {"FIN_WAIT_1", "CLOSING", "LAST_ACK"}
           /\ NoCall(c, r, {"FIN", "ACK"})
        \/ /\ conns[c].tcpstate = "ESTABLISHED"
           /\ \E app \in {a \in AppReactions : a.op \in RexmitOps} :
                /\ Told(c, {"REXMIT"}, app.op)
                /\ conns' = [conns EXCEPT ![c] = Flow(r, app)]
                /\ out' = IF app.op = "send" THEN {"ACK", "PSH"}
                            ELSE IF app.flow = "restart" THEN {"ACK"} ELSE {}

\* The application is polled.
TimerPoll(c) ==
  /\ conns[c].tcpstate = "ESTABLISHED"
  /\ AppSend(c, conns[c], {"POLL"})

\* uip_periodic(c) with uip_forced_poll = 0.
Timer(c) ==
  /\ \/ TimerWait(c)
     \/ TimerCount(c)
     \/ TimerGiveUp(c)
     \/ TimerRexmit(c)
     \/ ~Outstanding(c) /\ TimerPoll(c)
  /\ UNCHANGED <<listenports, lastport, peerUp>>

\* uip_periodic(c) with uip_forced_poll = 1: established connections are
\* polled, with data outstanding or not, and no timer runs.
ForcedPoll(c) ==
  /\ ForcedPolls
  /\ TimerPoll(c)
  /\ UNCHANGED <<listenports, lastport, peerUp>>

\* uip_poll_conn(c).
PollRequest(c) ==
  /\ ~Outstanding(c)
  /\ TimerPoll(c)
  /\ UNCHANGED <<listenports, lastport, peerUp>>

-----------------------------------------------------------------------------
(* What the application asks of the table *)

\* uip_listen: the first free entry; without one the call has no effect.
Listen(p) ==
  LET free == {l \in ListenSlots : listenports[l] = 0}
  IN /\ \E l \in free : /\ \A k \in free : l <= k
                        /\ listenports' = [listenports EXCEPT ![l] = p]
     /\ out' = {}
     /\ UNCHANGED <<conns, lastport, session, peerUp>>

\* uip_unlisten: the first entry that holds the port.
Unlisten(p) ==
  LET held == {l \in ListenSlots : listenports[l] = p}
  IN /\ \E l \in held : /\ \A k \in held : l <= k
                        /\ listenports' = [listenports EXCEPT ![l] = 0]
     /\ out' = {}
     /\ UNCHANGED <<conns, lastport, session, peerUp>>

PortInUse(p) == \E c \in Conns : Active(c) /\ conns[c].lport = p

\* uip_find_unused_port: p is the first unused port after lastport, in the
\* order lastport+1 .. PortEnd-1, PortWrap .. lastport.
IsUnusedPort(p) ==
  /\ ~PortInUse(p)
  /\ \/ /\ p \in lastport+1 .. PortEnd-1
        /\ \A q \in lastport+1 .. p-1 : PortInUse(q)
     \/ /\ p \in PortWrap .. lastport
        /\ \A q \in (lastport+1 .. PortEnd-1) \cup (PortWrap .. p-1) : PortInUse(q)

\* uip_prepare_conn: the SYN goes out when the timer has run down.
PrepareConn(c, r, p) ==
  /\ IsUnusedPort(p)
  /\ lastport' = p
  /\ conns' = [conns EXCEPT ![c] =
       [tcpstate |-> "SYN_SENT", stopped |-> FALSE, lport |-> p, remote |-> r,
        len |-> 1, timer |-> 1, nrtx |-> 0]]
  /\ session' = [session EXCEPT ![c] = "opening"]
  /\ out' = {}
  /\ UNCHANGED <<listenports, peerUp>>

\* uip_connect.
Connect(c, r, p) == IsVictim(c) /\ PrepareConn(c, r, p)

\* uip_connect when the table is full: the port is consumed all the same.
ConnectFull(p) ==
  /\ \A c \in Conns : ~IsVictim(c)
  /\ IsUnusedPort(p)
  /\ lastport' = p
  /\ out' = {}
  /\ UNCHANGED <<conns, listenports, session, peerUp>>

\* uip_connect_socket, as one step; EluaSockets has the interrupt between its
\* stores, which elua_net_connect lets happen.
ConnectSocket(c, r, p) == conns[c].tcpstate = "RESERVED" /\ PrepareConn(c, r, p)

\* uip_conn_reserve, of a CLOSED entry (elua_net_socket).
Reserve(c) ==
  /\ conns[c].tcpstate = "CLOSED"
  /\ \A d \in Conns : conns[d].tcpstate = "CLOSED" => c <= d
  /\ conns' = [conns EXCEPT ![c] = Enter(@, "RESERVED")]
  /\ out' = {}
  /\ UNCHANGED <<listenports, lastport, session, peerUp>>

\* Every remote host falls silent for good.
PeersDie == peerUp /\ peerUp' = FALSE
            /\ UNCHANGED <<conns, listenports, lastport, out, session>>

-----------------------------------------------------------------------------
Receive(seg) ==
  /\ peerUp
  /\ \/ \E c \in Conns, rto \in RtoValues : RecvFound(c, seg, rto)
     \/ \E c \in Conns : RecvSyn(c, seg)
     \/ RecvStray(seg)

Next ==
  \/ \E seg \in Segments : Receive(seg)
  \/ \E c \in Conns : Timer(c) \/ ForcedPoll(c) \/ PollRequest(c)
  \/ \E p \in ServicePorts : Listen(p) \/ Unlisten(p)
  \/ \E c \in Conns, r \in Remotes, p \in 1 .. PortEnd-1 :
       Connect(c, r, p) \/ ConnectSocket(c, r, p)
  \/ \E p \in 1 .. PortEnd-1 : ConnectFull(p)
  \/ \E c \in Conns : Reserve(c)

\* The main loop runs uip_periodic() for every connection every half second.
Fairness == \A c \in Conns : WF_vars(Timer(c))

Spec == Init /\ [][Next]_vars
FairSpec == Init /\ [][Next \/ PeersDie]_vars /\ Fairness

-----------------------------------------------------------------------------
(* Properties *)

\* Every field of every connection keeps the type of its C declaration.
TypeOK ==
  /\ conns \in [Conns -> UipConn]
  /\ listenports \in [ListenSlots -> ServicePorts \cup {0}]
  /\ lastport \in 0 .. PortEnd-1
  /\ out \subseteq {"SYN", "ACK", "FIN", "RST", "PSH"}
  /\ session \in [Conns -> {"none", "opening", "open"}]
  /\ peerUp \in BOOLEAN

\* The demultiplexer (uip.c:1266) takes the first connection that matches a
\* segment.  That is right only because no two active connections ever have
\* the same local port and remote endpoint, whichever way they were opened.
UniqueEndpoints ==
  \A c, d \in Conns :
    Active(c) /\ Active(d) /\ conns[c].lport = conns[d].lport
      /\ conns[c].remote = conns[d].remote => c = d

\* The application learns of the end of every connection it asked for or was
\* told of: no reset, FIN, timeout or reuse of the entry goes unreported.
EndIsReported ==
  \A c \in Conns :
    /\ session[c] = "open" => conns[c].tcpstate = "ESTABLISHED"
    /\ session[c] = "opening" => conns[c].tcpstate = "SYN_SENT"

\* A uip_close() or uip_abort() of the application takes effect: it is never
\* left with an established connection that it has closed (uip.h:576, 587).
CloseTakesEffect ==
  \A c \in Conns : conns[c].tcpstate = "ESTABLISHED" => session[c] = "open"

\* Connection r has retransmissions left, and something to retransmit exactly
\* when it waits for an acknowledgment of its SYN or FIN.
WithinBudget(r) ==
  r.tcpstate \notin {"CLOSED", "RESERVED"} =>
    /\ r.nrtx <= UIP_MAXRTX
    /\ r.tcpstate \in {"SYN_RCVD", "SYN_SENT"} => r.nrtx <= UIP_MAXSYNRTX
    /\ r.tcpstate \in {"SYN_RCVD", "SYN_SENT", "FIN_WAIT_1", "CLOSING", "LAST_ACK"}
         => r.len = 1
    /\ r.tcpstate \in {"FIN_WAIT_2", "TIME_WAIT"} => r.len = 0

\* The give-up tests of the timer compare with ==, so no path may carry nrtx
\* past the limit; and a connection that waits for an acknowledgment has
\* something outstanding, or its timer would never run.
RetransmitBudget == \A c \in Conns : WithinBudget(conns[c])

\* Once the remote hosts are silent, a connection that is being opened or closed
\* gives its entry back.  So does one with data in flight, unless forced polls of
\* it never cease: they do not run the timer, and what the application then sends
\* again sets nrtx back to 0 (uip.c:1775), so the limit need not be reached.
DeadPeersFreeEntries ==
  \A c \in Conns :
    /\ (~peerUp /\ Active(c) /\ conns[c].tcpstate # "ESTABLISHED")
         ~> conns[c].tcpstate = "CLOSED"
    /\ \/ (~peerUp /\ conns[c].tcpstate = "ESTABLISHED" /\ conns[c].len > 0)
            ~> conns[c].tcpstate = "CLOSED"
       \/ []<><<ForcedPoll(c) /\ conns[c].len > 0>>_vars
=============================================================================
