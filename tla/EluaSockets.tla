---------------------------- MODULE EluaSockets ----------------------------
(***************************************************************************)
(* The sockets of eLua over uIP (src/elua_uip.c).  The Lua program calls   *)
(* elua_net_send() and the like, which leave a request in the appstate of  *)
(* the connection and spin until it is done; elua_uip_appcall(), which uIP *)
(* calls in the Ethernet interrupt, works on it.  The interrupt may come   *)
(* between any two steps of a call.                                        *)
(*                                                                         *)
(* Of uIP there is what the sockets see: the events of a connection.  The  *)
(* closing states are "lastack" (the peer has closed), "finwait" (we have) *)
(* and "timewait"; UipTcp has the details.  The network is configured.     *)
(***************************************************************************)
EXTENDS Integers

CONSTANTS
  UIP_CONNS,           \* sockets
  UIP_RECEIVE_WINDOW,  \* the longest segment that can arrive
  UIP_TCP_MSS,         \* the most uip_mss() may be; the peer's window may make it less
  MaxSize,             \* the longest buffer passed to a call
  None                 \* no socket (-1)

ASSUME SocketAssumption ==
  /\ UIP_CONNS \in Nat \ {0} /\ UIP_RECEIVE_WINDOW \in Nat \ {0}
  /\ UIP_TCP_MSS \in Nat \ {0} /\ MaxSize \in Nat
  /\ None \notin Nat

Socks == 0 .. UIP_CONNS - 1
Mss == 1 .. UIP_TCP_MSS

TcpStates == {"closed", "reserved", "synrcvd", "synsent", "open",
              "lastack", "finwait", "timewait"}

VARIABLES
  conns,    \* uip_conns: state, UIP_STOPPED, bytes outstanding, mss, and whether
            \* the local port is the one of telnet
  app,      \* the elua_uip_state of every connection
  telnet,   \* elua_uip_telnet_socket
  accept,   \* elua_uip_accept_request and elua_uip_accept_sock
  listens,  \* elua_accept() has put its port into uip_listenports
  task,     \* the call the Lua program is in
  hist      \* history: see Hist

vars == <<conns, app, telnet, accept, listens, task, hist>>

UipConn == [tcp : TcpStates, stopped : BOOLEAN, len : Nat, mss : Mss, telnet : BOOLEAN]

\* struct elua_uip_state; readto tells whether there is a character to read to.
EluaUipState ==
  [state : {"IDLE", "SEND", "RECV", "RECV_2", "CONNECT", "CLOSE"},
   res : {"OK", "ENDED"}, len : 0 .. MaxSize, readto : BOOLEAN]

\* pc: "checked" is after the test of uip_conn_active() or uip_conn_is_reserved(),
\* "opening" between the stores of uip_prepare_conn(), "wait" in the loop, "late" when
\* elua_accept() has found that its time is over.
Task ==
  [pc : {"ready", "checked", "opening", "wait", "late"},
   op : {"send", "recv", "close", "connect", "accept"},
   sock : Socks \cup {None}, size : 0 .. MaxSize, readto : BOOLEAN, timed : BOOLEAN]

\* call: the connection a send, close or connect was made for is "live", has
\* "ended" without the call being told, or its entry now belongs to an "other"
\* one.  acked: bytes of the call the peer has acknowledged.  steady: nothing was
\* outstanding when the call began, and the window has not changed mss while
\* something was.  given: the socket the interrupt has set for elua_accept() and
\* that has not been returned, or the other way round.  late: sockets on which a
\* receive has timed out.
Hist ==
  [call : {"live", "ended", "other"}, acked : Nat, steady : BOOLEAN,
   given : Socks \cup {None}, late : SUBSET Socks]

\* A connection that is not in use, one that waits for the acknowledgment of its
\* FIN, a socket nothing is asked of, and no call.
\* What they hold apart from that is never looked at.
Unused == [tcp |-> "closed", stopped |-> FALSE, len |-> 0, mss |-> UIP_TCP_MSS,
           telnet |-> FALSE]
Closing(tcp) == [Unused EXCEPT !.tcp = tcp, !.len = 1]
Idle == [state |-> "IDLE", res |-> "OK", len |-> 0, readto |-> FALSE]
Ready == [pc |-> "ready", op |-> "send", sock |-> None, size |-> 0,
          readto |-> FALSE, timed |-> FALSE]

Min2(a, b) == IF a < b THEN a ELSE b

Active(c) == conns[c].tcp \notin {"closed", "reserved"}

Init ==
  /\ conns = [c \in Socks |-> Unused]
  /\ app = [c \in Socks |-> Idle]
  /\ telnet = None
  /\ accept = [request |-> FALSE, sock |-> None]
  /\ listens = FALSE
  /\ task = Ready
  /\ hist = [call |-> "live", acked |-> 0, steady |-> TRUE, given |-> None,
             late |-> {}]

-----------------------------------------------------------------------------
(* elua_uip_appcall.  r is the connection as uIP has left it before the call *)

\* The Lua program is in a call to send, close or connect on socket c.
Calling(c) == /\ task.pc # "ready" /\ task.op \in {"send", "close", "connect"}
              /\ task.sock = c

\* uip_connected().
AppConnected(c, r) ==
  /\ \/ /\ r.telnet /\ telnet # None
        /\ conns' = [conns EXCEPT ![c] = Closing("finwait")]
        /\ UNCHANGED <<app, telnet, accept, hist>>
     \/ /\ ~(r.telnet /\ telnet # None)
        /\ conns' = [conns EXCEPT ![c] = [r EXCEPT !.stopped = TRUE]]
        /\ telnet' = IF r.telnet THEN c ELSE telnet
        /\ IF ~r.telnet /\ accept.request
             THEN /\ accept' = [request |-> FALSE, sock |-> c]
                  /\ hist' = [hist EXCEPT !.given = c]
                  /\ UNCHANGED app
             ELSE /\ app' = IF ~r.telnet /\ app[c].state = "CONNECT"
                              THEN [app EXCEPT ![c].state = "IDLE"] ELSE app
                  /\ UNCHANGED <<accept, hist>>

\* The socket is idle: whatever the event is, nothing is done.
AppIdle(c, r, end) ==
  /\ app[c].state = "IDLE"
  /\ conns' = [conns EXCEPT ![c] = r]
  /\ hist' = IF end /\ Calling(c) THEN [hist EXCEPT !.call = "ended"] ELSE hist
  /\ UNCHANGED <<app, telnet, accept>>

\* A receive begins, whatever the event is.
AppRecv(c, r) ==
  /\ app[c].state = "RECV"
  /\ app' = [app EXCEPT ![c].state = "RECV_2"]
  /\ conns' = [conns EXCEPT ![c] = [r EXCEPT !.stopped = FALSE]]
  /\ UNCHANGED <<telnet, accept, hist>>

\* uip_aborted(), uip_timedout() or uip_closed().
AppEnd(c, r) ==
  /\ app[c].state \notin {"IDLE", "RECV"}
  /\ app' = [app EXCEPT ![c].state = "IDLE", ![c].res = "ENDED"]
  /\ telnet' = IF c = telnet THEN None ELSE telnet
  /\ conns' = [conns EXCEPT ![c] = r]
  /\ UNCHANGED <<accept, hist>>

\* The mss of socket c, now m, is the one that what is outstanding was sent with.
Steady(c, m) == conns[c].len > 0 => m = conns[c].mss

\* Mutant of AppSend: what is sent again is counted again.
AppSendTwice(c, r, acked) ==
  LET left == app[c].len - IF acked > 0 \/ r.len > 0 THEN Min2(app[c].len, r.mss) ELSE 0
  IN /\ app[c].state = "SEND"
     /\ app' = [app EXCEPT ![c].len = left, ![c].state = IF left = 0 THEN "IDLE" ELSE @]
     /\ conns' = [conns EXCEPT ![c] =
                    [r EXCEPT !.len = IF @ = 0 THEN Min2(left, r.mss) ELSE @]]
     /\ hist' = [hist EXCEPT !.acked = @ + acked, !.steady = @ /\ Steady(c, r.mss)]
     /\ UNCHANGED <<telnet, accept>>

\* Mutant of AppSend: the call is not told that everything has been sent.
AppSendOnly(c, r, acked) ==
  LET left == app[c].len - IF acked > 0 THEN Min2(app[c].len, r.mss) ELSE 0
  IN /\ app[c].state = "SEND"
     /\ app' = [app EXCEPT ![c].len = left]
     /\ conns' = [conns EXCEPT ![c] =
                    [r EXCEPT !.len = IF @ = 0 THEN Min2(left, r.mss) ELSE @]]
     /\ hist' = [hist EXCEPT !.acked = @ + acked, !.steady = @ /\ Steady(c, r.mss)]
     /\ UNCHANGED <<telnet, accept>>

\* SEND, with an acknowledgment of so many bytes, a retransmission or a poll.
\* uIP sends what is outstanding again, or else up to mss bytes.  The '\r' that
\* the console puts before every '\n' is left out.
AppSend(c, r, acked) ==
  LET left == app[c].len - IF acked > 0 THEN Min2(app[c].len, r.mss) ELSE 0
  IN /\ app[c].state = "SEND"
     /\ app' = [app EXCEPT ![c].len = left,
                           ![c].state = IF acked > 0 /\ left = 0 THEN "IDLE" ELSE @]
     /\ conns' = [conns EXCEPT ![c] =
                    [r EXCEPT !.len = IF @ = 0 THEN Min2(left, r.mss) ELSE @]]
     /\ hist' = [hist EXCEPT !.acked = @ + acked, !.steady = @ /\ Steady(c, r.mss)]
     /\ UNCHANGED <<telnet, accept>>

\* CLOSE.  uIP does not look at UIP_CLOSE after a retransmission.
AppClose(c, r, rexmit) ==
  /\ app[c].state = "CLOSE"
  /\ app' = [app EXCEPT ![c].state = "IDLE"]
  /\ conns' = [conns EXCEPT ![c] =
       IF rexmit THEN r ELSE Closing("finwait")]
  /\ UNCHANGED <<telnet, accept, hist>>

\* Mutant of AppNewData: the peer may go on sending when the call is done.
AppNewDataOpen(c, r, n) ==
  /\ app[c].state = "RECV_2"
  /\ app' = [app EXCEPT ![c].state = "IDLE", ![c].res = "OK",
                        ![c].len = @ - Min2(n, @)]
  /\ conns' = [conns EXCEPT ![c] = r]
  /\ UNCHANGED <<telnet, accept, hist>>

\* uip_newdata() in RECV_2, n bytes of which k go to the buffer: all that fit, or
\* less if there is a character to stop at or the telnet sequences are taken out.
\* The call is done when the buffer is full, the character was found or the
\* segment was a short one; with telnet, when there is anything in the buffer.
AppNewData(c, r, n) ==
  \E k \in 0 .. Min2(n, app[c].len), found \in BOOLEAN :
    LET left == app[c].len - k
        done == IF c = telnet THEN k > 0
                  ELSE left = 0 \/ n < UIP_RECEIVE_WINDOW \/ found
    IN /\ app[c].state = "RECV_2"
       /\ found => app[c].readto
       /\ k = Min2(n, app[c].len) \/ app[c].readto \/ c = telnet
       /\ app' = [app EXCEPT ![c] =
            IF done THEN [@ EXCEPT !.state = "IDLE", !.res = "OK", !.len = left]
                    ELSE [@ EXCEPT !.len = left]]
       /\ conns' = [conns EXCEPT ![c] = [r EXCEPT !.stopped = @ \/ done]]
       /\ UNCHANGED <<telnet, accept, hist>>

\* An event there is nothing to do for, or data nobody has asked for.
AppOther(c, r, acked, n) ==
  /\ app[c].state \in IF n = 0 THEN {"RECV_2", "CONNECT"}
                      ELSE IF acked = 0 THEN {"SEND", "CONNECT"} ELSE {"CONNECT"}
  /\ conns' = [conns EXCEPT ![c] = [r EXCEPT !.stopped = @ \/ n > 0]]
  /\ hist' = [hist EXCEPT !.steady = @ /\ (app[c].state = "SEND" => Steady(c, r.mss))]
  /\ UNCHANGED <<app, telnet, accept>>

\* The appcall of a connection that ends.
CallEnd(c, r) ==
  /\ AppIdle(c, r, TRUE) \/ AppRecv(c, r) \/ AppEnd(c, r)
  /\ UNCHANGED <<listens, task>>

\* The appcall of an open connection, with an acknowledgment of so many bytes,
\* n bytes of data, a retransmission or, with none of them, a poll.
CallOpen(c, r, acked, n, rexmit) ==
  /\ \/ AppIdle(c, r, FALSE) \/ AppRecv(c, r)
     \/ (acked > 0 \/ n = 0) /\ AppSend(c, r, acked)
     \/ AppClose(c, r, rexmit)
     \/ n > 0 /\ AppNewData(c, r, n)
     \/ AppOther(c, r, acked, n)
  /\ UNCHANGED <<listens, task>>

-----------------------------------------------------------------------------
(* elua_uip_mainloop: what uip_input() and uip_periodic() make of a frame or   *)
(* of the time                                                                 *)

\* The entry a SYN takes: the first closed one, or one in TIME_WAIT.
IsVictim(c) ==
  \/ conns[c].tcp = "closed" /\ \A d \in Socks : conns[d].tcp = "closed" => c <= d
  \/ conns[c].tcp = "timewait" /\ \A d \in Socks : conns[d].tcp # "closed"

\* A SYN for the telnet port or the one elua_accept() listens on.
Syn(c, isTelnet) ==
  /\ isTelnet \/ listens
  /\ IsVictim(c)
  /\ conns' = [conns EXCEPT ![c] = [tcp |-> "synrcvd", stopped |-> FALSE, len |-> 1,
                                    mss |-> UIP_TCP_MSS, telnet |-> isTelnet]]
  /\ hist' = [hist EXCEPT !.call = IF Calling(c) THEN "other" ELSE @,
                          !.late = @ \ {c}]
  /\ UNCHANGED <<app, telnet, accept, listens, task>>

\* The handshake is complete.
Established(c) ==
  /\ conns[c].tcp \in {"synrcvd", "synsent"}
  /\ AppConnected(c, [conns[c] EXCEPT !.tcp = "open", !.len = 0])
  /\ UNCHANGED <<listens, task>>

\* A poll, forced or by the timer.
Poll(c) == conns[c].tcp = "open" /\ CallOpen(c, conns[c], 0, 0, FALSE)

Rexmit(c) ==
  conns[c].tcp = "open" /\ conns[c].len > 0 /\ CallOpen(c, conns[c], 0, 0, TRUE)

\* A segment that acknowledges all that is outstanding, or brings data, or both.
\* A stopped connection takes no data.  The window of the segment makes the mss m.
Segment(c, acks, n, m) ==
  LET r == [conns[c] EXCEPT !.mss = m, !.len = IF acks THEN 0 ELSE @]
  IN /\ conns[c].tcp = "open"
     /\ acks => conns[c].len > 0
     /\ n > 0 => ~conns[c].stopped
     /\ acks \/ n > 0
     /\ CallOpen(c, r, IF acks THEN conns[c].len ELSE 0, n, FALSE)

\* A segment that only tells the window: the application is not called.
Window(c, m) ==
  /\ conns[c].tcp = "open"
  /\ conns' = [conns EXCEPT ![c].mss = m]
  /\ hist' = [hist EXCEPT !.steady = @ /\ (Calling(c) => Steady(c, m))]
  /\ UNCHANGED <<app, telnet, accept, listens, task>>

\* The peer closes; ignored while the connection is stopped, or if there is data
\* outstanding that the segment does not acknowledge.
Fin(c) ==
  /\ conns[c].tcp = "open" /\ ~conns[c].stopped
  /\ CallEnd(c, Closing("lastack"))

\* An RST, a refused SYN, a timeout of the retransmissions, or the last
\* acknowledgment of a connection the peer has closed.
Ended(c) ==
  /\ Active(c)
  /\ CallEnd(c, Unused)

\* The peer closes after us.
FinAfter(c) ==
  /\ conns[c].tcp = "finwait"
  /\ CallEnd(c, [Unused EXCEPT !.tcp = "timewait"])

\* FIN_WAIT_2 or TIME_WAIT is over: the application is not called.
Silent(c) ==
  /\ conns[c].tcp \in {"finwait", "timewait"}
  /\ conns' = [conns EXCEPT ![c] = Unused]
  /\ hist' = IF Calling(c) THEN [hist EXCEPT !.call = "ended"] ELSE hist
  /\ UNCHANGED <<app, telnet, accept, listens, task>>

-----------------------------------------------------------------------------
(* elua_net_... *)

\* elua_net_socket, with interrupts off.
Socket(c) ==
  /\ task.pc = "ready"
  /\ conns[c].tcp = "closed" /\ \A d \in Socks : conns[d].tcp = "closed" => c <= d
  /\ conns' = [conns EXCEPT ![c].tcp = "reserved"]
  /\ UNCHANGED <<app, telnet, accept, listens, task, hist>>

\* The beginning of a call on an active socket.
Begin(op, c, size, readto) ==
  /\ task.pc = "ready"
  /\ Active(c)
  /\ task' = [pc |-> "checked", op |-> op, sock |-> c, size |-> size,
              readto |-> readto, timed |-> FALSE]
  /\ hist' = [hist EXCEPT !.call = IF op = "recv" \/ conns[c].tcp = "open" THEN "live" ELSE "ended",
                          !.acked = 0, !.steady = conns[c].len = 0]
  /\ UNCHANGED <<conns, app, telnet, accept, listens>>

Requested ==
  CASE task.op = "send" -> "SEND" [] task.op = "recv" -> "RECV" [] task.op = "close" -> "CLOSE"

\* elua_prep_socket_state: the request is made.
Prep ==
  /\ task.pc = "checked" /\ task.op \in {"send", "recv", "close"}
  /\ app' = [app EXCEPT ![task.sock] = [state |-> Requested, res |-> "OK",
                                        len |-> task.size, readto |-> task.readto]]
  /\ task' = [task EXCEPT !.pc = "wait"]
  /\ UNCHANGED <<conns, telnet, accept, listens, hist>>

\* elua_net_connect, of a reserved socket, which no interrupt looks at: the request
\* is made, ...
Connect(c) ==
  /\ task.pc = "ready"
  /\ conns[c].tcp = "reserved"
  /\ app' = [app EXCEPT ![c] = [Idle EXCEPT !.state = "CONNECT"]]
  /\ task' = [Ready EXCEPT !.pc = "checked", !.op = "connect", !.sock = c]
  /\ hist' = [hist EXCEPT !.call = "live", !.late = @ \ {c}]
  /\ UNCHANGED <<conns, telnet, accept, listens>>

\* ... uip_prepare_conn sets tcpstateflags, and from now on the interrupt takes the
\* entry for a connection that is being opened, with the ports, the peer and the
\* numbers its last connection has left, ...
Open ==
  /\ task.pc = "checked" /\ task.op = "connect"
  /\ conns' = [conns EXCEPT ![task.sock].tcp = "synsent", ![task.sock].stopped = FALSE]
  /\ task' = [task EXCEPT !.pc = "opening"]
  /\ UNCHANGED <<app, telnet, accept, listens, hist>>

\* ... and then the rest, whatever has become of the entry.
Prepare ==
  /\ task.pc = "opening"
  /\ conns' = [conns EXCEPT ![task.sock].len = 1, ![task.sock].mss = UIP_TCP_MSS,
                            ![task.sock].telnet = FALSE]
  /\ task' = [task EXCEPT !.pc = "wait"]
  /\ UNCHANGED <<app, telnet, accept, listens, hist>>

\* The end of the loop that waits for the request to be done.
Done ==
  /\ task.pc = "wait" /\ task.op # "accept"
  /\ app[task.sock].state = "IDLE"
  /\ task' = Ready
  /\ app' = [app EXCEPT ![task.sock] = Idle]
  /\ hist' = [hist EXCEPT !.call = "live", !.acked = 0, !.steady = TRUE]
  /\ UNCHANGED <<conns, telnet, accept, listens>>

\* elua_net_recv_internal, when the time is over, if it has one.  Interrupts are off.
RecvTimeout ==
  /\ task.pc = "wait" /\ task.op = "recv"
  /\ app[task.sock].state # "IDLE"
  /\ app' = [app EXCEPT ![task.sock] = Idle]
  /\ task' = Ready
  /\ hist' = [hist EXCEPT !.acked = 0, !.steady = TRUE, !.late = @ \cup {task.sock}]
  /\ UNCHANGED <<conns, telnet, accept, listens>>

\* elua_accept: listen, with interrupts off, ...
Listen(timed) ==
  /\ task.pc = "ready"
  /\ listens' = TRUE
  /\ task' = [Ready EXCEPT !.pc = "checked", !.op = "accept", !.timed = timed]
  /\ UNCHANGED <<conns, app, telnet, accept, hist>>

\* ... leave the request, ...
Request ==
  /\ task.pc = "checked" /\ task.op = "accept"
  /\ accept' = [request |-> TRUE, sock |-> None]
  /\ task' = [task EXCEPT !.pc = "wait"]
  /\ UNCHANGED <<conns, app, telnet, listens, hist>>

\* The value of elua_accept(), which is not looked at again.
Return(c) ==
  /\ accept' = [request |-> FALSE, sock |-> None]
  /\ task' = Ready
  /\ hist' = [hist EXCEPT !.given = IF c = @ THEN None ELSE c]
  /\ UNCHANGED <<conns, app, telnet, listens>>

\* ... and wait until there is a connection ...
Accepted ==
  /\ task.pc = "wait" /\ task.op = "accept" /\ ~accept.request
  /\ Return(accept.sock)

\* ... or the time is over.
AcceptTimeout ==
  /\ task.pc = "wait" /\ task.op = "accept" /\ task.timed /\ accept.request
  /\ task' = [task EXCEPT !.pc = "late"]
  /\ UNCHANGED <<conns, app, telnet, accept, listens, hist>>

\* Mutant of GiveUp: a timeout is always reported as one.
GiveUpNone ==
  /\ task.pc = "late"
  /\ accept' = [request |-> FALSE, sock |-> None]
  /\ task' = Ready
  /\ UNCHANGED <<conns, app, telnet, listens, hist>>

GiveUp == task.pc = "late" /\ Return(accept.sock)

-----------------------------------------------------------------------------
Interrupt(c) ==
  \/ \E isTelnet \in BOOLEAN : Syn(c, isTelnet)
  \/ Established(c) \/ Poll(c) \/ Rexmit(c)
  \/ \E acks \in BOOLEAN, n \in 0 .. UIP_RECEIVE_WINDOW, m \in Mss : Segment(c, acks, n, m)
  \/ \E m \in Mss : Window(c, m)
  \/ Fin(c) \/ Ended(c) \/ FinAfter(c) \/ Silent(c)

Go == Prep \/ Open \/ Prepare \/ Done \/ Request \/ Accepted \/ AcceptTimeout \/ GiveUp

Start ==
  \/ \E c \in Socks :
       \/ Socket(c)
       \/ \E n \in 1 .. MaxSize : Begin("send", c, n, FALSE)
       \/ \E n \in 1 .. MaxSize, readto \in BOOLEAN : Begin("recv", c, n, readto)
       \/ Begin("close", c, 0, FALSE)
       \/ Connect(c)
  \/ \E timed \in BOOLEAN : Listen(timed)

Next == Start \/ Go \/ RecvTimeout \/ \E c \in Socks : Interrupt(c)

Spec == Init /\ [][Next]_vars

\* The loops of the calls run on, and time passes; the main loop polls every
\* connection; a SYN that is not answered is given up after UIP_MAXSYNRTX.  It is
\* enough to ask this for the connection of the present call.
Fairness ==
  /\ WF_vars(Go)
  /\ WF_vars(\E c \in Socks : Calling(c) /\ Poll(c))
  /\ WF_vars(\E c \in Socks : /\ Calling(c) /\ conns[c].tcp = "synsent"
                              /\ conns[c].len > 0 /\ (Established(c) \/ Ended(c)))

\* What is asked of the peer: data that is outstanding is acknowledged, or the
\* connection ends.  uIP alone does not see to it, since every forced poll of an
\* established connection sets nrtx back to 0 (uip.c:1775).
PeerAnswers ==
  WF_vars(\E c \in Socks : /\ Calling(c) /\ conns[c].tcp = "open" /\ conns[c].len > 0
                           /\ Ended(c) \/ \E m \in Mss : Segment(c, TRUE, 0, m))

FairSpec == Spec /\ Fairness

-----------------------------------------------------------------------------
(* Properties *)

\* Every variable keeps its type; in particular no call counts more bytes than
\* its buffer has (elua_uip.c:354, 428).
TypeOK ==
  /\ conns \in [Socks -> UipConn]
  /\ app \in [Socks -> EluaUipState]
  /\ telnet \in Socks \cup {None}
  /\ accept \in [request : BOOLEAN, sock : Socks \cup {None}]
  /\ listens \in BOOLEAN
  /\ task \in Task
  /\ hist \in Hist

\* A connection is stopped unless a receive is under way, so that the peer keeps
\* what nobody is there to take (elua_uip.c:318, 445, 451).  A receive that times
\* out leaves it running.
StoppedUnlessReceiving ==
  \A c \in Socks :
    conns[c].tcp = "open" /\ ~conns[c].stopped => app[c].state = "RECV_2" \/ c \in hist.late

\* elua_net_send() counts the bytes the peer has acknowledged by what it would send
\* now (elua_uip.c:353): what is left to send and what has been acknowledged make up
\* the whole, through polls, retransmissions and changes of the window, as long as
\* the window did not change the mss between a send and its acknowledgment.
SendCounts ==
  task.pc = "wait" /\ task.op = "send" /\ hist.call = "live" /\ hist.steady
    => \/ app[task.sock].len + hist.acked = task.size
       \/ app[task.sock].res = "ENDED"

\* elua_accept() returns the connection the interrupt has accepted for it, also
\* when the time is over just then, and none but that.
AcceptedIsReturned == task.pc = "ready" => hist.given = None

\* If the peer answers, a call on a connection that is open returns, whatever
\* becomes of the connection; but for an end that the interrupt ignores because the
\* request has not been made yet (elua_uip.c:322).
CallsReturn ==
  PeerAnswers =>
    ((task.pc # "ready" /\ task.op \in {"send", "close", "connect"} /\ hist.call = "live")
       ~> (task.pc = "ready" \/ hist.call # "live"))

=============================================================================
