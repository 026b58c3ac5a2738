------------------------- MODULE EluaSocketsProofs --------------------------
(***************************************************************************)
(* Proofs about EluaSockets, for every number of sockets and every size of *)
(* the buffers, of the window and of the mss.                              *)
(*                                                                         *)
(* Inv is inductive.  What the Lua program and the interrupt know of each  *)
(* other is in Calls and Accepting: a socket that is asked for something   *)
(* is the one the call waits for, and what elua_accept() is going to       *)
(* return is what the interrupt has set for it.  Sent relates what uIP has *)
(* outstanding to what the call has left to send.                          *)
(***************************************************************************)
EXTENDS EluaSockets, TLAPS

\* What a call asks of its socket, and the states that makes it go through.
Requests == {<<"send", "SEND">>, <<"recv", "RECV">>, <<"recv", "RECV_2">>,
             <<"close", "CLOSE">>, <<"connect", "CONNECT">>}

\* The call has made its request, or is about to connect.
Waits == task.pc = "wait" \/ (task.op = "connect" /\ task.pc \in {"checked", "opening"})

\* A socket that is not idle is the one the Lua program waits for.
Calls ==
  /\ \A c \in Socks : app[c].state # "IDLE" =>
       Waits /\ task.sock = c /\ <<task.op, app[c].state>> \in Requests
  /\ task.pc # "ready" /\ task.op # "accept" => task.sock \in Socks
  /\ task.pc = "late" => task.op = "accept"
  /\ task.pc = "opening" => task.op = "connect"

\* elua_uip_accept_request is set only while elua_accept() waits, and the socket
\* the interrupt has set is the one that is going to be returned.
Accepting ==
  IF task.op = "accept" /\ task.pc \in {"wait", "late"}
    THEN hist.given = accept.sock /\ (accept.request => accept.sock = None)
    ELSE hist.given = None /\ ~accept.request /\ accept.sock = None

\* What is counted of a call that has not made its request yet.
Uncounted == task.pc = "checked" /\ task.op = "send" => hist.acked = 0

\* The call to send on socket c is about to make its request, or waits for it.
Sending(c) ==
  /\ task.op = "send" /\ task.sock = c /\ hist.call = "live"
  /\ task.pc = "checked" \/ (task.pc = "wait" /\ app[c].state = "SEND")

\* What is outstanding on the entry r while the appstate is a: nothing before the
\* request is made, and then nothing, or what would be sent now.
InFlight(r, a) ==
  IF task.pc = "checked" THEN r.len = 0 ELSE r.len \in {0, Min2(a.len, r.mss)}

\* The connection of a call to send is open, and if the window has left the mss
\* alone, what is outstanding is what an acknowledgment will be taken for.
Sent ==
  \A c \in Socks : Sending(c) =>
    conns[c].tcp = "open" /\ (hist.steady => InFlight(conns[c], app[c]))

Inv ==
  /\ TypeOK /\ Calls /\ Accepting
  /\ StoppedUnlessReceiving /\ Uncounted /\ Sent /\ SendCounts

-----------------------------------------------------------------------------
(* One connection and its socket *)

LEMMA MinFacts ==
  ASSUME NEW a \in Nat, NEW b \in Nat
  PROVE  Min2(a, b) \in Nat /\ Min2(a, b) <= a /\ Min2(a, b) <= b
BY DEF Min2

\* The fields that the proofs look at have their types.
LEMMA Fields ==
  ASSUME TypeOK, NEW c \in Socks
  PROVE  /\ conns[c] \in UipConn /\ app[c] \in EluaUipState
         /\ conns = [conns EXCEPT ![c] = conns[c]] /\ app = [app EXCEPT ![c] = app[c]]
BY DEF TypeOK

\* The interrupt rewrites the entry c of uip_conns and its appstate: the socket
\* is asked for nothing that it was not asked for before, and the connection is
\* stopped unless data is being received.
LEMMA EntryStep ==
  ASSUME Inv, NEW c \in Socks, NEW r \in UipConn, NEW a \in EluaUipState,
         conns' = [conns EXCEPT ![c] = r], app' = [app EXCEPT ![c] = a],
         UNCHANGED <<listens, task>>, telnet' \in Socks \cup {None},
         accept' \in [request : BOOLEAN, sock : Socks \cup {None}],
         hist' \in Hist, hist'.late = hist.late,
         a.state # "IDLE" => app[c].state # "IDLE" /\ <<task.op, a.state>> \in Requests,
         r.tcp = "open" /\ ~r.stopped => a.state = "RECV_2" \/ c \in hist.late
  PROVE  TypeOK' /\ Calls' /\ StoppedUnlessReceiving'
<1>1. /\ conns' \in [Socks -> UipConn] /\ app' \in [Socks -> EluaUipState]
      /\ conns'[c] = r /\ app'[c] = a
      /\ \A d \in Socks : d # c => conns'[d] = conns[d] /\ app'[d] = app[d]
  BY DEF Inv, TypeOK
<1>2. TypeOK'
  BY <1>1 DEF Inv, TypeOK
<1>3. Calls'
  <2>1. ASSUME NEW d \in Socks, app'[d].state # "IDLE"
        PROVE  /\ Waits /\ task.sock = d
               /\ <<task.op, app'[d].state>> \in Requests
    <3>1. app[d].state # "IDLE" /\ (d # c => app'[d] = app[d])
      BY <1>1, <2>1
    <3>2. Waits /\ task.sock = d /\ <<task.op, app[d].state>> \in Requests
      BY <3>1 DEF Inv, Calls
    <3>. QED
      BY <1>1, <2>1, <3>1, <3>2
  <2>2. /\ task.pc # "ready" /\ task.op # "accept" => task.sock \in Socks
        /\ task.pc = "late" => task.op = "accept"
        /\ task.pc = "opening" => task.op = "connect"
    BY DEF Inv, Calls
  <2>. QED
    BY <2>1, <2>2 DEF Calls, Waits
<1>4. StoppedUnlessReceiving'
  BY <1>1 DEF Inv, StoppedUnlessReceiving
<1>. QED
  BY <1>2, <1>3, <1>4

\* What a call to send has counted is not touched, or the call is told that the
\* connection has ended.
LEMMA CountStep ==
  ASSUME Inv, NEW c \in Socks, NEW a \in EluaUipState, app' = [app EXCEPT ![c] = a],
         UNCHANGED task, hist'.acked = hist.acked, hist'.steady => hist.steady,
         hist'.call = "live" => hist.call = "live",
         task.op = "send" => /\ a.len = app[c].len
                             /\ a.res = app[c].res \/ a.res = "ENDED"
  PROVE  Uncounted' /\ SendCounts'
<1>1. app'[c] = a /\ \A d \in Socks : d # c => app'[d] = app[d]
  BY DEF Inv, TypeOK
<1>2. Uncounted'
  BY DEF Inv, Uncounted
<1>3. SendCounts'
  <2>. SUFFICES ASSUME task.pc = "wait", task.op = "send", hist.call = "live", hist.steady
                PROVE  \/ app'[task.sock].len + hist.acked = task.size
                       \/ app'[task.sock].res = "ENDED"
    BY DEF SendCounts
  <2>1. task.sock \in Socks
    BY DEF Inv, Calls
  <2>2. app[task.sock].len + hist.acked = task.size \/ app[task.sock].res = "ENDED"
    BY DEF Inv, SendCounts
  <2>. QED
    BY <1>1, <2>1, <2>2
<1>. QED
  BY <1>2, <1>3

\* The entry c becomes r and its appstate a: what is outstanding stays as it should.
FlightKept(c, r, a) ==
  /\ task.op = "send" /\ task.sock = c /\ hist'.call = "live"
  /\ task.pc = "checked" \/ (task.pc = "wait" /\ a.state = "SEND")
  => r.tcp = "open" /\ (hist'.steady => InFlight(r, a))

LEMMA SentStep ==
  ASSUME Inv, NEW c \in Socks, NEW r, NEW a,
         conns' = [conns EXCEPT ![c] = r], app' = [app EXCEPT ![c] = a], UNCHANGED task,
         hist'.call = "live" => hist.call = "live", hist'.steady => hist.steady,
         FlightKept(c, r, a)
  PROVE  Sent'
<1>1. /\ conns'[c] = r /\ app'[c] = a
      /\ \A d \in Socks : d # c => conns'[d] = conns[d] /\ app'[d] = app[d]
  BY DEF Inv, TypeOK
<1>. SUFFICES ASSUME NEW d \in Socks, Sending(d)'
              PROVE  conns'[d].tcp = "open" /\ (hist'.steady => InFlight(conns'[d], app'[d]))
  BY DEF Sent, InFlight
<1>2. /\ task.op = "send" /\ task.sock = d /\ hist'.call = "live"
      /\ task.pc = "checked" \/ (task.pc = "wait" /\ app'[d].state = "SEND")
  BY DEF Sending
<1>3. CASE d = c
  BY <1>1, <1>2, <1>3 DEF FlightKept
<1>4. CASE d # c
  <2>1. Sending(d) /\ conns'[d] = conns[d] /\ app'[d] = app[d]
    BY <1>1, <1>2, <1>4 DEF Sending
  <2>. QED
    BY <2>1 DEF Inv, Sent
<1>. QED
  BY <1>3, <1>4

\* An event of the interrupt that has nothing to do with what is sent or accepted.
LEMMA EventStep ==
  ASSUME Inv, NEW c \in Socks, NEW r \in UipConn, NEW a \in EluaUipState,
         conns' = [conns EXCEPT ![c] = r], app' = [app EXCEPT ![c] = a],
         UNCHANGED <<listens, task, accept>>, telnet' \in Socks \cup {None},
         hist' = hist \/ hist' = [hist EXCEPT !.call = "ended"],
         a.state # "IDLE" => app[c].state # "IDLE" /\ <<task.op, a.state>> \in Requests,
         r.tcp = "open" /\ ~r.stopped => a.state = "RECV_2" \/ c \in hist.late,
         task.op = "send" => /\ a.len = app[c].len
                             /\ a.res = app[c].res \/ a.res = "ENDED",
         FlightKept(c, r, a)
  PROVE  Inv'
<1>1. /\ hist' \in Hist /\ hist'.late = hist.late /\ hist'.given = hist.given
      /\ hist'.acked = hist.acked /\ hist'.steady = hist.steady
      /\ hist'.call = "live" => hist.call = "live"
  BY DEF Inv, TypeOK, Hist
<1>2. accept' \in [request : BOOLEAN, sock : Socks \cup {None}]
  BY DEF Inv, TypeOK
<1>3. TypeOK' /\ Calls' /\ StoppedUnlessReceiving'
  BY <1>1, <1>2, EntryStep
<1>4. Uncounted' /\ SendCounts' /\ Sent'
  BY <1>1, CountStep, SentStep
<1>5. Accepting'
  BY <1>1 DEF Inv, Accepting
<1>. QED
  BY <1>3, <1>4, <1>5 DEF Inv

-----------------------------------------------------------------------------
(* elua_uip_appcall *)

\* The connection is open, and its UIP_STOPPED is what it was.
StillOpen(c, r) ==
  r.tcp = "open" /\ conns[c].tcp = "open" /\ r.stopped = conns[c].stopped

\* The entry r is the connection c with acked bytes acknowledged.
Flight(c, r, acked) ==
  IF acked > 0 THEN acked = conns[c].len /\ r.len = 0 ELSE r.len = conns[c].len

\* The socket is idle: an open connection is stopped, or a receive has timed out.
LEMMA IdleStep ==
  ASSUME Inv, NEW c \in Socks, NEW r \in UipConn, NEW end \in BOOLEAN,
         IF end THEN r.tcp # "open" ELSE StillOpen(c, r) /\ r.len \in {0, conns[c].len},
         AppIdle(c, r, end), UNCHANGED <<listens, task>>
  PROVE  Inv'
<1>1. /\ conns' = [conns EXCEPT ![c] = r] /\ app' = [app EXCEPT ![c] = app[c]]
      /\ app[c] \in EluaUipState
      /\ app[c].state = "IDLE" /\ accept' = accept /\ telnet' \in Socks \cup {None}
      /\ hist' = hist \/ hist' = [hist EXCEPT !.call = "ended"]
  BY Fields DEF AppIdle, Inv, TypeOK
<1>2. r.tcp = "open" /\ ~r.stopped => app[c].state = "RECV_2" \/ c \in hist.late
  BY DEF StillOpen, Inv, StoppedUnlessReceiving
<1>3. FlightKept(c, r, app[c])
  <2>. SUFFICES ASSUME task.op = "send", task.sock = c, hist'.call = "live", task.pc = "checked"
                PROVE  r.tcp = "open" /\ (hist'.steady => InFlight(r, app[c]))
    BY <1>1 DEF FlightKept
  <2>1. ~end
    BY DEF AppIdle, Calling, Inv, TypeOK, Hist
  <2>2. hist' = hist /\ Sending(c)
    BY <2>1 DEF AppIdle, Sending
  <2>3. conns[c].tcp = "open" /\ (hist.steady => conns[c].len = 0)
    BY <2>2 DEF Inv, Sent, InFlight
  <2>. QED
    BY <2>1, <2>2, <2>3 DEF StillOpen, InFlight
<1>. QED
  BY <1>1, <1>2, <1>3, EventStep

\* A receive begins: from now on the peer may send.
LEMMA RecvStep ==
  ASSUME Inv, NEW c \in Socks, NEW r \in UipConn,
         AppRecv(c, r), UNCHANGED <<listens, task>>
  PROVE  Inv'
<1>. DEFINE a == [app[c] EXCEPT !.state = "RECV_2"]
            q == [r EXCEPT !.stopped = FALSE]
<1>1. app[c] \in EluaUipState
  BY DEF Inv, TypeOK
<1>2. /\ a \in EluaUipState /\ a.state = "RECV_2" /\ q \in UipConn
  BY <1>1 DEF EluaUipState, UipConn
<1>3. /\ conns' = [conns EXCEPT ![c] = q] /\ app' = [app EXCEPT ![c] = a]
      /\ app[c].state = "RECV" /\ accept' = accept /\ telnet' \in Socks \cup {None}
      /\ hist' = hist \/ hist' = [hist EXCEPT !.call = "ended"]
  BY DEF AppRecv, Inv, TypeOK
<1>4. task.op = "recv" /\ <<task.op, a.state>> \in Requests
  BY <1>2, <1>3 DEF Inv, Calls, Requests
<1>. HIDE DEF a, q
<1>5. FlightKept(c, q, a)
  BY <1>4 DEF FlightKept
<1>. QED
  BY <1>2, <1>3, <1>4, <1>5, EventStep

\* The call is told that the connection has ended.
LEMMA EndStep ==
  ASSUME Inv, NEW c \in Socks, NEW r \in UipConn, r.tcp # "open",
         AppEnd(c, r), UNCHANGED <<listens, task>>
  PROVE  Inv'
<1>. DEFINE a == [app[c] EXCEPT !.state = "IDLE", !.res = "ENDED"]
<1>1. app[c] \in EluaUipState
  BY DEF Inv, TypeOK
<1>2. /\ a \in EluaUipState /\ a.state = "IDLE" /\ a.res = "ENDED" /\ a.len = app[c].len
  BY <1>1 DEF EluaUipState
<1>3. /\ conns' = [conns EXCEPT ![c] = r] /\ app' = [app EXCEPT ![c] = a]
      /\ accept' = accept /\ telnet' \in Socks \cup {None} /\ hist' = hist
  BY DEF AppEnd, Inv, TypeOK
<1>. HIDE DEF a
<1>4. FlightKept(c, r, a)
  BY <1>2 DEF FlightKept, AppEnd, Inv, Calls, Waits
<1>. QED
  BY <1>2, <1>3, <1>4, EventStep

\* An acknowledgment of what was sent last: while the mss stays the same, that
\* is what the call takes off what it has left (elua_uip.c:345-360), since what is
\* outstanding is what the call would send now.
LEMMA SendStep ==
  ASSUME Inv, NEW c \in Socks, NEW r \in UipConn, NEW acked \in Nat, StillOpen(c, r),
         Flight(c, r, acked), AppSend(c, r, acked), UNCHANGED <<listens, task>>
  PROVE  Inv'
<1>. DEFINE m == Min2(app[c].len, r.mss)
            left == app[c].len - IF acked > 0 THEN m ELSE 0
            st == IF acked > 0 /\ left = 0 THEN "IDLE" ELSE app[c].state
            a == [app[c] EXCEPT !.len = left, !.state = st]
            n == IF r.len = 0 THEN Min2(left, r.mss) ELSE r.len
            q == [r EXCEPT !.len = n]
            steady == hist.steady /\ Steady(c, r.mss)
            sum == hist.acked + acked
            h == [hist EXCEPT !.acked = sum, !.steady = steady]
<1>1. /\ app[c] \in EluaUipState /\ app[c].len \in 0 .. MaxSize /\ r.mss \in Nat
      /\ r.len \in Nat /\ app[c].len \in Nat /\ MaxSize \in Nat
      /\ hist \in Hist /\ hist.acked \in Nat /\ hist.steady \in BOOLEAN
  BY SocketAssumption DEF Inv, TypeOK, EluaUipState, UipConn, Mss, Hist
<1>2. m \in Nat /\ m <= app[c].len
  BY <1>1, MinFacts
<1>. HIDE DEF m
<1>3. left \in 0 .. MaxSize /\ left \in Nat
  BY <1>1, <1>2
<1>4. n \in Nat
  BY <1>1, <1>3, MinFacts
<1>5. app[c].state = "SEND" /\ st \in {"IDLE", "SEND"}
  BY DEF AppSend
<1>6. /\ conns' = [conns EXCEPT ![c] = q] /\ app' = [app EXCEPT ![c] = a] /\ hist' = h
      /\ accept' = accept /\ telnet' = telnet
  BY DEF AppSend, m
<1>. HIDE DEF left, st, n
<1>7. /\ a \in EluaUipState /\ a.len = left /\ a.state = st /\ a.res = app[c].res
  BY <1>1, <1>3, <1>5 DEF EluaUipState
<1>8. q \in UipConn /\ q.tcp = r.tcp /\ q.stopped = r.stopped
  BY <1>4 DEF UipConn
<1>9. steady \in BOOLEAN
  BY <1>1, Zenon
<1>10. sum \in Nat
  BY <1>1
<1>. HIDE DEF steady, sum
<1>11. /\ h \in Hist /\ h.late = hist.late /\ h.given = hist.given /\ h.call = hist.call
       /\ h.acked = sum /\ h.steady = steady
  BY <1>1, <1>9, <1>10 DEF Hist
<1>. HIDE DEF a, q, h
<1>12. task.pc = "wait" /\ task.sock = c /\ task.op = "send"
  BY <1>5 DEF Inv, Calls, Requests, Waits
<1>13. TypeOK' /\ Calls' /\ StoppedUnlessReceiving'
  <2>1. /\ accept' \in [request : BOOLEAN, sock : Socks \cup {None}]
        /\ telnet' \in Socks \cup {None}
    BY <1>6 DEF Inv, TypeOK
  <2>2. a.state # "IDLE" => app[c].state # "IDLE" /\ <<task.op, a.state>> \in Requests
    BY <1>5, <1>7, <1>12 DEF Requests
  <2>3. q.tcp = "open" /\ ~q.stopped => a.state = "RECV_2" \/ c \in hist.late
    BY <1>5, <1>8 DEF StillOpen, Inv, StoppedUnlessReceiving
  <2>. QED
    BY <1>6, <1>7, <1>8, <1>11, <2>1, <2>2, <2>3, EntryStep
<1>14. app'[c] = a
  BY <1>6 DEF Inv, TypeOK
<1>17. ASSUME hist.call = "live", steady
       PROVE  /\ hist.steady /\ (acked > 0 => acked = m)
              /\ r.tcp = "open" /\ n \in {0, Min2(left, r.mss)}
  <2>1. hist.steady /\ (conns[c].len > 0 => r.mss = conns[c].mss)
    BY <1>17 DEF steady, Steady
  <2>2. Sending(c)
    BY <1>5, <1>12, <1>17 DEF Sending
  <2>3. conns[c].len \in {0, Min2(app[c].len, conns[c].mss)} /\ conns[c].len \in Nat
    BY <1>12, <2>1, <2>2 DEF Inv, Sent, InFlight, TypeOK, UipConn
  <2>4. acked > 0 => acked = m
    BY <2>1, <2>3 DEF Flight, m
  <2>5. r.len > 0 => left = app[c].len /\ r.len = Min2(app[c].len, r.mss)
    BY <1>1, <2>1, <2>3 DEF Flight, left
  <2>6. n \in {0, Min2(left, r.mss)}
    BY <1>1, <2>5 DEF n
  <2>. QED
    BY <2>1, <2>4, <2>6 DEF StillOpen
<1>18. Sent'
  <2>1. q.len = n /\ q.mss = r.mss
    BY DEF q, UipConn
  <2>2. FlightKept(c, q, a)
    <3>. SUFFICES ASSUME hist'.call = "live", a.state = "SEND"
                  PROVE  r.tcp = "open" /\ (hist'.steady => q.len \in {0, Min2(a.len, q.mss)})
      BY <1>8, <1>12 DEF FlightKept, InFlight
    <3>1. hist.call = "live" /\ hist'.steady = steady
      BY <1>6, <1>11
    <3>. QED
      BY <1>7, <1>17, <2>1, <3>1 DEF StillOpen
  <2>3. (hist'.call = "live" => hist.call = "live") /\ (hist'.steady => hist.steady)
    BY <1>6, <1>11 DEF steady
  <2>. QED
    BY <1>6, <2>2, <2>3, SentStep
<1>15. SendCounts'
  <2>1. SUFFICES ASSUME hist.call = "live", steady
                 PROVE  left + sum = task.size \/ app[c].res = "ENDED"
    BY <1>6, <1>7, <1>11, <1>12, <1>14 DEF SendCounts
  <2>2. hist.steady /\ (acked > 0 => acked = m)
    BY <1>17, <2>1
  <2>3. app[c].len + hist.acked = task.size \/ app[c].res = "ENDED"
    BY <1>12, <2>1, <2>2 DEF Inv, SendCounts
  <2>4. left + acked = app[c].len
    BY <1>1, <1>2, <2>2 DEF left
  <2>5. left + sum = app[c].len + hist.acked
    BY <1>1, <1>3, <2>4 DEF sum
  <2>. QED
    BY <2>3, <2>5
<1>16. Uncounted' /\ Accepting'
  BY <1>6, <1>11, <1>12 DEF Inv, Uncounted, Accepting
<1>. QED
  BY <1>13, <1>15, <1>16, <1>18 DEF Inv

LEMMA ClosingType ==
  ASSUME NEW tcp \in {"lastack", "finwait"}
  PROVE  Closing(tcp) \in UipConn /\ Closing(tcp).tcp = tcp
<1>1. UIP_TCP_MSS \in Mss
  BY SocketAssumption DEF Mss
<1>. QED
  BY <1>1 DEF Closing, Unused, UipConn, TcpStates

\* The connection is closed, unless the event was a retransmission.
LEMMA CloseStep ==
  ASSUME Inv, NEW c \in Socks, NEW r \in UipConn, NEW rexmit, StillOpen(c, r),
         AppClose(c, r, rexmit), UNCHANGED <<listens, task>>
  PROVE  Inv'
<1>. DEFINE a == [app[c] EXCEPT !.state = "IDLE"]
            q == IF rexmit THEN r ELSE Closing("finwait")
<1>1. app[c] \in EluaUipState /\ app[c].state = "CLOSE"
  BY DEF Inv, TypeOK, AppClose
<1>2. a \in EluaUipState /\ a.state = "IDLE"
  BY <1>1 DEF EluaUipState
<1>3. q \in UipConn /\ (q.tcp = "open" => q.stopped = r.stopped)
  BY ClosingType
<1>4. /\ conns' = [conns EXCEPT ![c] = q] /\ app' = [app EXCEPT ![c] = a]
      /\ accept' = accept /\ telnet' \in Socks \cup {None} /\ hist' = hist
  BY DEF AppClose, Inv, TypeOK
<1>5. task.op = "close"
  BY <1>1 DEF Inv, Calls, Requests
<1>. HIDE DEF a, q
<1>6. q.tcp = "open" /\ ~q.stopped => a.state = "RECV_2" \/ c \in hist.late
  BY <1>1, <1>3 DEF StillOpen, Inv, StoppedUnlessReceiving
<1>7. FlightKept(c, q, a)
  BY <1>5 DEF FlightKept
<1>. QED
  BY <1>2, <1>3, <1>4, <1>5, <1>6, <1>7, EventStep

\* Data for a receive: when the call is done, the connection is stopped.
LEMMA NewDataStep ==
  ASSUME Inv, NEW c \in Socks, NEW r \in UipConn, NEW n \in Nat,
         AppNewData(c, r, n), UNCHANGED <<listens, task>>
  PROVE  Inv'
<1>1. /\ app[c] \in EluaUipState /\ app[c].len \in 0 .. MaxSize /\ app[c].len \in Nat
      /\ MaxSize \in Nat /\ r.stopped \in BOOLEAN
  BY SocketAssumption DEF Inv, TypeOK, EluaUipState, UipConn
<1>2. PICK k \in 0 .. Min2(n, app[c].len), found \in BOOLEAN :
        LET left == app[c].len - k
            done == IF c = telnet THEN k > 0
                      ELSE left = 0 \/ n < UIP_RECEIVE_WINDOW \/ found
        IN /\ app[c].state = "RECV_2"
           /\ app' = [app EXCEPT ![c] =
                IF done THEN [@ EXCEPT !.state = "IDLE", !.res = "OK", !.len = left]
                        ELSE [@ EXCEPT !.len = left]]
           /\ conns' = [conns EXCEPT ![c] = [r EXCEPT !.stopped = @ \/ done]]
           /\ UNCHANGED <<telnet, accept, hist>>
  BY DEF AppNewData
<1>. DEFINE left == app[c].len - k
            done == IF c = telnet THEN k > 0
                      ELSE left = 0 \/ n < UIP_RECEIVE_WINDOW \/ found
            a == IF done THEN [app[c] EXCEPT !.state = "IDLE", !.res = "OK", !.len = left]
                         ELSE [app[c] EXCEPT !.len = left]
            b == r.stopped \/ done
            q == [r EXCEPT !.stopped = b]
<1>3. left \in 0 .. MaxSize
  <2>1. Min2(n, app[c].len) \in Nat /\ Min2(n, app[c].len) <= app[c].len
    BY <1>1, MinFacts
  <2>. QED
    BY <1>1, <2>1
<1>4. b \in BOOLEAN
  OBVIOUS
<1>5. /\ app[c].state = "RECV_2"
      /\ app' = [app EXCEPT ![c] = a] /\ conns' = [conns EXCEPT ![c] = q]
      /\ UNCHANGED <<telnet, accept, hist>>
  BY <1>2, Zenon
<1>. HIDE DEF left, done
<1>6. a \in EluaUipState /\ (done => a.state = "IDLE") /\ (~done => a.state = "RECV_2")
  BY <1>1, <1>3, <1>5 DEF EluaUipState
<1>7. done => b
  OBVIOUS
<1>. HIDE DEF b
<1>8. q \in UipConn /\ q.stopped = b
  BY <1>4 DEF UipConn
<1>. HIDE DEF a, q
<1>9. task.op = "recv"
  BY <1>5 DEF Inv, Calls, Requests
<1>10. a.state # "IDLE" => app[c].state # "IDLE" /\ <<task.op, a.state>> \in Requests
  BY <1>5, <1>6, <1>9 DEF Requests
<1>11. q.tcp = "open" /\ ~q.stopped => a.state = "RECV_2" \/ c \in hist.late
  BY <1>6, <1>7, <1>8
<1>12. telnet' \in Socks \cup {None}
  BY <1>5 DEF Inv, TypeOK
<1>13. FlightKept(c, q, a)
  BY <1>9 DEF FlightKept
<1>. QED
  BY <1>5, <1>6, <1>8, <1>9, <1>10, <1>11, <1>12, <1>13, EventStep

\* An event there is nothing to do for, or data nobody has asked for: then the
\* connection is stopped.
LEMMA OtherStep ==
  ASSUME Inv, NEW c \in Socks, NEW r \in UipConn, NEW acked \in Nat, NEW n \in Nat,
         StillOpen(c, r), Flight(c, r, acked), AppOther(c, r, acked, n),
         UNCHANGED <<listens, task>>
  PROVE  Inv'
<1>. DEFINE b == r.stopped \/ n > 0
            q == [r EXCEPT !.stopped = b]
            steady == hist.steady /\ (app[c].state = "SEND" => Steady(c, r.mss))
            h == [hist EXCEPT !.steady = steady]
<1>1. b \in BOOLEAN /\ (r.stopped => b)
  BY Zenon DEF UipConn
<1>2. /\ conns' = [conns EXCEPT ![c] = q] /\ app' = [app EXCEPT ![c] = app[c]]
      /\ app[c] \in EluaUipState /\ accept' = accept /\ hist' = h
      /\ accept' \in [request : BOOLEAN, sock : Socks \cup {None}]
      /\ telnet' \in Socks \cup {None}
  BY Fields DEF AppOther, Inv, TypeOK
<1>. HIDE DEF b
<1>3. q \in UipConn /\ q.stopped = b /\ q.tcp = r.tcp /\ q.len = r.len /\ q.mss = r.mss
  BY <1>1 DEF UipConn
<1>4. steady \in BOOLEAN /\ hist \in Hist /\ hist.steady \in BOOLEAN
  BY DEF Inv, TypeOK, Hist
<1>5. steady => hist.steady /\ (app[c].state = "SEND" => Steady(c, r.mss))
  BY <1>4
<1>. HIDE DEF q, steady
<1>6. /\ hist' \in Hist /\ hist'.late = hist.late /\ hist'.given = hist.given
      /\ hist'.call = hist.call /\ hist'.acked = hist.acked /\ hist'.steady = steady
  BY <1>2, <1>4 DEF Hist
<1>. HIDE DEF h
<1>7. q.tcp = "open" /\ ~q.stopped => app[c].state = "RECV_2" \/ c \in hist.late
  BY <1>1, <1>3 DEF StillOpen, Inv, StoppedUnlessReceiving
<1>8. app[c].state # "IDLE" => <<task.op, app[c].state>> \in Requests
  BY DEF Inv, Calls
<1>9. TypeOK' /\ Calls' /\ StoppedUnlessReceiving'
  BY <1>2, <1>3, <1>6, <1>7, <1>8, EntryStep
<1>10. FlightKept(c, q, app[c])
  <2>1. app[c].state # "IDLE"
    BY DEF AppOther
  <2>. SUFFICES ASSUME task.op = "send", task.sock = c, hist.call = "live",
                       task.pc = "checked" \/ (task.pc = "wait" /\ app[c].state = "SEND")
                PROVE  q.tcp = "open" /\ (steady => InFlight(q, app[c]))
    BY <1>6 DEF FlightKept
  <2>2. task.pc = "wait" /\ app[c].state = "SEND" /\ Sending(c)
    BY <2>1 DEF Inv, Calls, Waits, Sending
  <2>3. acked = 0
    BY <2>2 DEF AppOther
  <2>4. r.len = conns[c].len /\ conns[c].len \in Nat
    BY <2>3 DEF Flight, Inv, TypeOK, UipConn
  <2>5. steady => /\ conns[c].len \in {0, Min2(app[c].len, conns[c].mss)}
                  /\ conns[c].len > 0 => r.mss = conns[c].mss
    BY <1>5, <2>2 DEF Inv, Sent, InFlight, Steady
  <2>. QED
    BY <1>3, <2>2, <2>4, <2>5 DEF InFlight, StillOpen
<1>11. Uncounted' /\ SendCounts' /\ Sent'
  BY <1>2, <1>5, <1>6, <1>10, CountStep, SentStep
<1>12. Accepting'
  BY <1>2, <1>6 DEF Inv, Accepting
<1>. QED
  BY <1>9, <1>11, <1>12 DEF Inv

\* The handshake is complete: the connection is stopped at once, and goes to
\* elua_accept() if that waits for one (elua_uip.c:300-320).
LEMMA ConnectedStep ==
  ASSUME Inv, NEW c \in Socks, NEW r \in UipConn, r.tcp = "open", conns[c].tcp # "open",
         AppConnected(c, r), UNCHANGED <<listens, task>>
  PROVE  Inv'
<1>1. app[c] \in EluaUipState /\ app = [app EXCEPT ![c] = app[c]]
  BY Fields DEF Inv
<1>2. app[c].state # "IDLE" => <<task.op, app[c].state>> \in Requests
  BY DEF Inv, Calls
<1>5. ASSUME NEW q, NEW a, a.state \in {"IDLE", app[c].state}, hist'.call = hist.call
      PROVE  FlightKept(c, q, a)
  <2>1. ~Sending(c)
    BY DEF Inv, Sent
  <2>. QED
    BY <1>5, <2>1 DEF FlightKept, Sending
<1>3. CASE r.telnet /\ telnet # None
  <2>. DEFINE q == Closing("finwait")
  <2>1. q \in UipConn /\ q.tcp # "open"
    BY ClosingType
  <2>2. /\ conns' = [conns EXCEPT ![c] = q] /\ app' = [app EXCEPT ![c] = app[c]]
        /\ UNCHANGED <<accept, hist>> /\ telnet' \in Socks \cup {None}
    BY <1>1, <1>3 DEF AppConnected, Inv, TypeOK
  <2>. HIDE DEF q
  <2>3. FlightKept(c, q, app[c])
    BY <1>5, <2>2
  <2>. QED
    BY <1>1, <1>2, <2>1, <2>2, <2>3, EventStep
<1>4. CASE ~(r.telnet /\ telnet # None)
  <2>. DEFINE q == [r EXCEPT !.stopped = TRUE]
  <2>1. q \in UipConn /\ q.stopped
    BY DEF UipConn
  <2>2. conns' = [conns EXCEPT ![c] = q] /\ telnet' \in Socks \cup {None}
    BY <1>4 DEF AppConnected, Inv, TypeOK
  <2>. HIDE DEF q
  <2>3. CASE ~r.telnet /\ accept.request
    <3>. DEFINE h == [hist EXCEPT !.given = c]
    <3>1. /\ accept' = [request |-> FALSE, sock |-> c] /\ hist' = h
          /\ app' = [app EXCEPT ![c] = app[c]]
      BY <1>1, <1>4, <2>3 DEF AppConnected
    <3>2. /\ h \in Hist /\ h.late = hist.late /\ h.given = c /\ h.call = hist.call
          /\ h.acked = hist.acked /\ h.steady = hist.steady
      BY DEF Inv, TypeOK, Hist
    <3>. HIDE DEF h
    <3>3. TypeOK' /\ Calls' /\ StoppedUnlessReceiving'
      <4>1. accept' \in [request : BOOLEAN, sock : Socks \cup {None}]
        BY <3>1
      <4>. QED
        BY <1>1, <1>2, <2>1, <2>2, <3>1, <3>2, <4>1, EntryStep
    <3>6. FlightKept(c, q, app[c])
      BY <1>5, <3>1, <3>2
    <3>4. Uncounted' /\ SendCounts' /\ Sent'
      BY <1>1, <2>2, <3>1, <3>2, <3>6, CountStep, SentStep
    <3>5. Accepting'
      BY <2>3, <3>1, <3>2 DEF Inv, Accepting
    <3>. QED
      BY <3>3, <3>4, <3>5 DEF Inv
  <2>4. CASE ~(~r.telnet /\ accept.request)
    <3>. DEFINE a == IF ~r.telnet /\ app[c].state = "CONNECT"
                       THEN [app[c] EXCEPT !.state = "IDLE"] ELSE app[c]
    <3>1. app' = [app EXCEPT ![c] = a] /\ UNCHANGED <<accept, hist>>
      BY <1>1, <1>4, <2>4 DEF AppConnected
    <3>2. /\ a \in EluaUipState /\ a.state \in {"IDLE", app[c].state}
          /\ a.len = app[c].len /\ a.res = app[c].res
      BY <1>1 DEF EluaUipState
    <3>. HIDE DEF a
    <3>3. FlightKept(c, q, a)
      BY <1>5, <3>1, <3>2
    <3>. QED
      BY <1>2, <2>1, <2>2, <3>1, <3>2, <3>3, EventStep
  <2>. QED
    BY <2>3, <2>4
<1>. QED
  BY <1>3, <1>4

LEMMA CallEndStep ==
  ASSUME Inv, NEW c \in Socks, NEW r \in UipConn, r.tcp # "open", CallEnd(c, r)
  PROVE  Inv'
BY IdleStep, RecvStep, EndStep DEF CallEnd

LEMMA CallOpenStep ==
  ASSUME Inv, NEW c \in Socks, NEW r \in UipConn, NEW acked \in Nat, NEW n \in Nat,
         NEW rexmit, StillOpen(c, r), Flight(c, r, acked), CallOpen(c, r, acked, n, rexmit)
  PROVE  Inv'
<1>1. r.len \in {0, conns[c].len}
  BY DEF Flight
<1>. QED
  BY <1>1, IdleStep, RecvStep, SendStep, CloseStep, NewDataStep, OtherStep DEF CallOpen

-----------------------------------------------------------------------------
(* elua_uip_mainloop *)

LEMMA UnusedType == Unused \in UipConn /\ Unused.tcp = "closed"
<1>1. UIP_TCP_MSS \in Mss
  BY SocketAssumption DEF Mss
<1>. QED
  BY <1>1 DEF Unused, UipConn, TcpStates

\* A SYN takes an entry: whatever is asked of its socket is now asked of another
\* connection.
LEMMA SynStep ==
  ASSUME Inv, NEW c \in Socks, NEW isTelnet \in BOOLEAN, Syn(c, isTelnet)
  PROVE  Inv'
<1>. DEFINE q == [tcp |-> "synrcvd", stopped |-> FALSE, len |-> 1,
                  mss |-> UIP_TCP_MSS, telnet |-> isTelnet]
            call == IF Calling(c) THEN "other" ELSE hist.call
            late == hist.late \ {c}
            h == [hist EXCEPT !.call = call, !.late = late]
<1>1. UIP_TCP_MSS \in Mss
  BY SocketAssumption DEF Mss
<1>2. q \in UipConn /\ q.tcp = "synrcvd"
  BY <1>1 DEF UipConn, TcpStates
<1>3. /\ conns' = [conns EXCEPT ![c] = q] /\ hist' = h
      /\ UNCHANGED <<app, telnet, accept, listens, task>>
  BY DEF Syn
<1>4. hist \in Hist /\ call \in {"live", "ended", "other"} /\ late \subseteq Socks
      /\ (call = "live" => hist.call = "live" /\ ~Calling(c))
  BY DEF Inv, TypeOK, Hist
<1>. HIDE DEF q, call
<1>5. /\ h \in Hist /\ h.call = call /\ h.acked = hist.acked /\ h.steady = hist.steady
      /\ h.given = hist.given /\ h.late = late
  BY <1>4 DEF Hist
<1>. HIDE DEF h
<1>6. /\ conns' \in [Socks -> UipConn] /\ conns'[c] = q
      /\ \A d \in Socks : d # c => conns'[d] = conns[d]
  BY <1>2, <1>3 DEF Inv, TypeOK
<1>7. TypeOK'
  BY <1>3, <1>5, <1>6 DEF Inv, TypeOK
<1>8. StoppedUnlessReceiving'
  BY <1>2, <1>3, <1>5, <1>6 DEF Inv, StoppedUnlessReceiving
<1>9. Calls' /\ Accepting' /\ Uncounted' /\ SendCounts'
  BY <1>3, <1>4, <1>5 DEF Inv, Calls, Waits, Accepting, Uncounted, SendCounts
<1>10. Sent'
  <2>1. FlightKept(c, q, app[c])
    BY <1>3, <1>4, <1>5 DEF FlightKept, Calling
  <2>2. app' = [app EXCEPT ![c] = app[c]]
    BY <1>3, Fields DEF Inv
  <2>. QED
    BY <1>3, <1>4, <1>5, <2>1, <2>2, SentStep
<1>. QED
  BY <1>7, <1>8, <1>9, <1>10 DEF Inv

\* A segment, a poll or a retransmission of an open connection.
LEMMA OpenEventStep ==
  ASSUME Inv, NEW c \in Socks,
         \/ Poll(c) \/ Rexmit(c)
         \/ \E acks \in BOOLEAN, n \in 0 .. UIP_RECEIVE_WINDOW, m \in Mss :
              Segment(c, acks, n, m)
  PROVE  Inv'
<1>1. conns[c] \in UipConn /\ conns[c].len \in Nat /\ 0 \in Nat
  BY DEF Inv, TypeOK, UipConn
<1>2. CASE Poll(c) \/ Rexmit(c)
  <2>1. conns[c].tcp = "open"
    BY <1>2 DEF Poll, Rexmit
  <2>2. StillOpen(c, conns[c]) /\ Flight(c, conns[c], 0)
    BY <1>1, <2>1 DEF StillOpen, Flight
  <2>. QED
    BY <1>1, <1>2, <2>2, CallOpenStep DEF Poll, Rexmit
<1>3. ASSUME NEW acks \in BOOLEAN, NEW n \in 0 .. UIP_RECEIVE_WINDOW, NEW m \in Mss,
             Segment(c, acks, n, m)
      PROVE  Inv'
  <2>. DEFINE len == IF acks THEN 0 ELSE conns[c].len
              acked == IF acks THEN conns[c].len ELSE 0
              r == [conns[c] EXCEPT !.mss = m, !.len = len]
  <2>1. /\ CallOpen(c, r, acked, n, FALSE) /\ conns[c].tcp = "open"
        /\ acks => conns[c].len > 0
    BY <1>3 DEF Segment
  <2>2. /\ len \in Nat /\ acked \in Nat /\ n \in Nat
        /\ IF acked > 0 THEN acked = conns[c].len /\ len = 0 ELSE len = conns[c].len
    BY <1>1, <2>1, SocketAssumption
  <2>. HIDE DEF len, acked
  <2>3. /\ r \in UipConn /\ r.tcp = conns[c].tcp /\ r.stopped = conns[c].stopped
        /\ r.len = len
    BY <1>1, <2>2 DEF UipConn
  <2>. HIDE DEF r
  <2>4. StillOpen(c, r) /\ Flight(c, r, acked)
    BY <2>1, <2>2, <2>3 DEF StillOpen, Flight
  <2>. QED
    BY <2>1, <2>2, <2>3, <2>4, CallOpenStep
<1>. QED
  BY <1>2, <1>3

\* The window changes the mss, while something is outstanding or not.
LEMMA WindowStep ==
  ASSUME Inv, NEW c \in Socks, NEW m \in Mss, Window(c, m)
  PROVE  Inv'
<1>. DEFINE q == [conns[c] EXCEPT !.mss = m]
            steady == hist.steady /\ (Calling(c) => Steady(c, m))
<1>1. /\ conns[c] \in UipConn /\ app[c] \in EluaUipState
      /\ app = [app EXCEPT ![c] = app[c]]
  BY Fields DEF Inv
<1>2. /\ q \in UipConn /\ q.tcp = conns[c].tcp /\ q.stopped = conns[c].stopped
      /\ q.len = conns[c].len /\ q.mss = m
  BY <1>1 DEF UipConn
<1>3. /\ conns' = [conns EXCEPT ![c] = q] /\ app' = [app EXCEPT ![c] = app[c]]
      /\ hist' = [hist EXCEPT !.steady = steady] /\ conns[c].tcp = "open"
      /\ UNCHANGED <<telnet, accept, listens, task>>
  BY <1>1 DEF Window
<1>4. hist \in Hist /\ steady \in BOOLEAN
  BY DEF Inv, TypeOK, Hist
<1>5. steady => hist.steady /\ (Calling(c) => Steady(c, m))
  BY <1>4
<1>. HIDE DEF q, steady
<1>6. /\ hist' \in Hist /\ hist'.late = hist.late /\ hist'.given = hist.given
      /\ hist'.call = hist.call /\ hist'.acked = hist.acked /\ hist'.steady = steady
  BY <1>3, <1>4 DEF Hist
<1>7. TypeOK' /\ Calls' /\ StoppedUnlessReceiving'
  <2>1. /\ accept' \in [request : BOOLEAN, sock : Socks \cup {None}]
        /\ telnet' \in Socks \cup {None}
    BY <1>3 DEF Inv, TypeOK
  <2>2. app[c].state # "IDLE" => <<task.op, app[c].state>> \in Requests
    BY DEF Inv, Calls
  <2>3. q.tcp = "open" /\ ~q.stopped => app[c].state = "RECV_2" \/ c \in hist.late
    BY <1>2 DEF Inv, StoppedUnlessReceiving
  <2>. QED
    BY <1>1, <1>2, <1>3, <1>6, <2>1, <2>2, <2>3, EntryStep
<1>8. FlightKept(c, q, app[c])
  <2>. SUFFICES ASSUME task.op = "send", task.sock = c, hist.call = "live",
                       task.pc = "checked" \/ (task.pc = "wait" /\ app[c].state = "SEND")
                PROVE  q.tcp = "open" /\ (steady => InFlight(q, app[c]))
    BY <1>6 DEF FlightKept
  <2>1. Sending(c) /\ Calling(c)
    BY DEF Sending, Calling
  <2>2. steady => /\ InFlight(conns[c], app[c])
                  /\ conns[c].len > 0 => m = conns[c].mss
    BY <1>5, <2>1 DEF Inv, Sent, Steady
  <2>3. conns[c].len \in Nat
    BY <1>1 DEF UipConn
  <2>. QED
    BY <1>2, <1>3, <2>2, <2>3 DEF InFlight
<1>9. Uncounted' /\ SendCounts' /\ Sent'
  BY <1>1, <1>3, <1>5, <1>6, <1>8, CountStep, SentStep
<1>10. Accepting'
  BY <1>3, <1>6 DEF Inv, Accepting
<1>. QED
  BY <1>7, <1>9, <1>10 DEF Inv

LEMMA InterruptStep ==
  ASSUME Inv, NEW c \in Socks, Interrupt(c)
  PROVE  Inv'
<1>1. conns[c] \in UipConn /\ app[c] \in EluaUipState /\ app = [app EXCEPT ![c] = app[c]]
  BY Fields DEF Inv
<1>2. CASE Established(c)
  <2>. DEFINE r == [conns[c] EXCEPT !.tcp = "open", !.len = 0]
  <2>1. r \in UipConn /\ r.tcp = "open"
    BY <1>1 DEF UipConn, TcpStates
  <2>2. AppConnected(c, r) /\ UNCHANGED <<listens, task>> /\ conns[c].tcp # "open"
    BY <1>2 DEF Established
  <2>. HIDE DEF r
  <2>. QED
    BY <2>1, <2>2, ConnectedStep
<1>3. CASE Fin(c)
  <2>. DEFINE r == Closing("lastack")
  <2>1. r \in UipConn /\ r.tcp # "open" /\ CallEnd(c, r)
    BY <1>3, ClosingType DEF Fin
  <2>. HIDE DEF r
  <2>. QED
    BY <2>1, CallEndStep
<1>4. CASE FinAfter(c)
  <2>. DEFINE r == [Unused EXCEPT !.tcp = "timewait"]
  <2>1. r \in UipConn /\ r.tcp # "open" /\ CallEnd(c, r)
    BY <1>4, UnusedType DEF FinAfter, UipConn, TcpStates
  <2>. HIDE DEF r
  <2>. QED
    BY <2>1, CallEndStep
<1>5. CASE Ended(c)
  BY <1>5, UnusedType, CallEndStep DEF Ended
<1>6. CASE Silent(c)
  <2>1. /\ conns' = [conns EXCEPT ![c] = Unused] /\ app' = [app EXCEPT ![c] = app[c]]
        /\ UNCHANGED <<listens, task, accept>> /\ telnet' \in Socks \cup {None}
        /\ hist' = hist \/ hist' = [hist EXCEPT !.call = "ended"]
    BY <1>1, <1>6 DEF Silent, Inv, TypeOK
  <2>2. app[c].state # "IDLE" => <<task.op, app[c].state>> \in Requests
    BY DEF Inv, Calls
  <2>3. FlightKept(c, Unused, app[c])
    BY <1>6 DEF FlightKept, Silent, Calling, Inv, TypeOK, Hist
  <2>. QED
    BY <1>1, <2>1, <2>2, <2>3, UnusedType, EventStep
<1>. QED
  BY <1>2, <1>3, <1>4, <1>5, <1>6, SynStep, OpenEventStep, WindowStep DEF Interrupt

-----------------------------------------------------------------------------
(* elua_net_... *)

LEMMA IdleType == Idle \in EluaUipState /\ Idle.state = "IDLE"
BY SocketAssumption DEF Idle, EluaUipState

LEMMA ReadyType == Ready \in Task /\ Ready.pc = "ready" /\ Ready.op = "send"
BY SocketAssumption DEF Ready, Task

\* While no request is made, every socket is idle.
LEMMA AllIdle ==
  ASSUME Inv, NEW c \in Socks,
         task.pc = "ready" \/ task.op = "accept" \/ (task.pc = "checked" /\ task.op # "connect")
  PROVE  app[c].state = "IDLE"
BY DEF Inv, Calls, Requests, Waits

\* A socket is reserved.
LEMMA SocketStep ==
  ASSUME Inv, NEW c \in Socks, Socket(c)
  PROVE  Inv'
<1>. DEFINE q == [conns[c] EXCEPT !.tcp = "reserved"]
<1>1. conns[c] \in UipConn
  BY DEF Inv, TypeOK
<1>2. q \in UipConn /\ q.tcp # "open"
  BY <1>1 DEF UipConn, TcpStates
<1>3. /\ conns' = [conns EXCEPT ![c] = q] /\ app' = [app EXCEPT ![c] = app[c]]
      /\ app[c] \in EluaUipState /\ telnet' \in Socks \cup {None}
      /\ UNCHANGED <<listens, task, accept, hist>>
  BY Fields DEF Socket, Inv, TypeOK
<1>4. app[c].state # "IDLE" => <<task.op, app[c].state>> \in Requests
  BY DEF Inv, Calls
<1>. HIDE DEF q
<1>5. FlightKept(c, q, app[c])
  BY DEF FlightKept, Socket
<1>. QED
  BY <1>2, <1>3, <1>4, <1>5, EventStep

\* A call begins, and has counted nothing.
LEMMA BeginStep ==
  ASSUME Inv, NEW op \in {"send", "recv", "close"}, NEW c \in Socks,
         NEW size \in 0 .. MaxSize, NEW readto \in BOOLEAN, Begin(op, c, size, readto)
  PROVE  Inv'
<1>. DEFINE t == [pc |-> "checked", op |-> op, sock |-> c, size |-> size,
                  readto |-> readto, timed |-> FALSE]
            call == IF op = "recv" \/ conns[c].tcp = "open" THEN "live" ELSE "ended"
            steady == conns[c].len = 0
            h == [hist EXCEPT !.call = call, !.acked = 0, !.steady = steady]
<1>1. t \in Task /\ t.pc = "checked" /\ t.op = op /\ t.sock = c
  BY DEF Task
<1>2. call \in {"live", "ended"} /\ hist \in Hist /\ steady \in BOOLEAN
  BY DEF Inv, TypeOK
<1>3. /\ task.pc = "ready" /\ task' = t /\ hist' = h
      /\ UNCHANGED <<conns, app, telnet, accept, listens>>
  BY DEF Begin
<1>8. (op = "send" /\ call = "live" => conns[c].tcp = "open") /\ (steady => conns[c].len = 0)
  OBVIOUS
<1>. HIDE DEF t, call, steady
<1>4. /\ h \in Hist /\ h.acked = 0 /\ h.given = hist.given /\ h.late = hist.late
      /\ h.call = call /\ h.steady = steady
  BY <1>2 DEF Hist
<1>. HIDE DEF h
<1>5. TypeOK'
  BY <1>1, <1>3, <1>4 DEF Inv, TypeOK
<1>6. Calls'
  BY <1>1, <1>3, AllIdle DEF Calls
<1>7. Accepting' /\ StoppedUnlessReceiving' /\ Uncounted' /\ SendCounts'
  BY <1>1, <1>3, <1>4 DEF Inv, Accepting, StoppedUnlessReceiving, Uncounted, SendCounts
<1>9. Sent'
  BY <1>1, <1>3, <1>4, <1>8 DEF Sent, Sending, InFlight
<1>. QED
  BY <1>5, <1>6, <1>7, <1>9 DEF Inv

\* The request is made of a socket that is idle.
LEMMA PrepStep ==
  ASSUME Inv, Prep
  PROVE  Inv'
<1>. DEFINE c == task.sock
            a == [state |-> Requested, res |-> "OK", len |-> task.size,
                  readto |-> task.readto]
            t == [task EXCEPT !.pc = "wait"]
<1>1. /\ task.pc = "checked" /\ task.op \in {"send", "recv", "close"} /\ c \in Socks
      /\ app' = [app EXCEPT ![c] = a] /\ task' = t
      /\ UNCHANGED <<conns, telnet, accept, listens, hist>>
  BY DEF Prep, Inv, Calls
<1>2. task \in Task /\ task.size \in 0 .. MaxSize /\ task.readto \in BOOLEAN
  BY DEF Inv, TypeOK, Task
<1>3. <<task.op, Requested>> \in Requests /\ Requested \in {"SEND", "RECV", "CLOSE"}
  BY <1>1 DEF Requests, Requested
<1>4. a \in EluaUipState /\ a.state = Requested /\ a.len = task.size
  BY <1>2, <1>3 DEF EluaUipState
<1>5. /\ t \in Task /\ t.pc = "wait" /\ t.op = task.op /\ t.sock = c
      /\ t.size = task.size
  BY <1>2 DEF Task
<1>. HIDE DEF a, t, c
<1>6. /\ app' \in [Socks -> EluaUipState] /\ app'[c] = a
      /\ \A d \in Socks : d # c => app'[d] = app[d] /\ app[d].state = "IDLE"
  BY <1>1, <1>4, AllIdle DEF Inv, TypeOK
<1>7. app[c].state = "IDLE"
  BY <1>1, AllIdle
<1>8. TypeOK'
  BY <1>1, <1>5, <1>6 DEF Inv, TypeOK
<1>9. Calls'
  BY <1>1, <1>3, <1>4, <1>5, <1>6 DEF Calls, Waits
<1>10. StoppedUnlessReceiving'
  BY <1>1, <1>6, <1>7 DEF Inv, StoppedUnlessReceiving
<1>11. Accepting' /\ Uncounted'
  BY <1>1, <1>5 DEF Inv, Accepting, Uncounted
<1>12. SendCounts'
  <2>1. SUFFICES ASSUME task.op = "send"
                 PROVE  app'[c].len + hist.acked = task.size
    BY <1>1, <1>5 DEF SendCounts
  <2>2. hist.acked = 0
    BY <1>1, <2>1 DEF Inv, Uncounted
  <2>. QED
    BY <1>2, <1>4, <1>6, <2>2
<1>13. Sent'
  <2>. SUFFICES ASSUME NEW d \in Socks, Sending(d)'
                PROVE  /\ conns'[d].tcp = "open"
                       /\ hist'.steady => conns'[d].len = 0
    BY <1>5 DEF Sent, InFlight
  <2>1. task.op = "send" /\ d = c /\ hist.call = "live"
    BY <1>1, <1>5 DEF Sending
  <2>2. Sending(c)
    BY <1>1, <2>1 DEF Sending, c
  <2>3. conns[c].tcp = "open" /\ (hist.steady => conns[c].len = 0)
    BY <1>1, <2>2 DEF Inv, Sent, InFlight
  <2>. QED
    BY <1>1, <2>1, <2>3
<1>. QED
  BY <1>8, <1>9, <1>10, <1>11, <1>12, <1>13 DEF Inv

\* A reserved socket is about to connect.
LEMMA ConnectStep ==
  ASSUME Inv, NEW c \in Socks, Connect(c)
  PROVE  Inv'
<1>. DEFINE a == [Idle EXCEPT !.state = "CONNECT"]
            t == [Ready EXCEPT !.pc = "checked", !.op = "connect", !.sock = c]
            late == hist.late \ {c}
            h == [hist EXCEPT !.call = "live", !.late = late]
<1>1. a \in EluaUipState /\ a.state = "CONNECT"
  BY IdleType DEF EluaUipState
<1>3. t \in Task /\ t.pc = "checked" /\ t.op = "connect" /\ t.sock = c
  BY ReadyType DEF Task
<1>4. h \in Hist /\ h.given = hist.given /\ h.late = late
  BY DEF Inv, TypeOK, Hist
<1>5. /\ task.pc = "ready" /\ conns[c].tcp = "reserved"
      /\ app' = [app EXCEPT ![c] = a]
      /\ task' = t /\ hist' = h /\ UNCHANGED <<conns, telnet, accept, listens>>
  BY DEF Connect
<1>. HIDE DEF a, t, h
<1>6. /\ app' \in [Socks -> EluaUipState] /\ app'[c] = a
      /\ \A d \in Socks : d # c => app'[d] = app[d]
  BY <1>1, <1>5 DEF Inv, TypeOK
<1>7. \A d \in Socks : d # c => app'[d].state = "IDLE"
  BY <1>5, <1>6, AllIdle
<1>8. TypeOK'
  BY <1>3, <1>4, <1>5, <1>6 DEF Inv, TypeOK
<1>9. Calls'
  BY <1>1, <1>3, <1>5, <1>6, <1>7 DEF Calls, Waits, Requests
<1>10. StoppedUnlessReceiving'
  BY <1>4, <1>5, <1>6 DEF Inv, StoppedUnlessReceiving
<1>11. Accepting' /\ Uncounted' /\ Sent' /\ SendCounts'
  BY <1>3, <1>4, <1>5 DEF Inv, Accepting, Uncounted, Sent, Sending, SendCounts
<1>. QED
  BY <1>8, <1>9, <1>10, <1>11 DEF Inv

\* The stores of uip_prepare_conn, whatever the interrupt makes of the entry in
\* between.
LEMMA OpenStep ==
  ASSUME Inv, Open \/ Prepare
  PROVE  Inv'
<1>. DEFINE c == task.sock
<1>1. /\ task.op = "connect" /\ task.pc \in {"checked", "opening"} /\ c \in Socks
      /\ UNCHANGED <<app, telnet, accept, listens, hist>>
  BY DEF Open, Prepare, Inv, Calls
<1>2. PICK pc \in {"opening", "wait"} : task' = [task EXCEPT !.pc = pc]
  BY DEF Open, Prepare
<1>3. /\ task' \in Task /\ task'.pc = pc /\ task'.op = "connect" /\ task'.sock = c
  BY <1>1, <1>2 DEF Inv, TypeOK, Task
<1>4. conns[c] \in UipConn
  BY <1>1 DEF Inv, TypeOK
<1>. HIDE DEF c
<1>5. /\ conns' \in [Socks -> UipConn]
      /\ \A d \in Socks : \/ conns'[d].tcp # "open"
                          \/ conns'[d].tcp = conns[d].tcp /\ conns'[d].stopped = conns[d].stopped
  <2>1. CASE Open
    <3>. DEFINE q == [conns[c] EXCEPT !.tcp = "synsent", !.stopped = FALSE]
    <3>1. q \in UipConn /\ q.tcp = "synsent"
      BY <1>4 DEF UipConn, TcpStates
    <3>2. conns' = [conns EXCEPT ![c] = q]
      BY <2>1 DEF Open, c
    <3>. HIDE DEF q
    <3>. QED
      BY <1>1, <3>1, <3>2 DEF Inv, TypeOK
  <2>2. CASE Prepare
    <3>. DEFINE q == [conns[c] EXCEPT !.len = 1, !.mss = UIP_TCP_MSS, !.telnet = FALSE]
    <3>0. UIP_TCP_MSS \in Mss /\ 1 \in Nat /\ FALSE \in BOOLEAN
      BY SocketAssumption DEF Mss
    <3>1. q \in UipConn /\ q.tcp = conns[c].tcp /\ q.stopped = conns[c].stopped
      BY <1>4, <3>0 DEF UipConn
    <3>2. conns' = [conns EXCEPT ![c] = q]
      BY <2>2 DEF Prepare, c
    <3>. HIDE DEF q
    <3>. QED
      BY <1>1, <3>1, <3>2 DEF Inv, TypeOK
  <2>. QED
    BY <2>1, <2>2
<1>6. TypeOK'
  BY <1>1, <1>3, <1>5 DEF Inv, TypeOK
<1>7. Calls'
  <2>1. \A d \in Socks : app[d].state # "IDLE" =>
          task.sock = d /\ <<task.op, app[d].state>> \in Requests
    BY DEF Inv, Calls
  <2>. QED
    BY <1>1, <1>2, <1>3, <2>1 DEF Calls, Waits, c
<1>8. StoppedUnlessReceiving'
  BY <1>1, <1>5 DEF Inv, StoppedUnlessReceiving
<1>9. Accepting' /\ Uncounted' /\ Sent' /\ SendCounts'
  BY <1>1, <1>3 DEF Inv, Accepting, Uncounted, Sent, Sending, SendCounts
<1>. QED
  BY <1>6, <1>7, <1>8, <1>9 DEF Inv

\* A call on a socket returns: it is done, or it is a receive that gives up, and
\* then the socket is one of the late ones.
LEMMA ReturnStep ==
  ASSUME Inv, Done \/ RecvTimeout
  PROVE  Inv'
<1>. DEFINE c == task.sock
<1>1. /\ task.pc = "wait" /\ task.op # "accept" /\ c \in Socks
      /\ app' = [app EXCEPT ![c] = Idle] /\ task' = Ready
      /\ UNCHANGED <<conns, telnet, accept, listens>>
  BY DEF Done, RecvTimeout, Inv, Calls
<1>2. /\ hist' \in Hist /\ hist'.given = hist.given
      /\ hist.late \subseteq hist'.late
      /\ app[c].state = "IDLE" \/ c \in hist'.late
  <2>1. hist \in Hist
    BY DEF Inv, TypeOK
  <2>2. CASE Done
    BY <2>1, <2>2 DEF Done, Hist
  <2>3. CASE RecvTimeout
    <3>. DEFINE late == hist.late \cup {c}
    <3>1. hist' = [hist EXCEPT !.acked = 0, !.steady = TRUE, !.late = late]
      BY <2>3 DEF RecvTimeout
    <3>2. late \in SUBSET Socks /\ hist.late \subseteq late /\ c \in late
      BY <1>1, <2>1 DEF Hist
    <3>. HIDE DEF late
    <3>. QED
      BY <2>1, <3>1, <3>2 DEF Hist
  <2>. QED
    BY <2>2, <2>3
<1>. HIDE DEF c
<1>3. /\ app' \in [Socks -> EluaUipState] /\ app'[c] = Idle
      /\ \A d \in Socks : d # c => app'[d] = app[d]
  BY <1>1, IdleType DEF Inv, TypeOK
<1>4. \A d \in Socks : app'[d].state = "IDLE"
  BY <1>3, IdleType DEF Inv, Calls, c
<1>5. TypeOK'
  BY <1>1, <1>2, <1>3, ReadyType DEF Inv, TypeOK
<1>6. Calls'
  BY <1>1, <1>4, ReadyType DEF Calls
<1>7. StoppedUnlessReceiving'
  BY <1>1, <1>2, <1>3 DEF Inv, StoppedUnlessReceiving
<1>8. Accepting' /\ Uncounted' /\ Sent' /\ SendCounts'
  BY <1>1, <1>2, ReadyType DEF Inv, Accepting, Uncounted, Sent, Sending, SendCounts
<1>. QED
  BY <1>5, <1>6, <1>7, <1>8 DEF Inv

\* The steps of elua_accept(): what it returns is what the interrupt has set.
LEMMA AcceptStep ==
  ASSUME Inv,
         \/ \E timed \in BOOLEAN : Listen(timed)
         \/ Request \/ Accepted \/ AcceptTimeout \/ GiveUp
  PROVE  Inv'
<1>1. UNCHANGED <<conns, app, telnet>> /\ \A c \in Socks : app[c].state = "IDLE"
  <2>1. task.pc = "ready" \/ task.op = "accept"
    BY DEF Listen, Request, Accepted, AcceptTimeout, GiveUp, Inv, Calls
  <2>. QED
    BY <2>1, AllIdle DEF Listen, Request, Accepted, AcceptTimeout, GiveUp, Return
<1>2. ASSUME task' \in Task, accept' \in [request : BOOLEAN, sock : Socks \cup {None}],
             listens' \in BOOLEAN, hist' \in Hist, hist'.late = hist.late,
             task'.pc # "ready" => task'.op = "accept", task'.pc # "opening", Accepting'
      PROVE  Inv'
  <2>1. TypeOK' /\ StoppedUnlessReceiving'
    BY <1>1, <1>2 DEF Inv, TypeOK, StoppedUnlessReceiving
  <2>2. Calls' /\ Uncounted' /\ Sent' /\ SendCounts'
    BY <1>1, <1>2 DEF Calls, Uncounted, Sent, Sending, SendCounts
  <2>. QED
    BY <1>2, <2>1, <2>2 DEF Inv
<1>3. /\ task \in Task /\ accept \in [request : BOOLEAN, sock : Socks \cup {None}]
      /\ listens \in BOOLEAN /\ hist \in Hist
  BY DEF Inv, TypeOK
<1>4. ASSUME NEW timed \in BOOLEAN, Listen(timed) PROVE Inv'
  <2>. DEFINE t == [Ready EXCEPT !.pc = "checked", !.op = "accept", !.timed = timed]
  <2>1. t \in Task /\ t.pc = "checked" /\ t.op = "accept"
    BY ReadyType DEF Task
  <2>2. task.pc = "ready" /\ task' = t /\ listens' = TRUE /\ UNCHANGED <<accept, hist>>
    BY <1>4 DEF Listen
  <2>. HIDE DEF t
  <2>3. Accepting'
    BY <2>1, <2>2 DEF Inv, Accepting
  <2>. QED
    BY <1>2, <1>3, <2>1, <2>2, <2>3
<1>5. CASE Request
  <2>. DEFINE t == [task EXCEPT !.pc = "wait"]
  <2>1. t \in Task /\ t.pc = "wait" /\ t.op = task.op
    BY <1>3 DEF Task
  <2>2. /\ task.pc = "checked" /\ task.op = "accept" /\ task' = t
        /\ accept' = [request |-> TRUE, sock |-> None] /\ UNCHANGED <<listens, hist>>
    BY <1>5 DEF Request
  <2>. HIDE DEF t
  <2>3. Accepting'
    BY <2>1, <2>2 DEF Inv, Accepting
  <2>. QED
    BY <1>2, <1>3, <2>1, <2>2, <2>3
<1>6. CASE AcceptTimeout
  <2>. DEFINE t == [task EXCEPT !.pc = "late"]
  <2>1. t \in Task /\ t.pc = "late" /\ t.op = task.op
    BY <1>3 DEF Task
  <2>2. /\ task.pc = "wait" /\ task.op = "accept" /\ task' = t
        /\ UNCHANGED <<accept, listens, hist>>
    BY <1>6 DEF AcceptTimeout
  <2>. HIDE DEF t
  <2>3. Accepting'
    BY <2>1, <2>2 DEF Inv, Accepting
  <2>. QED
    BY <1>2, <1>3, <2>1, <2>2, <2>3
<1>7. CASE Accepted \/ GiveUp
  <2>1. Return(accept.sock) /\ task.op = "accept" /\ task.pc \in {"wait", "late"}
    BY <1>7 DEF Accepted, GiveUp, Inv, Calls
  <2>2. hist.given = accept.sock
    BY <2>1 DEF Inv, Accepting
  <2>3. hist' = [hist EXCEPT !.given = None]
    BY <2>1, <2>2 DEF Return
  <2>4. hist' \in Hist /\ hist'.given = None /\ hist'.late = hist.late
    BY <1>3, <2>3 DEF Hist
  <2>5. /\ accept' = [request |-> FALSE, sock |-> None] /\ task' = Ready
        /\ UNCHANGED listens
    BY <2>1 DEF Return
  <2>6. Accepting'
    BY <2>4, <2>5, ReadyType DEF Accepting
  <2>. QED
    BY <1>2, <1>3, <2>4, <2>5, <2>6, ReadyType
<1>. QED
  BY <1>4, <1>5, <1>6, <1>7

-----------------------------------------------------------------------------
(* The invariant *)

LEMMA InitInv == Init => Inv
<1>. SUFFICES ASSUME Init PROVE Inv
  OBVIOUS
<1>1. /\ conns \in [Socks -> UipConn] /\ app \in [Socks -> EluaUipState]
      /\ \A c \in Socks : conns[c].tcp = "closed" /\ app[c].state = "IDLE"
  BY UnusedType, IdleType DEF Init
<1>2. TypeOK
  BY <1>1, ReadyType DEF Init, TypeOK, Hist
<1>3. Calls /\ Accepting /\ StoppedUnlessReceiving /\ Uncounted /\ Sent /\ SendCounts
  BY <1>1, ReadyType
  DEF Init, Calls, Accepting, StoppedUnlessReceiving, Uncounted, Sent, Sending, SendCounts
<1>. QED
  BY <1>2, <1>3 DEF Inv

LEMMA Invariance == Spec => []Inv
<1>1. Inv /\ [Next]_vars => Inv'
  <2>. SUFFICES ASSUME Inv, [Next]_vars PROVE Inv'
    OBVIOUS
  <2>1. \A n \in 1 .. MaxSize : n \in 0 .. MaxSize
    BY SocketAssumption
  <2>2. ASSUME NEW c \in Socks, NEW n \in 1 .. MaxSize, NEW readto \in BOOLEAN,
               NEW op \in {"send", "recv"}, Begin(op, c, n, readto)
        PROVE  Inv'
    BY <2>1, <2>2, BeginStep
  <2>3. ASSUME NEW c \in Socks, Begin("close", c, 0, FALSE) PROVE Inv'
    <3>1. 0 \in 0 .. MaxSize
      BY SocketAssumption
    <3>. QED
      BY <2>3, <3>1, BeginStep
  <2>4. CASE Start
    BY <2>2, <2>3, <2>4, SocketStep, ConnectStep, AcceptStep DEF Start
  <2>5. CASE Go
    BY <2>5, PrepStep, OpenStep, ReturnStep, AcceptStep DEF Go
  <2>6. CASE UNCHANGED vars
    BY <2>6 DEF vars, Inv, TypeOK, Calls, Waits, Accepting, StoppedUnlessReceiving,
       Uncounted, Sent, Sending, InFlight, SendCounts
  <2>. QED
    BY <2>4, <2>5, <2>6, InterruptStep, ReturnStep DEF Next
<1>. QED
  BY <1>1, InitInv, PTL DEF Spec

\* No buffer is overrun: a call never counts more bytes than it was given, in
\* whatever pieces data and acknowledgments come (elua_uip.c:354, 428).
THEOREM TypeCorrect == Spec => []TypeOK
BY Invariance, PTL DEF Inv

\* The peer of a connection is stopped whenever the Lua program is not receiving
\* (elua_uip.c:318, 445, 451), at every moment the interrupt may come; but for a
\* receive that has timed out.
THEOREM PeersAreStopped == Spec => []StoppedUnlessReceiving
BY Invariance, PTL DEF Inv

\* elua_net_send() counts what the peer has acknowledged, for every size of the
\* buffer and through every poll, retransmission and change of the window, as long
\* as the window does not change the mss between a send and its acknowledgment
\* (elua_uip.c:345-360).
THEOREM SendsAreCounted == Spec => []SendCounts
BY Invariance, PTL DEF Inv

\* elua_accept() returns the connection the interrupt has accepted for it and no
\* other, and none is left behind when the time is over just then.
THEOREM AcceptReturnsIt == Spec => []AcceptedIsReturned
<1>1. Inv => AcceptedIsReturned
  BY DEF Inv, Accepting, AcceptedIsReturned
<1>. QED
  BY <1>1, Invariance, PTL
=============================================================================
