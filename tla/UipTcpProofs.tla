---------------------------- MODULE UipTcpProofs ----------------------------
(***************************************************************************)
(* Proofs about UipTcp, for every table size, every set of remote hosts    *)
(* and segments, and every value of the timers.                            *)
(*                                                                         *)
(* Inv is inductive.  Every step but PeersDie either leaves the table      *)
(* alone or rewrites one entry; LocalStep says what the new entry must     *)
(* satisfy for Inv to survive, and the other lemmas establish that for the *)
(* three ways uip_process ends (AppSend, AppEnd, NoCall) and for the       *)
(* openings of a connection.                                               *)
(***************************************************************************)
EXTENDS UipTcp, WellFoundedInduction, TLAPS

Sessions == {"none", "opening", "open"}

Inv == TypeOK /\ UniqueEndpoints /\ RetransmitBudget /\ EndIsReported

\* The application's view s is right about connection r.
SessionFits(r, s) ==
  /\ s = "open" => r.tcpstate = "ESTABLISHED"
  /\ s = "opening" => r.tcpstate = "SYN_SENT"

\* r may replace the entry of connection c: it is the same endpoint, no more
\* active than before.
KeepsEndpoint(c, r) ==
  /\ r.lport = conns[c].lport
  /\ r.remote = conns[c].remote
  /\ r.tcpstate \notin {"CLOSED", "RESERVED"} => Active(c)

\* r is an endpoint no other active connection has.
FreshEndpoint(c, r) ==
  \A d \in Conns : Active(d) /\ d # c =>
    ~(conns[d].lport = r.lport /\ conns[d].remote = r.remote)

GoodEntry(r, s) ==
  /\ r \in UipConn /\ WithinBudget(r)
  /\ s \in Sessions /\ SessionFits(r, s)

\* The part of Inv that is about the table and the application's view of it.
TableInv ==
  /\ conns \in [Conns -> UipConn]
  /\ session \in [Conns -> Sessions]
  /\ UniqueEndpoints /\ RetransmitBudget /\ EndIsReported

\* Rewriting one entry preserves the invariant.
LEMMA LocalStep ==
  ASSUME TableInv, NEW c \in Conns, NEW r, NEW s,
         GoodEntry(r, s), KeepsEndpoint(c, r) \/ FreshEndpoint(c, r),
         conns' = [conns EXCEPT ![c] = r],
         session' = [session EXCEPT ![c] = s]
  PROVE  TableInv'
<1>1. conns' \in [Conns -> UipConn] /\ session' \in [Conns -> Sessions]
  BY DEF TableInv, GoodEntry
<1>2. /\ conns'[c] = r /\ session'[c] = s
      /\ \A d \in Conns : d # c => conns'[d] = conns[d] /\ session'[d] = session[d]
  BY DEF TableInv
<1>3. RetransmitBudget'
  BY <1>2 DEF TableInv, RetransmitBudget, GoodEntry
<1>4. EndIsReported'
  BY <1>2 DEF TableInv, EndIsReported, GoodEntry, SessionFits
<1>5. ASSUME NEW d \in Conns, d # c, Active(c)', Active(d)',
             conns'[c].lport = conns'[d].lport, conns'[c].remote = conns'[d].remote
      PROVE FALSE
  BY <1>2, <1>5 DEF TableInv, UniqueEndpoints, Active, KeepsEndpoint, FreshEndpoint
<1>6. UniqueEndpoints'
  BY <1>2, <1>5 DEF TableInv, UniqueEndpoints, Active
<1>. QED
  BY <1>1, <1>3, <1>4, <1>6 DEF TableInv

-----------------------------------------------------------------------------
(* The three ways uip_process ends *)

\* A search of the table from its first entry finds something if anything.
LEMMA SmallestIndex ==
  ASSUME NEW S \in SUBSET Conns, S # {}
  PROVE  \E c \in S : \A d \in S : c <= d
<1>. DEFINE R == {p \in Nat \X Nat : p[1] < p[2]}
<1>1. IsWellFoundedOn(R, Nat)
  BY NatLessThanWellFounded DEF OpToRel
<1>2. S \subseteq Nat
  BY DEF Conns
<1>3. PICK c \in S : \A d \in S : ~(<<d, c>> \in R)
  BY <1>1, <1>2, WFMin
<1>4. ASSUME NEW d \in S PROVE ~(d < c)
  BY <1>2, <1>3
<1>. QED
  BY <1>2, <1>4


LEMMA NoCallStep ==
  ASSUME TableInv, NEW c \in Conns, NEW r, NEW reply,
         r \in UipConn, WithinBudget(r), KeepsEndpoint(c, r),
         r.tcpstate = conns[c].tcpstate \/ session[c] = "none",
         NoCall(c, r, reply)
  PROVE  TableInv'
<1>1. conns' = [conns EXCEPT ![c] = r] /\ session' = [session EXCEPT ![c] = session[c]]
  BY DEF NoCall, TableInv
<1>2. GoodEntry(r, session[c])
  BY DEF GoodEntry, TableInv, EndIsReported, SessionFits, Sessions
<1>. QED
  BY <1>1, <1>2, LocalStep

LEMMA AppEndStep ==
  ASSUME TableInv, NEW c \in Conns, NEW r, NEW event, NEW reply,
         event \in {"CLOSE", "ABORT", "TIMEDOUT"},
         r \in UipConn, WithinBudget(r), KeepsEndpoint(c, r),
         AppEnd(c, r, event, reply)
  PROVE  TableInv'
<1>1. conns' = [conns EXCEPT ![c] = r] /\ session' = [session EXCEPT ![c] = "none"]
  BY DEF AppEnd, Told
<1>2. GoodEntry(r, "none")
  BY DEF GoodEntry, SessionFits, Sessions
<1>. QED
  BY <1>1, <1>2, LocalStep

\* appsend: r is established, and the application has been told of it now or
\* before.
LEMMA AppSendStep ==
  ASSUME TableInv, NEW c \in Conns, NEW r, NEW events,
         r \in UipConn, KeepsEndpoint(c, r), Active(c), r.tcpstate = "ESTABLISHED",
         session[c] = "opening" => "CONNECTED" \in events,
         AppSend(c, r, events)
  PROVE  TableInv'
<1>. PICK app \in AppReactions : AppReact(c, r, events, app)
  BY DEF AppSend
<1>. DEFINE f == Flow(r, app)
            s == IF app.op \in {"close", "abort"}
                      \/ events \cap {"CLOSE", "ABORT", "TIMEDOUT"} # {}
                   THEN "none"
                   ELSE IF "CONNECTED" \in events THEN "open" ELSE session[c]
<1>1. /\ f \in UipConn /\ f.tcpstate = "ESTABLISHED"
      /\ f.lport = r.lport /\ f.remote = r.remote
  BY DEF Flow, AppReactions, UipConn
<1>2. session' = [session EXCEPT ![c] = s] /\ s \in Sessions
  BY DEF AppReact, Told, TableInv, Sessions
<1>3. CASE app.op = "abort"
  <2>1. conns' = [conns EXCEPT ![c] = Enter(f, "CLOSED")]
    BY <1>3 DEF AppReact
  <2>. HIDE DEF f
  <2>2. GoodEntry(Enter(f, "CLOSED"), s) /\ KeepsEndpoint(c, Enter(f, "CLOSED"))
    BY <1>1, <1>3 DEF GoodEntry, WithinBudget, SessionFits, KeepsEndpoint,
       Enter, UipConn, TcpStates, Sessions
  <2>. QED
    BY <1>2, <2>1, <2>2, LocalStep
<1>4. CASE app.op = "close"
  <2>. DEFINE q == [Enter(f, "FIN_WAIT_1") EXCEPT !.len = 1, !.nrtx = 0]
  <2>1. conns' = [conns EXCEPT ![c] = q]
    BY <1>4 DEF AppReact
  <2>. HIDE DEF f
  <2>2. /\ q \in UipConn
        /\ q.tcpstate = "FIN_WAIT_1" /\ q.len = 1 /\ q.nrtx = 0
        /\ q.lport = f.lport /\ q.remote = f.remote
    BY <1>1 DEF Enter, UipConn, TcpStates
  <2>3. s = "none"
    BY <1>4
  <2>. HIDE DEF q, s
  <2>4. GoodEntry(q, s) /\ KeepsEndpoint(c, q)
    BY <1>1, <2>2, <2>3, TimerAssumption
    DEF GoodEntry, WithinBudget, SessionFits, KeepsEndpoint, Sessions
  <2>. QED
    BY <1>2, <2>1, <2>4, LocalStep
<1>5. CASE app.op \in {"send", "none"}
  <2>. DEFINE q == IF app.op = "send" THEN [f EXCEPT !.len = 1, !.nrtx = 0]
                                      ELSE [f EXCEPT !.nrtx = 0]
  <2>1. conns' = [conns EXCEPT ![c] = q]
    BY <1>5 DEF AppReact
  <2>. HIDE DEF f
  <2>2. /\ q \in UipConn
        /\ q.tcpstate = "ESTABLISHED" /\ q.nrtx = 0
        /\ q.lport = f.lport /\ q.remote = f.remote
    BY <1>1 DEF UipConn
  <2>3. SessionFits(q, s)
    BY <1>5, <2>2 DEF SessionFits, TableInv, EndIsReported, Sessions
  <2>. HIDE DEF q, s
  <2>4. GoodEntry(q, s) /\ KeepsEndpoint(c, q)
    BY <1>1, <1>2, <2>2, <2>3, TimerAssumption
    DEF GoodEntry, WithinBudget, KeepsEndpoint
  <2>. QED
    BY <1>2, <2>1, <2>4, LocalStep
<1>. QED
  BY <1>3, <1>4, <1>5 DEF AppReact

-----------------------------------------------------------------------------
(* Incoming segments *)

\* An assignment to tcpstateflags touches nothing but the state.
LEMMA EnterFields ==
  ASSUME NEW r \in UipConn, NEW t \in TcpStates
  PROVE  /\ Enter(r, t) \in UipConn
         /\ Enter(r, t).tcpstate = t
         /\ Enter(r, t).lport = r.lport /\ Enter(r, t).remote = r.remote
         /\ Enter(r, t).len = r.len /\ Enter(r, t).nrtx = r.nrtx
BY DEF Enter, UipConn

\* Processing an acknowledgment changes len and the timer only.
LEMMA AckedFields ==
  ASSUME TableInv, NEW c \in Conns, NEW seg, NEW rto \in RtoValues
  PROVE  /\ Acked(c, seg, rto) \in UipConn
         /\ Acked(c, seg, rto).tcpstate = conns[c].tcpstate
         /\ Acked(c, seg, rto).lport = conns[c].lport
         /\ Acked(c, seg, rto).remote = conns[c].remote
         /\ Acked(c, seg, rto).nrtx = conns[c].nrtx
         /\ Acked(c, seg, rto).len = IF Acks(c, seg) THEN 0 ELSE conns[c].len
<1>1. conns[c] \in UipConn
  BY DEF TableInv
<1>. QED
  BY <1>1, TimerAssumption DEF Acked, UipConn

\* A segment for an existing connection.
LEMMA RecvFoundStep ==
  ASSUME TableInv, NEW c \in Conns, NEW seg \in Segments, NEW rto \in RtoValues,
         RecvFound(c, seg, rto)
  PROVE  TableInv'
<1>. DEFINE r == Acked(c, seg, rto)
<1>1. conns[c] \in UipConn /\ Active(c) /\ WithinBudget(conns[c])
  BY DEF TableInv, RecvFound, IsFound, RetransmitBudget
<1>2. /\ r \in UipConn /\ r.tcpstate = conns[c].tcpstate
      /\ r.lport = conns[c].lport /\ r.remote = conns[c].remote
      /\ r.nrtx = conns[c].nrtx
      /\ r.len = IF Acks(c, seg) THEN 0 ELSE conns[c].len
  BY AckedFields
<1>3. \A t \in TcpStates :
        /\ Enter(r, t) \in UipConn /\ Enter(r, t).tcpstate = t
        /\ Enter(r, t).len = r.len /\ Enter(r, t).nrtx = r.nrtx
        /\ KeepsEndpoint(c, Enter(r, t))
  BY <1>1, <1>2, EnterFields DEF KeepsEndpoint
<1>4. KeepsEndpoint(c, conns[c]) /\ KeepsEndpoint(c, r)
  BY <1>1, <1>2 DEF KeepsEndpoint
<1>5. /\ conns[c].tcpstate # "SYN_SENT" => session[c] # "opening"
      /\ conns[c].tcpstate # "ESTABLISHED" => session[c] # "open"
      /\ session[c] \in Sessions
  BY DEF TableInv, EndIsReported
<1>. HIDE DEF r
<1>6. CASE RecvReset(c, seg)
  <2>. DEFINE q == Enter(conns[c], "CLOSED")
  <2>1. q \in UipConn /\ WithinBudget(q) /\ KeepsEndpoint(c, q)
    BY <1>1, EnterFields DEF WithinBudget, KeepsEndpoint, TcpStates
  <2>. QED
    BY <1>6, <2>1, AppEndStep DEF RecvReset
<1>7. CASE RecvOutOfSequence(c, seg)
  BY <1>1, <1>4, <1>7, NoCallStep DEF RecvOutOfSequence
<1>8. CASE RecvSynRcvd(c, seg, rto)
  <2>1. CASE Acks(c, seg)
    <3>1. AppSend(c, Enter(r, "ESTABLISHED"),
                  {"CONNECTED"} \cup IF seg.data THEN {"NEWDATA"} ELSE {})
      BY <1>8, <2>1 DEF RecvSynRcvd, r
    <3>. QED
      BY <1>1, <1>3, <3>1, AppSendStep DEF TcpStates
  <2>2. CASE ~Acks(c, seg)
    BY <1>1, <1>4, <1>8, <2>2, NoCallStep DEF RecvSynRcvd
  <2>. QED
    BY <2>1, <2>2
<1>9. CASE RecvSynSent(c, seg, rto)
  <2>1. CASE Acks(c, seg) /\ seg.flags = {"SYN", "ACK"}
    <3>1. AppSend(c, Enter(r, "ESTABLISHED"), {"CONNECTED", "NEWDATA"})
      BY <1>9, <2>1 DEF RecvSynSent, r
    <3>. QED
      BY <1>1, <1>3, <3>1, AppSendStep DEF TcpStates
  <2>2. CASE ~(Acks(c, seg) /\ seg.flags = {"SYN", "ACK"})
    <3>1. AppEnd(c, Enter(r, "CLOSED"), "ABORT", {"RST", "ACK"})
      BY <1>9, <2>2 DEF RecvSynSent, r
    <3>2. WithinBudget(Enter(r, "CLOSED"))
      BY <1>3 DEF WithinBudget, TcpStates
    <3>. QED
      BY <1>3, <3>1, <3>2, AppEndStep DEF TcpStates
  <2>. QED
    BY <2>1, <2>2
<1>10. CASE RecvFin(c, seg, rto)
  <2>. DEFINE q == [Enter(r, "LAST_ACK") EXCEPT !.len = 1, !.nrtx = 0]
  <2>1. CASE r.len > 0
    <3>1. NoCall(c, r, {}) /\ WithinBudget(r)
      BY <1>1, <1>2, <1>10, <2>1 DEF RecvFin, r, WithinBudget
    <3>. QED
      BY <1>2, <1>4, <3>1, NoCallStep
  <2>2. CASE ~(r.len > 0)
    <3>1. AppEnd(c, q, "CLOSE", {"FIN", "ACK"})
      BY <1>10, <2>2 DEF RecvFin, r
    <3>2. /\ q \in UipConn /\ q.tcpstate = "LAST_ACK" /\ q.len = 1 /\ q.nrtx = 0
          /\ q.lport = Enter(r, "LAST_ACK").lport
          /\ q.remote = Enter(r, "LAST_ACK").remote
      BY <1>3 DEF UipConn, TcpStates
    <3>. HIDE DEF q
    <3>3. WithinBudget(q) /\ KeepsEndpoint(c, q)
      BY <1>1, <1>3, <3>2, TimerAssumption DEF WithinBudget, KeepsEndpoint, TcpStates
    <3>. QED
      BY <3>1, <3>2, <3>3, AppEndStep
  <2>. QED
    BY <2>1, <2>2
<1>11. CASE RecvEstablished(c, seg, rto)
  <2>1. conns[c].tcpstate = "ESTABLISHED"
    BY <1>11 DEF RecvEstablished
  <2>2. (\E events : AppSend(c, r, events)) \/ NoCall(c, r, {})
    BY <1>11 DEF RecvEstablished, r
  <2>3. CASE NoCall(c, r, {})
    <3>1. WithinBudget(r)
      BY <1>1, <1>2, <2>1 DEF WithinBudget
    <3>. QED
      BY <1>2, <1>4, <2>3, <3>1, NoCallStep
  <2>4. CASE \E events : AppSend(c, r, events)
    BY <1>1, <1>2, <1>4, <1>5, <2>1, <2>4, AppSendStep
  <2>. QED
    BY <2>2, <2>3, <2>4
<1>12. CASE RecvLastAck(c, seg, rto)
  <2>1. AppEnd(c, Enter(r, "CLOSED"), "CLOSE", {}) \/ NoCall(c, conns[c], {})
    BY <1>12 DEF RecvLastAck, r
  <2>2. WithinBudget(Enter(r, "CLOSED"))
    BY <1>3 DEF WithinBudget, TcpStates
  <2>. QED
    BY <1>1, <1>3, <1>4, <2>1, <2>2, AppEndStep, NoCallStep DEF TcpStates
<1>13. CASE RecvFinWait1(c, seg, rto)
  <2>. DEFINE q == [Enter(r, "TIME_WAIT") EXCEPT !.timer = 0]
  <2>1. conns[c].tcpstate = "FIN_WAIT_1" /\ session[c] = "none"
    BY <1>5, <1>13 DEF RecvFinWait1, Sessions
  <2>2. \/ Acks(c, seg) /\ AppEnd(c, q, "CLOSE", {"ACK"})
        \/ ~Acks(c, seg) /\ AppEnd(c, Enter(r, "CLOSING"), "CLOSE", {"ACK"})
        \/ Acks(c, seg) /\ NoCall(c, Enter(r, "FIN_WAIT_2"), {})
        \/ ~Acks(c, seg) /\ \E reply : NoCall(c, r, reply)
    BY <1>13 DEF RecvFinWait1, r
  <2>3. /\ q \in UipConn /\ q.tcpstate = "TIME_WAIT" /\ q.len = r.len
        /\ q.nrtx = r.nrtx
        /\ q.lport = Enter(r, "TIME_WAIT").lport
        /\ q.remote = Enter(r, "TIME_WAIT").remote
    BY <1>3, TimerAssumption DEF UipConn, TcpStates
  <2>. HIDE DEF q
  <2>4. KeepsEndpoint(c, q)
    BY <1>1, <1>3, <2>3 DEF KeepsEndpoint, TcpStates
  <2>5. /\ ~Acks(c, seg) => WithinBudget(Enter(r, "CLOSING")) /\ WithinBudget(r)
        /\ Acks(c, seg) => WithinBudget(Enter(r, "FIN_WAIT_2")) /\ WithinBudget(q)
    BY <1>1, <1>2, <1>3, <2>1, <2>3 DEF WithinBudget, Active, TcpStates
  <2>. QED
    BY <1>2, <1>3, <1>4, <2>1, <2>2, <2>3, <2>4, <2>5, AppEndStep, NoCallStep
    DEF TcpStates
<1>14. CASE RecvFinWait2(c, seg)
  <2>. DEFINE e == Enter(conns[c], "TIME_WAIT")
              q == [e EXCEPT !.timer = 0]
  <2>1. conns[c].tcpstate = "FIN_WAIT_2"
    BY <1>14 DEF RecvFinWait2
  <2>2. AppEnd(c, q, "CLOSE", {"ACK"}) \/ \E reply : NoCall(c, conns[c], reply)
    BY <1>14 DEF RecvFinWait2
  <2>3. /\ e \in UipConn /\ e.tcpstate = "TIME_WAIT" /\ e.len = conns[c].len
        /\ e.nrtx = conns[c].nrtx
        /\ e.lport = conns[c].lport /\ e.remote = conns[c].remote
    BY <1>1, EnterFields DEF TcpStates
  <2>. HIDE DEF e
  <2>4. /\ q \in UipConn /\ q.tcpstate = "TIME_WAIT" /\ q.len = conns[c].len
        /\ q.nrtx = conns[c].nrtx
        /\ q.lport = conns[c].lport /\ q.remote = conns[c].remote
    BY <2>3, TimerAssumption DEF UipConn
  <2>. HIDE DEF q
  <2>5. WithinBudget(q) /\ KeepsEndpoint(c, q)
    BY <1>1, <2>1, <2>4 DEF WithinBudget, KeepsEndpoint, Active
  <2>. QED
    BY <1>1, <1>4, <2>2, <2>4, <2>5, AppEndStep, NoCallStep
<1>15. CASE RecvTimeWait(c)
  BY <1>1, <1>4, <1>15, NoCallStep DEF RecvTimeWait
<1>16. CASE RecvClosing(c, seg, rto)
  <2>. DEFINE e == Enter(conns[c], "TIME_WAIT")
  <2>. DEFINE q == [e EXCEPT !.len = 0, !.timer = 0]
  <2>1. conns[c].tcpstate = "CLOSING" /\ session[c] = "none"
    BY <1>5, <1>16 DEF RecvClosing, Sessions
  <2>2. NoCall(c, q, {}) \/ NoCall(c, conns[c], {})
    BY <1>16 DEF RecvClosing
  <2>3. /\ e \in UipConn /\ e.tcpstate = "TIME_WAIT"
        /\ e.nrtx = conns[c].nrtx
        /\ e.lport = conns[c].lport /\ e.remote = conns[c].remote
    BY <1>1, EnterFields DEF TcpStates
  <2>. HIDE DEF e
  <2>4. /\ q.tcpstate = "TIME_WAIT" /\ q.len = 0
        /\ q.nrtx = conns[c].nrtx
        /\ q.lport = conns[c].lport /\ q.remote = conns[c].remote
    BY <2>3 DEF UipConn
  <2>5. 0 \in 0 .. U8-1
    BY TimerAssumption
  <2>6. q \in UipConn
    BY <2>3, <2>5 DEF UipConn
  <2>. HIDE DEF q
  <2>7. WithinBudget(q) /\ KeepsEndpoint(c, q)
    BY <1>1, <2>1, <2>4 DEF WithinBudget, KeepsEndpoint, Active
  <2>. QED
    BY <1>1, <1>4, <2>1, <2>2, <2>6, <2>7, NoCallStep
<1>. QED
  BY <1>6, <1>7, <1>8, <1>9, <1>10, <1>11, <1>12, <1>13, <1>14, <1>15, <1>16
  DEF RecvFound

\* A SYN that opens a connection: nobody else has its endpoint, or the segment
\* would have been found.
LEMMA RecvSynStep ==
  ASSUME TableInv, NEW c \in Conns, NEW seg \in Segments, RecvSyn(c, seg)
  PROVE  TableInv'
<1>. DEFINE q == [tcpstate |-> "SYN_RCVD", stopped |-> FALSE, lport |-> seg.destport,
                  remote |-> seg.remote, len |-> 1, timer |-> UIP_RTO, nrtx |-> 0]
<1>1. conns' = [conns EXCEPT ![c] = q]
  BY DEF RecvSyn
<1>2. /\ q \in UipConn /\ WithinBudget(q)
      /\ q.lport = seg.destport /\ q.remote = seg.remote
  BY SegmentAssumption, TimerAssumption DEF UipConn, TcpStates, WithinBudget
<1>. DEFINE matches == {d \in Conns : /\ Active(d)
                                      /\ conns[d].lport = seg.destport
                                      /\ conns[d].remote = seg.remote}
<1>3. matches = {}
  <2>1. SUFFICES ASSUME matches # {} PROVE FALSE
    OBVIOUS
  <2>2. PICK d \in matches : \A e \in matches : d <= e
    BY <2>1, SmallestIndex
  <2>. QED
    BY <2>2 DEF RecvSyn, Unclaimed, IsFound
<1>4. FreshEndpoint(c, q)
  BY <1>2, <1>3 DEF FreshEndpoint
<1>5. session[c] = "none" /\ session' = [session EXCEPT ![c] = "none"]
  BY DEF RecvSyn, IsVictim, TableInv, EndIsReported, Sessions
<1>. HIDE DEF q
<1>6. GoodEntry(q, "none")
  BY <1>2 DEF GoodEntry, SessionFits, Sessions
<1>. QED
  BY <1>1, <1>4, <1>5, <1>6, LocalStep

-----------------------------------------------------------------------------
(* The periodic timer *)

\* The backed-off timeout fits the u8_t it is stored in.
LEMMA BackoffFits ==
  ASSUME NEW n \in Nat
  PROVE  Backoff(n) \in 0 .. U8-1
<1>1. <<1, 2, 4, 8, 16>>[IF n > 4 THEN 5 ELSE n + 1] \in {1, 2, 4, 8, 16}
  <2>1. n = 0 \/ n = 1 \/ n = 2 \/ n = 3 \/ n = 4 \/ n > 4
    OBVIOUS
  <2>. QED
    BY <2>1
<1>2. \A k \in {1, 2, 4, 8, 16} : UIP_RTO * k \in 0 .. U8-1
  BY TimerAssumption
<1>. QED
  BY <1>1, <1>2 DEF Backoff

LEMMA TimerPollStep ==
  ASSUME TableInv, NEW c \in Conns, TimerPoll(c)
  PROVE  TableInv'
<1>1. /\ conns[c] \in UipConn /\ Active(c) /\ KeepsEndpoint(c, conns[c])
      /\ session[c] # "opening"
  BY DEF TableInv, TimerPoll, Active, KeepsEndpoint, EndIsReported
<1>. QED
  BY <1>1, AppSendStep DEF TimerPoll

LEMMA TimerStep ==
  ASSUME TableInv, NEW c \in Conns, Timer(c)
  PROVE  TableInv'
<1>1. conns[c] \in UipConn /\ WithinBudget(conns[c])
  BY DEF TableInv, RetransmitBudget
<1>2. /\ conns[c].tcpstate # "SYN_SENT" => session[c] # "opening"
      /\ conns[c].tcpstate # "ESTABLISHED" => session[c] # "open"
      /\ session[c] \in Sessions
  BY DEF TableInv, EndIsReported
<1>3. CASE TimerWait(c)
  <2>. DEFINE t == Increment(conns[c].timer)
              q == [conns[c] EXCEPT !.timer = t]
  <2>1. t \in 0 .. U8-1
    BY <1>1, TimerAssumption DEF Increment, UipConn
  <2>2. /\ q \in UipConn /\ q.tcpstate = conns[c].tcpstate
        /\ q.lport = conns[c].lport /\ q.remote = conns[c].remote
        /\ q.len = conns[c].len /\ q.nrtx = conns[c].nrtx
    BY <1>1, <2>1 DEF UipConn
  <2>3. NoCall(c, Enter(q, "CLOSED"), {}) \/ NoCall(c, q, {})
    BY <1>3 DEF TimerWait
  <2>. HIDE DEF q
  <2>4. WithinBudget(q) /\ KeepsEndpoint(c, q)
    BY <1>1, <2>2 DEF WithinBudget, KeepsEndpoint, Active
  <2>5. /\ Enter(q, "CLOSED") \in UipConn /\ WithinBudget(Enter(q, "CLOSED"))
        /\ KeepsEndpoint(c, Enter(q, "CLOSED"))
    BY <2>2, EnterFields DEF WithinBudget, KeepsEndpoint, TcpStates
  <2>6. session[c] = "none"
    BY <1>2, <1>3 DEF TimerWait, Sessions
  <2>. QED
    BY <2>2, <2>3, <2>4, <2>5, <2>6, NoCallStep
<1>4. CASE TimerCount(c)
  <2>. DEFINE q == [conns[c] EXCEPT !.timer = conns[c].timer - 1]
  <2>1. NoCall(c, q, {}) /\ conns[c].timer > 0
    BY <1>4 DEF TimerCount
  <2>2. /\ q \in UipConn /\ q.tcpstate = conns[c].tcpstate
        /\ q.lport = conns[c].lport /\ q.remote = conns[c].remote
        /\ q.len = conns[c].len /\ q.nrtx = conns[c].nrtx
    BY <1>1, <2>1, TimerAssumption DEF UipConn
  <2>. HIDE DEF q
  <2>3. WithinBudget(q) /\ KeepsEndpoint(c, q)
    BY <1>1, <2>2 DEF WithinBudget, KeepsEndpoint, Active
  <2>. QED
    BY <2>1, <2>2, <2>3, NoCallStep
<1>5. CASE TimerGiveUp(c)
  <2>. DEFINE e == Enter(conns[c], "CLOSED")
              q == [e EXCEPT !.timer = U8-1]
  <2>1. AppEnd(c, q, "TIMEDOUT", {"RST", "ACK"})
    BY <1>5 DEF TimerGiveUp
  <2>2. /\ e \in UipConn /\ e.tcpstate = "CLOSED"
        /\ e.lport = conns[c].lport /\ e.remote = conns[c].remote
    BY <1>1, EnterFields DEF TcpStates
  <2>. HIDE DEF e
  <2>3. /\ q \in UipConn /\ q.tcpstate = "CLOSED"
        /\ q.lport = conns[c].lport /\ q.remote = conns[c].remote
    BY <2>2, TimerAssumption DEF UipConn
  <2>. HIDE DEF q
  <2>4. WithinBudget(q) /\ KeepsEndpoint(c, q)
    BY <2>3 DEF WithinBudget, KeepsEndpoint
  <2>. QED
    BY <2>1, <2>3, <2>4, AppEndStep
<1>6. CASE TimerRexmit(c)
  <2>. DEFINE b == Backoff(conns[c].nrtx)
              q == [conns[c] EXCEPT !.timer = b, !.nrtx = conns[c].nrtx + 1]
  <2>1. b \in 0 .. U8-1
    BY <1>1, BackoffFits DEF UipConn
  <2>2. /\ Active(c) /\ ~GivesUp(c)
        /\ \/ \E reply : NoCall(c, q, reply)
           \/ /\ conns[c].tcpstate = "ESTABLISHED"
              /\ \E app \in {a \in AppReactions : a.op \in RexmitOps} :
                   /\ Told(c, {"REXMIT"}, app.op)
                   /\ conns' = [conns EXCEPT ![c] = Flow(q, app)]
    BY <1>6 DEF TimerRexmit, TimerRunning, Outstanding
  <2>. HIDE DEF b
  <2>3. /\ q \in UipConn /\ q.tcpstate = conns[c].tcpstate
        /\ q.lport = conns[c].lport /\ q.remote = conns[c].remote
        /\ q.len = conns[c].len /\ q.nrtx = conns[c].nrtx + 1
    <3>1. conns[c].nrtx + 1 \in Nat
      BY <1>1 DEF UipConn
    <3>. DEFINE n == conns[c].nrtx + 1
    <3>. HIDE DEF n
    <3>2. q = [conns[c] EXCEPT !.timer = b, !.nrtx = n]
      BY DEF n
    <3>3. [conns[c] EXCEPT !.timer = b, !.nrtx = n] \in UipConn
      BY <1>1, <2>1, <3>1 DEF UipConn, n
    <3>4. /\ q.tcpstate = conns[c].tcpstate
          /\ q.lport = conns[c].lport /\ q.remote = conns[c].remote
          /\ q.len = conns[c].len /\ q.nrtx = n
      BY <1>1, <3>2 DEF UipConn
    <3>. QED
      BY <3>2, <3>3, <3>4 DEF n
  <2>. HIDE DEF q
  <2>4. WithinBudget(q) /\ KeepsEndpoint(c, q)
    <3>1. conns[c].nrtx \in Nat
      BY <1>1 DEF UipConn
    <3>. QED
      BY <1>1, <2>2, <2>3, <3>1, TimerAssumption
      DEF WithinBudget, KeepsEndpoint, Active, GivesUp
  <2>5. CASE \E reply : NoCall(c, q, reply)
    BY <2>3, <2>4, <2>5, NoCallStep
  <2>6. CASE /\ conns[c].tcpstate = "ESTABLISHED"
             /\ \E app \in {a \in AppReactions : a.op \in RexmitOps} :
                  /\ Told(c, {"REXMIT"}, app.op)
                  /\ conns' = [conns EXCEPT ![c] = Flow(q, app)]
    <3>. PICK app \in AppReactions : /\ Told(c, {"REXMIT"}, app.op)
                                     /\ conns' = [conns EXCEPT ![c] = Flow(q, app)]
      BY <2>6
    <3>. DEFINE f == Flow(q, app)
                s == IF app.op \in {"close", "abort"} THEN "none" ELSE session[c]
    <3>1. /\ f \in UipConn /\ f.tcpstate = q.tcpstate
          /\ f.lport = q.lport /\ f.remote = q.remote
          /\ f.len = q.len /\ f.nrtx = q.nrtx
      BY <2>3 DEF Flow, AppReactions, UipConn
    <3>2. session' = [session EXCEPT ![c] = s] /\ conns' = [conns EXCEPT ![c] = f]
      BY DEF Told
    <3>. HIDE DEF f
    <3>3. GoodEntry(f, s) /\ KeepsEndpoint(c, f)
      BY <1>2, <2>3, <2>4, <2>6, <3>1
      DEF GoodEntry, WithinBudget, SessionFits, KeepsEndpoint, Sessions
    <3>. QED
      BY <3>2, <3>3, LocalStep
  <2>. QED
    BY <2>2, <2>5, <2>6
<1>7. CASE TimerPoll(c)
  BY <1>7, TimerPollStep
<1>. QED
  BY <1>3, <1>4, <1>5, <1>6, <1>7 DEF Timer

-----------------------------------------------------------------------------
(* What the application asks of the table *)

\* An opening from this side takes a port no active connection uses.
LEMMA PrepareConnStep ==
  ASSUME TableInv, NEW c \in Conns, NEW r \in Remotes, NEW p \in 1 .. PortEnd-1,
         PrepareConn(c, r, p)
  PROVE  TableInv'
<1>. DEFINE q == [tcpstate |-> "SYN_SENT", stopped |-> FALSE, lport |-> p,
                  remote |-> r, len |-> 1, timer |-> 1, nrtx |-> 0]
<1>1. /\ conns' = [conns EXCEPT ![c] = q]
      /\ session' = [session EXCEPT ![c] = "opening"]
  BY DEF PrepareConn
<1>2. p \in LocalPorts /\ 1 \in 0 .. U8-1
  BY PortAssumption, TimerAssumption DEF LocalPorts
<1>3. q \in UipConn /\ WithinBudget(q) /\ q.tcpstate = "SYN_SENT" /\ q.lport = p
  BY <1>2, TimerAssumption DEF UipConn, TcpStates, WithinBudget
<1>. HIDE DEF q
<1>4. FreshEndpoint(c, q)
  BY <1>3 DEF FreshEndpoint, PrepareConn, IsUnusedPort, PortInUse
<1>5. GoodEntry(q, "opening")
  BY <1>3 DEF GoodEntry, SessionFits, Sessions
<1>. QED
  BY <1>1, <1>4, <1>5, LocalStep

LEMMA ReserveStep ==
  ASSUME TableInv, NEW c \in Conns, Reserve(c)
  PROVE  TableInv'
<1>. DEFINE q == Enter(conns[c], "RESERVED")
<1>1. conns[c] \in UipConn /\ session[c] = "none"
  BY DEF TableInv, Reserve, EndIsReported, Sessions
<1>2. conns' = [conns EXCEPT ![c] = q] /\ session' = [session EXCEPT ![c] = "none"]
  BY <1>1 DEF Reserve, TableInv
<1>3. GoodEntry(q, "none") /\ KeepsEndpoint(c, q)
  BY <1>1, EnterFields DEF GoodEntry, WithinBudget, SessionFits, KeepsEndpoint,
     TcpStates, Sessions
<1>. QED
  BY <1>2, <1>3, LocalStep

-----------------------------------------------------------------------------
(* The invariant *)

\* The other variables keep their types.
OtherTypes ==
  /\ listenports \in [ListenSlots -> ServicePorts \cup {0}]
  /\ lastport \in 0 .. PortEnd-1
  /\ out \subseteq {"SYN", "ACK", "FIN", "RST", "PSH"}
  /\ peerUp \in BOOLEAN

LEMMA InvParts == Inv <=> TableInv /\ OtherTypes
BY DEF Inv, TypeOK, TableInv, OtherTypes, Sessions

LEMMA InitInv == Init => Inv
<1>. SUFFICES ASSUME Init PROVE TableInv /\ OtherTypes
  BY InvParts
<1>1. PICK r \in Remotes :
        conns = [c \in Conns |-> [tcpstate |-> "CLOSED", stopped |-> FALSE,
                  lport |-> 0, remote |-> r, len |-> 0, timer |-> 0, nrtx |-> 0]]
  BY DEF Init
<1>2. 0 \in LocalPorts /\ 0 \in 0 .. U8-1
  BY PortAssumption, TimerAssumption DEF LocalPorts
<1>3. conns \in [Conns -> UipConn] /\ \A c \in Conns : conns[c].tcpstate = "CLOSED"
  BY <1>1, <1>2 DEF UipConn, TcpStates
<1>4. session \in [Conns -> Sessions] /\ \A c \in Conns : session[c] = "none"
  BY DEF Init, Sessions
<1>5. TableInv
  BY <1>3, <1>4 DEF TableInv, UniqueEndpoints, Active, RetransmitBudget,
     WithinBudget, EndIsReported
<1>6. OtherTypes
  BY PortAssumption DEF Init, OtherTypes
<1>. QED
  BY <1>5, <1>6

LEMMA TableStep == ASSUME TableInv, [Next \/ PeersDie]_vars PROVE TableInv'
<1>1. CASE UNCHANGED <<conns, session>>
  BY <1>1 DEF TableInv, UniqueEndpoints, Active, RetransmitBudget, EndIsReported
<1>2. ASSUME NEW seg \in Segments, Receive(seg) PROVE TableInv'
  <2>1. RecvStray(seg) => UNCHANGED <<conns, session>>
    BY DEF RecvStray
  <2>. QED
    BY <1>1, <1>2, <2>1, RecvFoundStep, RecvSynStep DEF Receive
<1>3. ASSUME NEW c \in Conns, Timer(c) \/ ForcedPoll(c) \/ PollRequest(c)
      PROVE TableInv'
  BY <1>3, TimerStep, TimerPollStep DEF ForcedPoll, PollRequest
<1>4. ASSUME NEW p \in ServicePorts, Listen(p) \/ Unlisten(p) PROVE TableInv'
  BY <1>1, <1>4 DEF Listen, Unlisten
<1>5. ASSUME NEW c \in Conns, NEW r \in Remotes, NEW p \in 1 .. PortEnd-1,
             Connect(c, r, p) \/ ConnectSocket(c, r, p)
      PROVE TableInv'
  BY <1>5, PrepareConnStep DEF Connect, ConnectSocket
<1>6. ASSUME NEW p \in 1 .. PortEnd-1, ConnectFull(p) PROVE TableInv'
  BY <1>1, <1>6 DEF ConnectFull
<1>7. ASSUME NEW c \in Conns, Reserve(c) PROVE TableInv'
  BY <1>7, ReserveStep
<1>8. CASE PeersDie
  BY <1>1, <1>8 DEF PeersDie
<1>9. CASE UNCHANGED vars
  BY <1>1, <1>9 DEF vars
<1>. QED
  BY <1>2, <1>3, <1>4, <1>5, <1>6, <1>7, <1>8, <1>9 DEF Next

LEMMA OtherTypesStep ==
  ASSUME OtherTypes, [Next \/ PeersDie]_vars PROVE OtherTypes'
<1>. DEFINE Flags == SUBSET {"SYN", "ACK", "FIN", "RST", "PSH"}
<1>1. ASSUME NEW c \in Conns, NEW r, NEW events, AppSend(c, r, events)
      PROVE out' \in Flags
  BY <1>1 DEF AppSend, AppReact
<1>2. ASSUME NEW seg \in Segments, Receive(seg) PROVE OtherTypes'
  <2>1. CASE RecvStray(seg) \/ \E c \in Conns : RecvSyn(c, seg)
    BY <2>1 DEF RecvStray, RecvSyn, OtherTypes
  <2>2. ASSUME NEW c \in Conns, NEW rto \in RtoValues, RecvFound(c, seg, rto)
        PROVE OtherTypes'
    <3>1. out' \in Flags
      BY <1>1, <2>2 DEF RecvFound, RecvReset, RecvOutOfSequence, RecvSynRcvd,
         RecvSynSent, RecvFin, RecvEstablished, RecvLastAck, RecvFinWait1,
         RecvFinWait2, RecvTimeWait, RecvClosing, NoCall, AppEnd
    <3>. QED
      BY <2>2, <3>1 DEF RecvFound, OtherTypes
  <2>. QED
    BY <1>2, <2>1, <2>2 DEF Receive
<1>3. ASSUME NEW c \in Conns, Timer(c) \/ ForcedPoll(c) \/ PollRequest(c)
      PROVE OtherTypes'
  <2>1. out' \in Flags
    BY <1>1, <1>3 DEF Timer, ForcedPoll, PollRequest, TimerPoll, TimerWait,
       TimerCount, TimerGiveUp, TimerRexmit, NoCall, AppEnd
  <2>. QED
    BY <1>3, <2>1 DEF Timer, ForcedPoll, PollRequest, OtherTypes
<1>4. ASSUME NEW p \in ServicePorts, Listen(p) \/ Unlisten(p) PROVE OtherTypes'
  BY <1>4 DEF Listen, Unlisten, OtherTypes
<1>5. ASSUME NEW c \in Conns, NEW r \in Remotes, NEW p \in 1 .. PortEnd-1,
             Connect(c, r, p) \/ ConnectSocket(c, r, p)
      PROVE OtherTypes'
  BY <1>5, PortAssumption DEF Connect, ConnectSocket, PrepareConn, OtherTypes
<1>6. ASSUME NEW p \in 1 .. PortEnd-1, ConnectFull(p) PROVE OtherTypes'
  BY <1>6, PortAssumption DEF ConnectFull, OtherTypes
<1>7. ASSUME NEW c \in Conns, Reserve(c) PROVE OtherTypes'
  BY <1>7 DEF Reserve, OtherTypes
<1>8. CASE PeersDie \/ UNCHANGED vars
  BY <1>8 DEF PeersDie, vars, OtherTypes
<1>. QED
  BY <1>2, <1>3, <1>4, <1>5, <1>6, <1>7, <1>8 DEF Next

LEMMA Invariance == Spec => []Inv
<1>1. Inv /\ [Next]_vars => Inv'
  <2>. SUFFICES ASSUME Inv, [Next]_vars PROVE Inv'
    OBVIOUS
  <2>1. TableInv /\ OtherTypes
    BY InvParts
  <2>2. TableInv' /\ OtherTypes'
    BY <2>1, TableStep, OtherTypesStep
  <2>. QED
    BY <2>2 DEF Inv, TypeOK, TableInv, OtherTypes, Sessions
<1>. QED
  BY InitInv, <1>1, PTL DEF Spec

\* Every field of every connection keeps the type of its C declaration: in
\* particular the timer never wraps below zero and the backed-off timeout
\* never overflows its u8_t (uip.c:793-830).
THEOREM TypeCorrect == Spec => []TypeOK
BY Invariance, PTL DEF Inv

\* No two active connections have the same endpoints, so the first match of
\* the demultiplexer (uip.c:1266) is the only one.
THEOREM EndpointsUnique == Spec => []UniqueEndpoints
BY Invariance, PTL DEF Inv

\* No path of uip_process carries nrtx past a limit that the timer compares
\* with == (uip.c:809), nor waits for an acknowledgment of nothing.
THEOREM BudgetKept == Spec => []RetransmitBudget
BY Invariance, PTL DEF Inv

\* The application hears of the end of every connection (UIP_CLOSE, UIP_ABORT
\* or UIP_TIMEDOUT) before its entry is anything but established.
THEOREM EndsReported == Spec => []EndIsReported
BY Invariance, PTL DEF Inv

-----------------------------------------------------------------------------
(* An application that does not close in reply to UIP_REXMIT *)

\* The application means an established connection to stay, when uip_process
\* has left entry r and the application's view s.
StaysOpen(r, s) == r.tcpstate = "ESTABLISHED" => s = "open"

\* Rewriting one entry: CloseTakesEffect is about each entry alone.
LEMMA KeptOpen ==
  ASSUME TableInv, CloseTakesEffect, NEW c \in Conns, NEW r, NEW s, StaysOpen(r, s),
         conns' = [conns EXCEPT ![c] = r],
         session' = [session EXCEPT ![c] = s]
  PROVE  CloseTakesEffect'
BY DEF TableInv, CloseTakesEffect, StaysOpen

\* The segment has no effect on the application: nothing becomes established.
LEMMA NoCallKept ==
  ASSUME TableInv, CloseTakesEffect, NEW c \in Conns, NEW r, NEW reply,
         r.tcpstate = "ESTABLISHED" => conns[c].tcpstate = "ESTABLISHED",
         NoCall(c, r, reply)
  PROVE  CloseTakesEffect'
<1>1. conns' = [conns EXCEPT ![c] = r] /\ session' = [session EXCEPT ![c] = session[c]]
  BY DEF NoCall, TableInv
<1>2. StaysOpen(r, session[c])
  BY DEF StaysOpen, CloseTakesEffect
<1>. QED
  BY <1>1, <1>2, KeptOpen

\* A connection whose end is reported is not established any more.
LEMMA AppEndKept ==
  ASSUME TableInv, CloseTakesEffect, NEW c \in Conns, NEW r, NEW event, NEW reply,
         event \in {"CLOSE", "ABORT", "TIMEDOUT"}, r.tcpstate # "ESTABLISHED",
         AppEnd(c, r, event, reply)
  PROVE  CloseTakesEffect'
<1>1. conns' = [conns EXCEPT ![c] = r] /\ session' = [session EXCEPT ![c] = "none"]
  BY DEF AppEnd, Told
<1>. QED
  BY <1>1, KeptOpen DEF StaysOpen

\* appsend: a close or an abort changes tcpstateflags in the same call that the
\* application makes it in; otherwise the application has been told of the
\* connection, now or before.
LEMMA AppSendKept ==
  ASSUME TableInv, CloseTakesEffect, NEW c \in Conns, NEW r \in UipConn, NEW events,
         events \cap {"CLOSE", "ABORT", "TIMEDOUT"} = {},
         "CONNECTED" \in events \/ conns[c].tcpstate = "ESTABLISHED",
         AppSend(c, r, events)
  PROVE  CloseTakesEffect'
<1>. PICK app \in AppReactions : AppReact(c, r, events, app)
  BY DEF AppSend
<1>. DEFINE f == Flow(r, app)
            s == IF app.op \in {"close", "abort"} THEN "none" ELSE "open"
<1>1. f \in UipConn
  BY DEF Flow, AppReactions, UipConn
<1>2. session' = [session EXCEPT ![c] = s]
  <2>1. "CONNECTED" \notin events => session[c] = "open"
    BY DEF CloseTakesEffect
  <2>. QED
    BY <2>1 DEF AppReact, Told
<1>. HIDE DEF f
<1>3. CASE app.op = "abort"
  <2>1. conns' = [conns EXCEPT ![c] = Enter(f, "CLOSED")]
    BY <1>3 DEF AppReact, f
  <2>2. StaysOpen(Enter(f, "CLOSED"), s)
    BY <1>1, EnterFields DEF StaysOpen, TcpStates
  <2>. QED
    BY <1>2, <2>1, <2>2, KeptOpen
<1>4. CASE app.op = "close"
  <2>. DEFINE e == Enter(f, "FIN_WAIT_1")
              q == [e EXCEPT !.len = 1, !.nrtx = 0]
  <2>1. conns' = [conns EXCEPT ![c] = q]
    BY <1>4 DEF AppReact, f
  <2>2. e \in UipConn /\ e.tcpstate = "FIN_WAIT_1"
    BY <1>1, EnterFields DEF TcpStates
  <2>. HIDE DEF e
  <2>3. StaysOpen(q, s)
    BY <2>2 DEF StaysOpen, UipConn
  <2>. QED
    BY <1>2, <2>1, <2>3, KeptOpen
<1>5. CASE app.op \in {"send", "none"}
  <2>1. s = "open"
    BY <1>5
  <2>2. \E q : conns' = [conns EXCEPT ![c] = q]
    BY <1>5 DEF AppReact
  <2>3. PICK q : conns' = [conns EXCEPT ![c] = q]
    BY <2>2
  <2>. QED
    BY <1>2, <2>1, <2>3, KeptOpen DEF StaysOpen
<1>. QED
  BY <1>3, <1>4, <1>5 DEF AppReact

\* A segment for an existing connection.
LEMMA RecvFoundKept ==
  ASSUME TableInv, CloseTakesEffect, NEW c \in Conns, NEW seg \in Segments,
         NEW rto \in RtoValues, RecvFound(c, seg, rto)
  PROVE  CloseTakesEffect'
<1>. DEFINE r == Acked(c, seg, rto)
<1>1. conns[c] \in UipConn
  BY DEF TableInv
<1>2. r \in UipConn /\ r.tcpstate = conns[c].tcpstate
  BY AckedFields
<1>3. \A x \in {r, conns[c]}, t \in TcpStates :
        Enter(x, t) \in UipConn /\ Enter(x, t).tcpstate = t
  BY <1>1, <1>2, EnterFields
<1>. HIDE DEF r
<1>4. CASE RecvReset(c, seg)
  BY <1>3, <1>4, AppEndKept DEF RecvReset, TcpStates
<1>5. CASE RecvOutOfSequence(c, seg)
  BY <1>5, NoCallKept DEF RecvOutOfSequence
<1>6. CASE RecvSynRcvd(c, seg, rto)
  <2>. DEFINE events == {"CONNECTED"} \cup IF seg.data THEN {"NEWDATA"} ELSE {}
  <2>1. AppSend(c, Enter(r, "ESTABLISHED"), events) \/ NoCall(c, conns[c], {})
    BY <1>6 DEF RecvSynRcvd, r
  <2>2. "CONNECTED" \in events /\ events \cap {"CLOSE", "ABORT", "TIMEDOUT"} = {}
    OBVIOUS
  <2>. HIDE DEF events
  <2>. QED
    BY <1>3, <2>1, <2>2, AppSendKept, NoCallKept DEF TcpStates
<1>7. CASE RecvSynSent(c, seg, rto)
  <2>1. \/ AppSend(c, Enter(r, "ESTABLISHED"), {"CONNECTED", "NEWDATA"})
        \/ AppEnd(c, Enter(r, "CLOSED"), "ABORT", {"RST", "ACK"})
    BY <1>7 DEF RecvSynSent, r
  <2>. QED
    BY <1>3, <2>1, AppSendKept, AppEndKept DEF TcpStates
<1>8. CASE RecvFin(c, seg, rto)
  <2>. DEFINE e == Enter(r, "LAST_ACK")
              q == [e EXCEPT !.len = 1, !.nrtx = 0]
  <2>1. NoCall(c, r, {}) \/ AppEnd(c, q, "CLOSE", {"FIN", "ACK"})
    BY <1>8 DEF RecvFin, r
  <2>2. e \in UipConn /\ e.tcpstate = "LAST_ACK"
    BY <1>3 DEF TcpStates
  <2>. HIDE DEF e
  <2>3. q.tcpstate # "ESTABLISHED"
    BY <2>2 DEF UipConn
  <2>. HIDE DEF q
  <2>. QED
    BY <1>2, <2>1, <2>3, NoCallKept, AppEndKept
<1>9. CASE RecvEstablished(c, seg, rto)
  <2>. DEFINE newdata == seg.data /\ ~conns[c].stopped
              events == (IF newdata THEN {"NEWDATA"} ELSE {})
                          \cup (IF Acks(c, seg) THEN {"ACKDATA"} ELSE {})
  <2>1. /\ conns[c].tcpstate = "ESTABLISHED"
        /\ AppSend(c, r, events) \/ NoCall(c, r, {})
    BY <1>9 DEF RecvEstablished, r
  <2>2. events \cap {"CLOSE", "ABORT", "TIMEDOUT"} = {}
    OBVIOUS
  <2>. HIDE DEF events
  <2>. QED
    BY <1>2, <2>1, <2>2, AppSendKept, NoCallKept
<1>10. CASE RecvLastAck(c, seg, rto)
  <2>1. AppEnd(c, Enter(r, "CLOSED"), "CLOSE", {}) \/ NoCall(c, conns[c], {})
    BY <1>10 DEF RecvLastAck, r
  <2>. QED
    BY <1>3, <2>1, AppEndKept, NoCallKept DEF TcpStates
<1>11. CASE RecvFinWait1(c, seg, rto)
  <2>. DEFINE e == Enter(r, "TIME_WAIT")
              q == [e EXCEPT !.timer = 0]
  <2>1. \/ AppEnd(c, q, "CLOSE", {"ACK"})
        \/ AppEnd(c, Enter(r, "CLOSING"), "CLOSE", {"ACK"})
        \/ NoCall(c, Enter(r, "FIN_WAIT_2"), {})
        \/ \E reply : NoCall(c, r, reply)
    BY <1>11 DEF RecvFinWait1, r
  <2>2. e \in UipConn /\ e.tcpstate = "TIME_WAIT"
    BY <1>3 DEF TcpStates
  <2>. HIDE DEF e
  <2>3. q.tcpstate # "ESTABLISHED"
    BY <2>2 DEF UipConn
  <2>4. /\ Enter(r, "CLOSING").tcpstate # "ESTABLISHED"
        /\ Enter(r, "FIN_WAIT_2").tcpstate # "ESTABLISHED"
    BY <1>3 DEF TcpStates
  <2>. HIDE DEF q
  <2>. QED
    BY <1>2, <2>1, <2>3, <2>4, AppEndKept, NoCallKept
<1>12. CASE RecvFinWait2(c, seg) \/ RecvTimeWait(c) \/ RecvClosing(c, seg, rto)
  <2>. DEFINE e == Enter(conns[c], "TIME_WAIT")
              q == [e EXCEPT !.timer = 0]
              z == [e EXCEPT !.len = 0, !.timer = 0]
  <2>1. \/ AppEnd(c, q, "CLOSE", {"ACK"}) \/ NoCall(c, z, {})
        \/ \E reply : NoCall(c, conns[c], reply)
    BY <1>12 DEF RecvFinWait2, RecvTimeWait, RecvClosing
  <2>2. e \in UipConn /\ e.tcpstate = "TIME_WAIT"
    BY <1>3 DEF TcpStates
  <2>. HIDE DEF e
  <2>3. q.tcpstate # "ESTABLISHED" /\ z.tcpstate # "ESTABLISHED"
    BY <2>2 DEF UipConn
  <2>. HIDE DEF q, z
  <2>. QED
    BY <2>1, <2>3, AppEndKept, NoCallKept
<1>. QED
  BY <1>4, <1>5, <1>6, <1>7, <1>8, <1>9, <1>10, <1>11, <1>12 DEF RecvFound

\* A poll, by the timer or asked for.
LEMMA TimerPollKept ==
  ASSUME TableInv, CloseTakesEffect, NEW c \in Conns, TimerPoll(c)
  PROVE  CloseTakesEffect'
<1>1. conns[c] \in UipConn
  BY DEF TableInv
<1>. QED
  BY <1>1, AppSendKept DEF TimerPoll

\* The periodic timer.  A retransmission is where a close would be lost: the
\* label apprexmit (uip.c) does not look at UIP_CLOSE and UIP_ABORT.
LEMMA TimerKept ==
  ASSUME TableInv, CloseTakesEffect, NEW c \in Conns, Timer(c),
         RexmitOps \subseteq {"none", "send"}
  PROVE  CloseTakesEffect'
<1>1. conns[c] \in UipConn
  BY DEF TableInv
<1>2. CASE TimerWait(c)
  <2>. DEFINE t == Increment(conns[c].timer)
              q == [conns[c] EXCEPT !.timer = t]
  <2>1. t \in 0 .. U8-1
    BY <1>1, TimerAssumption DEF Increment, UipConn
  <2>2. q \in UipConn /\ q.tcpstate = conns[c].tcpstate
    BY <1>1, <2>1 DEF UipConn
  <2>3. NoCall(c, Enter(q, "CLOSED"), {}) \/ NoCall(c, q, {})
    BY <1>2 DEF TimerWait
  <2>. HIDE DEF q
  <2>4. Enter(q, "CLOSED").tcpstate # "ESTABLISHED"
    BY <2>2, EnterFields DEF TcpStates
  <2>. QED
    BY <2>2, <2>3, <2>4, NoCallKept
<1>3. CASE TimerCount(c)
  <2>. DEFINE q == [conns[c] EXCEPT !.timer = conns[c].timer - 1]
  <2>1. NoCall(c, q, {})
    BY <1>3 DEF TimerCount
  <2>2. q.tcpstate = conns[c].tcpstate
    BY <1>1 DEF UipConn
  <2>. QED
    BY <2>1, <2>2, NoCallKept
<1>4. CASE TimerGiveUp(c)
  <2>. DEFINE e == Enter(conns[c], "CLOSED")
              q == [e EXCEPT !.timer = U8-1]
  <2>1. AppEnd(c, q, "TIMEDOUT", {"RST", "ACK"})
    BY <1>4 DEF TimerGiveUp
  <2>2. e \in UipConn /\ e.tcpstate = "CLOSED"
    BY <1>1, EnterFields DEF TcpStates
  <2>. HIDE DEF e
  <2>3. q.tcpstate # "ESTABLISHED"
    BY <2>2 DEF UipConn
  <2>. HIDE DEF q
  <2>. QED
    BY <2>1, <2>3, AppEndKept
<1>5. CASE TimerRexmit(c)
  <2>. DEFINE b == Backoff(conns[c].nrtx)
              q == [conns[c] EXCEPT !.timer = b, !.nrtx = conns[c].nrtx + 1]
  <2>1. \/ \E reply : NoCall(c, q, reply)
        \/ /\ conns[c].tcpstate = "ESTABLISHED"
           /\ \E app \in {a \in AppReactions : a.op \in RexmitOps} :
                /\ Told(c, {"REXMIT"}, app.op)
                /\ conns' = [conns EXCEPT ![c] = Flow(q, app)]
    BY <1>5 DEF TimerRexmit
  <2>2. CASE \E reply : NoCall(c, q, reply)
    <3>. HIDE DEF b
    <3>1. q.tcpstate = conns[c].tcpstate
      BY <1>1 DEF UipConn
    <3>. QED
      BY <2>2, <3>1, NoCallKept
  <2>3. CASE /\ conns[c].tcpstate = "ESTABLISHED"
             /\ \E app \in {a \in AppReactions : a.op \in RexmitOps} :
                  /\ Told(c, {"REXMIT"}, app.op)
                  /\ conns' = [conns EXCEPT ![c] = Flow(q, app)]
    <3>. HIDE DEF q
    <3>1. PICK app \in AppReactions : /\ app.op \in RexmitOps
                                      /\ Told(c, {"REXMIT"}, app.op)
                                      /\ conns' = [conns EXCEPT ![c] = Flow(q, app)]
      BY <2>3
    <3>2. session[c] = "open"
      BY <2>3 DEF CloseTakesEffect
    <3>3. session' = [session EXCEPT ![c] = "open"]
      BY <3>1, <3>2 DEF Told
    <3>. QED
      BY <3>1, <3>3, KeptOpen DEF StaysOpen
  <2>. QED
    BY <2>1, <2>2, <2>3
<1>6. CASE TimerPoll(c)
  BY <1>6, TimerPollKept
<1>. QED
  BY <1>2, <1>3, <1>4, <1>5, <1>6 DEF Timer

\* An entry that is opened or reserved is not established yet.
LEMMA OpeningKept ==
  ASSUME TableInv, CloseTakesEffect, NEW c \in Conns, NEW q, q.tcpstate # "ESTABLISHED",
         conns' = [conns EXCEPT ![c] = q],
         UNCHANGED session \/ session' = [session EXCEPT ![c] = "opening"]
  PROVE  CloseTakesEffect'
<1>1. \E s : session' = [session EXCEPT ![c] = s]
  <2>1. session = [session EXCEPT ![c] = session[c]]
    BY DEF TableInv
  <2>. QED
    BY <2>1
<1>. QED
  BY <1>1, KeptOpen DEF StaysOpen

LEMMA CloseStep ==
  ASSUME TableInv, CloseTakesEffect, [Next]_vars, RexmitOps \subseteq {"none", "send"}
  PROVE  CloseTakesEffect'
<1>1. CASE UNCHANGED <<conns, session>>
  BY <1>1 DEF CloseTakesEffect
<1>2. ASSUME NEW seg \in Segments, Receive(seg) PROVE CloseTakesEffect'
  <2>1. RecvStray(seg) => UNCHANGED <<conns, session>>
    BY DEF RecvStray
  <2>2. ASSUME NEW c \in Conns, RecvSyn(c, seg) PROVE CloseTakesEffect'
    BY <2>2, OpeningKept DEF RecvSyn
  <2>. QED
    BY <1>1, <1>2, <2>1, <2>2, RecvFoundKept DEF Receive
<1>3. ASSUME NEW c \in Conns, Timer(c) \/ ForcedPoll(c) \/ PollRequest(c)
      PROVE CloseTakesEffect'
  BY <1>3, TimerKept, TimerPollKept DEF ForcedPoll, PollRequest
<1>4. ASSUME NEW p \in ServicePorts, Listen(p) \/ Unlisten(p) PROVE CloseTakesEffect'
  BY <1>1, <1>4 DEF Listen, Unlisten
<1>5. ASSUME NEW c \in Conns, NEW r \in Remotes, NEW p \in 1 .. PortEnd-1,
             Connect(c, r, p) \/ ConnectSocket(c, r, p)
      PROVE CloseTakesEffect'
  BY <1>5, OpeningKept DEF Connect, ConnectSocket, PrepareConn
<1>6. ASSUME NEW p \in 1 .. PortEnd-1, ConnectFull(p) PROVE CloseTakesEffect'
  BY <1>1, <1>6 DEF ConnectFull
<1>7. ASSUME NEW c \in Conns, Reserve(c) PROVE CloseTakesEffect'
  <2>. DEFINE q == Enter(conns[c], "RESERVED")
  <2>1. q.tcpstate # "ESTABLISHED"
    BY EnterFields DEF TableInv, TcpStates
  <2>2. conns' = [conns EXCEPT ![c] = q] /\ UNCHANGED session
    BY <1>7 DEF Reserve
  <2>. QED
    BY <2>1, <2>2, OpeningKept
<1>8. CASE UNCHANGED vars
  BY <1>1, <1>8 DEF vars
<1>. QED
  BY <1>2, <1>3, <1>4, <1>5, <1>6, <1>7, <1>8 DEF Next

\* uip_close() and uip_abort() take effect (uip.h:576, 587): there is no
\* established connection that the application has closed, provided it closes
\* none while it is called to retransmit, when apprexmit would drop the request.
THEOREM ClosesTakeEffect ==
  ASSUME RexmitOps \subseteq {"none", "send"}
  PROVE  Spec => []CloseTakesEffect
<1>1. Init => CloseTakesEffect
  BY DEF Init, CloseTakesEffect
<1>2. Inv /\ CloseTakesEffect /\ [Next]_vars => CloseTakesEffect'
  BY InvParts, CloseStep
<1>. QED
  BY Invariance, <1>1, <1>2, PTL DEF Spec
=============================================================================
