---------------------------- MODULE PsockStream ----------------------------
(***************************************************************************)
(* The way of an HTTP response from the web server to its client: the      *)
(* protothreads of httpd.c and psock.c that send it piece by piece, the    *)
(* part of uip_process() that turns a uip_send() into segments and         *)
(* acknowledgments into callbacks, a network that loses, duplicates and    *)
(* reorders segments, and the client's TCP.                                *)
(*                                                                         *)
(* Bytes are identified with their position in the response: byte i is the *)
(* one that should get sequence number i.  A segment carries the sequence  *)
(* number seq and the position pos of its first byte; it is right if they  *)
(* are equal.  The handshake, the choice of the connection and the timers  *)
(* are the business of UipTcp.                                             *)
(***************************************************************************)
EXTENDS Integers, Sequences

CONSTANTS
  Items,        \* the response: what httpd.c sends, in order.  A "send" is one
                \* PSOCK_SEND (a header line, the output of a Lua tag), "html"
                \* what handle_elua_tags sends between two tags, "file" what
                \* send_file sends.  A PSOCK_SEND of nothing returns at once and
                \* is not listed
  InitialMss,   \* initialmss of the connection
  Windows,      \* windows the client may advertise
  MaxPolls,     \* polls without progress before httpd_appcall aborts (20)
  HalfClose     \* TRUE if the client may close its side before the response ends

ASSUME StreamAssumption ==
  /\ Items \in Seq([kind : {"send", "html", "file"}, len : Nat])
  /\ \A i \in 1 .. Len(Items) : Items[i].len = 0 => Items[i].kind = "file"
  /\ Items # << >>
  /\ InitialMss \in Nat \ {0}
  /\ Windows \subseteq Nat
  /\ MaxPolls \in Nat \ {0}
  /\ HalfClose \in BOOLEAN

\* The position of a byte that belongs to no place of the response.
Junk == -1

VARIABLES
  phase,    \* of the connection and of httpd_state.state
  item,     \* the element of Items being sent
  ptr,      \* position of file.data, or of the buffer being sent
  left,     \* file.len, or what is left of the buffer
  slen,     \* httpd_state.len: the length of the present send
  sendptr,  \* psock.sendptr, as a position
  sendlen,  \* psock.sendlen
  timer,    \* httpd_state.timer
  snd_nxt,  \* uip_conn.snd_nxt
  len,      \* uip_conn.len
  mss,      \* uip_conn.mss
  appdata,  \* the payload area of uip_buf: its first .len bytes are those from .pos on
  net,      \* the segments on their way; each may arrive more than once
  due,      \* history: bytes of the response up to the end of the present item
  rcvd,     \* client: bytes received, in order
  wrong,    \* history: where bytes that the client got and should not came from
  eof       \* client: the server's FIN has been received

appVars == <<item, ptr, left, slen, sendptr, sendlen, due>>
uipVars == <<snd_nxt, len, mss, appdata>>
clientVars == <<rcvd, wrong, eof>>
vars == <<phase, appVars, timer, uipVars, net, clientVars>>

Min2(a, b) == IF a < b THEN a ELSE b
Empty == [pos |-> 0, len |-> 0]
Data(seq, n, pos, from) == [fin |-> FALSE, seq |-> seq, len |-> n, pos |-> pos, from |-> from]
Fin(seq) == [fin |-> TRUE, seq |-> seq, len |-> 1, pos |-> seq, from |-> "memory"]

\* The connection has been established, the request has not been read.
Init ==
  /\ phase = "waiting"
  /\ item = 0 /\ ptr = 0 /\ left = 0 /\ slen = 0
  /\ sendptr = 0 /\ sendlen = 0 /\ timer = 0
  /\ snd_nxt = 0 /\ len = 0 /\ mss = InitialMss
  /\ appdata = Empty
  /\ net = {}
  /\ due = 0
  /\ rcvd = 0 /\ wrong = {} /\ eof = FALSE

-----------------------------------------------------------------------------
(* uip_process, in ESTABLISHED *)

\* The new mss, from the window of the segment.
MssFor(w) == IF w > InitialMss \/ w = 0 THEN InitialMss ELSE w

\* The segment acknowledges all that is outstanding.
Acks(n) == len > 0 /\ n = snd_nxt + len

\* The bytes of item j: a PSOCK_SEND has them in memory, a generator writes them
\* into uip_buf, which the next frame overwrites.
From(j) == IF Items[j].kind = "file" THEN "generator" ELSE "memory"

\* appsend: d is what the application's last uip_send(), for item j, has put into
\* the payload area; what was outstanding has just been acknowledged, or there
\* was nothing.
AppSend(d, j) ==
  /\ appdata' = d
  /\ len' = d.len
  /\ net' = IF d.len > 0 THEN net \cup {Data(snd_nxt', d.len, d.pos, From(j))} ELSE net

\* appsend, after uip_close().
AppClose ==
  /\ phase' = "closing"
  /\ len' = 1
  /\ appdata' = Empty
  /\ net' = net \cup {Fin(snd_nxt')}

-----------------------------------------------------------------------------
(* The protothreads of psock.c and httpd.c *)

\* The length of the next send of item j with n bytes left: all of a PSOCK_SEND;
\* as much of the HTML as there is before the next '<'; a part of the file.
SendLengths(j, n) ==
  CASE Items[j].kind = "send" -> {n}
    [] Items[j].kind = "html" -> 1 .. Min2(n, mss')
    [] Items[j].kind = "file" -> {Min2(n, mss')}

\* The threads go on from position p of item j, of which n bytes are left, and
\* run until they block in the next send or have sent everything.  d is what
\* has been passed to uip_send() so far in this call.
Proceed(j, p, n, d) ==
  /\ item' = j /\ ptr' = p /\ left' = n
  /\ IF j > Len(Items)
       THEN slen' = 0 /\ AppClose
       ELSE /\ phase' = "output"
            /\ slen' \in SendLengths(j, n)
            /\ IF slen' > 0 THEN AppSend([pos |-> p, len |-> Min2(slen', mss')], j)
               ELSE AppSend(d, item)
  /\ sendptr' = p /\ sendlen' = slen'

\* What is at position p of the present send by now.
Source(p) == IF From(item) = "generator" THEN Junk ELSE p

\* PT_WAIT_UNTIL(data_acked(s) & send_data(s)) in a call with UIP_ACKDATA.  The
\* flag stays set, so the loop takes every piece it sends for acknowledged and
\* runs to its end; the last piece is what is left in the payload area.
AckedSend ==
  LET k == (sendlen - 1) \div mss'
  IN IF sendlen <= mss' THEN Empty
       ELSE [pos |-> Source(sendptr + k * mss'), len |-> sendlen - k * mss']

\* The next item, from position p on.
NextItem(p, d) ==
  LET n == IF item < Len(Items) THEN Items[item + 1].len ELSE 0
  IN due' = due + n /\ Proceed(item + 1, p, n, d)

\* Mutant of AckData: one part of a file or of the HTML is taken for all of it.
AckDataOnePart(w) ==
  /\ mss' = MssFor(w)
  /\ snd_nxt' = snd_nxt + len
  /\ NextItem(ptr + slen, AckedSend)
  /\ timer' = 0

\* A segment that acknowledges the outstanding data: the send is over.
AckData(w) ==
  /\ mss' = MssFor(w)
  /\ snd_nxt' = snd_nxt + len
  /\ IF left > slen
       THEN Proceed(item, ptr + slen, left - slen, AckedSend) /\ UNCHANGED due
       ELSE NextItem(ptr + slen, AckedSend)
  /\ timer' = 0

\* A segment that does not: at most the window and the payload area change.
Ignore(w) ==
  /\ mss' = MssFor(w)
  /\ appdata' = Empty
  /\ UNCHANGED <<phase, appVars, snd_nxt, len, net>>

-----------------------------------------------------------------------------
(* Segments from the client *)

\* A segment with acknowledgment number n and window w, with or without data.
\* The client has acknowledged every n up to rcvd; an old one may come late.
RecvAck(n, w) ==
  /\ phase = "output"
  /\ n <= rcvd
  /\ IF Acks(n) THEN AckData(w) ELSE Ignore(w) /\ timer' \in {timer, 0}
  /\ UNCHANGED clientVars

\* A part of the request (handle_input); complete when the file name is known.
RecvRequest(w, complete) ==
  /\ phase = "waiting"
  /\ IF complete
       THEN /\ mss' = MssFor(w)
            /\ UNCHANGED snd_nxt
            /\ NextItem(0, Empty)
       ELSE Ignore(w)
  /\ timer' = 0
  /\ UNCHANGED clientVars

\* Mutant of RecvFin: accepted while data is outstanding.
RecvFinEarly(n) ==
  /\ HalfClose
  /\ phase \in {"waiting", "output"}
  /\ n <= rcvd
  /\ snd_nxt' = IF Acks(n) THEN n ELSE snd_nxt
  /\ AppClose
  /\ UNCHANGED <<appVars, timer, mss, clientVars>>

\* The client's FIN: dropped while data is outstanding; else the server closes
\* as well, whatever it had still to send.
RecvFin(n) ==
  /\ HalfClose
  /\ phase \in {"waiting", "output"}
  /\ n <= rcvd /\ (len > 0 => Acks(n))
  /\ snd_nxt' = snd_nxt + len
  /\ AppClose
  /\ UNCHANGED <<appVars, timer, mss, clientVars>>

\* The client acknowledges the server's FIN.
RecvFinAck ==
  /\ phase = "closing" /\ eof
  /\ phase' = "finished"
  /\ snd_nxt' = snd_nxt + len /\ len' = 0 /\ appdata' = Empty
  /\ UNCHANGED <<appVars, timer, mss, net, clientVars>>

\* The client resets the connection, or uIP gives it up (UipTcp!TimerGiveUp).
Reset ==
  /\ phase \in {"waiting", "output", "closing"}
  /\ phase' = "reset"
  /\ UNCHANGED <<appVars, timer, uipVars, net, clientVars>>

\* Any other frame comes in: an ARP request, a segment for another connection.
OtherFrame ==
  /\ appdata' = Empty
  /\ UNCHANGED <<phase, appVars, timer, snd_nxt, len, mss, net, clientVars>>

-----------------------------------------------------------------------------
(* The periodic timer *)

\* Mutant of Poll: connections with data outstanding are polled, too.
PollOutstanding ==
  /\ phase \in {"waiting", "output"}
  /\ timer' = timer + 1
  /\ phase' = IF timer + 1 >= MaxPolls THEN "aborted" ELSE phase
  /\ UNCHANGED <<appVars, uipVars, net, clientVars>>

\* httpd_appcall with UIP_POLL: too many of them abort the connection.
Poll ==
  /\ phase \in {"waiting", "output"} /\ len = 0
  /\ timer' = timer + 1
  /\ phase' = IF timer + 1 >= MaxPolls THEN "aborted" ELSE phase
  /\ UNCHANGED <<appVars, uipVars, net, clientVars>>

\* Mutant of Rexmitted: the bytes after the ones outstanding.
RexmittedNext == [pos |-> sendptr + len, len |-> Min2(sendlen, mss)]

\* send_data in a call with UIP_REXMIT: the payload area afterwards.  The part
\* of a generator that generates the data again is not reached.
Rexmitted ==
  LET d == [pos |-> sendptr, len |-> Min2(sendlen, mss)]
  IN IF From(item) = "generator" \/ (appdata.pos = sendptr /\ appdata.len > d.len)
       THEN appdata
       ELSE d

\* uIP retransmits len bytes, whatever the application has put there.
RexmitData ==
  /\ phase = "output" /\ len > 0 /\ sendlen > 0
  /\ appdata' = Rexmitted
  /\ net' = net \cup {Data(snd_nxt, len,
                           IF Rexmitted.len >= len THEN Rexmitted.pos ELSE Junk,
                           From(item))}
  /\ timer' = 0
  /\ UNCHANGED <<phase, appVars, snd_nxt, len, mss, clientVars>>

\* Mutant of RexmitFin: in LAST_ACK only.
RexmitFinLastAck ==
  /\ phase = "closing" /\ item <= Len(Items)
  /\ net' = net \cup {Fin(snd_nxt)}
  /\ UNCHANGED <<phase, appVars, timer, uipVars, clientVars>>

\* A FIN is retransmitted without the application.
RexmitFin ==
  /\ phase = "closing"
  /\ net' = net \cup {Fin(snd_nxt)}
  /\ UNCHANGED <<phase, appVars, timer, uipVars, clientVars>>

-----------------------------------------------------------------------------
(* The network and the client's TCP *)

Lose(m) ==
  /\ net' = net \ {m}
  /\ UNCHANGED <<phase, appVars, timer, uipVars, clientVars>>

\* The client accepts k new bytes of a segment.
ClientRecv(m, k) ==
  /\ ~m.fin
  /\ m.seq <= rcvd /\ rcvd + k <= m.seq + m.len /\ ~eof
  /\ rcvd' = rcvd + k
  /\ wrong' = IF m.pos = m.seq THEN wrong ELSE wrong \cup {m.from}
  /\ UNCHANGED <<phase, appVars, timer, uipVars, net, eof>>

\* The end of the response, for the client.
ClientFin(m) ==
  /\ m.fin /\ m.seq = rcvd /\ ~eof
  /\ eof' = TRUE
  /\ UNCHANGED <<phase, appVars, timer, uipVars, net, rcvd, wrong>>

-----------------------------------------------------------------------------
FromClient ==
  \/ \E n \in 0 .. rcvd, w \in Windows : RecvAck(n, w)
  \/ \E w \in Windows, complete \in BOOLEAN : RecvRequest(w, complete)
  \/ \E n \in 0 .. rcvd : RecvFin(n)
  \/ RecvFinAck
  \/ Reset
  \/ OtherFrame

Client == \E m \in net : ClientFin(m) \/ \E k \in 1 .. m.len : ClientRecv(m, k)

Next ==
  \/ FromClient \/ Client
  \/ Poll \/ RexmitData \/ RexmitFin
  \/ \E m \in net : Lose(m)

Spec == Init /\ [][Next]_vars

\* The main loop runs the timer for ever.  The client and the network keep
\* working: what is sent again and again gets through in the end, and so do the
\* acknowledgments the client repeats for every segment it gets.
Fairness ==
  /\ WF_vars(RexmitData) /\ WF_vars(RexmitFin)
  /\ SF_vars(Client)
  /\ WF_vars(\E w \in Windows : Acks(rcvd) /\ RecvAck(rcvd, w))
  /\ WF_vars(RecvFinAck)

FairSpec == Spec /\ Fairness

-----------------------------------------------------------------------------
(* Properties *)

\* The advertised windows never shrink mss, and no PSOCK_SEND exceeds it.
FitsMss ==
  /\ \A w \in Windows : w = 0 \/ w >= InitialMss
  /\ \A i \in 1 .. Len(Items) : Items[i].kind = "send" => Items[i].len <= InitialMss

\* Every variable keeps its type; in particular a closed window never becomes
\* an mss of 0 (uip.c:1699), with which nothing would be sent again.
TypeOK ==
  /\ phase \in {"waiting", "output", "closing", "finished", "aborted", "reset"}
  /\ item \in 0 .. Len(Items) + 1
  /\ ptr \in Nat /\ left \in Nat /\ slen \in Nat /\ due \in Nat
  /\ sendptr \in Nat /\ sendlen \in Nat /\ timer \in 0 .. MaxPolls
  /\ snd_nxt \in Nat /\ len \in Nat /\ mss \in 1 .. InitialMss
  /\ appdata \in [pos : Nat \cup {Junk}, len : Nat]
  /\ net \subseteq [fin : BOOLEAN, seq : Nat, len : Nat, pos : Nat \cup {Junk},
                    from : {"memory", "generator"}]
  /\ rcvd \in Nat /\ wrong \subseteq {"memory", "generator"} /\ eof \in BOOLEAN

\* PSOCK_SEND "blocks until all data has been sent and is known to have been
\* received by the remote end" (psock.h:164): the server never goes on to the
\* next piece of the response before the client has the one before.
SendBlocksUntilReceived == rcvd >= ptr

\* The client gets the bytes of the response, each one once and in order,
\* whatever is lost, repeated or reordered: a retransmission sends the same
\* bytes again (uip.h:713).  This is said of what PSOCK_SEND sends, before and
\* after the parts that a generator makes.
StreamIntact == "memory" \notin wrong

\* A client that sees the end of the stream has the whole response, or has
\* closed its own side before the server did.
EndIsComplete == eof => /\ item > Len(Items) => rcvd = due
                        /\ item > Len(Items) \/ HalfClose

\* The server gives up on idle clients only, never in the middle of a response
\* (httpd.c:395): as long as it has something to send, something is outstanding.
NoAbortMidResponse == phase = "aborted" => item = 0

\* Every response ends: the client gets all of it, or the connection is reset.
ResponseEnds == (phase = "output") ~> (phase \in {"finished", "reset"})

\* The protosocket is a blocking byte stream: what the application has handed
\* over is all that it has finished and the send it blocks in.
Stream == INSTANCE ByteStream WITH
  written  <- ptr + slen,
  received <- rcvd,
  eof      <- eof
StreamSpec == Stream!Spec
=============================================================================
