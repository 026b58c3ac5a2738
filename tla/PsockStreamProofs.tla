-------------------------- MODULE PsockStreamProofs --------------------------
(***************************************************************************)
(* Proofs about PsockStream, for every response, every segment size and    *)
(* every order of events, as long as no window shrinks the segment size    *)
(* and no PSOCK_SEND exceeds it (FitsMss).                                 *)
(*                                                                         *)
(* The argument: the present send covers the positions ptr .. ptr+slen-1,  *)
(* all of it is outstanding at once, and the client is somewhere in it.    *)
(* So an acknowledgment of what is outstanding says that the send is over, *)
(* and no segment on its way goes beyond it.                               *)
(***************************************************************************)
EXTENDS PsockStream, TLAPS

NoEmptyItem == \A i \in 1 .. Len(Items) : Items[i].len > 0

Segment == [fin : BOOLEAN, seq : Nat, len : Nat, pos : Nat \cup {Junk},
            from : {"memory", "generator"}]

\* The client is in the present send, and so is every segment on its way.
Window ==
  /\ ptr <= rcvd /\ rcvd <= ptr + slen
  /\ \A m \in net :
       IF m.fin THEN m.seq = ptr + slen /\ phase \notin {"waiting", "output"}
                ELSE m.seq + m.len <= ptr + slen /\ (m.from = "memory" => m.pos = m.seq)

\* What the protothreads and uIP agree on while the response is sent.
Sending ==
  /\ item \in 1 .. Len(Items)
  /\ sendptr = ptr /\ sendlen = slen /\ snd_nxt = ptr /\ len = slen
  /\ slen <= InitialMss /\ slen <= left /\ left <= Items[item].len
  /\ slen = 0 => Items[item].len = 0
  /\ due = ptr + left

Phases ==
  /\ phase = "waiting" => item = 0 /\ ptr = 0 /\ slen = 0 /\ due = 0
                          /\ snd_nxt = 0 /\ len = 0
  /\ phase = "output" => Sending
  /\ phase = "closing" => rcvd = ptr + slen /\ snd_nxt = ptr + slen /\ len = 1
  /\ phase = "aborted" /\ NoEmptyItem => item = 0
  /\ phase \in {"waiting", "output"} => timer < MaxPolls

\* The end of the stream is the end of the present send, and of the response
\* unless the client closed its side.
Ends ==
  /\ eof \/ (\E m \in net : m.fin) =>
       phase \notin {"waiting", "output"} /\ rcvd = ptr + slen
  /\ (eof \/ phase = "closing" \/ \E m \in net : m.fin) /\ ~HalfClose =>
       item > Len(Items)
  /\ item > Len(Items) => slen = 0 /\ ptr = due
                          /\ phase \notin {"waiting", "output"}

StreamInv ==
  /\ TypeOK /\ mss = InitialMss
  /\ Window /\ Phases /\ Ends
  /\ StreamIntact

-----------------------------------------------------------------------------
\* A window leaves the segment size alone.
LEMMA MssSteady == ASSUME FitsMss, NEW w \in Windows PROVE MssFor(w) = InitialMss
BY StreamAssumption DEF FitsMss, MssFor

LEMMA ItemType ==
  ASSUME NEW i \in 1 .. Len(Items)
  PROVE  /\ Items[i].kind \in {"send", "html", "file"} /\ Items[i].len \in Nat
         /\ Items[i].len = 0 => Items[i].kind = "file"
<1>. DEFINE R == [kind : {"send", "html", "file"}, len : Nat]
<1>1. Items \in Seq(R)
  BY StreamAssumption
<1>. HIDE DEF R
<1>2. Items[i] \in R
  BY <1>1
<1>. USE DEF R
<1>. QED
  BY <1>2, StreamAssumption

\* No send exceeds what is left of its item, nor the segment size.
LEMMA PieceFits ==
  ASSUME FitsMss, mss' = InitialMss, NEW j \in 1 .. Len(Items), NEW n \in Nat,
         n <= Items[j].len, n = 0 => Items[j].len = 0,
         NEW k \in SendLengths(j, n)
  PROVE  k \in Nat /\ k <= n /\ k <= InitialMss /\ (k = 0 => Items[j].len = 0)
<1>1. Items[j].kind \in {"send", "html", "file"} /\ Items[j].len \in Nat
  BY ItemType
<1>2. InitialMss \in Nat \ {0}
  BY StreamAssumption
<1>3. Min2(n, mss') \in Nat /\ Min2(n, mss') <= n /\ Min2(n, mss') <= InitialMss
      /\ (Min2(n, mss') = 0 => n = 0)
  BY <1>2 DEF Min2
<1>4. CASE Items[j].kind = "send"
  <2>1. k = n
    BY <1>4 DEF SendLengths
  <2>. QED
    BY <1>1, <1>2, <1>4, <2>1 DEF FitsMss
<1>5. CASE Items[j].kind = "html"
  <2>1. k \in 1 .. Min2(n, mss')
    BY <1>5 DEF SendLengths
  <2>. QED
    BY <1>2, <1>3, <2>1
<1>6. CASE Items[j].kind = "file"
  <2>1. k = Min2(n, mss')
    BY <1>6 DEF SendLengths
  <2>. QED
    BY <1>3, <2>1
<1>. QED
  BY <1>1, <1>4, <1>5, <1>6

LEMMA SumBound ==
  ASSUME NEW a \in Nat, NEW b \in Nat, NEW c \in Nat, NEW e \in Nat, a + b <= c
  PROVE  a + b <= c + e
OBVIOUS

\* The threads go on from a position that the client has reached.
LEMMA ProceedStep ==
  ASSUME FitsMss, StreamInv, phase \in {"waiting", "output"},
         NEW j \in 1 .. Len(Items) + 1, NEW p \in Nat, NEW n \in Nat,
         Proceed(j, p, n, Empty),
         p = ptr + slen, rcvd = p, snd_nxt' = p, mss' = InitialMss, timer' = 0,
         due' = p + n,
         j <= Len(Items) => n <= Items[j].len /\ (n = 0 => Items[j].len = 0),
         j > Len(Items) => n = 0,
         UNCHANGED clientVars
  PROVE  StreamInv'
<1>. USE DEF clientVars
<1>1. /\ item' = j /\ ptr' = p /\ left' = n /\ sendptr' = p /\ sendlen' = slen'
  BY DEF Proceed
<1>2. /\ \A m \in net : m \in Segment /\ ~m.fin /\ m.seq + m.len <= p
                        /\ (m.from = "memory" => m.pos = m.seq)
      /\ ~eof /\ StreamIntact
  BY DEF StreamInv, Window, Ends, TypeOK, Segment
<1>3. CASE j > Len(Items)
  <2>1. /\ slen' = 0 /\ phase' = "closing" /\ len' = 1 /\ appdata' = Empty
        /\ net' = net \cup {Fin(p)}
    BY <1>3 DEF Proceed, AppClose
  <2>2. Fin(p) \in Segment /\ Fin(p).fin /\ Fin(p).seq = p
    BY DEF Fin, Segment
  <2>3. \A m \in net' : m \in Segment /\ (m.fin => m.seq = p)
                        /\ (~m.fin => m.seq + m.len <= p /\ (m.from = "memory" => m.pos = m.seq))
    BY <1>2, <2>1, <2>2
  <2>4. TypeOK'
    <3>1. /\ phase' = "closing" /\ item' \in 0 .. Len(Items) + 1
          /\ ptr' \in Nat /\ left' \in Nat /\ slen' \in Nat /\ due' \in Nat
          /\ sendptr' \in Nat /\ sendlen' \in Nat
      <4>1. Len(Items) \in Nat
        BY StreamAssumption
      <4>2. item' \in 0 .. Len(Items) + 1 /\ due' \in Nat
        BY <1>1, <4>1
      <4>. QED
        BY <1>1, <2>1, <4>2
    <3>2. /\ timer' \in 0 .. MaxPolls /\ snd_nxt' \in Nat /\ len' \in Nat
          /\ mss' \in 1 .. InitialMss
      BY <2>1, StreamAssumption
    <3>3. appdata' \in [pos : Nat \cup {Junk}, len : Nat]
      BY <2>1 DEF Empty
    <3>4. net' \subseteq Segment
      BY <2>3
    <3>5. /\ rcvd' \in Nat /\ wrong' \subseteq {"memory", "generator"}
          /\ eof' \in BOOLEAN
      BY DEF StreamInv, TypeOK
    <3>. QED
      BY <3>1, <3>2, <3>3, <3>4, <3>5 DEF TypeOK, Segment
  <2>5. Window'
    <3>1. p + slen' = p /\ ptr' = p /\ rcvd' = p
      BY <1>1, <2>1
    <3>2. ptr' <= rcvd' /\ rcvd' <= ptr' + slen'
      BY <3>1
    <3>3. phase' \notin {"waiting", "output"}
      BY <2>1
    <3>. QED
      BY <2>3, <3>1, <3>2, <3>3 DEF Window
  <2>6. Phases' /\ Ends'
    <3>1. Phases'
      BY <1>1, <1>3, <2>1 DEF Phases
    <3>2. Ends'
      BY <1>1, <1>2, <1>3, <2>1 DEF Ends
    <3>. QED
      BY <3>1, <3>2
  <2>. QED
    BY <1>2, <2>4, <2>5, <2>6 DEF StreamIntact, StreamInv
<1>4. CASE j <= Len(Items)
  <2>1. phase' = "output" /\ slen' \in SendLengths(j, n)
    BY <1>4 DEF Proceed
  <2>2. slen' \in Nat /\ slen' <= n /\ slen' <= InitialMss
        /\ (slen' = 0 => Items[j].len = 0)
    <3>1. j \in 1 .. Len(Items)
      BY <1>4, StreamAssumption
    <3>. QED
      BY <1>4, <2>1, <3>1, PieceFits
  <2>. DEFINE d == IF slen' > 0 THEN [pos |-> p, len |-> Min2(slen', mss')] ELSE Empty
  <2>3. AppSend(d, IF slen' > 0 THEN j ELSE item)
    BY <1>4 DEF Proceed
  <2>4. d.len = slen' /\ d \in [pos : Nat \cup {Junk}, len : Nat]
        /\ (slen' > 0 => d.pos = p)
    <3>1. CASE slen' > 0
      <4>1. Min2(slen', mss') = slen'
        BY <2>2, StreamAssumption DEF Min2
      <4>. QED
        BY <2>2, <3>1, <4>1
    <3>2. CASE ~(slen' > 0)
      BY <2>2, <3>2 DEF Empty
    <3>. QED
      BY <3>1, <3>2
  <2>. HIDE DEF d
  <2>5. /\ appdata' = d /\ len' = slen'
        /\ net' = IF slen' > 0 THEN net \cup {Data(p, slen', p, From(j))} ELSE net
    BY <2>2, <2>3, <2>4 DEF AppSend
  <2>6. LET m == Data(p, slen', p, From(j))
        IN  m \in Segment /\ ~m.fin /\ m.seq = p /\ m.len = slen' /\ m.pos = p
    BY <2>2 DEF Data, Segment, From
  <2>7. \A m \in net' : m \in Segment /\ ~m.fin /\ m.seq + m.len <= p + slen'
                        /\ (m.from = "memory" => m.pos = m.seq)
    <3>1. ASSUME NEW m \in net PROVE m.seq + m.len <= p + slen'
      <4>1. m.seq \in Nat /\ m.len \in Nat /\ m.seq + m.len <= p
        BY <1>2 DEF Segment
      <4>. QED
        BY <2>2, <4>1, SumBound
    <3>. QED
      BY <1>2, <2>2, <2>5, <2>6, <3>1
  <2>8. TypeOK'
    <3>1. /\ phase' = "output" /\ item' \in 0 .. Len(Items) + 1
          /\ ptr' \in Nat /\ left' \in Nat /\ slen' \in Nat /\ due' \in Nat
          /\ sendptr' \in Nat /\ sendlen' \in Nat
      <4>1. Len(Items) \in Nat
        BY StreamAssumption
      <4>2. item' \in 0 .. Len(Items) + 1 /\ due' \in Nat
        BY <1>1, <4>1
      <4>. QED
        BY <1>1, <2>1, <2>2, <4>2
    <3>2. /\ timer' \in 0 .. MaxPolls /\ snd_nxt' \in Nat /\ len' \in Nat
          /\ mss' \in 1 .. InitialMss
      BY <2>2, <2>5, StreamAssumption
    <3>3. appdata' \in [pos : Nat \cup {Junk}, len : Nat]
      BY <2>4, <2>5
    <3>4. net' \subseteq Segment
      BY <2>7
    <3>5. /\ rcvd' \in Nat /\ wrong' \subseteq {"memory", "generator"}
          /\ eof' \in BOOLEAN
      BY DEF StreamInv, TypeOK
    <3>. QED
      BY <3>1, <3>2, <3>3, <3>4, <3>5 DEF TypeOK, Segment
  <2>9. Window'
    BY <1>1, <2>1, <2>2, <2>7 DEF Window
  <2>10. Phases'
    BY <1>1, <1>4, <2>1, <2>2, <2>5, StreamAssumption DEF Phases, Sending
  <2>11. Ends'
    BY <1>1, <1>2, <1>4, <2>1, <2>7 DEF Ends
  <2>. QED
    BY <1>2, <2>8, <2>9, <2>10, <2>11 DEF StreamIntact, StreamInv
<1>. QED
  BY <1>3, <1>4, StreamAssumption

-----------------------------------------------------------------------------
\* What the acknowledgment of the present send leads to.
LEMMA AckDataStep ==
  ASSUME FitsMss, StreamInv, phase = "output", NEW w \in Windows,
         NEW n \in 0 .. rcvd, Acks(n), AckData(w), UNCHANGED clientVars
  PROVE  StreamInv' /\ ptr' = ptr + slen /\ rcvd = ptr + slen
<1>1. /\ Sending /\ mss' = InitialMss
      /\ ptr \in Nat /\ slen \in Nat /\ left \in Nat /\ rcvd \in Nat
      /\ rcvd <= ptr + slen /\ due = ptr + left
  BY MssSteady DEF StreamInv, Phases, TypeOK, Window, AckData, Sending
<1>2. n = ptr + slen /\ rcvd = ptr + slen /\ snd_nxt' = ptr + slen
  BY <1>1 DEF Acks, Sending, AckData
<1>3. AckedSend = Empty
  BY <1>1 DEF AckedSend, Sending
<1>4. Items[item].len \in Nat /\ item \in 1 .. Len(Items)
  BY <1>1, ItemType DEF Sending
<1>5. CASE left > slen
  <2>. DEFINE q == ptr + slen
              r == left - slen
  <2>1. Proceed(item, q, r, Empty) /\ due' = due /\ timer' = 0
    BY <1>3, <1>5 DEF AckData
  <2>2. q \in Nat /\ r \in Nat /\ due' = q + r /\ r <= Items[item].len /\ r # 0
    <3>1. left <= Items[item].len
      BY <1>1 DEF Sending
    <3>. QED
      BY <1>1, <1>4, <1>5, <2>1, <3>1
  <2>3. item \in 1 .. Len(Items) + 1 /\ ~(item > Len(Items))
    BY <1>4, StreamAssumption
  <2>. HIDE DEF r
  <2>4. StreamInv'
    BY <1>1, <1>2, <2>1, <2>2, <2>3, ProceedStep
  <2>. QED
    BY <1>2, <2>1, <2>4 DEF Proceed
<1>6. CASE ~(left > slen)
  <2>. DEFINE q == ptr + slen
              r == IF item < Len(Items) THEN Items[item + 1].len ELSE 0
  <2>1. Proceed(item + 1, q, r, Empty) /\ due' = due + r /\ timer' = 0
    BY <1>3, <1>6 DEF AckData, NextItem
  <2>2. item < Len(Items) => Items[item + 1].len \in Nat
    <3>1. item < Len(Items) => item + 1 \in 1 .. Len(Items)
      BY <1>4, StreamAssumption
    <3>. QED
      BY <3>1, ItemType
  <2>3. r \in Nat /\ q \in Nat /\ due' = q + r
    BY <1>1, <1>6, <2>1, <2>2 DEF Sending
  <2>4. item + 1 \in 1 .. Len(Items) + 1
    BY <1>4, StreamAssumption
  <2>5. /\ item + 1 <= Len(Items) => r = Items[item + 1].len
        /\ item + 1 > Len(Items) => r = 0
    BY <1>4, StreamAssumption
  <2>. HIDE DEF r, q
  <2>6. StreamInv'
    BY <1>1, <1>2, <2>1, <2>2, <2>3, <2>4, <2>5, ProceedStep, StreamAssumption DEF q
  <2>. QED
    BY <1>2, <2>1, <2>6 DEF Proceed, q
<1>. QED
  BY <1>5, <1>6

\* The request is read: the first item begins.
LEMMA RequestStep ==
  ASSUME FitsMss, StreamInv, NEW w \in Windows, RecvRequest(w, TRUE)
  PROVE  StreamInv' /\ ptr' = ptr + slen /\ rcvd = ptr + slen
<1>1. /\ phase = "waiting" /\ item = 0 /\ ptr = 0 /\ slen = 0 /\ due = 0
      /\ snd_nxt = 0 /\ rcvd = 0
  BY DEF RecvRequest, StreamInv, Phases, Window, TypeOK
<1>2. 1 \in 1 .. Len(Items) /\ 1 \in 1 .. Len(Items) + 1 /\ 0 < Len(Items)
  BY StreamAssumption
<1>3. Items[1].len \in Nat
  BY <1>2, ItemType
<1>4. /\ Proceed(1, 0, Items[1].len, Empty) /\ due' = 0 + Items[1].len
      /\ mss' = InitialMss /\ snd_nxt' = 0 /\ timer' = 0 /\ UNCHANGED clientVars
  BY <1>1, <1>2, <1>3, MssSteady DEF RecvRequest, NextItem
<1>5. StreamInv'
  BY <1>1, <1>2, <1>3, <1>4, ProceedStep
<1>. QED
  BY <1>1, <1>4, <1>5 DEF Proceed

\* Steps that leave the application, the client and the network alone.
LEMMA QuietStep ==
  ASSUME StreamInv, UNCHANGED <<phase, appVars, snd_nxt, len, net, clientVars>>,
         mss' = InitialMss, timer' \in {0, timer},
         appdata' \in [pos : Nat \cup {Junk}, len : Nat]
  PROVE  StreamInv'
<1>1. TypeOK'
  BY StreamAssumption DEF StreamInv, TypeOK, appVars, clientVars
<1>2. phase \in {"waiting", "output"} => timer' < MaxPolls
  BY StreamAssumption DEF StreamInv, Phases
<1>3. Window' /\ Phases' /\ Ends'
  BY <1>2 DEF StreamInv, Window, Phases, Sending, Ends, appVars, clientVars
<1>. QED
  BY <1>1, <1>3 DEF StreamIntact, StreamInv, clientVars

LEMMA EmptyType == Empty \in [pos : Nat \cup {Junk}, len : Nat]
BY DEF Empty

\* The server closes: by a FIN of the client.
LEMMA RecvFinStep ==
  ASSUME StreamInv, NEW n \in 0 .. rcvd, RecvFin(n)
  PROVE  StreamInv' /\ UNCHANGED <<appVars, clientVars>>
<1>1. /\ phase \in {"waiting", "output"} /\ HalfClose
      /\ snd_nxt' = snd_nxt + len /\ (len > 0 => n = snd_nxt + len)
      /\ UNCHANGED <<appVars, timer, mss, clientVars>>
      /\ phase' = "closing" /\ len' = 1 /\ appdata' = Empty
      /\ net' = net \cup {Fin(snd_nxt')}
  BY DEF RecvFin, AppClose, Acks
<1>2. /\ ptr \in Nat /\ slen \in Nat /\ rcvd \in Nat /\ len \in Nat /\ snd_nxt \in Nat
      /\ ptr <= rcvd /\ rcvd <= ptr + slen
      /\ snd_nxt + len = ptr + slen /\ len = slen
  BY <1>1 DEF StreamInv, TypeOK, Window, Phases, Sending
<1>3. rcvd = ptr + slen
  BY <1>1, <1>2
<1>4. Fin(ptr + slen) \in Segment /\ Fin(ptr + slen).fin /\ Fin(ptr + slen).seq = ptr + slen
  BY <1>2 DEF Fin, Segment
<1>5. \A m \in net : m \in Segment /\ ~m.fin /\ m.seq + m.len <= ptr + slen
                     /\ (m.from = "memory" => m.pos = m.seq)
  BY <1>1 DEF StreamInv, Window, TypeOK, Segment
<1>6. net' = net \cup {Fin(ptr + slen)} /\ snd_nxt' = ptr + slen
  BY <1>1, <1>2
<1>7. TypeOK'
  <2>1. net' \subseteq Segment
    BY <1>4, <1>5, <1>6
  <2>. QED
    BY <1>1, <1>2, <1>6, <2>1, EmptyType
    DEF StreamInv, TypeOK, appVars, clientVars, Segment
<1>8. Window'
  <2>1. ASSUME NEW m \in net'
        PROVE IF m.fin THEN m.seq = ptr + slen
                       ELSE m.seq + m.len <= ptr + slen /\ (m.from = "memory" => m.pos = m.seq)
    BY <1>4, <1>5, <1>6
  <2>. QED
    BY <1>1, <1>2, <2>1 DEF Window, appVars, clientVars
<1>9. Phases'
  BY <1>1, <1>3, <1>6 DEF Phases, appVars, clientVars
<1>10. Ends'
  BY <1>1, <1>3 DEF Ends, StreamInv, appVars, clientVars
<1>. QED
  BY <1>1, <1>7, <1>8, <1>9, <1>10 DEF StreamIntact, StreamInv, clientVars

\* A step that only moves the connection to one of its last phases.
LEMMA LastPhaseStep ==
  ASSUME StreamInv, phase' \in {"finished", "aborted", "reset"},
         phase' = "aborted" /\ NoEmptyItem => item = 0,
         phase' = "finished" => phase = "closing" /\ eof,
         timer' \in 0 .. MaxPolls, snd_nxt' \in Nat, len' \in Nat,
         appdata' \in [pos : Nat \cup {Junk}, len : Nat],
         UNCHANGED <<appVars, mss, net, clientVars>>
  PROVE  StreamInv'
<1>1. TypeOK'
  BY DEF StreamInv, TypeOK, appVars, clientVars
<1>2. Window'
  BY DEF StreamInv, Window, appVars, clientVars
<1>3. Phases'
  BY DEF Phases, appVars
<1>4. Ends'
  BY DEF StreamInv, Ends, appVars, clientVars
<1>. QED
  BY <1>1, <1>2, <1>3, <1>4 DEF StreamIntact, StreamInv, clientVars

\* A segment is sent again, or lost.
LEMMA NetStep ==
  ASSUME StreamInv, NEW S \in SUBSET Segment, net' \subseteq net \cup S,
         \A m \in S : IF m.fin THEN m.seq = ptr + slen /\ phase = "closing"
                      ELSE /\ phase = "output" /\ m.seq + m.len <= ptr + slen
                           /\ (m.from = "memory" => m.pos = m.seq),
         timer' \in {0, timer}, appdata' \in [pos : Nat \cup {Junk}, len : Nat],
         UNCHANGED <<phase, appVars, snd_nxt, len, mss, clientVars>>
  PROVE  StreamInv'
<1>1. TypeOK'
  BY StreamAssumption DEF StreamInv, TypeOK, appVars, clientVars, Segment
<1>2. Window'
  BY DEF StreamInv, Window, appVars, clientVars
<1>3. Phases'
  <2>1. phase \in {"waiting", "output"} => timer' < MaxPolls
    BY StreamAssumption DEF StreamInv, Phases
  <2>. QED
    BY <2>1 DEF StreamInv, Phases, Sending, appVars, clientVars
<1>4. Ends'
  BY DEF StreamInv, Ends, Phases, appVars, clientVars
<1>. QED
  BY <1>1, <1>2, <1>3, <1>4 DEF StreamIntact, StreamInv, clientVars

LEMMA RexmitDataStep ==
  ASSUME StreamInv, RexmitData
  PROVE  StreamInv'
<1>1. /\ Sending /\ phase = "output" /\ slen \in Nat /\ ptr \in Nat /\ slen > 0
      /\ appdata \in [pos : Nat \cup {Junk}, len : Nat] /\ mss = InitialMss
  BY DEF StreamInv, Phases, RexmitData, TypeOK, Sending
<1>2. Min2(sendlen, mss) = slen
  BY <1>1, StreamAssumption DEF Sending, Min2
<1>3. /\ Rexmitted \in [pos : Nat \cup {Junk}, len : Nat]
      /\ From(item) = "memory" => Rexmitted.pos = ptr /\ Rexmitted.len >= slen
  <2>1. CASE From(item) = "generator" \/ (appdata.pos = sendptr /\ appdata.len > Min2(sendlen, mss))
    BY <1>1, <1>2, <2>1 DEF Rexmitted, Sending
  <2>2. CASE ~(From(item) = "generator" \/ (appdata.pos = sendptr /\ appdata.len > Min2(sendlen, mss)))
    <3>1. Rexmitted = [pos |-> sendptr, len |-> slen]
      BY <1>2, <2>2 DEF Rexmitted
    <3>. QED
      BY <1>1, <3>1 DEF Sending
  <2>. QED
    BY <2>1, <2>2
<1>. DEFINE x == IF Rexmitted.len >= len THEN Rexmitted.pos ELSE Junk
            m == Data(snd_nxt, len, x, From(item))
<1>4. /\ m \in Segment /\ ~m.fin /\ m.seq = ptr /\ m.len = slen
      /\ m.from = "memory" => m.pos = ptr
  <2>1. x \in Nat \cup {Junk} /\ (From(item) = "memory" => x = ptr)
    BY <1>1, <1>3 DEF Sending
  <2>. HIDE DEF x
  <2>. QED
    BY <1>1, <2>1 DEF Data, Segment, Sending, From
<1>5. /\ net' = net \cup {m} /\ timer' = 0 /\ appdata' = Rexmitted
      /\ UNCHANGED <<phase, appVars, snd_nxt, len, mss, clientVars>>
  BY DEF RexmitData
<1>. HIDE DEF m
<1>6. \A k \in {m} : IF k.fin THEN k.seq = ptr + slen /\ phase = "closing"
                     ELSE /\ phase = "output" /\ k.seq + k.len <= ptr + slen
                          /\ (k.from = "memory" => k.pos = k.seq)
  BY <1>1, <1>4
<1>7. {m} \in SUBSET Segment /\ net' \subseteq net \cup {m}
  BY <1>4, <1>5
<1>. QED
  BY <1>3, <1>5, <1>6, <1>7, NetStep

LEMMA ClientRecvStep ==
  ASSUME StreamInv, NEW m \in net, NEW k \in 1 .. m.len, ClientRecv(m, k)
  PROVE  /\ StreamInv'
         /\ rcvd' \in rcvd + 1 .. ptr + slen /\ UNCHANGED <<ptr, slen, eof>>
<1>1. /\ m \in Segment /\ ~m.fin /\ m.seq + m.len <= ptr + slen
      /\ (m.from = "memory" => m.pos = m.seq)
      /\ ptr \in Nat /\ slen \in Nat /\ rcvd \in Nat /\ ptr <= rcvd
  BY DEF StreamInv, Window, TypeOK, Segment, ClientRecv
<1>2. m.seq \in Nat /\ m.len \in Nat /\ k \in Nat /\ k >= 1
  BY <1>1 DEF Segment
<1>3. /\ rcvd' = rcvd + k /\ rcvd + k <= m.seq + m.len /\ ~eof
      /\ wrong' = IF m.pos = m.seq THEN wrong ELSE wrong \cup {m.from}
      /\ UNCHANGED <<phase, appVars, timer, uipVars, net, eof>>
  BY DEF ClientRecv
<1>4. rcvd' \in Nat /\ ptr <= rcvd' /\ rcvd' <= ptr + slen /\ rcvd' >= rcvd + 1
  BY <1>1, <1>2, <1>3
<1>5. TypeOK'
  BY <1>3, <1>4 DEF StreamInv, TypeOK, appVars, uipVars
<1>6. Window'
  BY <1>3, <1>4 DEF StreamInv, Window, appVars
<1>7. ~(\E f \in net : f.fin) /\ phase # "closing"
  BY <1>1, <1>3, <1>4 DEF StreamInv, Ends, Phases
<1>8. Phases'
  BY <1>3, <1>7 DEF StreamInv, Phases, Sending, appVars, uipVars
<1>9. Ends'
  BY <1>3, <1>7 DEF StreamInv, Ends, appVars
<1>10. StreamIntact'
  BY <1>1, <1>3 DEF StreamInv, StreamIntact
<1>11. StreamInv'
  BY <1>3, <1>5, <1>6, <1>8, <1>9, <1>10 DEF StreamInv, uipVars
<1>. QED
  BY <1>1, <1>3, <1>4, <1>11 DEF appVars

LEMMA ClientFinStep ==
  ASSUME StreamInv, NEW m \in net, ClientFin(m)
  PROVE  StreamInv' /\ rcvd = ptr + slen /\ eof' = TRUE /\ ~eof
         /\ UNCHANGED <<ptr, slen, rcvd>>
<1>1. /\ m.fin /\ eof' = TRUE /\ ~eof
      /\ UNCHANGED <<phase, appVars, timer, uipVars, net, rcvd, wrong>>
  BY DEF ClientFin
<1>2. /\ rcvd = ptr + slen /\ phase \notin {"waiting", "output"}
      /\ ~HalfClose => item > Len(Items)
  BY <1>1 DEF StreamInv, Ends
<1>3. TypeOK'
  BY <1>1 DEF StreamInv, TypeOK, appVars, uipVars
<1>4. Window' /\ Phases'
  BY <1>1 DEF StreamInv, Window, Phases, Sending, appVars, uipVars
<1>5. Ends'
  BY <1>1, <1>2 DEF StreamInv, Ends, appVars
<1>6. StreamInv'
  BY <1>1, <1>3, <1>4, <1>5 DEF StreamIntact, StreamInv, uipVars
<1>. QED
  BY <1>1, <1>2, <1>6 DEF appVars

-----------------------------------------------------------------------------
(* The invariant and the refinement *)

\* A blocking send begins where the client is.
LEMMA WriteStep ==
  ASSUME StreamInv, StreamInv', ptr' = ptr + slen, rcvd = ptr + slen,
         ~eof, UNCHANGED clientVars
  PROVE  [Stream!Next]_(Stream!vars)
<1>1. ptr \in Nat /\ slen \in Nat /\ ptr' \in Nat /\ slen' \in Nat
  BY DEF StreamInv, TypeOK
<1>2. CASE slen' = 0
  BY <1>1, <1>2 DEF Stream!vars, clientVars
<1>3. CASE slen' > 0
  <2>1. ptr' + slen' \in Nat /\ ptr' + slen' > ptr + slen
    <3>1. \A a, b, c \in Nat : c > 0 => a + b + c \in Nat /\ a + b + c > a + b
      OBVIOUS
    <3>. QED
      BY <1>1, <1>3, <3>1
  <2>. QED
    BY <2>1 DEF Stream!Next, Stream!Write, clientVars
<1>. QED
  BY <1>1, <1>2, <1>3

\* Nothing the abstract stream knows of changes.
LEMMA StutterStep ==
  ASSUME UNCHANGED <<ptr, slen, clientVars>>
  PROVE  [Stream!Next]_(Stream!vars)
BY DEF Stream!vars, clientVars

LEMMA StreamStep ==
  ASSUME FitsMss, StreamInv, [Next]_vars
  PROVE  StreamInv' /\ [Stream!Next]_(Stream!vars)
<1>1. phase \in {"waiting", "output"} => ~eof
  BY DEF StreamInv, Ends
<1>2. ASSUME NEW n \in 0 .. rcvd, NEW w \in Windows, RecvAck(n, w)
      PROVE StreamInv' /\ [Stream!Next]_(Stream!vars)
  <2>1. CASE Acks(n)
    <3>1. phase = "output" /\ AckData(w) /\ UNCHANGED clientVars
      BY <1>2, <2>1 DEF RecvAck
    <3>2. StreamInv' /\ ptr' = ptr + slen /\ rcvd = ptr + slen
      BY <2>1, <3>1, AckDataStep
    <3>. QED
      BY <1>1, <3>1, <3>2, WriteStep
  <2>2. CASE ~Acks(n)
    <3>1. Ignore(w) /\ timer' \in {timer, 0} /\ UNCHANGED clientVars
      BY <1>2, <2>2 DEF RecvAck
    <3>2. mss' = InitialMss
      BY <3>1, MssSteady DEF Ignore
    <3>. QED
      BY <3>1, <3>2, QuietStep, StutterStep, EmptyType DEF Ignore, appVars
  <2>. QED
    BY <2>1, <2>2
<1>3. ASSUME NEW w \in Windows, NEW complete \in BOOLEAN, RecvRequest(w, complete)
      PROVE StreamInv' /\ [Stream!Next]_(Stream!vars)
  <2>1. CASE complete
    <3>1. RecvRequest(w, TRUE)
      BY <1>3, <2>1
    <3>2. StreamInv' /\ ptr' = ptr + slen /\ rcvd = ptr + slen
      BY <3>1, RequestStep
    <3>. QED
      BY <1>1, <3>1, <3>2, WriteStep DEF RecvRequest
  <2>2. CASE ~complete
    <3>1. Ignore(w) /\ timer' = 0 /\ UNCHANGED clientVars
      BY <1>3, <2>2 DEF RecvRequest
    <3>2. mss' = InitialMss
      BY <3>1, MssSteady DEF Ignore
    <3>. QED
      BY <3>1, <3>2, QuietStep, StutterStep, EmptyType DEF Ignore, appVars
  <2>. QED
    BY <2>1, <2>2
<1>4. ASSUME NEW n \in 0 .. rcvd, RecvFin(n)
      PROVE StreamInv' /\ [Stream!Next]_(Stream!vars)
  BY <1>4, RecvFinStep, StutterStep DEF appVars
<1>5. CASE RecvFinAck
  <2>1. snd_nxt' \in Nat /\ len' \in Nat /\ timer' \in 0 .. MaxPolls
    BY <1>5 DEF RecvFinAck, StreamInv, TypeOK
  <2>. QED
    BY <1>5, <2>1, LastPhaseStep, StutterStep, EmptyType DEF RecvFinAck, appVars
<1>6. CASE Reset
  <2>1. /\ snd_nxt' \in Nat /\ len' \in Nat /\ timer' \in 0 .. MaxPolls
        /\ appdata' \in [pos : Nat \cup {Junk}, len : Nat]
    BY <1>6 DEF Reset, StreamInv, TypeOK, uipVars
  <2>. QED
    BY <1>6, <2>1, LastPhaseStep, StutterStep DEF Reset, appVars, uipVars
<1>7. CASE OtherFrame
  <2>1. mss' = InitialMss
    BY <1>7 DEF OtherFrame, StreamInv
  <2>. QED
    BY <1>7, <2>1, QuietStep, StutterStep, EmptyType DEF OtherFrame, appVars
<1>8. CASE Poll
  <2>1. /\ timer \in Nat /\ MaxPolls \in Nat \ {0} /\ timer <= MaxPolls
        /\ appdata \in [pos : Nat \cup {Junk}, len : Nat]
        /\ snd_nxt \in Nat /\ len \in Nat
    BY StreamAssumption DEF StreamInv, TypeOK
  <2>2. /\ UNCHANGED <<appVars, uipVars, net, clientVars>> /\ timer' = timer + 1
        /\ phase \in {"waiting", "output"} /\ len = 0
    BY <1>8 DEF Poll
  <2>3. [Stream!Next]_(Stream!vars)
    BY <2>2, StutterStep DEF appVars
  <2>4. CASE timer + 1 >= MaxPolls
    <3>1. timer' \in 0 .. MaxPolls /\ phase' = "aborted"
      BY <1>8, <2>1, <2>4 DEF Poll, StreamInv, TypeOK, Phases
    <3>2. NoEmptyItem => item = 0
      BY <2>2 DEF StreamInv, Phases, Sending, NoEmptyItem
    <3>. QED
      BY <2>1, <2>2, <2>3, <3>1, <3>2, LastPhaseStep DEF uipVars
  <2>5. CASE ~(timer + 1 >= MaxPolls)
    <3>1. timer' \in 0 .. MaxPolls /\ phase' = phase
      BY <1>8, <2>1, <2>2, <2>5 DEF Poll
    <3>2. TypeOK'
      BY <2>2, <3>1 DEF StreamInv, TypeOK, appVars, uipVars, clientVars
    <3>3. Window' /\ Phases' /\ Ends'
      BY <2>1, <2>2, <2>5, <3>1 DEF StreamInv, Window, Phases, Sending, Ends,
         appVars, uipVars, clientVars
    <3>. QED
      BY <2>2, <2>3, <3>2, <3>3 DEF StreamIntact, StreamInv, uipVars, clientVars
  <2>. QED
    BY <2>4, <2>5
<1>9. CASE RexmitData
  BY <1>9, RexmitDataStep, StutterStep DEF RexmitData, appVars
<1>10. CASE RexmitFin
  <2>1. /\ phase = "closing" /\ net' = net \cup {Fin(snd_nxt)}
        /\ UNCHANGED <<phase, appVars, timer, uipVars, clientVars>>
    BY <1>10 DEF RexmitFin
  <2>2. snd_nxt = ptr + slen /\ snd_nxt \in Nat
        /\ appdata \in [pos : Nat \cup {Junk}, len : Nat]
    BY <2>1 DEF StreamInv, Phases, TypeOK
  <2>3. /\ Fin(snd_nxt) \in Segment /\ Fin(snd_nxt).fin
        /\ Fin(snd_nxt).seq = ptr + slen
    BY <2>2 DEF Fin, Segment
  <2>4. {Fin(snd_nxt)} \in SUBSET Segment /\ net' \subseteq net \cup {Fin(snd_nxt)}
    BY <2>1, <2>3
  <2>5. \A k \in {Fin(snd_nxt)} : k.fin /\ k.seq = ptr + slen
    BY <2>3
  <2>6. StreamInv'
    BY <2>1, <2>2, <2>4, <2>5, NetStep DEF uipVars
  <2>. QED
    BY <2>1, <2>6, StutterStep DEF appVars
<1>11. ASSUME NEW m \in net, Lose(m)
       PROVE StreamInv' /\ [Stream!Next]_(Stream!vars)
  <2>1. appdata \in [pos : Nat \cup {Junk}, len : Nat]
    BY DEF StreamInv, TypeOK
  <2>2. {} \in SUBSET Segment /\ net' \subseteq net \cup {}
    BY <1>11 DEF Lose
  <2>3. StreamInv'
    BY <1>11, <2>1, <2>2, NetStep DEF Lose, uipVars
  <2>. QED
    BY <1>11, <2>3, StutterStep DEF Lose, appVars
<1>12. ASSUME NEW m \in net, NEW k \in 1 .. m.len, ClientRecv(m, k)
       PROVE StreamInv' /\ [Stream!Next]_(Stream!vars)
  <2>1. StreamInv' /\ rcvd' \in rcvd + 1 .. ptr + slen /\ UNCHANGED <<ptr, slen, eof>>
    BY <1>12, ClientRecvStep
  <2>. QED
    BY <2>1 DEF Stream!Next, Stream!Arrive
<1>13. ASSUME NEW m \in net, ClientFin(m)
       PROVE StreamInv' /\ [Stream!Next]_(Stream!vars)
  <2>1. /\ StreamInv' /\ rcvd = ptr + slen /\ eof' = TRUE /\ ~eof
        /\ UNCHANGED <<ptr, slen, rcvd>>
    BY <1>13, ClientFinStep
  <2>. QED
    BY <2>1 DEF Stream!Next, Stream!End
<1>14. CASE UNCHANGED vars
  <2>1. /\ appdata' \in [pos : Nat \cup {Junk}, len : Nat] /\ mss' = InitialMss
        /\ UNCHANGED <<phase, appVars, snd_nxt, len, net, clientVars>> /\ timer' = timer
    BY <1>14 DEF StreamInv, TypeOK, vars, uipVars
  <2>. QED
    BY <2>1, QuietStep, StutterStep DEF appVars
<1>. QED
  BY <1>2, <1>3, <1>4, <1>5, <1>6, <1>7, <1>8, <1>9, <1>10, <1>11, <1>12, <1>13, <1>14
  DEF Next, FromClient, Client

LEMMA StreamInit == Init => StreamInv /\ Stream!Init
<1>. SUFFICES ASSUME Init PROVE StreamInv /\ Stream!Init
  OBVIOUS
<1>1. TypeOK
  <2>1. 0 \in 0 .. Len(Items) + 1 /\ InitialMss \in 1 .. InitialMss /\ 0 \in 0 .. MaxPolls
    BY StreamAssumption
  <2>. QED
    BY <2>1, EmptyType DEF Init, TypeOK
<1>2. Window /\ Phases /\ Ends
  BY StreamAssumption DEF Init, Window, Phases, Sending, Ends
<1>. QED
  BY <1>1, <1>2 DEF StreamIntact, Init, StreamInv, Stream!Init

LEMMA StreamInvariance == ASSUME FitsMss PROVE Spec => []StreamInv
<1>1. StreamInv /\ [Next]_vars => StreamInv'
  BY StreamStep
<1>. QED
  BY StreamInit, <1>1, PTL DEF Spec

\* The variables keep their types; mss is never 0, so the server always has
\* something to send when it wants to.
THEOREM StreamTypes == ASSUME FitsMss PROVE Spec => []TypeOK
<1>1. StreamInv => TypeOK
  BY DEF StreamInv
<1>. QED
  BY <1>1, StreamInvariance, PTL

\* A send that fits a segment returns only when the client has all of it
\* (psock_send and psock_generator_send, psock.c:179-247).
THEOREM SendsBlock == ASSUME FitsMss PROVE Spec => []SendBlocksUntilReceived
<1>1. StreamInv => SendBlocksUntilReceived
  BY DEF StreamInv, Window, TypeOK, SendBlocksUntilReceived
<1>. QED
  BY <1>1, StreamInvariance, PTL

\* What PSOCK_SEND sends, retransmissions included, reaches the client
\* unaltered, in order and once (send_data, psock.c:147).
THEOREM StreamStaysIntact == ASSUME FitsMss PROVE Spec => []StreamIntact
<1>1. StreamInv => StreamIntact
  BY DEF StreamInv
<1>. QED
  BY <1>1, StreamInvariance, PTL

\* The orderly close of the server means that the response is complete, unless
\* the client closed its side first (handle_output, httpd.c:266).
THEOREM EndMeansComplete == ASSUME FitsMss PROVE Spec => []EndIsComplete
<1>1. StreamInv => EndIsComplete
  BY DEF StreamInv, Ends, TypeOK, EndIsComplete
<1>. QED
  BY <1>1, StreamInvariance, PTL

\* httpd_appcall aborts no response that has something to send (httpd.c:395).
THEOREM ResponsesNotAborted ==
  ASSUME FitsMss, NoEmptyItem PROVE Spec => []NoAbortMidResponse
<1>1. StreamInv => NoAbortMidResponse
  BY DEF StreamInv, Phases, NoAbortMidResponse
<1>. QED
  BY <1>1, StreamInvariance, PTL

\* The protosocket implements a blocking byte stream.
THEOREM StreamRefinement == ASSUME FitsMss PROVE Spec => StreamSpec
<1>1. StreamInv /\ [Next]_vars => [Stream!Next]_(Stream!vars)
  BY StreamStep
<1>2. Init => Stream!Init
  BY StreamInit
<1>. QED
  BY <1>1, <1>2, StreamInvariance, PTL DEF Spec, StreamSpec, Stream!Spec
=============================================================================
