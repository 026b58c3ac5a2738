------------------------------- MODULE Sermux -------------------------------
(***************************************************************************)
(* The serial multiplexer: the virtual UARTs of a board and the services   *)
(* of the program on the PC share one serial line (src/src/common_uart.c,  *)
(* src/mux_src/main.c, src/inc/sermux.h).  A sender puts the identifier of *)
(* a service on the line only when it changes; a receiver that does not    *)
(* know the service, because it was restarted, asks for it with            *)
(* SERMUX_FORCE_SID_CHAR and gets the identifier and the last character    *)
(* again.                                                                  *)
(*                                                                         *)
(* On the board the line is read by an interrupt that may come between any *)
(* two steps of platform_uart_send and of buf_read; what it receives goes  *)
(* to the ring buffer of the virtual UART (RingBuffer).  The program on    *)
(* the PC handles one byte at a time.  The line itself loses nothing, but  *)
(* either end may stop at any moment, and what reaches it before it runs   *)
(* again is lost.                                                          *)
(*                                                                         *)
(* Neither program waits for anything before it sends, so there are        *)
(* restarts the protocol cannot repair: only the last character can be     *)
(* repeated, once, and a request that comes in the middle of               *)
(* platform_uart_send gets a wrong answer.  trouble records them.          *)
(***************************************************************************)
EXTENDS RingBuffer

CONSTANTS
  Chars,        \* the characters the programs send
  MaxSent,      \* bound: characters sent in both directions together
  MaxRestarts   \* bound: restarts of both ends together

(* A byte and its image under SERMUX_ESCAPE_XOR_MASK differ in flip; the   *)
(* special bytes are the identifiers, the escape and the force character,  *)
(* and the image of a special byte is not special.                         *)
Byte == [base : Bufs \cup {"esc", "force", "letter"}, flip : BOOLEAN]

ASSUME SermuxAssumption == /\ Data = Byte
                           /\ Bufs \cap {"esc", "force", "letter"} = {}
                           /\ Chars \subseteq Byte
                           /\ MaxSent \in Nat \ {0}
                           /\ MaxRestarts \in Nat

VARIABLES
  dev,          \* the board: uart_service_id_in/out, uart_got_esc, uart_last_sent
  tx,           \* the platform_uart_send under way
  host,         \* the PC: service_id_in/out, got_esc, prev_sent
  up,           \* the ends that run
  line,         \* the bytes on the line towards each end
  sent,         \* characters sent in both directions together
  flight,       \* history: <<service, character>> sent to an end, not delivered
  wrong,        \* history: the ends that got a character that was not their next
                \* one; "exit": the program of the PC ended on a protocol error
  refused,      \* history: buf_write refused a character
  trouble,      \* history: see Burst, DevReceive, Stop and Lose
  restarts      \* restarts of both ends together

muxVars == <<dev, tx, host, up, line, sent, flight, wrong, refused, trouble, restarts>>
vars == <<ringVars, muxVars>>

Ends == {"board", "pc"}

Other(e) == IF e = "board" THEN "pc" ELSE "board"

ESC == [base |-> "esc", flip |-> FALSE]
FORCE == [base |-> "force", flip |-> FALSE]
Id(s) == [base |-> s, flip |-> FALSE]

IsId(b) == b.base \in Bufs /\ ~ b.flip

(* The characters that are escaped on the line.                            *)
Special(c) == c = ESC \/ c = FORCE \/ IsId(c)

Xor(b) == [b EXCEPT !.flip = ~ @]

(* Mutant of LastSent: without SERMUX_ESC_MASK.                            *)
LastSentUnmarked(c) == [esc |-> FALSE, byte |-> IF Special(c) THEN Xor(c) ELSE c]

(* uart_last_sent: the character, or its escaped form (SERMUX_ESC_MASK).   *)
LastSent(c) == IF Special(c) THEN [esc |-> TRUE, byte |-> Xor(c)]
                             ELSE [esc |-> FALSE, byte |-> c]

NoLast == [esc |-> FALSE, byte |-> None]

End == [in : Bufs \cup {None}, out : Bufs \cup {None}, esc : BOOLEAN,
        last : [esc : BOOLEAN, byte : Byte \cup {None}]]

FreshEnd == [in |-> None, out |-> None, esc |-> FALSE, last |-> NoLast]

NoTx == [step |-> "idle", s |-> None, c |-> None]

Service(e) == IF e = "board" THEN dev ELSE host

TypeOK ==
  /\ RingTypeOK
  /\ dev \in End
  /\ tx \in [step : {"idle", "id", "last", "data", "flip", "mark", "out"},
             s : Bufs \cup {None}, c : Chars \cup {None}]
  /\ host \in End
  /\ up \subseteq Ends
  /\ line \in [Ends -> Seq(Byte)]
  /\ sent \in 0..MaxSent
  /\ flight \in [Ends -> Seq(Bufs \X Chars)]
  /\ wrong \subseteq Ends \cup {"exit"}
  /\ refused \in BOOLEAN
  /\ trouble \in BOOLEAN
  /\ restarts \in 0..MaxRestarts

-----------------------------------------------------------------------------
Init ==
  /\ RingInit
  /\ dev = FreshEnd
  /\ tx = NoTx
  /\ host = FreshEnd
  /\ up = Ends
  /\ line = [e \in Ends |-> <<>>]
  /\ sent = 0
  /\ flight = [e \in Ends |-> <<>>]
  /\ wrong = {}
  /\ refused = FALSE
  /\ trouble = FALSE
  /\ restarts = 0

(* platform_s_uart_send, transport_send_byte.                              *)
Put(e, bytes) == line' = [line EXCEPT ![e] = @ \o bytes]

(* The byte at the end e is taken off the line, and bytes are sent back.   *)
Answer(e, bytes) == line' = [line EXCEPT ![e] = Tail(@), ![Other(e)] = @ \o bytes]

(* Mutant of Request: the character is dropped.                            *)
RequestNot(e) == Answer(e, <<>>)

(* A character of an unknown service: its repetition is requested.         *)
Request(e) == Answer(e, <<FORCE>>)

(* The end e does not know the service of the next character on its way   *)
(* to it, and the identifier is not on the line.                           *)
Unplaceable(e) ==
  /\ Service(e).in = None
  /\ flight[e] # <<>>
  /\ \A i \in 1..Len(line[e]) : ~ IsId(line[e][i])

(* A program sends the character c to the service s of the end e.  It does *)
(* not wait until the end e can place what is under way; after this        *)
(* character, nothing before it can be repeated.                           *)
Send(e, s, c) ==
  /\ sent < MaxSent
  /\ sent' = sent + 1
  /\ flight' = [flight EXCEPT ![e] = Append(@, <<s, c>>)]
  /\ trouble' = (trouble \/ Unplaceable(e))

(* The service s of the end e receives the character c, which is lost if   *)
(* its buffer does not take it.                                            *)
Deliver(e, s, c, taken) ==
  LET next == flight[e] # <<>> /\ Head(flight[e]) = <<s, c>>
  IN  /\ flight' = IF next THEN [flight EXCEPT ![e] = Tail(@)] ELSE flight
      /\ wrong' = IF next THEN wrong ELSE wrong \cup {e}
      /\ refused' = (refused \/ ~ taken)

(* The last character again, after the identifier of its service (-1 goes  *)
(* out as SERMUX_FORCE_SID_CHAR).                                          *)
Repeated(e) ==
  <<IF e.out = None THEN FORCE ELSE Id(e.out)>>
  \o (IF e.last.esc THEN <<ESC>> ELSE <<>>) \o <<e.last.byte>>

-----------------------------------------------------------------------------
(* platform_uart_send: a program of the board calls it.  The interrupt may *)
(* come between any two of its steps.                                      *)
DevSend(s, c) ==
  /\ "board" \in up
  /\ tx.step = "idle"
  /\ Send("pc", s, c)
  /\ tx' = [step |-> "id", s |-> s, c |-> c]
  /\ UNCHANGED <<ringVars, dev, host, up, line, wrong, refused, restarts>>

(* platform_uart_send goes on: it puts bytes on the line, and leaves l in  *)
(* uart_last_sent and o in uart_service_id_out.                            *)
TxStep(from, to, bytes, l, o) ==
  /\ tx.step = from
  /\ tx' = IF to = "idle" THEN NoTx ELSE [tx EXCEPT !.step = to]
  /\ Put("pc", bytes)
  /\ dev' = [dev EXCEPT !.last = l, !.out = o]
  /\ UNCHANGED <<ringVars, host, up, sent, flight, wrong, refused, trouble, restarts>>

(* The identifier of the service, if it changes.                           *)
TxId == TxStep("id", "last", IF tx.s # dev.out THEN <<Id(tx.s)>> ELSE <<>>,
               dev.last, dev.out)

(* uart_last_sent = data.                                                  *)
TxLast == TxStep("last", "data", <<>>, [esc |-> FALSE, byte |-> tx.c], dev.out)

(* The character, or the escape before it.                                 *)
TxData ==
  /\ tx.step = "data"
  /\ IF Special(tx.c) THEN TxStep("data", "flip", <<ESC>>, dev.last, dev.out)
                      ELSE TxStep("data", "out", <<tx.c>>, dev.last, dev.out)

(* The escaped character, ...                                              *)
TxFlip == TxStep("flip", "mark", <<Xor(tx.c)>>, dev.last, dev.out)

(* ... and uart_last_sent is marked as one.                                *)
TxMark == TxStep("mark", "out", <<>>, LastSent(tx.c), dev.out)

(* uart_service_id_out = id.                                               *)
TxOut == TxStep("out", "idle", <<>>, dev.last, tx.s)

Transmit == TxId \/ TxLast \/ TxData \/ TxFlip \/ TxMark \/ TxOut

(* cmn_rx_handler, called by the receive interrupt for one byte.  What it  *)
(* repeats in the middle of platform_uart_send need not be what was sent.  *)
DevReceive ==
  /\ "board" \in up
  /\ InterruptsEnabled
  /\ line["board"] # <<>>
  /\ LET b == Head(line["board"])
         c == IF dev.esc THEN Xor(b) ELSE b
     IN  \/ /\ b = ESC
            /\ dev' = [dev EXCEPT !.esc = TRUE]
            /\ Answer("board", <<>>)
            /\ UNCHANGED <<ringVars, flight, wrong, refused, trouble>>
         \/ /\ IsId(b)
            /\ dev' = [dev EXCEPT !.in = b.base]
            /\ Answer("board", <<>>)
            /\ UNCHANGED <<ringVars, flight, wrong, refused, trouble>>
         \/ /\ b = FORCE /\ dev.last # NoLast
            /\ dev' = [dev EXCEPT !.last = NoLast]
            /\ Answer("board", Repeated(dev))
            /\ trouble' = (trouble \/ tx.step # "idle")
            /\ UNCHANGED <<ringVars, flight, wrong, refused>>
         \/ /\ ~ Special(b) \/ (b = FORCE /\ dev.last = NoLast)
            /\ dev' = [dev EXCEPT !.esc = FALSE]
            /\ \/ /\ dev.in = None
                  /\ Request("board")
                  /\ UNCHANGED <<ringVars, flight, wrong, refused, trouble>>
               \/ /\ dev.in # None
                  /\ Answer("board", <<>>)
                  /\ BufWrite(dev.in, c)
                  /\ Deliver("board", dev.in, c, desc[dev.in].count <= SIZE)
                  /\ UNCHANGED <<reader, trouble>>
  /\ UNCHANGED <<tx, host, up, sent, restarts>>

(* A program of the board reads from a virtual UART (platform_uart_recv).  *)
DevRead(s) == "board" \in up /\ ReadCopy(s) /\ UNCHANGED muxVars

DevReadOn == (ReadLoad \/ ReadStore \/ ReadIncr) /\ UNCHANGED muxVars

-----------------------------------------------------------------------------
(* The main loop of the multiplexer: a byte from the port of a service.    *)
HostSend(s, c) ==
  /\ "pc" \in up
  /\ Send("board", s, c)
  /\ Put("board", (IF s # host.out THEN <<Id(s)>> ELSE <<>>)
                  \o (IF Special(c) THEN <<ESC, Xor(c)>> ELSE <<c>>))
  /\ host' = [host EXCEPT !.out = s, !.last = LastSent(c)]
  /\ UNCHANGED <<ringVars, dev, tx, up, wrong, refused, restarts>>

(* A byte the program of the PC ends on.                                   *)
Exit ==
  /\ host' = FreshEnd
  /\ up' = up \ {"pc"}
  /\ Answer("pc", <<>>)
  /\ wrong' = wrong \cup {"exit"}
  /\ UNCHANGED <<flight, refused>>

(* The main loop: a byte from the line.  A request to repeat a character   *)
(* when there is none, and an escape of a character that needs none, end   *)
(* the program.                                                            *)
HostReceive ==
  /\ "pc" \in up
  /\ line["pc"] # <<>>
  /\ LET b == Head(line["pc"])
         c == IF host.esc THEN Xor(b) ELSE b
         bad == \/ b = FORCE /\ host.last = NoLast
                \/ ~ Special(b) /\ host.esc /\ ~ Special(c)
     IN  \/ bad /\ Exit
         \/ /\ b = ESC
            /\ host' = [host EXCEPT !.esc = TRUE]
            /\ Answer("pc", <<>>)
            /\ UNCHANGED <<up, flight, wrong, refused>>
         \/ /\ IsId(b)
            /\ host' = [host EXCEPT !.in = b.base]
            /\ Answer("pc", <<>>)
            /\ UNCHANGED <<up, flight, wrong, refused>>
         \/ /\ b = FORCE /\ ~ bad
            /\ host' = [host EXCEPT !.last = NoLast]
            /\ Answer("pc", Repeated(host))
            /\ UNCHANGED <<up, flight, wrong, refused>>
         \/ /\ ~ Special(b) /\ ~ bad
            /\ host' = [host EXCEPT !.esc = FALSE]
            /\ \/ /\ host.in = None
                  /\ Request("pc")
                  /\ UNCHANGED <<flight, wrong, refused>>
               \/ /\ host.in # None
                  /\ Answer("pc", <<>>)
                  /\ Deliver("pc", host.in, c, TRUE)
            /\ UNCHANGED up
  /\ UNCHANGED <<ringVars, dev, tx, sent, trouble, restarts>>

-----------------------------------------------------------------------------
(* The other end can repeat the last character on its way to the end e, or *)
(* has yet to send it.                                                     *)
CanRepeat(e) == Service(Other(e)).last # NoLast \/ (e = "pc" /\ tx.step # "idle")

(* An end that knows no service, with f under way to it, cannot be given   *)
(* all of f.                                                               *)
Hopeless(e, f) == f # <<>> /\ (Len(f) > 1 \/ ~ CanRepeat(e))

(* An end stops, at any moment.  What it knows is lost: what it needs to   *)
(* repeat, the service of the characters under way to it, and the rest of  *)
(* a character it was sending.                                             *)
Stop(e) ==
  /\ e \in up
  /\ restarts < MaxRestarts
  /\ restarts' = restarts + 1
  /\ up' = up \ {e}
  /\ trouble' = \/ trouble
                \/ Hopeless(e, flight[e])
                \/ Unplaceable(Other(e))
                \/ e = "board" /\ tx.step # "idle"
  /\ UNCHANGED <<line, sent, flight, wrong, refused>>

HostStop == Stop("pc") /\ host' = FreshEnd /\ UNCHANGED <<ringVars, dev, tx>>

DevStop ==
  /\ Stop("board")
  /\ dev' = FreshEnd
  /\ tx' = NoTx
  /\ desc' = [b \in Bufs |-> EmptyDesc]
  /\ reader' = NoReader
  /\ queue' = [b \in Bufs |-> <<>>]
  /\ overrun' = [b \in Bufs |-> FALSE]
  /\ UNCHANGED host

(* A byte reaches an end that does not run: nobody reads it, or the start  *)
(* of the program discards it (transport_ser_init).                        *)
Lose(e) ==
  /\ e \notin up
  /\ line[e] # <<>>
  /\ Answer(e, <<>>)
  /\ LET b == Head(line[e])
         f == IF Special(b) \/ flight[e] = <<>> THEN flight[e] ELSE Tail(flight[e])
     IN  /\ flight' = [flight EXCEPT ![e] = f]
         /\ trouble' = (trouble \/ Hopeless(e, f))
  /\ UNCHANGED <<ringVars, dev, tx, host, up, sent, wrong, refused, restarts>>

Start(e) ==
  /\ e \notin up
  /\ up' = up \cup {e}
  /\ UNCHANGED <<ringVars, dev, tx, host, line, sent, flight, wrong, refused, trouble,
                 restarts>>

Next ==
  \/ \E s \in Bufs, c \in Chars : DevSend(s, c) \/ HostSend(s, c)
  \/ Transmit
  \/ DevReceive
  \/ \E s \in Bufs : DevRead(s)
  \/ DevReadOn
  \/ HostReceive
  \/ HostStop \/ DevStop
  \/ \E e \in Ends : Lose(e) \/ Start(e)

Spec == Init /\ [][Next]_vars

(* The interrupt is served, the processors run the program to its end, the *)
(* line is read, and an end that has stopped is started again.             *)
Fairness ==
  /\ WF_vars(DevReadOn)
  /\ WF_vars(Transmit)
  /\ WF_vars(DevReceive)
  /\ WF_vars(HostReceive)
  /\ \A e \in Ends : WF_vars(Start(e))

FairSpec == Spec /\ Fairness

-----------------------------------------------------------------------------
(* Every character reaches the service it was sent to, unchanged, once and *)
(* in the order of the line, across escapes and changes of service, and    *)
(* the program of the PC does not end on a protocol error; so do restarts  *)
(* and repetitions, unless more than the last character would have to be   *)
(* repeated, or it more than once, or a request cuts into                  *)
(* platform_uart_send.  That takes a restart.                              *)
DeliveredInOrder ==
  /\ wrong # {} => trouble
  /\ trouble => restarts > 0

(* Every character arrives, in the same cases, unless a buffer is full or  *)
(* the end does not run: an end that was restarted asks for the one it     *)
(* cannot place, and the other end still has it.                           *)
EverythingArrives ==
  \A e \in Ends : flight[e] # <<>> ~> (flight[e] = <<>> \/ trouble \/ refused)
=============================================================================
