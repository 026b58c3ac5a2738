------------------------------- MODULE Httpd -------------------------------
(***************************************************************************)
(* The web server (src/webserver/httpd.c, httpd-fs.c): httpd_appcall(),    *)
(* which uIP calls for one connection at a time, the protothreads that     *)
(* send a page and run its Lua tags, and what the connections share: the   *)
(* table of clients with their Lua interpreters, the heap interpreters are *)
(* opened in, and the one buffer that holds the file being sent.           *)
(*                                                                         *)
(* A file is a sequence of pieces of one length: a "tag" is run if the     *)
(* file is a .pht page, "text" is sent; a .lua file is run as a whole.  A  *)
(* piece that is sent blocks until it is acknowledged; how that is done is *)
(* the business of PsockStream.  A call of httpd_appcall() runs to its end *)
(* before the next one: it begins with Enter, ends with Return and takes   *)
(* one step for every piece in between.                                    *)
(***************************************************************************)
EXTENDS Naturals, Sequences, FiniteSets

CONSTANTS
  Conns,           \* the connections of uIP
  Clients,         \* remote addresses
  WEB_MAX_CLIENT,  \* entries of connection[]
  LuaStates,       \* the interpreters the heap can hold
  Files,           \* name |-> [kind, pieces]
  MaxPieces,       \* size of file_fs.huge, in pieces
  Nothing          \* no connection, client, interpreter or file

ASSUME HttpdAssumption ==
  /\ WEB_MAX_CLIENT \in Nat \ {0} /\ MaxPieces \in Nat
  /\ Files \in [DOMAIN Files -> [kind : {"pht", "lua", "plain"},
                                 pieces : Seq({"text", "tag"})]]
  /\ \A f \in DOMAIN Files :
       /\ Len(Files[f].pieces) \in 1 .. MaxPieces
       /\ Files[f].kind = "lua" => Len(Files[f].pieces) = 1
  /\ Nothing \notin Conns \cup Clients \cup LuaStates \cup DOMAIN Files

Slots == 0 .. WEB_MAX_CLIENT - 1
OrNothing(S) == S \cup {Nothing}

VARIABLES
  connection,  \* connection[]: the clients the server knows, with their L
  owner,       \* of every interpreter, the client it was opened for, while it is open
  huge,        \* file_fs.huge: the file each piece in it belongs to
  state,       \* the httpd_state of every connection
  call,        \* the call of httpd_appcall() under way
  did,         \* history: what the call did last
  evicted      \* history: interpreters of clients whose entry was taken

vars == <<connection, owner, huge, state, call, did, evicted>>

\* struct httpd_state.  pos is the piece being sent, 0 for the headers; ran is
\* history: TRUE when a tag of the file has been reached.  http_params, a text
\* that is handed to the tags, is left out.
HttpdState ==
  [phase : {"closed", "waiting", "output", "closing"}, ripaddr : OrNothing(Clients),
   file : OrNothing(DOMAIN Files), pos : 0 .. MaxPieces,
   new_pht_page : BOOLEAN, nr : Slots, ran : BOOLEAN]

\* The local variables of httpd_appcall() and httpd_state.L, which every call
\* sets again.  busy is TRUE until the protothreads block.
Call == [conn : OrNothing(Conns), event : {"request", "acked", "rexmit", "other"},
         isnew : BOOLEAN, busy : BOOLEAN, L : OrNothing(LuaStates)]
Idle == [conn |-> Nothing, event |-> "other", isnew |-> FALSE, busy |-> FALSE,
         L |-> Nothing]

\* A tag that has run.
Deed == [what : {"none", "tag"}, conn : OrNothing(Conns),
         L : OrNothing(LuaStates), fresh : BOOLEAN, first : BOOLEAN]
NoDeed == [what |-> "none", conn |-> Nothing, L |-> Nothing, fresh |-> FALSE,
           first |-> FALSE]

Init ==
  /\ connection = [i \in Slots |-> [ripaddr |-> Nothing, L |-> Nothing]]
  /\ owner = [l \in LuaStates |-> Nothing]
  /\ huge = [i \in 1 .. MaxPieces |-> Nothing]
  /\ state = [c \in Conns |->
       [phase |-> "closed", ripaddr |-> Nothing, file |-> Nothing, pos |-> 0,
        new_pht_page |-> FALSE, nr |-> 0, ran |-> FALSE]]
  /\ call = Idle
  /\ did = NoDeed
  /\ evicted = {}

-----------------------------------------------------------------------------
(* httpd_appcall *)

\* The first entry with the address a.
IsEntry(i, a) ==
  /\ connection[i].ripaddr = a
  /\ \A j \in Slots : j < i => connection[j].ripaddr # a

\* uIP calls for connection c of client a: look the client up.  s is the
\* httpd_state so far; a call with one of these events has something to do.
Enter(c, a, s, event) ==
  /\ call.conn = Nothing
  /\ \/ /\ \A i \in Slots : connection[i].ripaddr # a
        /\ state' = [state EXCEPT ![c] = [s EXCEPT !.ripaddr = a]]
        /\ call' = [conn |-> c, event |-> event, isnew |-> TRUE,
                    busy |-> event # "other", L |-> Nothing]
     \/ \E i \in Slots :
          /\ IsEntry(i, a)
          /\ state' = [state EXCEPT ![c] = [s EXCEPT !.ripaddr = a, !.nr = i]]
          /\ call' = [conn |-> c, event |-> event, isnew |-> FALSE,
                      busy |-> event # "other", L |-> connection[i].L]
  /\ UNCHANGED <<connection, owner, huge, did, evicted>>

\* What is reset of the httpd_state when a connection begins.  What no later call
\* reads is reset when it ends, too.  The rest is left from the last connection.
Reset(s, phase) ==
  [s EXCEPT !.phase = phase, !.file = Nothing, !.pos = 0, !.ran = FALSE]

\* uip_connected(): the httpd_state is used again.  The request may come with
\* the segment that completes the handshake.
Connected(c, a, event) ==
  /\ state[c].phase = "closed"
  /\ event \in {"other", "request"}
  /\ Enter(c, a, Reset(state[c], "waiting"), event)

\* Data, an acknowledgment, a poll or a retransmission.
Called(c, event) ==
  /\ \/ state[c].phase = "waiting" /\ event \in {"other", "request"}
     \/ state[c].phase = "output" /\ event \in {"other", "acked", "rexmit"}
  /\ Enter(c, state[c].ripaddr, state[c], event)

\* uip_closed(), uip_aborted(), uip_timedout(), or the poll that aborts.
Ended(c) ==
  /\ state[c].phase # "closed"
  /\ Enter(c, state[c].ripaddr, Reset(state[c], "closed"), "other")

\* The end of a connection the server has closed is not reported.
Forgotten(c) ==
  /\ call.conn = Nothing
  /\ state[c].phase = "closing"
  /\ state' = [state EXCEPT ![c] = Reset(@, "closed")]
  /\ UNCHANGED <<connection, owner, huge, call, did, evicted>>

\* Mutant of Entry: the interpreter of the client that was there is kept.
EntryKept(i) ==
  [ripaddr |-> state[call.conn].ripaddr,
   L |-> IF call.L = Nothing THEN connection[i].L ELSE call.L]

\* Mutant of Entry: a known client's interpreter is written back only if it had none.
EntryOld(i) ==
  [ripaddr |-> state[call.conn].ripaddr,
   L |-> IF call.isnew \/ connection[i].L = Nothing THEN call.L ELSE connection[i].L]

Entry(i) == [ripaddr |-> state[call.conn].ripaddr, L |-> call.L]

\* The end of the call: entry i is set.
Return(i) ==
  /\ call.conn # Nothing /\ ~call.busy
  /\ connection' = [connection EXCEPT ![i] = Entry(i)]
  /\ state' = [state EXCEPT ![call.conn].nr = i]
  /\ call' = Idle
  /\ did' = NoDeed
  /\ UNCHANGED <<owner, huge>>

\* A new client gets the first free entry.
Insert(i) == call.isnew /\ IsEntry(i, Nothing) /\ Return(i) /\ UNCHANGED evicted

\* The entry after the one this httpd_state was last used with.
Victim ==
  LET nr == state[call.conn].nr
  IN IF nr < WEB_MAX_CLIENT - 1 THEN nr + 1 ELSE 0

\* No entry is free: a new client gets one in use, whose interpreter nobody
\* knows any more.
Evict ==
  /\ call.isnew
  /\ \A i \in Slots : connection[i].ripaddr # Nothing
  /\ Return(Victim)
  /\ evicted' = evicted \cup ({connection[i].L : i \in Slots \cap {Victim}} \ {Nothing})

\* The interpreter of a known client is written back.
WriteBack == ~call.isnew /\ Return(state[call.conn].nr) /\ UNCHANGED evicted

-----------------------------------------------------------------------------
(* handle_input, the beginning of handle_output and httpd_fs_open *)

Busy(c, event) == call.conn = c /\ call.busy /\ call.event = event

\* GET of file f: index.pht for "/", 404.html for a name that is not there or too
\* large a file.  It is read into the beginning of file_fs.huge; the headers are
\* sent.
Get(c, f) ==
  /\ Busy(c, "request")
  /\ huge' = [i \in 1 .. MaxPieces |->
                IF i <= Len(Files[f].pieces) THEN f ELSE huge[i]]
  /\ state' = [state EXCEPT ![c] = [@ EXCEPT !.phase = "output", !.file = f, !.pos = 0]]
  /\ call' = [call EXCEPT !.busy = FALSE]
  /\ did' = NoDeed
  /\ UNCHANGED <<connection, owner, evicted>>

\* Anything but a GET of a path: PSOCK_CLOSE_EXIT.
BadRequest(c) ==
  /\ Busy(c, "request")
  /\ state' = [state EXCEPT ![c] = Reset(@, "closing")]
  /\ call' = [call EXCEPT !.busy = FALSE]
  /\ did' = NoDeed
  /\ UNCHANGED <<connection, owner, huge, evicted>>

-----------------------------------------------------------------------------
(* The rest of handle_output *)

\* Mutant of Begun: the page goes on with the interpreter there is.
BegunSame(c) == state[c]

\* handle_output, when the headers have been sent: a .pht page is to begin with
\* a new interpreter.
Begun(c) ==
  LET s == state[c]
  IN IF s.pos = 0 /\ Files[s.file].kind = "pht" THEN [s EXCEPT !.new_pht_page = TRUE] ELSE s

\* The threads are at a piece to be treated as kind k, after one that has been
\* acknowledged.  Tags are looked for in file_fs.huge, whatever is there by now.
AtPiece(c, k) ==
  LET f == state[c].file
      i == state[c].pos + 1
  IN /\ Busy(c, "acked")
     /\ i <= Len(Files[f].pieces)
     /\ k = CASE Files[f].kind = "pht"   -> Files[huge[i]].pieces[i]
              [] Files[f].kind = "lua"   -> "tag"
              [] Files[f].kind = "plain" -> "text"

\* send_part_of_file, or a part of send_file.
SendHtml(c) ==
  /\ AtPiece(c, "text")
  /\ state' = [state EXCEPT ![c] = [Begun(c) EXCEPT !.pos = @ + 1]]
  /\ call' = [call EXCEPT !.busy = FALSE]
  /\ did' = NoDeed
  /\ UNCHANGED <<connection, owner, huge, evicted>>

\* Mutant of Closes: an interpreter is forgotten rather than closed.
ClosesNone(c) == {}

\* The interpreter http_run_elua closes before it runs the tag.
Closes(c) == IF Begun(c).new_pht_page /\ call.L # Nothing THEN {call.L} ELSE {}

Opens(c) == call.L = Nothing \/ Begun(c).new_pht_page

\* The httpd_state after a tag: new_pht_page is reset only if there was an
\* interpreter to close.
AfterTag(c) ==
  [Begun(c) EXCEPT !.pos = @ + 1, !.ran = TRUE,
                   !.new_pht_page = @ /\ call.L = Nothing]

\* http_run_elua: the tag runs in interpreter l, which is the client's or a new
\* one.  If it prints nothing, the threads go on with the next piece.
RunTag(c, l, prints) ==
  LET a == state[c].ripaddr
  IN /\ AtPiece(c, "tag")
     /\ IF Opens(c) THEN owner[l] = Nothing \/ l \in Closes(c) ELSE l = call.L
     /\ owner' = [m \in LuaStates |-> IF m = l /\ Opens(c) THEN a
                                      ELSE IF m \in Closes(c) THEN Nothing ELSE owner[m]]
     /\ state' = [state EXCEPT ![c] = AfterTag(c)]
     /\ call' = [call EXCEPT !.L = l, !.busy = ~prints]
     /\ did' = [what |-> "tag", conn |-> c, L |-> l, fresh |-> Opens(c),
                first |-> ~state[c].ran]
     /\ UNCHANGED <<connection, huge, evicted>>

\* lua_open() fails: nothing is run or sent for this tag.
RunTagNoMemory(c) ==
  /\ AtPiece(c, "tag") /\ Opens(c)
  /\ owner' = [m \in LuaStates |-> IF m \in Closes(c) THEN Nothing ELSE owner[m]]
  /\ state' = [state EXCEPT ![c] = AfterTag(c)]
  /\ call' = [call EXCEPT !.L = Nothing]
  /\ did' = NoDeed
  /\ UNCHANGED <<connection, huge, evicted>>

\* The end of the file: PSOCK_CLOSE.
Finish(c) ==
  /\ Busy(c, "acked")
  /\ state[c].pos = Len(Files[state[c].file].pieces)
  /\ state' = [state EXCEPT ![c] = Reset(@, "closing")]
  /\ call' = [call EXCEPT !.busy = FALSE]
  /\ did' = NoDeed
  /\ UNCHANGED <<connection, owner, huge, evicted>>

\* uip_rexmit(): the piece is sent again, html between tags from what is in
\* file_fs.huge by now.  What the client gets is the subject of PsockStream.
SendAgain(c) ==
  /\ Busy(c, "rexmit")
  /\ call' = [call EXCEPT !.busy = FALSE]
  /\ did' = NoDeed
  /\ UNCHANGED <<connection, owner, huge, state, evicted>>

-----------------------------------------------------------------------------
Output(c) ==
  \/ SendHtml(c)
  \/ \E l \in LuaStates, prints \in BOOLEAN : RunTag(c, l, prints)
  \/ RunTagNoMemory(c)
  \/ Finish(c)
  \/ SendAgain(c)

Input(c) ==
  \/ \E f \in DOMAIN Files : Get(c, f)
  \/ BadRequest(c)

Next ==
  \/ \E c \in Conns :
       \/ \E a \in Clients, event \in {"other", "request"} : Connected(c, a, event)
       \/ \E event \in {"request", "acked", "rexmit", "other"} : Called(c, event)
       \/ Ended(c) \/ Forgotten(c)
       \/ Input(c) \/ Output(c)
  \/ \E i \in Slots : Insert(i)
  \/ Evict
  \/ WriteBack

Spec == Init /\ [][Next]_vars

-----------------------------------------------------------------------------
(* Properties *)

\* Every variable keeps its type; in particular nr, from which the entry to take
\* is computed (httpd.c:423), stays an index of connection[].
TypeOK ==
  /\ connection \in [Slots -> [ripaddr : OrNothing(Clients), L : OrNothing(LuaStates)]]
  /\ owner \in [LuaStates -> OrNothing(Clients)]
  /\ huge \in [1 .. MaxPieces -> OrNothing(DOMAIN Files)]
  /\ state \in [Conns -> HttpdState]
  /\ call \in Call
  /\ did \in Deed
  /\ evicted \subseteq LuaStates

\* Between two calls every interpreter in connection[] is open, it was opened
\* for the client of its entry, and no client has two entries: http_run_elua
\* never uses an interpreter that was closed, and evicting a client
\* (httpd.c:423) never hands its interpreter to another one.
TableSound ==
  call.conn = Nothing =>
    \A i, j \in Slots :
      /\ connection[i].L # Nothing
           => /\ connection[i].ripaddr # Nothing
              /\ owner[connection[i].L] = connection[i].ripaddr
      /\ connection[i].ripaddr # Nothing /\ i # j
           => connection[i].ripaddr # connection[j].ripaddr

\* A tag runs in an interpreter that was opened for the client it is run for.
ClientIsolation ==
  did.what = "tag" => did.L # Nothing /\ owner[did.L] = state[did.conn].ripaddr

\* The first tag of a .pht page runs in "a new instance of the elua interpreter"
\* (httpd.c:285), so that no page sees the globals of the one before, whatever
\* requests, ends of connections and failures of lua_open() there are between.
PagesStartFresh ==
  did.what = "tag" /\ did.first /\ Files[state[did.conn].file].kind = "pht" => did.fresh

\* Between two calls every interpreter that is open is in connection[], where
\* its client will find it or its next page will close it, unless its entry was
\* taken by another client (httpd.c:423): nothing else leaks one, not two
\* connections of one client, nor a failure of lua_open().
NoLeak ==
  call.conn = Nothing =>
    \A l \in LuaStates :
      owner[l] # Nothing => l \in evicted \/ \E i \in Slots : connection[i].L = l

\* A .lua script runs in the interpreter of its client, if it has one, with the
\* globals that the tags of a page have left there: ajax.pht:3 has "global
\* variables initialised here" and sensor.lua:1 counts them up.
SessionKept ==
  did.what = "tag" /\ Files[state[did.conn].file].kind = "lua" /\ did.fresh
    => call.isnew \/ connection[state[did.conn].nr].L = Nothing
=============================================================================
