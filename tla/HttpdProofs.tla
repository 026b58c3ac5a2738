---------------------------- MODULE HttpdProofs ----------------------------
(***************************************************************************)
(* Proofs about Httpd, for any connections, clients, files and sizes of    *)
(* the table: the table of clients stays sound, no client's tags run in    *)
(* the interpreter of another one, and every page starts with a new one.   *)
(***************************************************************************)
EXTENDS Httpd, TLAPS

\* What a connection that is open, or in the middle of a response, relies on.  A
\* .pht page that has sent something and not reached a tag still wants a new
\* interpreter.
StateOK(s) ==
  /\ s.phase # "closed" => s.ripaddr \in Clients
  /\ s.phase = "output" =>
       /\ s.file \in DOMAIN Files
       /\ s.pos <= Len(Files[s.file].pieces)
       /\ Files[s.file].kind = "pht" /\ s.pos > 0 /\ ~s.ran => s.new_pht_page

\* What the call under way relies on.  Its interpreter is the client's.
CallOK ==
  call.conn # Nothing =>
    /\ state[call.conn].ripaddr \in Clients
    /\ call.isnew => \A i \in Slots : connection[i].ripaddr # state[call.conn].ripaddr
    /\ ~call.isnew =>
         connection[state[call.conn].nr].ripaddr = state[call.conn].ripaddr
    /\ call.L # Nothing => owner[call.L] = state[call.conn].ripaddr
    /\ call.busy /\ call.event = "acked" => state[call.conn].phase = "output"

\* The table is sound but for the entry of the client that is being served.
Served(a) == call.conn # Nothing /\ state[call.conn].ripaddr = a

EntriesOK ==
  /\ \A i \in Slots :
       connection[i].L # Nothing =>
         /\ connection[i].ripaddr # Nothing
         /\ ~Served(connection[i].ripaddr)
              => owner[connection[i].L] = connection[i].ripaddr
  /\ \A i, j \in Slots :
       connection[i].ripaddr # Nothing /\ i # j
         => connection[i].ripaddr # connection[j].ripaddr

\* The tag that has just run belongs to the call under way.
DeedOK ==
  did.what = "tag" =>
    /\ call.conn # Nothing /\ did.conn = call.conn
    /\ did.L = call.L /\ call.L # Nothing
    /\ did.first /\ Files[state[did.conn].file].kind = "pht" => did.fresh

Inv ==
  /\ TypeOK
  /\ \A c \in Conns : StateOK(state[c])
  /\ CallOK
  /\ EntriesOK
  /\ DeedOK

LEMMA SlotFacts == Slots \subseteq Nat /\ 0 \in Slots
  BY HttpdAssumption DEF Slots

LEMMA FileFacts ==
  ASSUME NEW f \in DOMAIN Files
  PROVE  /\ Files[f].kind \in {"pht", "lua", "plain"}
         /\ Len(Files[f].pieces) \in 1 .. MaxPieces
  BY HttpdAssumption

\* The invariant holds at the beginning.
LEMMA InitInv == Init => Inv
<1> SUFFICES ASSUME Init PROVE Inv
  OBVIOUS
<1>1. TypeOK
  BY HttpdAssumption, SlotFacts
  DEF Init, TypeOK, HttpdState, Call, Deed, Idle, NoDeed, OrNothing
<1>2. (\A c \in Conns : StateOK(state[c])) /\ CallOK /\ EntriesOK /\ DeedOK
  BY DEF Init, StateOK, CallOK, EntriesOK, DeedOK, Idle, NoDeed
<1> QED
  BY <1>1, <1>2 DEF Inv

\* The beginning of a call keeps the invariant.
LEMMA EnterInv ==
  ASSUME Inv, NEW c \in Conns, NEW a \in Clients, NEW s \in HttpdState,
         NEW event \in {"request", "acked", "rexmit", "other"},
         StateOK([s EXCEPT !.ripaddr = a]), event = "acked" => s.phase = "output",
         Enter(c, a, s, event)
  PROVE  Inv'
<1> USE DEF Inv
<1> DEFINE Entered(t) ==
      /\ state' = [state EXCEPT ![c] = t]
      /\ t.ripaddr = a /\ t.phase = s.phase /\ StateOK(t)
      /\ call' \in Call /\ call'.conn = c
      /\ call'.event = event
      /\ call'.isnew => call'.L = Nothing /\ \A i \in Slots : connection[i].ripaddr # a
      /\ ~call'.isnew => connection[t.nr].ripaddr = a /\ call'.L = connection[t.nr].L
<1>1. PICK t \in HttpdState : Entered(t)
  <2>1. CASE /\ \A i \in Slots : connection[i].ripaddr # a
             /\ state' = [state EXCEPT ![c] = [s EXCEPT !.ripaddr = a]]
             /\ call' = [conn |-> c, event |-> event, isnew |-> TRUE,
                         busy |-> event # "other", L |-> Nothing]
    <3>1. [s EXCEPT !.ripaddr = a] \in HttpdState
      BY DEF HttpdState, OrNothing
    <3>2. Entered([s EXCEPT !.ripaddr = a])
      BY <2>1, <3>1 DEF HttpdState, Call, OrNothing
    <3> QED BY <3>1, <3>2
  <2>2. ASSUME NEW i \in Slots, IsEntry(i, a),
               state' = [state EXCEPT ![c] = [s EXCEPT !.ripaddr = a, !.nr = i]],
               call' = [conn |-> c, event |-> event, isnew |-> FALSE,
                        busy |-> event # "other", L |-> connection[i].L]
        PROVE  \E t \in HttpdState : Entered(t)
    <3>1. connection[i].ripaddr = a /\ connection[i].L \in OrNothing(LuaStates)
      BY <2>2 DEF IsEntry, TypeOK
    <3>2. [s EXCEPT !.ripaddr = a, !.nr = i] \in HttpdState
      BY DEF HttpdState, OrNothing
    <3>3. StateOK([s EXCEPT !.ripaddr = a, !.nr = i])
      BY DEF StateOK, HttpdState
    <3>4. Entered([s EXCEPT !.ripaddr = a, !.nr = i])
      BY <2>2, <3>1, <3>2, <3>3 DEF HttpdState, Call, OrNothing
    <3> QED BY <3>2, <3>4
  <2> QED BY <2>1, <2>2 DEF Enter
<1>2. c # Nothing /\ a # Nothing /\ call.conn = Nothing
  BY HttpdAssumption DEF Enter
<1>3. UNCHANGED <<connection, owner, huge, did, evicted>>
  BY DEF Enter
<1>4. TypeOK'
  BY <1>1, <1>3 DEF TypeOK
<1>5. state'[c] = t /\ \A d \in Conns : StateOK(state'[d])
  BY <1>1 DEF TypeOK
<1>6. call'.L # Nothing => owner[call'.L] = a
  <2>1. CASE call'.isnew
    BY <2>1, <1>1
  <2>2. CASE ~call'.isnew
    <3>1. t.nr \in Slots
      BY <1>1 DEF HttpdState
    <3> QED BY <2>2, <3>1, <1>1, <1>2 DEF EntriesOK, Served
  <2> QED BY <2>1, <2>2
<1>7. CallOK'
  BY <1>1, <1>2, <1>3, <1>5, <1>6 DEF CallOK
<1>8. EntriesOK'
  BY <1>2, <1>3 DEF EntriesOK, Served
<1>9. DeedOK'
  BY <1>2, <1>3 DEF DeedOK
<1> QED
  BY <1>4, <1>5, <1>7, <1>8, <1>9

\* The end of a call keeps the invariant.
LEMMA ReturnInv ==
  ASSUME Inv, NEW i \in Slots, Return(i), evicted' \subseteq LuaStates,
         \/ call.isnew
         \/ ~call.isnew /\ i = state[call.conn].nr
  PROVE  Inv'
<1> USE DEF Inv
<1> DEFINE c == call.conn
           a == state[c].ripaddr
<1>1. c \in Conns /\ c # Nothing /\ a \in Clients /\ a # Nothing
  BY HttpdAssumption DEF Return, CallOK, TypeOK, Call, OrNothing
<1>2. call'.conn = Nothing /\ did'.what # "tag"
  BY DEF Return, Idle, NoDeed
<1>3. connection' = [connection EXCEPT ![i] = [ripaddr |-> a, L |-> call.L]]
  BY DEF Return, Entry
<1>4. TypeOK'
  <2>1. connection' \in [Slots -> [ripaddr : OrNothing(Clients), L : OrNothing(LuaStates)]]
    BY <1>1, <1>3 DEF TypeOK, Call, OrNothing
  <2>2. state' \in [Conns -> HttpdState]
    <3>1. [state[c] EXCEPT !.nr = i] \in HttpdState
      <4>1. state[c] \in HttpdState
        BY <1>1 DEF TypeOK
      <4>. QED
        BY <4>1 DEF HttpdState
    <3>2. state' = [state EXCEPT ![c] = [state[c] EXCEPT !.nr = i]]
      BY DEF Return
    <3> QED BY <1>1, <3>1, <3>2 DEF TypeOK
  <2>3. call' \in Call /\ did' \in Deed
    BY DEF Return, Idle, NoDeed, Call, Deed, OrNothing
  <2> QED BY <2>1, <2>2, <2>3 DEF Return, TypeOK
<1>5. \A d \in Conns : StateOK(state'[d])
  <2> TAKE d \in Conns
  <2>1. state[d] \in HttpdState /\ StateOK(state[d])
    BY DEF TypeOK
  <2>2. state'[d] = state[d] \/ state'[d] = [state[d] EXCEPT !.nr = i]
    BY <1>1 DEF Return, TypeOK
  <2> QED BY <2>1, <2>2 DEF StateOK, HttpdState
<1>6. EntriesOK'
  <2>1. \A j \in Slots : /\ j = i => connection'[j] = [ripaddr |-> a, L |-> call.L]
                         /\ j # i => connection'[j] = connection[j]
    BY <1>3 DEF TypeOK
  <2>2. call.L # Nothing => owner[call.L] = a
    BY <1>1 DEF CallOK
  <2>3. \A j \in Slots : j # i => connection[j].ripaddr # a
    BY <1>1 DEF CallOK, EntriesOK
  <2>4. owner' = owner
    BY DEF Return
  <2> QED BY <1>1, <1>2, <2>1, <2>2, <2>3, <2>4 DEF EntriesOK, Served
<1> QED
  BY <1>2, <1>4, <1>5, <1>6 DEF CallOK, DeedOK

\* A step of the protothreads that leaves the interpreters alone and replaces
\* the httpd_state by one of the same client keeps the invariant.
LEMMA StepInv ==
  ASSUME Inv, NEW c \in Conns, NEW t \in HttpdState, call.conn = c,
         state' = [state EXCEPT ![c] = t],
         t.ripaddr = state[c].ripaddr, t.nr = state[c].nr, StateOK(t),
         call' = [call EXCEPT !.busy = FALSE], did' \in Deed, did'.what # "tag",
         huge' \in [1 .. MaxPieces -> OrNothing(DOMAIN Files)],
         UNCHANGED <<connection, owner, evicted>>
  PROVE  Inv'
<1> USE DEF Inv
<1>1. TypeOK'
  BY DEF TypeOK, Call
<1>2. state'[c] = t /\ \A d \in Conns : StateOK(state'[d])
  BY DEF TypeOK
<1>3. call'.conn = c /\ call'.L = call.L /\ call'.isnew = call.isnew /\ ~call'.busy
  BY DEF TypeOK, Call
<1>4. CallOK'
  BY <1>2, <1>3 DEF CallOK
<1>5. EntriesOK'
  BY <1>2, <1>3 DEF EntriesOK, Served
<1> QED
  BY <1>1, <1>2, <1>4, <1>5 DEF DeedOK

\* A connection at a piece is in the middle of a response.
LEMMA AtPieceFacts ==
  ASSUME Inv, NEW c \in Conns, NEW k, AtPiece(c, k)
  PROVE  /\ call.conn = c /\ c # Nothing
         /\ state[c] \in HttpdState /\ state[c].phase = "output"
         /\ state[c].ripaddr \in Clients /\ state[c].ripaddr # Nothing
         /\ state[c].file \in DOMAIN Files
         /\ state[c].pos + 1 <= Len(Files[state[c].file].pieces)
         /\ state[c].pos + 1 \in 1 .. MaxPieces
         /\ Files[state[c].file].kind = "pht" /\ state[c].pos > 0 /\ ~state[c].ran
              => state[c].new_pht_page
<1>1. call.conn = c /\ c # Nothing /\ state[c].phase = "output"
  BY HttpdAssumption DEF Inv, AtPiece, Busy, CallOK
<1>2. state[c] \in HttpdState /\ StateOK(state[c])
  BY DEF Inv, TypeOK
<1>3. state[c].ripaddr \in Clients /\ state[c].file \in DOMAIN Files
  BY <1>1, <1>2 DEF StateOK
<1>4. state[c].pos + 1 <= Len(Files[state[c].file].pieces)
  BY DEF AtPiece
<1>5. state[c].pos + 1 \in 1 .. MaxPieces
  BY <1>2, <1>3, <1>4, FileFacts, HttpdAssumption DEF HttpdState
<1> QED
  BY <1>1, <1>2, <1>3, <1>4, <1>5, HttpdAssumption DEF StateOK

\* What handle_output has made of the httpd_state when the headers are sent.
LEMMA BegunFacts ==
  ASSUME NEW c \in Conns, state[c] \in HttpdState, state[c].file \in DOMAIN Files
  PROVE  /\ Begun(c) \in HttpdState
         /\ Begun(c).phase = state[c].phase /\ Begun(c).ripaddr = state[c].ripaddr
         /\ Begun(c).file = state[c].file /\ Begun(c).pos = state[c].pos
         /\ Begun(c).nr = state[c].nr /\ Begun(c).ran = state[c].ran
         /\ state[c].new_pht_page => Begun(c).new_pht_page
         /\ Files[state[c].file].kind = "pht" /\ state[c].pos = 0
              => Begun(c).new_pht_page
  BY DEF Begun, HttpdState

\* The same at a piece, with the length of the file.
LEMMA BegunAtPiece ==
  ASSUME Inv, NEW c \in Conns, NEW k, AtPiece(c, k)
  PROVE  /\ Begun(c) \in HttpdState
         /\ Begun(c).phase = "output" /\ Begun(c).ripaddr = state[c].ripaddr
         /\ Begun(c).file = state[c].file /\ Begun(c).pos = state[c].pos
         /\ Begun(c).nr = state[c].nr /\ Begun(c).ran = state[c].ran
         /\ Begun(c).pos + 1 \in 0 .. MaxPieces
         /\ Files[state[c].file].kind = "pht" /\ ~state[c].ran => Begun(c).new_pht_page
<1>1. /\ state[c] \in HttpdState /\ state[c].phase = "output"
      /\ state[c].file \in DOMAIN Files /\ state[c].pos + 1 \in 1 .. MaxPieces
      /\ Files[state[c].file].kind = "pht" /\ state[c].pos > 0 /\ ~state[c].ran
           => state[c].new_pht_page
  BY AtPieceFacts
<1>2. state[c].pos \in Nat /\ state[c].pos + 1 \in 0 .. MaxPieces
  BY <1>1, HttpdAssumption DEF HttpdState
<1>3. state[c].pos = 0 \/ state[c].pos > 0
  BY <1>2
<1> QED
  BY <1>1, <1>2, <1>3, BegunFacts

\* SendHtml keeps the invariant.
LEMMA SendHtmlInv ==
  ASSUME Inv, NEW c \in Conns, SendHtml(c)
  PROVE  Inv'
<1> DEFINE b == Begun(c)
           t == [b EXCEPT !.pos = @ + 1]
<1>1. AtPiece(c, "text")
  BY DEF SendHtml
<1>2. /\ b \in HttpdState /\ b.pos + 1 \in 0 .. MaxPieces
      /\ b.phase = "output" /\ b.ripaddr = state[c].ripaddr
      /\ b.file = state[c].file /\ b.nr = state[c].nr /\ b.pos = state[c].pos
      /\ Files[b.file].kind = "pht" /\ ~b.ran => b.new_pht_page
  BY <1>1, BegunAtPiece
<1>3. /\ state[c].ripaddr \in Clients /\ state[c].file \in DOMAIN Files
      /\ state[c].pos + 1 <= Len(Files[state[c].file].pieces)
      /\ huge[state[c].pos + 1] \in OrNothing(DOMAIN Files)
      /\ call.conn = c
  BY <1>1, AtPieceFacts DEF Inv, TypeOK
<1>4. state' = [state EXCEPT ![c] = t] /\ call' = [call EXCEPT !.busy = FALSE]
      /\ UNCHANGED <<connection, owner, evicted>>
  BY DEF SendHtml
<1> HIDE DEF b
<1>5. /\ t \in HttpdState
      /\ t.phase = b.phase /\ t.ripaddr = b.ripaddr /\ t.file = b.file /\ t.nr = b.nr
      /\ t.ran = b.ran /\ t.pos = b.pos + 1 /\ t.new_pht_page = b.new_pht_page
  BY <1>2, <1>3 DEF HttpdState
<1>6. StateOK(t)
  <2>1. t.pos > 0
    BY <1>2, <1>5 DEF HttpdState
  <2> QED BY <1>2, <1>3, <1>5, <2>1 DEF StateOK
<1>7. did' \in Deed /\ did'.what # "tag"
  BY DEF SendHtml, NoDeed, Deed, OrNothing
<1>8. huge' \in [1 .. MaxPieces -> OrNothing(DOMAIN Files)]
  BY DEF SendHtml, Inv, TypeOK
<1> QED
  BY <1>2, <1>3, <1>4, <1>5, <1>6, <1>7, <1>8, StepInv

\* The httpd_state after a tag.
LEMMA AfterTagFacts ==
  ASSUME Inv, NEW c \in Conns, AtPiece(c, "tag")
  PROVE  /\ AfterTag(c) \in HttpdState /\ StateOK(AfterTag(c))
         /\ AfterTag(c).ripaddr = state[c].ripaddr /\ AfterTag(c).nr = state[c].nr
         /\ AfterTag(c).phase = "output" /\ AfterTag(c).file = state[c].file
<1> DEFINE b == Begun(c)
           t == [b EXCEPT !.pos = @ + 1, !.ran = TRUE,
                          !.new_pht_page = @ /\ call.L = Nothing]
<1>1. /\ b \in HttpdState /\ b.pos + 1 \in 0 .. MaxPieces
      /\ b.phase = "output" /\ b.ripaddr = state[c].ripaddr
      /\ b.file = state[c].file /\ b.nr = state[c].nr /\ b.pos = state[c].pos
  BY BegunAtPiece
<1>2. /\ state[c].ripaddr \in Clients /\ state[c].file \in DOMAIN Files
      /\ state[c].pos + 1 <= Len(Files[state[c].file].pieces)
  BY AtPieceFacts
<1>3. AfterTag(c) = t
  BY DEF AfterTag
<1> HIDE DEF b
<1>4. /\ t \in HttpdState /\ t.ran = TRUE
      /\ t.phase = b.phase /\ t.ripaddr = b.ripaddr /\ t.file = b.file /\ t.nr = b.nr
      /\ t.pos = b.pos + 1
  BY <1>1 DEF HttpdState, OrNothing
<1>5. StateOK(t)
  BY <1>1, <1>2, <1>4 DEF StateOK
<1> QED
  BY <1>1, <1>3, <1>4, <1>5

\* Whether a tag has run in interpreter l or none could be opened (l = Nothing):
\* the interpreters of other clients are left alone.
LEMMA TagInv ==
  ASSUME Inv, NEW c \in Conns, AtPiece(c, "tag"), NEW l \in OrNothing(LuaStates),
         state' = [state EXCEPT ![c] = AfterTag(c)],
         call'.L = l, call'.conn = call.conn, call'.isnew = call.isnew,
         call' \in Call, did' \in Deed,
         owner' \in [LuaStates -> OrNothing(Clients)],
         l # Nothing => owner'[l] = state[c].ripaddr,
         \A m \in LuaStates : owner[m] \notin {Nothing, state[c].ripaddr}
                                => owner'[m] = owner[m],
         did'.what = "tag" =>
           /\ did'.conn = c /\ did'.L = l /\ l # Nothing
           /\ did'.first /\ Files[state[c].file].kind = "pht" => did'.fresh,
         UNCHANGED <<connection, huge, evicted>>
  PROVE  Inv'
<1> USE DEF Inv
<1>1. call.conn = c /\ c # Nothing /\ state'[c] = AfterTag(c)
  BY AtPieceFacts DEF TypeOK
<1>2. TypeOK'
  BY AfterTagFacts DEF TypeOK
<1>3. \A d \in Conns : StateOK(state'[d])
  BY AfterTagFacts DEF TypeOK
<1>4. CallOK'
  BY <1>1, AfterTagFacts DEF CallOK
<1>5. EntriesOK'
  <2>1. ASSUME NEW i \in Slots, connection[i].L # Nothing,
               connection[i].ripaddr # state[c].ripaddr
        PROVE  owner'[connection[i].L] = connection[i].ripaddr
    <3>1. owner[connection[i].L] = connection[i].ripaddr /\ connection[i].ripaddr # Nothing
      BY <2>1, <1>1 DEF EntriesOK, Served
    <3>2. connection[i].L \in LuaStates
      BY <2>1 DEF TypeOK, OrNothing
    <3> QED BY <2>1, <3>1, <3>2
  <2> QED BY <1>1, <2>1, AfterTagFacts DEF EntriesOK, Served
<1>6. DeedOK'
  BY <1>1, AfterTagFacts DEF DeedOK
<1> QED
  BY <1>2, <1>3, <1>4, <1>5, <1>6

\* RunTag keeps the invariant.
LEMMA RunTagInv ==
  ASSUME Inv, NEW c \in Conns, NEW l \in LuaStates, NEW prints \in BOOLEAN,
         RunTag(c, l, prints)
  PROVE  Inv'
<1> DEFINE a == state[c].ripaddr
<1>1. AtPiece(c, "tag") /\ UNCHANGED <<connection, huge, evicted>>
  BY DEF RunTag
<1>2. /\ call.conn = c /\ c # Nothing /\ a \in Clients /\ a # Nothing
      /\ l # Nothing /\ call \in Call /\ owner \in [LuaStates -> OrNothing(Clients)]
  BY <1>1, AtPieceFacts, HttpdAssumption DEF Inv, TypeOK
<1>3. call.L # Nothing => owner[call.L] = a
  BY <1>2 DEF Inv, CallOK
<1>4. Closes(c) \subseteq {call.L} /\ (call.L = Nothing => Closes(c) = {})
      /\ (~Opens(c) => Closes(c) = {} /\ call.L # Nothing)
  BY DEF Closes, Opens
<1>5. owner' = [m \in LuaStates |-> IF m = l /\ Opens(c) THEN a
                  ELSE IF m \in Closes(c) THEN Nothing ELSE owner[m]]
  BY DEF RunTag
<1>6. IF Opens(c) THEN owner[l] = Nothing \/ l \in Closes(c) ELSE l = call.L
  BY DEF RunTag
<1>7. /\ owner' \in [LuaStates -> OrNothing(Clients)]
      /\ owner'[l] = a
      /\ \A m \in LuaStates : owner[m] \notin {Nothing, a} => owner'[m] = owner[m]
  BY <1>2, <1>3, <1>4, <1>5, <1>6 DEF OrNothing
<1>8. state' = [state EXCEPT ![c] = AfterTag(c)]
  BY DEF RunTag
<1>9. /\ call' = [call EXCEPT !.L = l, !.busy = ~prints]
      /\ call' \in Call /\ call'.L = l /\ call'.conn = call.conn
      /\ call'.isnew = call.isnew
  BY <1>2 DEF RunTag, Call, OrNothing
<1>10. /\ did'.what = "tag" /\ did'.conn = c /\ did'.L = l
       /\ did'.fresh = Opens(c) /\ did'.first = ~state[c].ran
  BY DEF RunTag
<1>11. did' \in Deed
  BY <1>2 DEF RunTag, Deed, OrNothing, Opens
<1>12. did'.first /\ Files[state[c].file].kind = "pht" => did'.fresh
  <2>1. Files[state[c].file].kind = "pht" /\ ~state[c].ran => Begun(c).new_pht_page
    BY <1>1, BegunAtPiece
  <2> QED BY <1>10, <2>1 DEF Opens
<1> QED
  BY <1>1, <1>2, <1>7, <1>8, <1>9, <1>10, <1>11, <1>12, TagInv DEF OrNothing

\* RunTagNoMemory keeps the invariant.
LEMMA RunTagNoMemoryInv ==
  ASSUME Inv, NEW c \in Conns, RunTagNoMemory(c)
  PROVE  Inv'
<1> DEFINE a == state[c].ripaddr
<1>1. AtPiece(c, "tag") /\ UNCHANGED <<connection, huge, evicted>>
  BY DEF RunTagNoMemory
<1>2. /\ call.conn = c /\ c # Nothing /\ call \in Call
      /\ owner \in [LuaStates -> OrNothing(Clients)]
  BY <1>1, AtPieceFacts DEF Inv, TypeOK
<1>3. call.L # Nothing => owner[call.L] = a
  BY <1>2 DEF Inv, CallOK
<1>4. Closes(c) \subseteq {call.L} /\ (call.L = Nothing => Closes(c) = {})
  BY DEF Closes
<1>5. owner' = [m \in LuaStates |-> IF m \in Closes(c) THEN Nothing ELSE owner[m]]
  BY DEF RunTagNoMemory
<1>6. /\ owner' \in [LuaStates -> OrNothing(Clients)]
      /\ \A m \in LuaStates : owner[m] \notin {Nothing, a} => owner'[m] = owner[m]
  BY <1>2, <1>3, <1>4, <1>5 DEF OrNothing
<1>7. state' = [state EXCEPT ![c] = AfterTag(c)]
  BY DEF RunTagNoMemory
<1>8. /\ call' \in Call /\ call'.L = Nothing /\ call'.conn = call.conn
      /\ call'.isnew = call.isnew
  BY <1>2 DEF RunTagNoMemory, Call, OrNothing
<1>9. did' \in Deed /\ did'.what # "tag"
  BY DEF RunTagNoMemory, NoDeed, Deed, OrNothing
<1> QED
  BY <1>1, <1>6, <1>7, <1>8, <1>9, TagInv DEF OrNothing

\* A connection that is opened, or ends, has a state that is all right.
LEMMA ResetFacts ==
  ASSUME NEW s \in HttpdState, NEW phase \in {"closed", "waiting", "closing"}
  PROVE  /\ Reset(s, phase) \in HttpdState
         /\ Reset(s, phase).phase = phase /\ Reset(s, phase).ripaddr = s.ripaddr
         /\ Reset(s, phase).nr = s.nr
         /\ s.ripaddr \in Clients => StateOK(Reset(s, phase))
         /\ \A a \in Clients : StateOK([Reset(s, phase) EXCEPT !.ripaddr = a])
<1>0. 0 \in 0 .. MaxPieces
  BY HttpdAssumption
<1>1. /\ Reset(s, phase) \in HttpdState
      /\ Reset(s, phase).phase = phase /\ Reset(s, phase).ripaddr = s.ripaddr
      /\ Reset(s, phase).nr = s.nr
  BY <1>0 DEF Reset, HttpdState, OrNothing
<1>2. \A a \in Clients : /\ [Reset(s, phase) EXCEPT !.ripaddr = a].phase = phase
                         /\ [Reset(s, phase) EXCEPT !.ripaddr = a].ripaddr = a
  BY <1>1 DEF HttpdState
<1> QED
  BY <1>1, <1>2 DEF StateOK

\* The steps that read the request keep the invariant.
LEMMA GetInv ==
  ASSUME Inv, NEW c \in Conns, NEW f \in DOMAIN Files, Get(c, f)
  PROVE  Inv'
<1> DEFINE s == state[c]
           t == [s EXCEPT !.phase = "output", !.file = f, !.pos = 0]
<1>1. call.conn = c /\ s.ripaddr \in Clients /\ s \in HttpdState
  BY HttpdAssumption DEF Get, Busy, Inv, CallOK, TypeOK
<1>2. /\ t \in HttpdState
      /\ t.phase = "output" /\ t.file = f /\ t.pos = 0 /\ t.ripaddr = s.ripaddr
      /\ t.nr = s.nr
  <2>1. 0 \in 0 .. MaxPieces
    BY HttpdAssumption
  <2> QED BY <1>1, <2>1 DEF HttpdState, OrNothing
<1>3. StateOK(t)
  BY <1>1, <1>2, FileFacts DEF StateOK
<1>4. state' = [state EXCEPT ![c] = t] /\ call' = [call EXCEPT !.busy = FALSE]
      /\ UNCHANGED <<connection, owner, evicted>>
  BY DEF Get
<1>5. did' \in Deed /\ did'.what # "tag"
  BY DEF Get, NoDeed, Deed, OrNothing
<1>6. huge' \in [1 .. MaxPieces -> OrNothing(DOMAIN Files)]
  BY DEF Get, Inv, TypeOK, OrNothing
<1> QED
  BY <1>1, <1>2, <1>3, <1>4, <1>5, <1>6, StepInv

\* PSOCK_CLOSE and PSOCK_CLOSE_EXIT keep the invariant.
LEMMA CloseInv ==
  ASSUME Inv, NEW c \in Conns, BadRequest(c) \/ Finish(c)
  PROVE  Inv'
<1> DEFINE t == Reset(state[c], "closing")
<1>1. call.conn = c /\ state[c].ripaddr \in Clients /\ state[c] \in HttpdState
  BY HttpdAssumption DEF BadRequest, Finish, Busy, Inv, CallOK, TypeOK
<1>2. t \in HttpdState /\ t.ripaddr = state[c].ripaddr /\ t.nr = state[c].nr /\ StateOK(t)
  BY <1>1, ResetFacts
<1>3. state' = [state EXCEPT ![c] = t] /\ call' = [call EXCEPT !.busy = FALSE]
      /\ UNCHANGED <<connection, owner, huge, evicted>> /\ did' = NoDeed
  BY DEF BadRequest, Finish
<1>4. did' \in Deed /\ did'.what # "tag"
  BY <1>3 DEF NoDeed, Deed, OrNothing
<1>5. huge' \in [1 .. MaxPieces -> OrNothing(DOMAIN Files)]
  BY <1>3 DEF Inv, TypeOK
<1> HIDE DEF t
<1> QED
  BY <1>1, <1>2, <1>3, <1>4, <1>5, StepInv

\* SendAgain keeps the invariant.
LEMMA SendAgainInv ==
  ASSUME Inv, NEW c \in Conns, SendAgain(c)
  PROVE  Inv'
<1>1. call.conn = c /\ state[c] \in HttpdState /\ StateOK(state[c])
  BY DEF SendAgain, Busy, Inv, TypeOK
<1>2. state' = [state EXCEPT ![c] = state[c]] /\ call' = [call EXCEPT !.busy = FALSE]
      /\ UNCHANGED <<connection, owner, huge, evicted>>
  BY DEF SendAgain, Inv, TypeOK
<1>3. did' \in Deed /\ did'.what # "tag"
  BY DEF SendAgain, NoDeed, Deed, OrNothing
<1>4. huge' \in [1 .. MaxPieces -> OrNothing(DOMAIN Files)]
  BY <1>2 DEF Inv, TypeOK
<1> QED
  BY <1>1, <1>2, <1>3, <1>4, StepInv

\* Every step of the protothreads keeps the invariant.
LEMMA WorkInv ==
  ASSUME Inv, NEW c \in Conns, Input(c) \/ Output(c)
  PROVE  Inv'
<1>1. ASSUME NEW f \in DOMAIN Files, Get(c, f)
      PROVE  Inv'
  BY <1>1, GetInv
<1>4. CASE BadRequest(c) \/ Finish(c)
  BY <1>4, CloseInv
<1>5. CASE SendHtml(c)
  BY <1>5, SendHtmlInv
<1>6. ASSUME NEW l \in LuaStates, NEW prints \in BOOLEAN, RunTag(c, l, prints)
      PROVE  Inv'
  BY <1>6, RunTagInv
<1>7. CASE RunTagNoMemory(c)
  BY <1>7, RunTagNoMemoryInv
<1>8. CASE SendAgain(c)
  BY <1>8, SendAgainInv
<1> QED
  BY <1>1, <1>4, <1>5, <1>6, <1>7, <1>8 DEF Input, Output

\* The events uIP calls the application for keep the invariant.
LEMMA EventInv ==
  ASSUME Inv, NEW c \in Conns
  PROVE  /\ \A a \in Clients, event \in {"other", "request"} : Connected(c, a, event) => Inv'
         /\ \A event \in {"request", "acked", "rexmit", "other"} : Called(c, event) => Inv'
         /\ Ended(c) => Inv'
         /\ Forgotten(c) => Inv'
<1>1. state[c] \in HttpdState /\ StateOK(state[c])
  BY DEF Inv, TypeOK
<1>2. ASSUME NEW a \in Clients, NEW event \in {"other", "request"}, Connected(c, a, event)
      PROVE  Inv'
  <2> DEFINE s == Reset(state[c], "waiting")
  <2>1. s \in HttpdState /\ StateOK([s EXCEPT !.ripaddr = a])
    BY <1>1, ResetFacts
  <2>2. Enter(c, a, s, event)
    BY <1>2 DEF Connected
  <2> HIDE DEF s
  <2> QED BY <2>1, <2>2, EnterInv
<1>3. ASSUME NEW event \in {"request", "acked", "rexmit", "other"}, Called(c, event)
      PROVE  Inv'
  <2>1. state[c].ripaddr \in Clients /\ (event = "acked" => state[c].phase = "output")
    BY <1>1, <1>3 DEF Called, StateOK
  <2>2. [state[c] EXCEPT !.ripaddr = state[c].ripaddr] = state[c]
    BY <1>1 DEF HttpdState
  <2> QED BY <1>1, <1>3, <2>1, <2>2, EnterInv DEF Called
<1>4. ASSUME Ended(c)
      PROVE  Inv'
  <2> DEFINE s == Reset(state[c], "closed")
             a == state[c].ripaddr
  <2>1. a \in Clients
    BY <1>1, <1>4 DEF Ended, StateOK
  <2>2. s \in HttpdState /\ StateOK([s EXCEPT !.ripaddr = a])
    BY <1>1, <2>1, ResetFacts
  <2>3. Enter(c, a, s, "other")
    BY <1>4 DEF Ended
  <2> HIDE DEF s, a
  <2> QED BY <2>1, <2>2, <2>3, EnterInv
<1>5. ASSUME Forgotten(c)
      PROVE  Inv'
  <2> DEFINE s == Reset(state[c], "closed")
  <2>1. s \in HttpdState /\ StateOK(s)
    BY <1>1, <1>5, ResetFacts DEF Forgotten, StateOK
  <2>2. state' = [state EXCEPT ![c] = s] /\ call.conn = Nothing
        /\ UNCHANGED <<connection, owner, huge, call, did, evicted>>
    BY <1>5 DEF Forgotten
  <2> HIDE DEF s
  <2>3. TypeOK' /\ \A d \in Conns : StateOK(state'[d])
    BY <2>1, <2>2 DEF Inv, TypeOK
  <2> QED BY <2>2, <2>3 DEF Inv, CallOK, EntriesOK, Served, DeedOK
<1> QED
  BY <1>2, <1>3, <1>4, <1>5

\* Every step keeps the invariant.
LEMMA NextInv == Inv /\ [Next]_vars => Inv'
<1> SUFFICES ASSUME Inv, [Next]_vars PROVE Inv'
  OBVIOUS
<1>1. CASE UNCHANGED vars
  BY <1>1 DEF vars, Inv, TypeOK, StateOK, CallOK, EntriesOK, Served, DeedOK
<1>2. ASSUME NEW c \in Conns, Input(c) \/ Output(c)
      PROVE  Inv'
  BY <1>2, WorkInv
<1>3. ASSUME NEW i \in Slots, Insert(i)
      PROVE  Inv'
  BY <1>3, ReturnInv DEF Insert, Inv, TypeOK
<1>4. CASE Evict
  <2>1. call.conn \in Conns
    BY <1>4 DEF Evict, Return, Inv, TypeOK, Call, OrNothing
  <2>2. Victim \in Slots
    BY <2>1, HttpdAssumption DEF Victim, Inv, TypeOK, HttpdState, Slots
  <2>3. evicted' \subseteq LuaStates
    BY <1>4 DEF Evict, Inv, TypeOK, OrNothing
  <2> QED BY <1>4, <2>2, <2>3, ReturnInv DEF Evict
<1>5. CASE WriteBack
  <2>1. call.conn \in Conns
    BY <1>5 DEF WriteBack, Return, Inv, TypeOK, Call, OrNothing
  <2>2. state[call.conn].nr \in Slots
    BY <2>1 DEF Inv, TypeOK, HttpdState
  <2>3. evicted' \subseteq LuaStates
    BY <1>5 DEF WriteBack, Inv, TypeOK
  <2> QED BY <1>5, <2>2, <2>3, ReturnInv DEF WriteBack
<1> QED
  BY <1>1, <1>2, <1>3, <1>4, <1>5, EventInv DEF Next

\* The invariant holds in every state of every behaviour.
THEOREM Invariance == Spec => []Inv
  BY InitInv, NextInv, PTL DEF Spec

\* Type correctness: every state of the web server has the values of its types;
\* the index that takes a used entry of connection[] never leaves the table.
THEOREM ServerTypes == Spec => []TypeOK
<1>1. Inv => TypeOK
  BY DEF Inv
<1> QED
  BY <1>1, Invariance, PTL

\* httpd_appcall keeps connection[] sound between calls, for any number of
\* clients and entries: its interpreters are open and their clients' own.
THEOREM TableStaysSound == Spec => []TableSound
<1>1. Inv => TableSound
  BY DEF Inv, EntriesOK, Served, TableSound
<1> QED
  BY <1>1, Invariance, PTL

\* http_run_elua never runs a tag in an interpreter of another client, though
\* entries are taken from one client and given to the next.
THEOREM ClientsIsolated == Spec => []ClientIsolation
<1>1. Inv => ClientIsolation
  BY DEF Inv, DeedOK, CallOK, ClientIsolation
<1> QED
  BY <1>1, Invariance, PTL

\* handle_output and http_run_elua start every page with a new interpreter.
THEOREM PagesAreFresh == Spec => []PagesStartFresh
<1>1. Inv => PagesStartFresh
  BY DEF Inv, DeedOK, PagesStartFresh
<1> QED
  BY <1>1, Invariance, PTL

-----------------------------------------------------------------------------
\* An open interpreter is one of an evicted client, that of the call under way,
\* or in the entry of a client that is not being served.
HeldOK ==
  \A l \in LuaStates : owner[l] # Nothing =>
    \/ l \in evicted
    \/ call.conn # Nothing /\ call.L = l
    \/ \E i \in Slots : connection[i].L = l /\ ~Served(connection[i].ripaddr)

\* The beginning of a call takes the client's interpreter out of the table.
LEMMA EnterHeld ==
  ASSUME Inv, HeldOK, NEW c \in Conns, NEW a \in Clients, NEW s, s \in HttpdState,
         NEW event, Enter(c, a, s, event)
  PROVE  HeldOK'
<1>1. /\ call.conn = Nothing /\ c # Nothing /\ a # Nothing
      /\ UNCHANGED <<connection, owner, evicted>>
  BY HttpdAssumption DEF Enter
<1>2. CASE /\ \A i \in Slots : connection[i].ripaddr # a
           /\ state' = [state EXCEPT ![c] = [s EXCEPT !.ripaddr = a]]
           /\ call' = [conn |-> c, event |-> event, isnew |-> TRUE,
                       busy |-> event # "other", L |-> Nothing]
  <2>1. state'[c].ripaddr = a /\ call'.conn = c
    BY <1>2 DEF Inv, TypeOK, HttpdState
  <2> QED BY <1>1, <1>2, <2>1 DEF HeldOK, Served
<1>3. ASSUME NEW i \in Slots, IsEntry(i, a),
             state' = [state EXCEPT ![c] = [s EXCEPT !.ripaddr = a, !.nr = i]],
             call' = [conn |-> c, event |-> event, isnew |-> FALSE,
                      busy |-> event # "other", L |-> connection[i].L]
      PROVE  HeldOK'
  <2>1. state'[c].ripaddr = a /\ call'.conn = c /\ call'.L = connection[i].L
    BY <1>3 DEF Inv, TypeOK, HttpdState
  <2>2. connection[i].ripaddr = a
    BY <1>3 DEF IsEntry
  <2>3. \A j \in Slots : connection[j].ripaddr = a => call'.L = connection[j].L
    BY <1>1, <2>1, <2>2 DEF Inv, EntriesOK
  <2> QED BY <1>1, <2>1, <2>3 DEF HeldOK, Served
<1> QED
  BY <1>2, <1>3 DEF Enter

\* Steps that leave the interpreters and the client alone.
LEMMA SameHeld ==
  ASSUME HeldOK, UNCHANGED <<connection, owner, evicted>>,
         call'.conn = call.conn, call'.L = call.L,
         call.conn # Nothing => state'[call.conn].ripaddr = state[call.conn].ripaddr
  PROVE  HeldOK'
  BY DEF HeldOK, Served

\* A tag: the interpreter that is not the client's any more has been closed.
LEMMA TagHeld ==
  ASSUME Inv, HeldOK, NEW c \in Conns, AtPiece(c, "tag"),
         state' = [state EXCEPT ![c] = AfterTag(c)],
         call'.conn = call.conn, UNCHANGED <<connection, evicted>>,
         \A m \in LuaStates : owner'[m] # Nothing =>
            m = call'.L \/ (owner[m] # Nothing /\ m # call.L)
  PROVE  HeldOK'
<1>1. call.conn = c /\ c # Nothing /\ state'[c].ripaddr = state[c].ripaddr
  BY AtPieceFacts, AfterTagFacts DEF Inv, TypeOK
<1> QED
  BY <1>1 DEF HeldOK, Served

LEMMA RunHeld ==
  ASSUME Inv, HeldOK, NEW c \in Conns,
         \/ RunTagNoMemory(c)
         \/ \E l \in LuaStates, prints \in BOOLEAN : RunTag(c, l, prints)
  PROVE  HeldOK'
<1>1. CASE RunTagNoMemory(c)
  <2>1. call \in Call
    BY DEF Inv, TypeOK
  <2>2. /\ AtPiece(c, "tag") /\ state' = [state EXCEPT ![c] = AfterTag(c)]
        /\ call'.conn = call.conn /\ UNCHANGED <<connection, evicted>>
    BY <1>1, <2>1 DEF RunTagNoMemory, Call
  <2>3. \A m \in LuaStates : owner'[m] # Nothing => owner[m] # Nothing /\ m # call.L
    <3>1. Opens(c) /\ owner' = [m \in LuaStates |-> IF m \in Closes(c) THEN Nothing ELSE owner[m]]
      BY <1>1 DEF RunTagNoMemory
    <3>2. call.L # Nothing => call.L \in Closes(c)
      BY <3>1 DEF Opens, Closes
    <3>3. Nothing \notin LuaStates
      BY HttpdAssumption
    <3> QED BY <3>1, <3>2, <3>3
  <2> QED BY <2>2, <2>3, TagHeld
<1>2. ASSUME NEW l \in LuaStates, NEW prints \in BOOLEAN, RunTag(c, l, prints)
      PROVE  HeldOK'
  <2>1. call \in Call
    BY DEF Inv, TypeOK
  <2>2. /\ AtPiece(c, "tag") /\ state' = [state EXCEPT ![c] = AfterTag(c)]
        /\ call'.conn = call.conn /\ call'.L = l /\ UNCHANGED <<connection, evicted>>
    BY <1>2, <2>1 DEF RunTag, Call
  <2>3. \A m \in LuaStates : owner'[m] # Nothing => m = l \/ (owner[m] # Nothing /\ m # call.L)
    <3>1. /\ owner' = [m \in LuaStates |-> IF m = l /\ Opens(c) THEN state[c].ripaddr
                         ELSE IF m \in Closes(c) THEN Nothing ELSE owner[m]]
          /\ ~Opens(c) => l = call.L
      BY <1>2 DEF RunTag
    <3>2. Opens(c) /\ call.L # Nothing => call.L \in Closes(c)
      BY DEF Opens, Closes
    <3>3. Nothing \notin LuaStates
      BY HttpdAssumption
    <3> QED BY <3>1, <3>2, <3>3
  <2> QED BY <2>2, <2>3, TagHeld
<1> QED
  BY <1>1, <1>2

\* The other steps of the protothreads.
LEMMA WorkHeld ==
  ASSUME Inv, HeldOK, NEW c \in Conns, Input(c) \/ Output(c)
  PROVE  HeldOK'
<1>1. CASE RunTagNoMemory(c) \/ \E l \in LuaStates, prints \in BOOLEAN : RunTag(c, l, prints)
  BY <1>1, RunHeld
<1>2. ASSUME NEW t, t.ripaddr = state[c].ripaddr, call.conn = c,
             state' = [state EXCEPT ![c] = t], call' = [call EXCEPT !.busy = FALSE],
             UNCHANGED <<connection, owner, evicted>>
      PROVE  HeldOK'
  <2>1. /\ call'.conn = call.conn /\ call'.L = call.L
        /\ state'[c].ripaddr = state[c].ripaddr
    BY <1>2 DEF Inv, TypeOK, Call
  <2> QED BY <1>2, <2>1, SameHeld
<1>3. state[c] \in HttpdState
  BY DEF Inv, TypeOK
<1>4. ASSUME NEW f, Get(c, f)
      PROVE  HeldOK'
  <2>1. [state[c] EXCEPT !.phase = "output", !.file = f, !.pos = 0].ripaddr = state[c].ripaddr
    BY <1>3 DEF HttpdState
  <2> QED BY <1>2, <1>4, <2>1 DEF Get, Busy
<1>5. CASE BadRequest(c) \/ Finish(c)
  <2>1. Reset(state[c], "closing").ripaddr = state[c].ripaddr
    BY <1>3, ResetFacts
  <2> QED BY <1>2, <1>5, <2>1 DEF BadRequest, Finish, Busy
<1>6. CASE SendHtml(c)
  <2>1. AtPiece(c, "text") /\ call.conn = c
    BY <1>6 DEF SendHtml, AtPiece, Busy
  <2>2. Begun(c) \in HttpdState /\ Begun(c).ripaddr = state[c].ripaddr
    BY <2>1, BegunAtPiece
  <2>3. [Begun(c) EXCEPT !.pos = @ + 1].ripaddr
          = state[c].ripaddr
    BY <2>2 DEF HttpdState
  <2> QED BY <1>2, <1>6, <2>1, <2>3 DEF SendHtml
<1>7. CASE SendAgain(c)
  <2>1. /\ call.conn = c /\ call' = [call EXCEPT !.busy = FALSE]
        /\ UNCHANGED <<connection, owner, evicted, state>>
    BY <1>7 DEF SendAgain, Busy
  <2>2. call'.conn = call.conn /\ call'.L = call.L
    BY <2>1 DEF Inv, TypeOK, Call
  <2> QED BY <2>1, <2>2, SameHeld
<1> QED
  BY <1>1, <1>4, <1>5, <1>6, <1>7 DEF Input, Output

\* The end of a call: the entry that is overwritten is the client's own, was
\* free, or is evicted.
LEMMA ReturnHeld ==
  ASSUME Inv, HeldOK, NEW i \in Slots, Return(i),
         evicted \subseteq evicted',
         connection[i].L # Nothing =>
           connection[i].L \in evicted' \/ Served(connection[i].ripaddr)
  PROVE  HeldOK'
<1>1. /\ connection' = [connection EXCEPT ![i] = [ripaddr |-> state[call.conn].ripaddr, L |-> call.L]]
      /\ owner' = owner /\ call'.conn = Nothing /\ call.conn # Nothing
  BY DEF Return, Entry, Idle
<1>2. \A j \in Slots : /\ j = i => connection'[j].L = call.L
                       /\ j # i => connection'[j] = connection[j]
  BY <1>1 DEF Inv, TypeOK
<1>3. SUFFICES ASSUME NEW l \in LuaStates, owner[l] # Nothing
               PROVE  l \in evicted' \/ \E j \in Slots : connection'[j].L = l
  BY <1>1 DEF HeldOK, Served
<1>4. l # Nothing
  BY HttpdAssumption
<1>5. CASE l \in evicted
  BY <1>5
<1>6. CASE call.L = l
  BY <1>2, <1>6
<1>7. ASSUME NEW j \in Slots, connection[j].L = l, ~Served(connection[j].ripaddr)
      PROVE  l \in evicted' \/ \E k \in Slots : connection'[k].L = l
  BY <1>2, <1>4, <1>7
<1> QED
  BY <1>3, <1>5, <1>6, <1>7 DEF HeldOK

\* Every step keeps track of the interpreters.
LEMMA NextHeld == Inv /\ HeldOK /\ [Next]_vars => HeldOK'
<1> SUFFICES ASSUME Inv, HeldOK, [Next]_vars PROVE HeldOK'
  OBVIOUS
<1>1. CASE UNCHANGED vars
  BY <1>1, SameHeld DEF vars
<1>2. ASSUME NEW c \in Conns, NEW a \in Clients, NEW event \in {"other", "request"},
             Connected(c, a, event)
      PROVE  HeldOK'
  <2>1. state[c] \in HttpdState
    BY DEF Inv, TypeOK
  <2>2. Reset(state[c], "waiting") \in HttpdState
    BY <2>1, ResetFacts
  <2> QED BY <1>2, <2>2, EnterHeld DEF Connected
<1>3. ASSUME NEW c \in Conns, NEW event \in {"request", "acked", "rexmit", "other"},
             Called(c, event)
      PROVE  HeldOK'
  <2>1. state[c] \in HttpdState /\ state[c].ripaddr \in Clients
    BY <1>3 DEF Inv, TypeOK, StateOK, Called
  <2> QED BY <1>3, <2>1, EnterHeld DEF Called
<1>4. ASSUME NEW c \in Conns, Ended(c)
      PROVE  HeldOK'
  <2>1. state[c] \in HttpdState /\ state[c].ripaddr \in Clients
    BY <1>4 DEF Inv, TypeOK, StateOK, Ended
  <2>2. Reset(state[c], "closed") \in HttpdState
    BY <2>1, ResetFacts
  <2> QED BY <1>4, <2>1, <2>2, EnterHeld DEF Ended
<1>5. ASSUME NEW c \in Conns, Forgotten(c)
      PROVE  HeldOK'
  BY <1>5, SameHeld DEF Forgotten
<1>6. ASSUME NEW c \in Conns, Input(c) \/ Output(c)
      PROVE  HeldOK'
  BY <1>6, WorkHeld
<1>7. ASSUME NEW i \in Slots, Insert(i)
      PROVE  HeldOK'
  <2>1. connection[i].L = Nothing
    BY <1>7 DEF Insert, IsEntry, Inv, EntriesOK
  <2> QED BY <1>7, <2>1, ReturnHeld DEF Insert
<1>8. CASE Evict
  <2>1. call.conn \in Conns
    BY <1>8 DEF Evict, Return, Inv, TypeOK, Call, OrNothing
  <2>2. Victim \in Slots
    BY <2>1, HttpdAssumption DEF Victim, Inv, TypeOK, HttpdState, Slots
  <2>3. connection[Victim].L # Nothing => connection[Victim].L \in evicted'
    BY <1>8, <2>2 DEF Evict
  <2>4. evicted \subseteq evicted' /\ Return(Victim)
    BY <1>8 DEF Evict
  <2> QED BY <2>2, <2>3, <2>4, ReturnHeld
<1>9. CASE WriteBack
  <2>1. call.conn \in Conns /\ call.conn # Nothing
    BY <1>9 DEF WriteBack, Return, Inv, TypeOK, Call, OrNothing
  <2>2. state[call.conn].nr \in Slots
    BY <2>1 DEF Inv, TypeOK, HttpdState
  <2>3. Served(connection[state[call.conn].nr].ripaddr)
    BY <1>9, <2>1 DEF WriteBack, Inv, CallOK, Served
  <2> QED BY <1>9, <2>2, <2>3, ReturnHeld DEF WriteBack
<1> QED
  BY <1>1, <1>2, <1>3, <1>4, <1>5, <1>6, <1>7, <1>8, <1>9 DEF Next

\* No interpreter leaks but those of clients whose entry is taken: neither two
\* connections of one client nor a failure of lua_open() loses one.
THEOREM NothingElseLeaks == Spec => []NoLeak
<1>1. Init => HeldOK
  BY DEF Init, HeldOK
<1>2. HeldOK => NoLeak
  BY DEF HeldOK, NoLeak
<1> QED
  BY <1>1, <1>2, NextHeld, Invariance, PTL DEF Spec
=============================================================================
