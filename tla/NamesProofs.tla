---------------------------- MODULE NamesProofs -----------------------------
(***************************************************************************)
(* Proofs about the addresses the board learns: Names (DHCP and DNS) and,  *)
(* at the end, the ARP table.                                              *)
(*                                                                         *)
(* Names, for any servers and names, every size of the table and every     *)
(* limit: the addresses the board uses come from a lease, an entry only    *)
(* takes answers to its own questions, and a lookup is not given up before *)
(* the DNS server has been asked.                                          *)
(*                                                                         *)
(* The invariant has a part for each component, DhcpInv and ResolvInv, and *)
(* one for their composition: OneQuery, that nothing but the entry of the  *)
(* task is being asked for, and FirstTry, on where its first question is.  *)
(***************************************************************************)
EXTENDS Names, Arp, WellFoundedInduction, TLAPS

(* An acknowledgment on its way is from a server that has leased.          *)
DhcpInv ==
  /\ DhcpTypeOK
  /\ \A m \in dhcpNet : m.type = "ack" => m.from \in bound
  /\ LeaseFromServer

Entry == [state : {"unused", "new", "asking", "done", "error"},
          tmr : 0..MAX_RETRIES, retries : 0..MAX_RETRIES, seqno : 0..SEQNOS - 1,
          name : HostNames \cup {Nobody}, ipaddr : HostNames \cup {Nobody}]

(* Nothing is to be done for the entry.                                    *)
Ended(e) == e.state \in {"unused", "done", "error"}

(* A name that is asked for has a poll to wait for and a retry left; an    *)
(* address was given under the number of the entry.                        *)
EntrySound(i, e) ==
  /\ e \in Entry
  /\ ~ Ended(e) => e.name \in HostNames
  /\ e.state = "asking" => e.tmr >= 1 /\ e.retries < MAX_RETRIES
  /\ e.ipaddr # Nobody => <<i, e.ipaddr>> \in asked

ResolvInv ==
  /\ ResolvTypeOK
  /\ \A i \in Slots : EntrySound(i, names[i])

TaskTypeOK ==
  /\ turn \in {"packet", "dhcp", "dns"}
  /\ task \in {"idle", "query", "seqno", "wait"}
  /\ name \in HostNames \cup {Nobody}
  /\ slot \in Slots
  /\ reached \in BOOLEAN
  /\ last \in [name : HostNames \cup {Nobody}, ip : HostNames \cup {Nobody}]
  /\ lookups \in 0..MaxLookups

(* The task has an entry in the table.                                     *)
Querying == task \in {"seqno", "wait"}

(* Only the entry of the task is asked for, and elua_resolv_req_done tells *)
(* of that one.                                                            *)
OneQuery ==
  /\ \A i \in Slots : ~ Ended(names[i]) => Querying /\ i = slot
  /\ Querying /\ done => Ended(names[slot])
  /\ task = "query" => ~ done /\ name \in HostNames

(* A question that has not reached the DNS server has not been sent at     *)
(* all, or once, by the poll of the DHCP client just before.               *)
FirstTry ==
  Querying /\ ~ reached =>
    \/ names[slot].state = "new"
    \/ /\ names[slot].state = "asking" /\ names[slot].tmr = 1 /\ names[slot].retries = 0
       /\ turn = "dns" /\ configured

Inv == DhcpInv /\ ResolvInv /\ TaskTypeOK /\ OneQuery

(* What the resolver does to its table on its own: an entry that has ended *)
(* stays as it is, and the end of a request is told when an entry ends.    *)
Settles ==
  /\ \A i \in Slots : Ended(names[i]) => names'[i] = names[i]
  /\ \/ UNCHANGED <<done, ip>>
     \/ \E i \in Slots : ~ Ended(names[i]) /\ Ended(names'[i])

-----------------------------------------------------------------------------
(* The DHCP client *)

(* parse_msg keeps the type of s, and takes every option that the server   *)
(* sends from the message.                                                 *)
LEMMA ParsedFacts ==
  ASSUME DhcpTypeOK, NEW m \in Replies
  PROVE  /\ Parsed(m) \in Lease
         /\ m.type = "ack" => /\ m.from \in Servers /\ Parsed(m).ip = m.from
                              /\ \A o \in Provides[m.from] : Parsed(m)[o] = m.from
  <1>1. s \in Lease
    BY DEF DhcpTypeOK
  <1>2. CASE m = Foreign
    <2>1. Parsed(m) = s /\ m.type = "foreign"
      BY <1>2 DEF Parsed, Foreign
    <2> QED BY <1>1, <2>1
  <1>3. CASE m # Foreign
    <2>1. m \in [type : {"offer", "ack", "nak"}, from : Servers]
      BY <1>3 DEF Replies
    <2> DEFINE addr == IF m.type = "nak" THEN None ELSE m.from
               rt == IF "router" \in Provides[m.from] THEN m.from ELSE s["router"]
               dn == IF "dns" \in Provides[m.from] THEN m.from ELSE s["dns"]
    <2>2. Parsed(m) = [ip |-> addr, serverid |-> m.from, router |-> rt, dns |-> dn]
      BY <1>3 DEF Parsed
    <2>3. s["router"] \in Servers \cup {None} /\ s["dns"] \in Servers \cup {None}
      BY <1>1 DEF Lease
    <2>4. m.from \in Servers
      BY <2>1
    <2>5. /\ addr \in Servers \cup {None} /\ rt \in Servers \cup {None}
          /\ dn \in Servers \cup {None}
      BY <2>3, <2>4
    <2>6. Parsed(m) \in Lease
      BY <2>2, <2>4, <2>5 DEF Lease
    <2>7. ASSUME m.type = "ack", NEW o \in Provides[m.from] PROVE Parsed(m)[o] = m.from
      <3>1. o = "router" \/ o = "dns"
        BY <2>4, <2>7, DhcpcAssumption DEF Options
      <3>2. CASE o = "router"
        BY <2>2, <2>7, <3>2
      <3>3. CASE o = "dns"
        BY <2>2, <2>7, <3>3
      <3> QED BY <3>1, <3>2, <3>3
    <2>8. m.type = "ack" => Parsed(m).ip = m.from
      BY <2>2
    <2> QED BY <2>4, <2>6, <2>7, <2>8
  <1> QED BY <1>2, <1>3

(* Messages are added to the network, servers lease: nothing is taken back.*)
LEMMA NetGrows ==
  ASSUME DhcpInv, UNCHANGED config,
         dhcpNet' \subseteq Replies, bound \subseteq bound', bound' \subseteq Servers,
         \A m \in dhcpNet' : m.type = "ack" => m.from \in bound'
  PROVE  /\ \A m \in dhcpNet' : m.type = "ack" => m.from \in bound'
         /\ LeaseFromServer'
  BY DEF DhcpInv, LeaseFromServer

LEMMA DiscoverKeeps ==
  ASSUME DhcpInv, SendDiscover
  PROVE  /\ dhcpNet' \subseteq Replies /\ bound \subseteq bound' /\ bound' \subseteq Servers
         /\ \A m \in dhcpNet' : m.type = "ack" => m.from \in bound'
  BY DEF DhcpInv, DhcpTypeOK, SendDiscover, Offers, Replies

LEMMA RequestKeeps ==
  ASSUME DhcpInv, NEW t \in Lease, SendRequest(t)
  PROVE  /\ dhcpNet' \subseteq Replies /\ bound \subseteq bound' /\ bound' \subseteq Servers
         /\ \A m \in dhcpNet' : m.type = "ack" => m.from \in bound'
  <1>1. dhcpNet \subseteq Replies /\ bound \subseteq Servers
        /\ \A m \in dhcpNet : m.type = "ack" => m.from \in bound
    BY DEF DhcpInv, DhcpTypeOK
  <1>2. CASE t.serverid = None
    BY <1>1, <1>2 DEF SendRequest
  <1>3. CASE t.serverid # None
    <2>1. t.serverid \in Servers
      BY <1>3 DEF Lease
    <2>2. \/ /\ dhcpNet' = dhcpNet \cup {[type |-> "ack", from |-> t.serverid]}
             /\ bound' = bound \cup {t.serverid}
          \/ /\ dhcpNet' = dhcpNet \cup {[type |-> "nak", from |-> t.serverid]}
             /\ bound' = bound
      BY <1>3 DEF SendRequest
    <2> QED BY <1>1, <2>1, <2>2 DEF Replies
  <1> QED BY <1>2, <1>3

LEMMA BeginKeeps ==
  ASSUME DhcpInv, NEW newdata \in BOOLEAN, Begin(newdata)
  PROVE  DhcpInv' /\ UNCHANGED config
  <1>1. /\ pt' = "offer" /\ ticks' \in {1, 2} /\ SendDiscover /\ UNCHANGED <<s, config>>
    BY DEF Begin
  <1>2. ticks' \in 0..(2 * DiscoverLimit + RequestLimit + 2)
    BY <1>1, DhcpcAssumption
  <1>3. /\ dhcpNet' \subseteq Replies /\ bound \subseteq bound' /\ bound' \subseteq Servers
        /\ \A m \in dhcpNet' : m.type = "ack" => m.from \in bound'
    BY <1>1, DiscoverKeeps
  <1>4. DhcpTypeOK'
    BY <1>1, <1>2, <1>3 DEF DhcpInv, DhcpTypeOK
  <1> QED BY <1>1, <1>3, <1>4, NetGrows DEF DhcpInv

LEMMA NoOfferKeeps ==
  ASSUME DhcpInv, NEW t \in Lease, NoOffer(t)
  PROVE  DhcpInv' /\ (configured => configured')
  <1>1. CASE ticks < DiscoverLimit
    <2>1. s' = t /\ ticks' = 2 * ticks /\ SendDiscover /\ UNCHANGED <<pt, config>>
      BY <1>1 DEF NoOffer
    <2>2. ticks' \in 0..(2 * DiscoverLimit + RequestLimit + 2)
      BY <1>1, <2>1, DhcpcAssumption DEF DhcpInv, DhcpTypeOK
    <2>3. /\ dhcpNet' \subseteq Replies /\ bound \subseteq bound' /\ bound' \subseteq Servers
          /\ \A m \in dhcpNet' : m.type = "ack" => m.from \in bound'
      BY <2>1, DiscoverKeeps
    <2>4. DhcpTypeOK'
      BY <2>1, <2>2, <2>3 DEF DhcpInv, DhcpTypeOK
    <2> QED BY <2>1, <2>3, <2>4, NetGrows DEF DhcpInv, configured
  <1>2. CASE ~ (ticks < DiscoverLimit)
    <2> DEFINE u == [t EXCEPT !.ip = None]
    <2>1. u \in Lease /\ u.ip = None
      BY DEF Lease
    <2>2. s' = u /\ Configured(u) /\ UNCHANGED ticks
      BY <1>2 DEF NoOffer
    <2> HIDE DEF u
    <2>3. pt' = "yield" /\ config' = Static /\ UNCHANGED <<dhcpNet, bound>>
      BY <2>1, <2>2 DEF Configured
    <2>4. DhcpTypeOK'
      BY <2>1, <2>2, <2>3 DEF DhcpInv, DhcpTypeOK
    <2>5. config'.ip \notin Servers /\ config'.ip # None
      BY <2>3, DhcpcAssumption DEF Static
    <2>6. LeaseFromServer' /\ configured'
      BY <2>5 DEF LeaseFromServer, configured
    <2> QED BY <2>3, <2>4, <2>6 DEF DhcpInv
  <1> QED BY <1>1, <1>2

LEMMA GotOfferKeeps ==
  ASSUME DhcpInv, NEW m \in dhcpNet, GotOffer(m)
  PROVE  DhcpInv' /\ UNCHANGED config
  <1>1. /\ s' = Parsed(m) /\ pt' = "ack" /\ ticks' = 1 /\ SendRequest(Parsed(m))
        /\ UNCHANGED config
    BY DEF GotOffer
  <1>2. Parsed(m) \in Lease
    BY ParsedFacts DEF DhcpInv, DhcpTypeOK
  <1>3. /\ dhcpNet' \subseteq Replies /\ bound \subseteq bound' /\ bound' \subseteq Servers
        /\ \A x \in dhcpNet' : x.type = "ack" => x.from \in bound'
    BY <1>1, <1>2, RequestKeeps
  <1>4. ticks' \in 0..(2 * DiscoverLimit + RequestLimit + 2)
    BY <1>1, DhcpcAssumption
  <1>5. DhcpTypeOK'
    BY <1>1, <1>2, <1>3, <1>4 DEF DhcpInv, DhcpTypeOK
  <1> QED BY <1>1, <1>3, <1>5, NetGrows DEF DhcpInv

LEMMA NoAckKeeps ==
  ASSUME DhcpInv, NEW t \in Lease, NoAck(t)
  PROVE  DhcpInv' /\ UNCHANGED config
  <1>1. s' = t /\ UNCHANGED config
    BY DEF NoAck
  <1>2. /\ dhcpNet' \subseteq Replies /\ bound \subseteq bound' /\ bound' \subseteq Servers
        /\ \A m \in dhcpNet' : m.type = "ack" => m.from \in bound'
        /\ pt' \in {"ack", "begin"}
        /\ ticks' \in 0..(2 * DiscoverLimit + RequestLimit + 2)
    <2>1. CASE ticks <= RequestLimit
      <3>1. ticks' = ticks + 1 /\ SendRequest(t) /\ pt' = pt /\ pt = "ack"
        BY <2>1 DEF NoAck
      <3>2. ticks' \in 0..(2 * DiscoverLimit + RequestLimit + 2)
        BY <2>1, <3>1, DhcpcAssumption DEF DhcpInv, DhcpTypeOK
      <3> QED BY <3>1, <3>2, RequestKeeps
    <2>2. CASE ~ (ticks <= RequestLimit)
      BY <2>2 DEF NoAck, DhcpInv, DhcpTypeOK
    <2> QED BY <2>1, <2>2
  <1>3. DhcpTypeOK'
    BY <1>1, <1>2 DEF DhcpInv, DhcpTypeOK
  <1> QED BY <1>1, <1>2, <1>3, NetGrows DEF DhcpInv

(* The acknowledgment names the lease, whatever came before it.            *)
LEMMA GotAckKeeps ==
  ASSUME DhcpInv, NEW m \in dhcpNet, GotAck(m)
  PROVE  DhcpInv' /\ configured'
  <1>1. s' = Parsed(m) /\ Configured(Parsed(m)) /\ UNCHANGED ticks /\ m.type = "ack"
    BY DEF GotAck, IsAck
  <1>2. m \in Replies /\ m.from \in bound
    BY <1>1 DEF DhcpInv, DhcpTypeOK
  <1>3. /\ Parsed(m) \in Lease /\ m.from \in Servers /\ Parsed(m).ip = m.from
        /\ \A o \in Provides[m.from] : Parsed(m)[o] = m.from
    BY <1>1, <1>2, ParsedFacts DEF DhcpInv
  <1>4. pt' = "yield" /\ config' = Parsed(m) /\ UNCHANGED <<dhcpNet, bound>>
    BY <1>1, <1>3, DhcpcAssumption DEF Configured
  <1>5. DhcpTypeOK'
    BY <1>1, <1>3, <1>4 DEF DhcpInv, DhcpTypeOK
  <1>6. LeaseFromServer' /\ configured'
    BY <1>2, <1>3, <1>4, DhcpcAssumption DEF LeaseFromServer, configured
  <1> QED BY <1>4, <1>5, <1>6 DEF DhcpInv

(* handle_dhcp.                                                            *)
LEMMA DhcpKeeps ==
  ASSUME DhcpInv,
         \/ UNCHANGED dhcpVars
         \/ \E m \in dhcpNet : DhcpNewdata(m)
         \/ \E e \in BOOLEAN : DhcpPoll(e)
  PROVE  DhcpInv' /\ (configured => configured')
  <1>1. CASE UNCHANGED dhcpVars
    BY <1>1 DEF dhcpVars, DhcpInv, DhcpTypeOK, LeaseFromServer, configured
  <1>2. s \in Lease /\ \A m \in dhcpNet : Parsed(m) \in Lease
    BY ParsedFacts DEF DhcpInv, DhcpTypeOK
  <1>3. UNCHANGED config => (configured => configured')
    BY DEF configured
  <1>4. CASE \E m \in dhcpNet : DhcpNewdata(m)
    BY <1>1, <1>2, <1>3, <1>4, BeginKeeps, NoOfferKeeps, GotOfferKeeps, NoAckKeeps,
       GotAckKeeps DEF DhcpNewdata
  <1>5. CASE \E e \in BOOLEAN : DhcpPoll(e)
    BY <1>1, <1>2, <1>3, <1>5, BeginKeeps, NoOfferKeeps, NoAckKeeps DEF DhcpPoll
  <1> QED BY <1>1, <1>4, <1>5

-----------------------------------------------------------------------------
(* The resolver *)

(* The first of some entries.                                              *)
LEMMA FirstSlot ==
  ASSUME NEW S \in SUBSET Slots, S # {}
  PROVE  Least(S) \in S
  <1> DEFINE R == {p \in Nat \X Nat : p[1] < p[2]}
  <1>1. IsWellFoundedOn(R, Nat)
    BY NatLessThanWellFounded DEF OpToRel
  <1>2. S \subseteq Nat
    BY DEF Slots
  <1>3. PICK i \in S : \A j \in S : ~ (<<j, i>> \in R)
    BY <1>1, <1>2, WFMin
  <1>4. ASSUME NEW j \in S PROVE ~ (j < i)
    BY <1>2, <1>3
  <1>5. \A j \in S : i <= j
    BY <1>2, <1>4
  <1> QED BY <1>5 DEF Least

(* resolv_query takes an entry of the table.                               *)
LEMMA TakenIsSlot == Taken \in Slots
  <1> DEFINE unused == {i \in Slots : names[i].state = "unused"}
             diff(i) == seqno - names[i].seqno
             oldest == {i \in Slots : diff(i) > 0 /\ \A j \in Slots : diff(j) <= diff(i)}
  <1>1. Taken = IF unused # {} THEN Least(unused) ELSE Stalest
    BY DEF Taken
  <1>2. Stalest = IF oldest = {} THEN 0 ELSE Least(oldest)
    BY DEF Stalest
  <1>3. unused \in SUBSET Slots /\ oldest \in SUBSET Slots
    OBVIOUS
  <1>4. 0 \in Slots
    BY ResolvAssumption DEF Slots
  <1> HIDE DEF unused, oldest
  <1> QED BY <1>1, <1>2, <1>3, <1>4, FirstSlot

(* check_entries starts a new entry, counts down the one that is asked for *)
(* or gives it up, and leaves the others alone.                            *)
LEMMA PolledFacts ==
  ASSUME NEW e \in Entry, e.state = "asking" => e.tmr >= 1 /\ e.retries < MAX_RETRIES
  PROVE  /\ Polled(e) \in Entry
         /\ Polled(e).name = e.name /\ Polled(e).ipaddr = e.ipaddr
         /\ Ended(e) => Polled(e) = e
         /\ GivesUp(e) => Ended(Polled(e))
         /\ Polled(e).state = "asking" =>
              Polled(e).tmr >= 1 /\ Polled(e).retries < MAX_RETRIES
         /\ e.state = "new" => /\ Polled(e).state = "asking" /\ Polled(e).tmr = 1
                               /\ Polled(e).retries = 0
  <1>1. /\ MAX_RETRIES \in Nat \ {0} /\ e.tmr \in 0..MAX_RETRIES
        /\ e.retries \in 0..MAX_RETRIES
    BY ResolvAssumption DEF Entry
  <1>2. CASE e.state = "new"
    <2>1. Polled(e) = [e EXCEPT !.state = "asking", !.tmr = 1, !.retries = 0]
      BY <1>2 DEF Polled
    <2>2. Polled(e) \in Entry
      <3>1. 1 \in 0..MAX_RETRIES /\ 0 \in 0..MAX_RETRIES
        BY <1>1
      <3> QED BY <2>1, <3>1 DEF Entry
    <2>3. /\ Polled(e).state = "asking" /\ Polled(e).tmr = 1 /\ Polled(e).retries = 0
          /\ Polled(e).name = e.name /\ Polled(e).ipaddr = e.ipaddr
      BY <2>1 DEF Entry
    <2>4. 1 >= 1 /\ 0 < MAX_RETRIES
      BY <1>1
    <2> QED BY <1>2, <2>2, <2>3, <2>4 DEF Ended, GivesUp
  <1>3. CASE e.state \notin {"new", "asking"}
    BY <1>3 DEF Polled, GivesUp, Ended
  <1>4. CASE e.state = "asking" /\ e.tmr # 1
    <2>1. Polled(e) = [e EXCEPT !.tmr = e.tmr - 1]
      BY <1>4 DEF Polled
    <2>2. e.tmr - 1 \in 1..MAX_RETRIES
      BY <1>1, <1>4
    <2>3. Polled(e) \in Entry
      BY <2>1, <2>2 DEF Entry
    <2>4. /\ Polled(e).state = "asking" /\ Polled(e).tmr = e.tmr - 1
          /\ Polled(e).retries = e.retries
          /\ Polled(e).name = e.name /\ Polled(e).ipaddr = e.ipaddr
      BY <1>4, <2>1 DEF Entry
    <2>5. e.tmr - 1 >= 1
      BY <2>2
    <2> QED BY <1>4, <2>3, <2>4, <2>5 DEF Ended, GivesUp
  <1>5. CASE GivesUp(e)
    <2>1. Polled(e) = [e EXCEPT !.state = "error", !.retries = MAX_RETRIES, !.tmr = 0]
      BY <1>5 DEF Polled, GivesUp
    <2>2. Polled(e) \in Entry
      <3>1. MAX_RETRIES \in 0..MAX_RETRIES /\ 0 \in 0..MAX_RETRIES
        BY <1>1
      <3> QED BY <2>1, <3>1 DEF Entry
    <2>3. /\ Polled(e).state = "error"
          /\ Polled(e).name = e.name /\ Polled(e).ipaddr = e.ipaddr
      BY <2>1 DEF Entry
    <2> QED BY <1>5, <2>2, <2>3 DEF Ended, GivesUp
  <1>6. CASE e.state = "asking" /\ e.tmr = 1 /\ ~ GivesUp(e)
    <2>1. Polled(e) = [e EXCEPT !.retries = e.retries + 1, !.tmr = e.retries + 1]
      BY <1>6 DEF Polled
    <2>2. e.retries + 1 \in 0..MAX_RETRIES /\ e.retries + 1 < MAX_RETRIES
      BY <1>1, <1>6 DEF GivesUp
    <2>3. Polled(e) \in Entry
      <3> DEFINE n == e.retries + 1
      <3>1. n \in 0..MAX_RETRIES /\ Polled(e) = [e EXCEPT !.retries = n, !.tmr = n]
        BY <2>1, <2>2
      <3> HIDE DEF n
      <3> QED BY <3>1 DEF Entry
    <2>4. /\ Polled(e).state = "asking" /\ Polled(e).tmr = e.retries + 1
          /\ Polled(e).retries = e.retries + 1
          /\ Polled(e).name = e.name /\ Polled(e).ipaddr = e.ipaddr
      BY <1>6, <2>1 DEF Entry
    <2>5. e.retries + 1 >= 1
      BY <1>1
    <2> QED BY <1>6, <2>2, <2>3, <2>4, <2>5 DEF Ended
  <1> QED BY <1>2, <1>3, <1>4, <1>5, <1>6 DEF Entry

(* A step that keeps the types and every entry sound.                      *)
LEMMA EntriesKept ==
  ASSUME ResolvInv,
         names' \in [Slots -> Entry],
         \A i \in Slots : EntrySound(i, names[i])',
         seqno' \in 0..SEQNOS - 1, done' \in BOOLEAN, ip' \in HostNames \cup {Nobody},
         asked' \subseteq Slots \X HostNames
  PROVE  ResolvInv'
  BY DEF ResolvInv, ResolvTypeOK, Entry

(* check_entries: nothing new is to be asked, and only a name that was     *)
(* asked for is reported as given up.                                      *)
LEMMA CheckKeeps ==
  ASSUME ResolvInv, NEW toServer \in BOOLEAN, CheckEntries(toServer)
  PROVE  /\ ResolvInv'
         /\ Settles
         /\ \A i \in Sent : names'[i] = Polled(names[i])
  <1> DEFINE seen == {i \in Slots : \A j \in Sent : i <= j}
  <1>1. /\ names' = [i \in Slots |-> IF i \in seen THEN Polled(names[i]) ELSE names[i]]
        /\ IF \E i \in seen : GivesUp(names[i]) THEN Found(Nobody) ELSE UNCHANGED <<done, ip>>
        /\ asked' = IF toServer
                    THEN asked \cup {<<i, names[i].name>> : i \in Sent} ELSE asked
        /\ seqno' = seqno
    BY DEF CheckEntries
  <1>2. /\ names \in [Slots -> Entry] /\ asked \subseteq Slots \X HostNames
        /\ \A i \in Slots : EntrySound(i, names[i])
    BY DEF ResolvInv, ResolvTypeOK, Entry
  <1>3. ASSUME NEW i \in Slots
        PROVE  /\ names[i] \in Entry
               /\ names[i].state = "asking" =>
                    names[i].tmr >= 1 /\ names[i].retries < MAX_RETRIES
    BY <1>2 DEF EntrySound
  <1>4. asked \subseteq asked' /\ asked' \subseteq Slots \X HostNames
    <2>1. ASSUME NEW i \in Sent PROVE i \in Slots /\ names[i].name \in HostNames
      BY <1>2 DEF Sent, Queries, EntrySound, Ended
    <2> QED BY <1>1, <1>2, <2>1
  <1>5. Sent \subseteq seen
    <2>1. ASSUME NEW i \in Sent, NEW j \in Sent PROVE i <= j
      BY DEF Sent
    <2> QED BY <2>1 DEF Sent
  <1> HIDE DEF seen
  <1>6. seen \subseteq Slots
    BY DEF seen
  <1>7. ASSUME NEW i \in Slots
        PROVE  /\ names'[i] = names[i] \/ names'[i] = Polled(names[i])
               /\ i \in seen => names'[i] = Polled(names[i])
    BY <1>1
  <1>8. ASSUME NEW i \in Slots
        PROVE  /\ names'[i] \in Entry
               /\ names'[i].name = names[i].name /\ names'[i].ipaddr = names[i].ipaddr
               /\ Ended(names[i]) => names'[i] = names[i]
               /\ names'[i].state = "asking" =>
                    names'[i].tmr >= 1 /\ names'[i].retries < MAX_RETRIES
    BY <1>3, <1>7, PolledFacts
  <1>9. ASSUME NEW i \in Slots PROVE EntrySound(i, names[i])'
    <2>1. ~ Ended(names'[i]) => names'[i].name \in HostNames
      BY <1>2, <1>8 DEF EntrySound
    <2>2. names'[i].ipaddr # Nobody => <<i, names'[i].ipaddr>> \in asked'
      BY <1>2, <1>4, <1>8 DEF EntrySound
    <2> QED BY <1>8, <2>1, <2>2 DEF EntrySound, Ended
  <1>10. /\ done' \in BOOLEAN /\ ip' \in HostNames \cup {Nobody}
         /\ seqno' \in 0..SEQNOS - 1
    BY <1>1 DEF Found, ResolvInv, ResolvTypeOK
  <1>11. names' \in [Slots -> Entry]
    BY <1>1, <1>8
  <1>12. ResolvInv'
    BY <1>4, <1>9, <1>10, <1>11, EntriesKept
  <1>13. ASSUME NEW i \in seen, GivesUp(names[i])
         PROVE  i \in Slots /\ ~ Ended(names[i]) /\ Ended(names'[i])
    <2>1. i \in Slots /\ names'[i] = Polled(names[i])
      BY <1>6, <1>7
    <2>2. Ended(Polled(names[i]))
      BY <1>3, <1>13, <2>1, PolledFacts
    <2> QED BY <1>13, <2>1, <2>2 DEF GivesUp, Ended
  <1>14. Settles
    BY <1>1, <1>8, <1>13 DEF Settles
  <1>15. ASSUME NEW i \in Sent PROVE names'[i] = Polled(names[i])
    BY <1>5, <1>6, <1>7
  <1> QED BY <1>12, <1>14, <1>15

(* newdata: an answer ends the entry it is for, with an address that was   *)
(* asked for under its number.                                             *)
LEMMA AnswerKeeps ==
  ASSUME ResolvInv, NEW m \in InFlight, Newdata(m)
  PROVE  ResolvInv' /\ Settles
  <1>1. /\ m.id \in Slots /\ m.name \in HostNames /\ <<m.id, m.name>> \in asked
        /\ asked' = asked /\ seqno' = seqno
    BY DEF InFlight, Answers, Newdata
  <1>2. /\ names \in [Slots -> Entry] /\ asked \subseteq Slots \X HostNames
        /\ done \in BOOLEAN /\ ip \in HostNames \cup {Nobody} /\ seqno \in 0..SEQNOS - 1
        /\ \A i \in Slots : EntrySound(i, names[i])
    BY DEF ResolvInv, ResolvTypeOK, Entry
  <1>3. CASE UNCHANGED <<names, done, ip>>
    <2>1. \A i \in Slots : EntrySound(i, names[i])'
      BY <1>1, <1>2, <1>3 DEF EntrySound, Ended
    <2> QED BY <1>1, <1>2, <1>3, <2>1, EntriesKept DEF Settles
  <1>4. CASE EntryOf(m) # {} /\ ~ UNCHANGED <<names, done, ip>>
    <2> DEFINE k == m.id
    <2>1. names[k].state = "asking"
      BY <1>4 DEF EntryOf
    <2>2. \/ /\ names' = [names EXCEPT ![k].state = "error"]
             /\ ip' = Nobody /\ done' = TRUE
          \/ /\ names' = [names EXCEPT ![k].state = "done"]
             /\ UNCHANGED <<done, ip>>
          \/ /\ names' = [names EXCEPT ![k].state = "done", ![k].ipaddr = m.name]
             /\ ip' = m.name /\ done' = TRUE
      BY <1>4 DEF Newdata, EntryOf, Found
    <2>3. \A i \in Slots : i # k => names'[i] = names[i]
      BY <1>2, <2>2
    <2>4. names[k] \in Entry
      BY <1>1, <1>2
    <2>5. /\ names'[k] \in Entry /\ Ended(names'[k])
          /\ names'[k].ipaddr = names[k].ipaddr \/ names'[k].ipaddr = m.name
      <3>1. \/ names'[k] = [names[k] EXCEPT !.state = "error"]
            \/ names'[k] = [names[k] EXCEPT !.state = "done"]
            \/ names'[k] = [names[k] EXCEPT !.state = "done", !.ipaddr = m.name]
        BY <1>1, <1>2, <2>2
      <3> QED BY <1>1, <2>4, <3>1 DEF Entry, Ended
    <2>6. names' \in [Slots -> Entry]
      <3>1. \A i \in Slots : names'[i] \in Entry
        BY <1>2, <2>3, <2>5
      <3>2. names' = [i \in Slots |-> names'[i]]
        BY <1>2, <2>2
      <3> QED BY <3>1, <3>2
    <2>7. ASSUME NEW i \in Slots PROVE EntrySound(i, names[i])'
      <3>1. CASE i = k
        <4>1. names'[k].ipaddr # Nobody => <<k, names'[k].ipaddr>> \in asked'
          BY <1>1, <1>2, <2>5 DEF EntrySound
        <4> QED BY <2>5, <3>1, <4>1 DEF EntrySound, Ended
      <3>2. CASE i # k
        BY <1>1, <1>2, <2>3, <3>2 DEF EntrySound, Ended
      <3> QED BY <3>1, <3>2
    <2>8. done' \in BOOLEAN /\ ip' \in HostNames \cup {Nobody}
      BY <1>1, <1>2, <2>2
    <2>9. ~ Ended(names[k])
      BY <2>1 DEF Ended
    <2>10. Settles
      BY <1>1, <2>3, <2>5, <2>9 DEF Settles
    <2> QED BY <1>1, <1>2, <2>6, <2>7, <2>8, <2>10, EntriesKept
  <1>5. EntryOf(m) = {} => UNCHANGED <<names, done, ip>>
    BY DEF Newdata
  <1> QED BY <1>3, <1>4, <1>5

(* newdata, given a DHCP message: an entry may end silently.               *)
LEMMA DhcpMessageKeeps ==
  ASSUME ResolvInv, NewdataDhcp
  PROVE  ResolvInv' /\ Settles
  <1>1. /\ names \in [Slots -> Entry] /\ asked \subseteq Slots \X HostNames
        /\ done \in BOOLEAN /\ ip \in HostNames \cup {Nobody} /\ seqno \in 0..SEQNOS - 1
        /\ \A i \in Slots : EntrySound(i, names[i])
    BY DEF ResolvInv, ResolvTypeOK, Entry
  <1>2. /\ names' = [i \in Slots |-> IF i = 1 /\ names[i].state = "asking"
                                     THEN [names[i] EXCEPT !.state = "done"] ELSE names[i]]
        /\ UNCHANGED <<seqno, done, ip, asked>>
    BY DEF NewdataDhcp
  <1>3. ASSUME NEW i \in Slots
        PROVE  \/ names'[i] = names[i]
               \/ names[i].state = "asking" /\ names'[i] = [names[i] EXCEPT !.state = "done"]
    BY <1>2
  <1>4. ASSUME NEW i \in Slots
        PROVE  /\ names'[i] \in Entry /\ names'[i].ipaddr = names[i].ipaddr
               /\ \/ names'[i] = names[i]
                  \/ Ended(names'[i]) /\ names[i].state = "asking"
    <2>1. names[i] \in Entry
      BY <1>1
    <2>2. CASE names'[i] = [names[i] EXCEPT !.state = "done"] /\ names[i].state = "asking"
      <3>1. names'[i] \in Entry
        BY <2>1, <2>2 DEF Entry
      <3>2. names'[i].ipaddr = names[i].ipaddr /\ names'[i].state = "done"
        BY <2>1, <2>2 DEF Entry
      <3> QED BY <2>2, <3>1, <3>2 DEF Ended
    <2> QED BY <1>3, <2>1, <2>2
  <1>5. ASSUME NEW i \in Slots PROVE EntrySound(i, names[i])'
    BY <1>1, <1>2, <1>4 DEF EntrySound, Ended
  <1>6. names' \in [Slots -> Entry]
    BY <1>2, <1>4
  <1>7. Settles
    BY <1>2, <1>4 DEF Settles, Ended
  <1> QED BY <1>1, <1>2, <1>5, <1>6, <1>7, EntriesKept

-----------------------------------------------------------------------------
(* The task and the main loop *)

(* While the resolver works on its own, the task keeps its one query.      *)
LEMMA SettlesKeeps ==
  ASSUME OneQuery, slot \in Slots, Settles, UNCHANGED <<task, name, slot>>
  PROVE  OneQuery'
  <1>1. ASSUME NEW i \in Slots, ~ Ended(names'[i]) PROVE Querying /\ i = slot
    BY <1>1 DEF Settles, OneQuery
  <1>2. Querying' = Querying
    BY DEF Querying
  <1>3. CASE UNCHANGED <<done, ip>>
    <2>1. Querying /\ done => Ended(names'[slot])
      BY DEF Settles, OneQuery
    <2> QED BY <1>1, <1>2, <1>3, <2>1 DEF OneQuery, Ended
  <1>4. CASE \E i \in Slots : ~ Ended(names[i]) /\ Ended(names'[i])
    <2>1. Querying /\ Ended(names'[slot])
      BY <1>4 DEF OneQuery
    <2>2. task # "query"
      BY <2>1 DEF Querying
    <2> QED BY <1>1, <1>2, <2>1, <2>2 DEF OneQuery, Ended
  <1> QED BY <1>3, <1>4 DEF Settles

LEMMA IdleResolver ==
  ASSUME ResolvInv, UNCHANGED resolvVars
  PROVE  ResolvInv' /\ Settles
  BY DEF ResolvInv, ResolvTypeOK, EntrySound, Ended, Settles, resolvVars, Entry

(* A lookup finds a name, or makes a request.                              *)
LEMMA LookupKeeps ==
  ASSUME Inv, NEW n \in HostNames, Lookup(n)
  PROVE  Inv'
  <1>1. /\ names \in [Slots -> Entry] /\ done \in BOOLEAN
        /\ \A i \in Slots : EntrySound(i, names[i])
    BY DEF Inv, ResolvInv, ResolvTypeOK, Entry
  <1>2. /\ task = "idle" /\ turn = "packet" /\ lookups < MaxLookups
        /\ lookups' = lookups + 1 /\ name' = n /\ reached' = FALSE
        /\ UNCHANGED <<dhcpVars, names, seqno, ip, asked, turn, slot>>
    BY DEF Lookup
  <1>3. /\ task' \in {"idle", "query"}
        /\ task' = "query" => done' = FALSE
        /\ done' \in BOOLEAN
        /\ last' \in [name : HostNames \cup {Nobody}, ip : HostNames \cup {Nobody}]
    <2>1. CASE Cached(n) # {}
      <3>1. UNCHANGED <<task, done>>
            /\ last' = [name |-> n, ip |-> names[Least(Cached(n))].ipaddr]
        BY <2>1 DEF Lookup
      <3>2. Least(Cached(n)) \in Slots
        BY <2>1, FirstSlot DEF Cached
      <3>3. names[Least(Cached(n))].ipaddr \in HostNames \cup {Nobody}
        BY <1>1, <3>2 DEF Entry
      <3> QED BY <1>1, <1>2, <3>1, <3>3
    <2>2. CASE Cached(n) = {}
      BY <2>2 DEF Lookup, Inv, TaskTypeOK
    <2> QED BY <2>1, <2>2
  <1>4. DhcpInv'
    BY <1>2, DhcpKeeps DEF Inv
  <1>5. ResolvInv'
    <2>1. \A i \in Slots : EntrySound(i, names[i])'
      BY <1>1, <1>2 DEF EntrySound, Ended
    <2> QED BY <1>2, <1>3, <2>1 DEF Inv, ResolvInv, ResolvTypeOK
  <1>6. TaskTypeOK'
    <2>1. lookups' \in 0..MaxLookups
      BY <1>2, NamesAssumption DEF Inv, TaskTypeOK
    <2> QED BY <1>2, <1>3, <2>1 DEF Inv, TaskTypeOK
  <1>7. OneQuery'
    BY <1>2, <1>3 DEF Inv, OneQuery, Querying, Ended
  <1> QED BY <1>4, <1>5, <1>6, <1>7 DEF Inv

(* resolv_query takes an entry that nobody waits for.                      *)
LEMMA QueryKeeps ==
  ASSUME Inv, Query
  PROVE  Inv' /\ Querying' /\ names'[slot'].state = "new"
  <1> DEFINE k == Taken
  <1>1. /\ task = "query" /\ turn = "packet" /\ slot' = k /\ task' = "seqno"
        /\ names' = [names EXCEPT ![k].name = name, ![k].state = "new"]
        /\ UNCHANGED <<dhcpVars, turn, name, reached, last, lookups, seqno, done, ip, asked>>
    BY DEF Query, QueryName
  <1>2. k \in Slots
    BY TakenIsSlot
  <1>3. /\ names \in [Slots -> Entry] /\ \A i \in Slots : EntrySound(i, names[i])
        /\ done \in BOOLEAN /\ ip \in HostNames \cup {Nobody} /\ seqno \in 0..SEQNOS - 1
        /\ asked \subseteq Slots \X HostNames
    BY DEF Inv, ResolvInv, ResolvTypeOK, Entry
  <1>4. name \in HostNames /\ ~ done /\ \A i \in Slots : Ended(names[i])
    BY <1>1 DEF Inv, OneQuery, Querying
  <1> HIDE DEF k
  <1>5. /\ names'[k] = [names[k] EXCEPT !.name = name, !.state = "new"]
        /\ \A i \in Slots : i # k => names'[i] = names[i]
    BY <1>1, <1>2, <1>3
  <1>6. /\ names'[k] \in Entry /\ names'[k].state = "new"
        /\ names'[k].name = name /\ names'[k].ipaddr = names[k].ipaddr
    <2>1. names[k] \in Entry
      BY <1>2, <1>3
    <2> QED BY <1>4, <1>5, <2>1 DEF Entry
  <1>7. names' \in [Slots -> Entry]
    <2>1. \A i \in Slots : names'[i] \in Entry
      BY <1>3, <1>5, <1>6
    <2>2. names' = [i \in Slots |-> names'[i]]
      BY <1>1, <1>3
    <2> QED BY <2>1, <2>2
  <1>8. ASSUME NEW i \in Slots PROVE EntrySound(i, names[i])'
    <2>1. CASE i = k
      BY <1>1, <1>3, <1>4, <1>6, <2>1 DEF EntrySound, Ended
    <2>2. CASE i # k
      BY <1>1, <1>3, <1>5, <2>2 DEF EntrySound, Ended
    <2> QED BY <2>1, <2>2
  <1>9. ResolvInv'
    BY <1>1, <1>3, <1>7, <1>8, EntriesKept DEF Inv
  <1>10. DhcpInv'
    BY <1>1, DhcpKeeps DEF Inv
  <1>11. TaskTypeOK'
    BY <1>1, <1>2 DEF Inv, TaskTypeOK
  <1>12. OneQuery'
    BY <1>1, <1>4, <1>5 DEF OneQuery, Querying, Ended
  <1> QED BY <1>1, <1>6, <1>9, <1>10, <1>11, <1>12 DEF Inv, Querying

LEMMA QueryEndsKeeps ==
  ASSUME Inv, QueryEnds
  PROVE  /\ Inv'
         /\ \A i \in Slots : /\ names'[i].state = names[i].state
                             /\ names'[i].tmr = names[i].tmr
                             /\ names'[i].retries = names[i].retries
  <1>1. /\ task = "seqno" /\ task' = "wait"
        /\ names' = [names EXCEPT ![slot].seqno = seqno]
        /\ seqno' = IF seqno = SEQNOS - 1 THEN 0 ELSE seqno + 1
        /\ UNCHANGED <<dhcpVars, turn, name, slot, reached, last, lookups, done, ip, asked>>
    BY DEF QueryEnds, QuerySeqno
  <1>2. /\ names \in [Slots -> Entry] /\ \A i \in Slots : EntrySound(i, names[i])
        /\ done \in BOOLEAN /\ ip \in HostNames \cup {Nobody} /\ seqno \in 0..SEQNOS - 1
        /\ asked \subseteq Slots \X HostNames
    BY DEF Inv, ResolvInv, ResolvTypeOK, Entry
  <1>3. slot \in Slots
    BY DEF Inv, TaskTypeOK
  <1>4. \A i \in Slots : names'[i] = names[i] \/ names'[i] = [names[i] EXCEPT !.seqno = seqno]
    BY <1>1, <1>2, <1>3
  <1>5. ASSUME NEW i \in Slots
        PROVE  /\ names'[i] \in Entry /\ names'[i].state = names[i].state
               /\ names'[i].tmr = names[i].tmr /\ names'[i].retries = names[i].retries
               /\ names'[i].name = names[i].name /\ names'[i].ipaddr = names[i].ipaddr
    <2>1. names[i] \in Entry
      BY <1>2
    <2> QED BY <1>2, <1>4, <2>1 DEF Entry
  <1>6. names' \in [Slots -> Entry]
    <2>1. names' = [i \in Slots |-> names'[i]]
      BY <1>1, <1>2
    <2> QED BY <1>5, <2>1
  <1>7. ASSUME NEW i \in Slots PROVE EntrySound(i, names[i])'
    BY <1>1, <1>2, <1>5 DEF EntrySound, Ended
  <1>8. seqno' \in 0..SEQNOS - 1
    BY <1>1, <1>2, ResolvAssumption
  <1>9. ResolvInv'
    BY <1>1, <1>2, <1>6, <1>7, <1>8, EntriesKept DEF Inv
  <1>10. DhcpInv'
    BY <1>1, DhcpKeeps DEF Inv
  <1>11. TaskTypeOK'
    BY <1>1 DEF Inv, TaskTypeOK
  <1>12. OneQuery'
    BY <1>1, <1>3, <1>5 DEF Inv, OneQuery, Querying, Ended
  <1> QED BY <1>5, <1>9, <1>10, <1>11, <1>12 DEF Inv

(* The task goes on when the request is done: its entry has ended.         *)
LEMMA ReturnKeeps ==
  ASSUME Inv, Return
  PROVE  Inv' /\ ~ Querying'
  <1>1. /\ task = "wait" /\ task' = "idle" /\ done /\ last' = [name |-> name, ip |-> ip]
        /\ UNCHANGED <<dhcpVars, resolvVars, turn, name, slot, reached, lookups>>
    BY DEF Return
  <1>2. ResolvInv' /\ Settles
    BY <1>1, IdleResolver DEF Inv
  <1>3. DhcpInv'
    BY <1>1, DhcpKeeps DEF Inv
  <1>4. TaskTypeOK'
    BY <1>1 DEF Inv, TaskTypeOK, ResolvInv, ResolvTypeOK
  <1>5. OneQuery'
    BY <1>1 DEF Inv, OneQuery, Querying, Ended, resolvVars
  <1> QED BY <1>1, <1>2, <1>3, <1>4, <1>5 DEF Inv, Querying

(* The main loop leaves the task where it is.                              *)
LEMMA LoopKeeps ==
  ASSUME Inv, MainLoop
  PROVE  /\ Inv' /\ Settles /\ UNCHANGED <<task, name, slot>>
         /\ configured => configured'
  <1>1. UNCHANGED <<task, name, slot, last, lookups>> /\ reached' \in BOOLEAN
        /\ turn' \in {"packet", "dhcp", "dns"}
    BY DEF MainLoop, NoPacket, DhcpPacket, DnsPacket, PollDhcp, PollDns, taskVars, Inv,
           TaskTypeOK
  <1>2. DhcpInv' /\ (configured => configured')
    <2>1. \/ UNCHANGED dhcpVars
          \/ \E m \in dhcpNet : DhcpNewdata(m)
          \/ \E e \in BOOLEAN : DhcpPoll(e)
      BY DEF MainLoop, NoPacket, DhcpPacket, DnsPacket, PollDhcp, PollDns
    <2> QED BY <2>1, DhcpKeeps DEF Inv
  <1>3. ResolvInv' /\ Settles
    <2>1. CASE UNCHANGED resolvVars
      BY <2>1, IdleResolver DEF Inv
    <2>2. CASE NewdataDhcp
      BY <2>2, DhcpMessageKeeps DEF Inv
    <2>3. CASE \E m \in InFlight : Newdata(m)
      BY <2>3, AnswerKeeps DEF Inv
    <2>4. CASE \E b \in BOOLEAN : CheckEntries(b)
      BY <2>4, CheckKeeps DEF Inv
    <2>5. PollDns => UNCHANGED resolvVars \/ \E b \in BOOLEAN : CheckEntries(b)
      <3>1. (config.dns # None) \in BOOLEAN
        OBVIOUS
      <3> QED BY <3>1 DEF PollDns
    <2>6. (\E e \in BOOLEAN : PollDhcp(e)) =>
            UNCHANGED resolvVars \/ \E b \in BOOLEAN : CheckEntries(b)
      BY DEF PollDhcp
    <2> QED BY <2>1, <2>2, <2>3, <2>4, <2>5, <2>6 DEF MainLoop, NoPacket, DhcpPacket,
               DnsPacket
  <1>4. TaskTypeOK'
    BY <1>1 DEF Inv, TaskTypeOK
  <1>5. OneQuery'
    BY <1>1, <1>3, SettlesKeeps DEF Inv, TaskTypeOK
  <1> QED BY <1>1, <1>2, <1>3, <1>4, <1>5 DEF Inv

LEMMA InitInv == Init => Inv /\ FirstTry
  <1> SUFFICES ASSUME Init PROVE Inv /\ FirstTry
    OBVIOUS
  <1>1. DhcpInv
    <2>1. NoLease \in Lease /\ NoLease.ip = None
      BY DEF NoLease, Lease
    <2>2. DhcpTypeOK
      BY <2>1, DhcpcAssumption DEF Init, DhcpInit, DhcpTypeOK, Replies
    <2>3. \A m \in dhcpNet : m.type = "ack" => m.from \in bound
      BY DEF Init, DhcpInit, Foreign
    <2>4. LeaseFromServer
      BY <2>1, DhcpcAssumption DEF Init, DhcpInit, LeaseFromServer
    <2> QED BY <2>2, <2>3, <2>4 DEF DhcpInv
  <1>2. 0 \in 0..MAX_RETRIES /\ 0 \in 0..SEQNOS - 1 /\ 0 \in Slots /\ 0 \in 0..MaxLookups
    BY ResolvAssumption, NamesAssumption DEF Slots
  <1>3. \A i \in Slots : /\ names[i] \in Entry /\ names[i].state = "done"
                         /\ names[i].ipaddr = Nobody
    BY <1>2 DEF Init, ResolvInit, Entry
  <1>4. names \in [Slots -> Entry]
    BY <1>3 DEF Init, ResolvInit
  <1>5. ResolvInv
    BY <1>2, <1>3, <1>4 DEF Init, ResolvInit, ResolvInv, ResolvTypeOK, EntrySound, Ended, Entry
  <1>6. TaskTypeOK /\ OneQuery /\ FirstTry
    BY <1>2, <1>3 DEF Init, TaskTypeOK, OneQuery, Querying, Ended, FirstTry
  <1> QED BY <1>1, <1>5, <1>6 DEF Inv

LEMMA NextInv == Inv /\ [Next]_vars => Inv'
  <1> SUFFICES ASSUME Inv, [Next]_vars PROVE Inv'
    OBVIOUS
  <1>1. CASE UNCHANGED vars
    <2>1. DhcpInv'
      BY <1>1, DhcpKeeps DEF Inv, vars
    <2>2. ResolvInv'
      BY <1>1, IdleResolver DEF Inv, vars
    <2> QED BY <1>1, <2>1, <2>2 DEF vars, taskVars, resolvVars, Inv, TaskTypeOK, OneQuery,
               Querying, Ended
  <1> QED BY <1>1, LookupKeeps, QueryKeeps, QueryEndsKeeps, ReturnKeeps, LoopKeeps
             DEF Next, TaskStep

LEMMA InvHolds == Spec => []Inv
  BY InitInv, NextInv, PTL DEF Spec

(* Every variable keeps its type, the retries and timers of the entries,   *)
(* the numbers of queries and the waiting time of the DHCP client within   *)
(* their bounds.                                                           *)
THEOREM TypeCorrect == Spec => []TypeOK
  <1>1. Inv => TypeOK
    BY DEF Inv, DhcpInv, ResolvInv, TaskTypeOK, TypeOK
  <1> QED BY <1>1, InvHolds, PTL

(* The board only uses an address that a server has leased to it, with the *)
(* options of that server, whatever other messages come between.           *)
THEOREM LeasesAreGranted == Spec => []LeaseFromServer
  <1>1. Inv => LeaseFromServer
    BY DEF Inv, DhcpInv
  <1> QED BY <1>1, InvHolds, PTL

(* An entry never takes the answer for another entry: an address in it was *)
(* asked for under its number.                                             *)
THEOREM AnswersFindTheirEntry == Spec => []ForeignOnlyByReuse
  <1>1. Inv => ForeignOnlyByReuse
    BY DEF Inv, ResolvInv, EntrySound, ForeignOnlyByReuse
  <1> QED BY <1>1, InvHolds, PTL

-----------------------------------------------------------------------------
(* The polls of the two connections alternate: with more than one retry,   *)
(* the second question of a name goes to the DNS server before the entry   *)
(* can be given up.                                                        *)

(* The question of the task is the one that check_entries sends.           *)
LEMMA TaskIsSent ==
  ASSUME OneQuery, slot \in Slots, Queries(names[slot])
  PROVE  slot \in Sent
  <1>1. \A i \in Slots : Queries(names[i]) => ~ Ended(names[i])
    BY DEF Queries, Ended
  <1>2. \A i \in Slots : Queries(names[i]) => i = slot
    BY <1>1 DEF OneQuery
  <1>3. slot <= slot
    BY DEF Slots
  <1> QED BY <1>2, <1>3 DEF Sent

LEMMA NextFirstTry ==
  ASSUME MAX_RETRIES > 1
  PROVE  Inv /\ FirstTry /\ [Next]_vars => FirstTry'
  <1> SUFFICES ASSUME Inv, FirstTry, [Next]_vars, Querying', ~ reached'
               PROVE  \/ names'[slot'].state = "new"
                      \/ /\ names'[slot'].state = "asking" /\ names'[slot'].tmr = 1
                         /\ names'[slot'].retries = 0
                         /\ turn' = "dns" /\ configured'
    BY DEF FirstTry
  <1>1. slot \in Slots /\ OneQuery /\ ResolvInv
    BY DEF Inv, TaskTypeOK
  <1>2. /\ names[slot] \in Entry
        /\ names[slot].state = "asking" =>
             names[slot].tmr >= 1 /\ names[slot].retries < MAX_RETRIES
    BY <1>1 DEF ResolvInv, EntrySound
  <1>3. ASSUME UNCHANGED <<task, slot, reached, names, turn, config>> PROVE FirstTry'
    BY <1>3 DEF FirstTry, Querying, configured
  <1>4. CASE UNCHANGED vars
    BY <1>3, <1>4 DEF vars, dhcpVars, resolvVars, taskVars, FirstTry
  <1>5. CASE \E n \in HostNames : Lookup(n)
    BY <1>5 DEF Lookup, Querying
  <1>6. CASE Query
    BY <1>6, QueryKeeps
  <1>7. CASE QueryEnds
    <2>1. UNCHANGED <<turn, slot, reached, config>> /\ Querying
      BY <1>7 DEF QueryEnds, Querying, dhcpVars
    <2> QED BY <1>1, <1>7, <2>1, QueryEndsKeeps DEF FirstTry, configured
  <1>8. CASE Return
    BY <1>8, ReturnKeeps
  <1>9. CASE MainLoop
    <2>1. UNCHANGED <<task, slot>> /\ Querying /\ ~ reached
          /\ (configured => configured')
      BY <1>9, LoopKeeps DEF Querying, MainLoop, NoPacket, DhcpPacket, DnsPacket, PollDhcp,
                             PollDns, taskVars
    <2>2. CASE turn = "packet"
      <3>1. names[slot].state = "new"
        BY <2>1, <2>2 DEF FirstTry
      <3>2. CASE UNCHANGED resolvVars
        BY <2>1, <3>1, <3>2 DEF resolvVars
      <3>3. CASE NewdataDhcp
        BY <1>1, <2>1, <3>1, <3>3 DEF NewdataDhcp
      <3>4. CASE \E m \in InFlight : Newdata(m)
        <4>1. PICK m \in InFlight : Newdata(m)
          BY <3>4
        <4>2. names'[slot] = names[slot]
          BY <1>1, <3>1, <4>1 DEF Newdata, EntryOf, ResolvInv, ResolvTypeOK
        <4> QED BY <2>1, <3>1, <4>2
      <3> QED BY <1>9, <2>2, <3>2, <3>3, <3>4 DEF MainLoop, NoPacket, DhcpPacket, DnsPacket,
                 PollDhcp, PollDns
    <2>3. CASE turn = "dhcp"
      <3>1. names[slot].state = "new" /\ Queries(names[slot])
        BY <2>1, <2>3 DEF FirstTry, Queries
      <3>2. PICK e \in BOOLEAN : PollDhcp(e)
        BY <1>9, <2>3 DEF MainLoop, NoPacket, DhcpPacket, DnsPacket, PollDns
      <3>3. CASE configured
        <4>1. CheckEntries(FALSE) /\ turn' = "dns"
          BY <3>2, <3>3 DEF PollDhcp
        <4>2. names'[slot] = Polled(names[slot])
          BY <1>1, <3>1, <4>1, TaskIsSent, CheckKeeps
        <4>3. /\ Polled(names[slot]).state = "asking" /\ Polled(names[slot]).tmr = 1
              /\ Polled(names[slot]).retries = 0
          BY <1>2, <3>1, PolledFacts
        <4> QED BY <2>1, <3>3, <4>1, <4>2, <4>3
      <3>4. CASE ~ configured
        BY <2>1, <3>1, <3>2, <3>4 DEF PollDhcp, resolvVars
      <3> QED BY <3>3, <3>4
    <2>4. CASE turn = "dns"
      <3>1. PollDns
        BY <1>9, <2>4 DEF MainLoop, NoPacket, DhcpPacket, DnsPacket, PollDhcp
      <3>2. CASE configured
        <4>1. Queries(names[slot])
          BY <2>1 DEF FirstTry, Queries, GivesUp
        <4>2. reached'
          BY <1>1, <3>1, <3>2, <4>1, TaskIsSent DEF PollDns
        <4> QED BY <4>2
      <3>3. CASE ~ configured
        BY <2>1, <3>1, <3>3 DEF PollDns, FirstTry, resolvVars
      <3> QED BY <3>2, <3>3
    <2> QED BY <2>2, <2>3, <2>4 DEF Inv, TaskTypeOK
  <1> QED BY <1>4, <1>5, <1>6, <1>7, <1>8, <1>9 DEF Next, TaskStep

(* Although every second question is sent to the DHCP port, a lookup fails *)
(* for want of an answer only after the DNS server has been asked, for any *)
(* number of retries above one (the code has 8; with one it would fail).   *)
THEOREM AskedFirst == ASSUME MAX_RETRIES > 1
                      PROVE  Spec => []AskedBeforeGivingUp
  <1>1. Inv /\ FirstTry => AskedBeforeGivingUp
    BY DEF FirstTry, Querying, AskedBeforeGivingUp
  <1>2. Spec => []FirstTry
    BY InitInv, InvHolds, NextFirstTry, PTL DEF Spec
  <1> QED BY <1>1, <1>2, InvHolds, PTL

-----------------------------------------------------------------------------
(***************************************************************************)
(* The ARP table, for every number of hosts, table size, age limit and     *)
(* width of arptime.  The inductive invariant ArpInv relates the byte      *)
(* times of the table to the true ages: while arptime has not wrapped      *)
(* under an entry its age is the difference of the bytes, and the          *)
(* difference never exceeds the age.                                       *)
(***************************************************************************)

\* What the difference arptime - time says of the age of an entry.
AgesKnown ==
  \A i \in Entries : /\ Age(i) <= age[i]
                     /\ ~ Wrapped(i) => Age(i) = age[i]

ArpInv ==
  /\ ArpTypeOK
  /\ OneEntryPerHost
  /\ TableCurrent
  /\ AgesKnown
  /\ ForgottenUnlessWrapped

-----------------------------------------------------------------------------
LEMMA LeastNat ==
  ASSUME NEW S \in SUBSET Nat, S # {}
  PROVE  \E i \in S : \A j \in S : i <= j
<1>. DEFINE R == {p \in Nat \X Nat : p[1] < p[2]}
<1>1. IsWellFoundedOn(R, Nat)
  BY NatLessThanWellFounded DEF OpToRel
<1>2. PICK i \in S : \A j \in S : ~ (<<j, i>> \in R)
  BY <1>1, WFMin
<1>3. ASSUME NEW j \in S PROVE ~ (j < i)
  BY <1>2
<1>. QED
  BY <1>3

\* The loop that looks for an entry of a set finds one, if there is one.
LEMMA FirstIn ==
  ASSUME NEW S \in SUBSET Entries, S # {}
  PROVE  First(S) \in S
<1>1. \E i \in S : \A j \in S : i <= j
  <2>1. S \in SUBSET Nat
    BY ArpAssumption DEF Entries
  <2>. QED
    BY <2>1, LeastNat
<1>. QED
  BY <1>1 DEF First

LEMMA AgeType ==
  ASSUME ArpTypeOK, NEW i \in Entries
  PROVE  Age(i) \in Int /\ Age(i) < WIDTH
BY ArpAssumption DEF ArpTypeOK, Age

\* uip_arp_update throws away an entry that no other has a greater difference
\* than, and one that exists.
LEMMA VictimOldest ==
  ASSUME ArpTypeOK
  PROVE  /\ Victim \in Entries
         /\ \A j \in Entries : Age(j) <= Age(Victim) \/ Age(j) <= 0
<1>. DEFINE oldest == {i \in Entries : Age(i) > 0 /\ \A j \in Entries : Age(j) <= Age(i)}
<1>1. CASE oldest = {}
  <2>1. Victim = 1 /\ 1 \in Entries
    BY <1>1, ArpAssumption DEF Victim, Entries
  <2>2. ASSUME NEW k \in Entries, Age(k) > 0 PROVE FALSE
    <3>. DEFINE S == {WIDTH - Age(j) : j \in Entries}
    <3>1. S \in SUBSET Nat
      <4>1. ASSUME NEW j \in Entries PROVE WIDTH - Age(j) \in Nat
        BY AgeType, ArpAssumption
      <4>. QED
        BY <4>1
    <3>2. S # {}
      OBVIOUS
    <3>. HIDE DEF S
    <3>3. PICK x \in S : \A y \in S : x <= y
      BY <3>1, <3>2, LeastNat
    <3>4. PICK i \in Entries : x = WIDTH - Age(i)
      BY DEF S
    <3>5. ASSUME NEW j \in Entries PROVE Age(j) <= Age(i)
      <4>1. x <= WIDTH - Age(j)
        BY <3>3 DEF S
      <4>2. Age(i) \in Int /\ Age(j) \in Int /\ WIDTH \in Int
        BY AgeType, ArpAssumption
      <4>. QED
        BY <3>4, <4>1, <4>2
    <3>6. Age(i) > 0
      BY <2>2, <3>5, AgeType
    <3>. QED
      BY <1>1, <3>5, <3>6
  <2>3. ASSUME NEW j \in Entries PROVE Age(j) <= 0
    BY <2>2, AgeType
  <2>. QED
    BY <2>1, <2>3
<1>2. CASE oldest # {}
  <2>1. Victim = First(oldest)
    BY <1>2 DEF Victim
  <2>2. First(oldest) \in oldest
    BY <1>2, FirstIn
  <2>. QED
    BY <2>1, <2>2
<1>. QED
  BY <1>1, <1>2

\* Where uip_arp_update writes: the entry of the host, a free one, the victim.
LEMMA PlaceCases ==
  ASSUME ArpTypeOK, NEW h \in Hosts
  PROVE  /\ Place(h) \in Entries
         /\ \/ table[Place(h)].ip = h
            \/ /\ h \in ZeroHalf \/ \A j \in Entries : table[j].ip # h
               /\ table[Place(h)].ip = NoAddr \/ Place(h) = Victim
<1>1. CASE Matching(h) # {}
  <2>1. Place(h) = First(Matching(h)) /\ Matching(h) \in SUBSET Entries
    BY <1>1 DEF Place, Matching, EntriesOf
  <2>2. Place(h) \in Matching(h)
    BY <1>1, <2>1, FirstIn
  <2>. QED
    BY <2>2 DEF Matching, EntriesOf
<1>2. CASE Matching(h) = {} /\ EntriesOf(NoAddr) # {}
  <2>1. Place(h) = First(EntriesOf(NoAddr)) /\ EntriesOf(NoAddr) \in SUBSET Entries
    BY <1>2 DEF Place, EntriesOf
  <2>2. Place(h) \in EntriesOf(NoAddr)
    BY <1>2, <2>1, FirstIn
  <2>. QED
    BY <1>2, <2>2 DEF Matching, EntriesOf
<1>3. CASE Matching(h) = {} /\ EntriesOf(NoAddr) = {}
  <2>1. Place(h) = Victim
    BY <1>3 DEF Place
  <2>. QED
    BY <1>3, <2>1, VictimOldest DEF Matching, EntriesOf
<1>. QED
  BY <1>1, <1>2, <1>3

-----------------------------------------------------------------------------
LEMMA ArpInitially == ArpInit => ArpInv
<1>. SUFFICES ASSUME ArpInit PROVE ArpInv
  OBVIOUS
<1>1. ArpTypeOK
  BY ArpAssumption DEF ArpInit, ArpTypeOK, NoFrame
<1>2. OneEntryPerHost /\ TableCurrent /\ ForgottenUnlessWrapped
  BY DEF ArpInit, OneEntryPerHost, TableCurrent, Findable, ForgottenUnlessWrapped
<1>3. AgesKnown
  BY DEF ArpInit, AgesKnown, Age, Wrapped
<1>. QED
  BY <1>1, <1>2, <1>3 DEF ArpInv

\* A frame of a host changes one entry, which is then the host's only one if
\* uip_arp_update can find the host.
LEMMA ArpInStep ==
  ASSUME ArpInv, NEW opcode \in {"request", "reply"}, NEW h \in Hosts, NEW m \in Macs,
         ArpIn(opcode, h, m)
  PROVE  ArpInv'
<1>. DEFINE k == Place(h)
<1>1. /\ k \in Entries
      /\ h \notin ZeroHalf => \A j \in Entries : j # k => table[j].ip # h
  <2>1. /\ k \in Entries
        /\ table[k].ip = h \/ h \in ZeroHalf \/ \A j \in Entries : table[j].ip # h
    BY PlaceCases DEF ArpInv
  <2>. HIDE DEF k
  <2>. QED
    BY <2>1, ArpAssumption DEF ArpInv, OneEntryPerHost, Findable
<1>. HIDE DEF k
<1>2. /\ table' = [table EXCEPT ![k] = [ip |-> h, mac |-> m, time |-> arptime]]
      /\ age' = [age EXCEPT ![k] = 0]
      /\ announced' = [announced EXCEPT ![h] = m]
      /\ frame' = IF opcode = "request" THEN [type |-> "reply", dest |-> m, ip |-> h] ELSE frame
      /\ arptime' = arptime
  BY DEF ArpIn, Written, k
<1>3. ArpTypeOK
  BY DEF ArpInv
<1>4. /\ table'[k] = [ip |-> h, mac |-> m, time |-> arptime] /\ age'[k] = 0
      /\ \A j \in Entries : j # k => table'[j] = table[j] /\ age'[j] = age[j]
  BY <1>1, <1>2, <1>3 DEF ArpTypeOK
<1>5. ArpTypeOK'
  BY <1>1, <1>2, <1>3, ArpAssumption DEF ArpTypeOK
<1>6. OneEntryPerHost'
  BY <1>1, <1>4 DEF ArpInv, OneEntryPerHost, Findable
<1>7. TableCurrent'
  <2>1. ASSUME NEW i \in Entries, Findable(i)'
        PROVE table'[i].mac = announced'[table'[i].ip]
    <3>1. CASE i = k
      BY <1>2, <1>3, <1>4, <3>1 DEF ArpTypeOK
    <3>2. CASE i # k
      BY <1>1, <1>2, <1>3, <1>4, <2>1, <3>2 DEF ArpTypeOK, ArpInv, TableCurrent, Findable
    <3>. QED
      BY <3>1, <3>2
  <2>. QED
    BY <2>1 DEF TableCurrent
<1>8. AgesKnown'
  <2>1. ASSUME NEW i \in Entries
        PROVE Age(i)' <= age'[i] /\ (~ Wrapped(i)' => Age(i)' = age'[i])
    <3>1. CASE i = k
      BY <1>2, <1>3, <1>4, <3>1 DEF ArpTypeOK, Age, Wrapped
    <3>2. CASE i # k
      BY <1>2, <1>4, <3>2 DEF ArpInv, AgesKnown, Age, Wrapped
    <3>. QED
      BY <3>1, <3>2
  <2>. QED
    BY <2>1 DEF AgesKnown
<1>9. ForgottenUnlessWrapped'
  <2>1. ASSUME NEW i \in Entries, table'[i].ip # NoAddr, age'[i] >= UIP_ARP_MAXAGE
        PROVE Wrapped(i)'
    <3>1. i # k
      BY <1>4, <2>1, ArpAssumption
    <3>. QED
      BY <1>2, <1>4, <2>1, <3>1 DEF ArpInv, ForgottenUnlessWrapped, Wrapped
  <2>. QED
    BY <2>1 DEF ForgottenUnlessWrapped
<1>. QED
  BY <1>5, <1>6, <1>7, <1>8, <1>9 DEF ArpInv

\* What a call of the timer does to the age of one entry.
LEMMA TimerAges ==
  ASSUME ArpInv, ArpTimer, NEW i \in Entries
  PROVE  /\ Age(i)' <= age'[i]
         /\ ~ Wrapped(i)' => Age(i)' = age'[i]
         /\ table'[i].ip # NoAddr => table'[i].ip = table[i].ip
         /\ table'[i].mac = table[i].mac
         /\ table'[i].ip = NoAddr <=> table[i].ip = NoAddr \/ Age(i)' >= UIP_ARP_MAXAGE
<1>1. /\ table[i].time \in 0 .. WIDTH - 1 /\ arptime \in 0 .. WIDTH - 1
      /\ age[i] \in 0 .. WIDTH /\ WIDTH \in Nat \ {0} /\ UIP_ARP_MAXAGE \in Nat \ {0}
  BY ArpAssumption DEF ArpInv, ArpTypeOK
<1>2. /\ arptime - table[i].time <= age[i]
      /\ age[i] <= arptime => arptime - table[i].time = age[i]
  BY <1>1 DEF ArpInv, AgesKnown, Age, Wrapped
<1>3. /\ arptime' = Later
      /\ age'[i] = IF age[i] < WIDTH THEN age[i] + 1 ELSE age[i]
      /\ table'[i] = IF Forgotten(table[i], Later) THEN [table[i] EXCEPT !.ip = NoAddr]
                     ELSE table[i]
  BY DEF ArpTimer
<1>4. table[i] \in [ip : Hosts \cup {NoAddr}, mac : Macs \cup {NoAddr}, time : 0..WIDTH - 1]
  BY DEF ArpInv, ArpTypeOK
<1>5. /\ table'[i].time = table[i].time /\ table'[i].mac = table[i].mac
      /\ table'[i].ip = IF Forgotten(table[i], Later) THEN NoAddr ELSE table[i].ip
  BY <1>3, <1>4
<1>6. /\ Later \in 0 .. WIDTH - 1 /\ Later <= arptime + 1
      /\ Later # 0 => Later = arptime + 1
  BY <1>1 DEF Later
<1>7. Age(i)' = Later - table[i].time
  BY <1>3, <1>5 DEF Age
<1>8. Wrapped(i)' <=> age'[i] > Later
  BY <1>3 DEF Wrapped
<1>9. age'[i] \in 1 .. WIDTH /\ (age[i] < WIDTH => age'[i] = age[i] + 1)
      /\ (age[i] = WIDTH => age'[i] = WIDTH)
  BY <1>1, <1>3
<1>10. Age(i)' <= age'[i]
  BY <1>1, <1>2, <1>6, <1>7, <1>9
<1>11. ~ Wrapped(i)' => Age(i)' = age'[i]
  BY <1>1, <1>2, <1>6, <1>7, <1>8, <1>9
<1>12. Forgotten(table[i], Later) <=> table[i].ip # NoAddr /\ Age(i)' >= UIP_ARP_MAXAGE
  BY <1>7 DEF Forgotten
<1>. QED
  BY <1>5, <1>10, <1>11, <1>12

LEMMA ArpTimerStep == ASSUME ArpInv, ArpTimer PROVE ArpInv'
<1>1. ArpTypeOK'
  <2>1. Later \in 0 .. WIDTH - 1
    BY ArpAssumption DEF Later, ArpInv, ArpTypeOK
  <2>2. ASSUME NEW i \in Entries
        PROVE  /\ [table[i] EXCEPT !.ip = NoAddr] \in
                    [ip : Hosts \cup {NoAddr}, mac : Macs \cup {NoAddr}, time : 0..WIDTH - 1]
               /\ (IF age[i] < WIDTH THEN age[i] + 1 ELSE age[i]) \in 0 .. WIDTH
    BY ArpAssumption DEF ArpInv, ArpTypeOK
  <2>. QED
    BY <2>1, <2>2 DEF ArpTimer, ArpInv, ArpTypeOK
<1>2. OneEntryPerHost'
  BY TimerAges DEF ArpInv, OneEntryPerHost, Findable
<1>3. TableCurrent'
  BY TimerAges DEF ArpInv, TableCurrent, Findable, ArpTimer
<1>4. AgesKnown'
  BY TimerAges DEF AgesKnown
<1>5. ForgottenUnlessWrapped'
  <2>1. ASSUME NEW i \in Entries, table'[i].ip # NoAddr, age'[i] >= UIP_ARP_MAXAGE
        PROVE Wrapped(i)'
    BY <2>1, TimerAges
  <2>. QED
    BY <2>1 DEF ForgottenUnlessWrapped
<1>. QED
  BY <1>1, <1>2, <1>3, <1>4, <1>5 DEF ArpInv

LEMMA ArpOutStep ==
  ASSUME ArpInv, NEW dst \in Hosts \cup {"remote", "broadcast"}, ArpOut(dst)
  PROVE  ArpInv'
<1>1. frame' \in [type : {"none", "ip", "request", "reply"},
                  dest : Macs \cup {NoAddr, "broadcast"}, ip : Hosts \cup {NoAddr}]
  <2>. DEFINE h == NextHop(dst)
  <2>1. h \in Hosts \cup {NoAddr}
    BY ArpAssumption DEF NextHop
  <2>. HIDE DEF h
  <2>2. EntriesOf(h) # {} => table[First(EntriesOf(h))].mac \in Macs \cup {NoAddr}
    <3>1. EntriesOf(h) \in SUBSET Entries
      BY DEF EntriesOf
    <3>2. EntriesOf(h) # {} => First(EntriesOf(h)) \in Entries
      BY <3>1, FirstIn
    <3>. QED
      BY <3>2 DEF ArpInv, ArpTypeOK
  <2>3. frame' = IF dst = "broadcast" THEN [type |-> "ip", dest |-> "broadcast", ip |-> NoAddr]
                 ELSE IF EntriesOf(h) = {} THEN [type |-> "request", dest |-> "broadcast", ip |-> h]
                 ELSE [type |-> "ip", dest |-> table[First(EntriesOf(h))].mac, ip |-> h]
    BY DEF ArpOut, h
  <2>. QED
    BY <2>1, <2>2, <2>3
<1>2. UNCHANGED <<table, arptime, announced, age>>
  BY DEF ArpOut
<1>. QED
  BY <1>1, <1>2 DEF ArpInv, ArpTypeOK, OneEntryPerHost, TableCurrent, Findable, AgesKnown,
                    ForgottenUnlessWrapped, Age, Wrapped

LEMMA ArpStep == ArpInv /\ [ArpNext]_arpVars => ArpInv'
<1>. SUFFICES ASSUME ArpInv, [ArpNext]_arpVars PROVE ArpInv'
  OBVIOUS
<1>1. CASE UNCHANGED arpVars
  BY <1>1 DEF arpVars, ArpInv, ArpTypeOK, OneEntryPerHost, TableCurrent, Findable, AgesKnown,
              ForgottenUnlessWrapped, Age, Wrapped
<1>2. CASE ArpNext
  BY <1>2, ArpInStep, ArpOutStep, ArpTimerStep DEF ArpNext
<1>. QED
  BY <1>1, <1>2

LEMMA ArpInvariance == ArpSpec => []ArpInv
BY ArpInitially, ArpStep, PTL DEF ArpSpec

-----------------------------------------------------------------------------
\* Every variable keeps its type: the times are bytes (uip_arp.c:82).
THEOREM ArpTypes == ArpSpec => []ArpTypeOK
<1>1. ArpInv => ArpTypeOK
  BY DEF ArpInv
<1>. QED
  BY <1>1, ArpInvariance, PTL

\* However uip_arp_update and uip_arp_timer fill and empty the table, a host with
\* no half of its address 0 (uip_arp.c:171) has at most one entry, and it says what
\* the host last announced.
THEOREM TableStaysCurrent == ArpSpec => [](OneEntryPerHost /\ TableCurrent)
<1>1. ArpInv => OneEntryPerHost /\ TableCurrent
  BY DEF ArpInv
<1>. QED
  BY <1>1, ArpInvariance, PTL

\* uip_arp_timer forgets every entry in time, except under a wrap of arptime.
THEOREM OnlyWrappedStay == ArpSpec => []ForgottenUnlessWrapped
<1>1. ArpInv => ForgottenUnlessWrapped
  BY DEF ArpInv
<1>. QED
  BY <1>1, ArpInvariance, PTL

\* uip_arp_timer forgets no entry too early, even under a wrap of arptime.
THEOREM NothingForgottenEarly == ArpSpec => NotForgottenEarly
<1>1. ArpInv /\ [ArpNext]_arpVars =>
        [\A i \in Entries : ArpTimer /\ table[i].ip # NoAddr /\ table'[i].ip = NoAddr
            => age'[i] >= UIP_ARP_MAXAGE]_arpVars
  <2>1. ASSUME ArpInv, ArpTimer, NEW i \in Entries, table[i].ip # NoAddr, table'[i].ip = NoAddr
        PROVE age'[i] >= UIP_ARP_MAXAGE
    <3>1. Age(i)' >= UIP_ARP_MAXAGE /\ Age(i)' <= age'[i]
      BY <2>1, TimerAges
    <3>2. ArpTypeOK'
      BY <2>1, ArpTimerStep DEF ArpInv
    <3>3. Age(i)' \in Int /\ age'[i] \in Int /\ UIP_ARP_MAXAGE \in Int
      BY <3>2, ArpAssumption DEF ArpTypeOK, Age
    <3>. QED
      BY <3>1, <3>3
  <2>. QED
    BY <2>1
<1>. QED
  BY <1>1, ArpInvariance, PTL DEF ArpSpec, NotForgottenEarly

\* uip_arp_update throws away the oldest entry, as far as arptime can tell.
THEOREM OldestGoes == ArpSpec => OldestThrownAway
<1>. DEFINE A == \A i \in Entries :
                   table[i].ip # NoAddr /\ table'[i].ip \notin {NoAddr, table[i].ip}
                     => \A j \in Entries : ~ Wrapped(j) => age[j] <= age[i] \/ Wrapped(i)
<1>1. ArpInv /\ [ArpNext]_arpVars => [A]_arpVars
  <2>. SUFFICES ASSUME ArpInv, ArpNext, NEW i \in Entries,
                       table[i].ip # NoAddr, table'[i].ip \notin {NoAddr, table[i].ip},
                       NEW j \in Entries, ~ Wrapped(j), ~ Wrapped(i)
                PROVE  age[j] <= age[i]
    OBVIOUS
  <2>1. CASE \E opcode \in {"request", "reply"}, h \in Hosts, m \in Macs : ArpIn(opcode, h, m)
    <3>1. PICK opcode \in {"request", "reply"}, h \in Hosts, m \in Macs : ArpIn(opcode, h, m)
      BY <2>1
    <3>2. Place(h) \in Entries
      BY PlaceCases DEF ArpInv
    <3>3. /\ i # Place(h) => table'[i] = table[i]
          /\ i = Place(h) => table'[i].ip = h
      BY <3>1, <3>2 DEF ArpIn, Written, ArpInv, ArpTypeOK
    <3>4. i = Place(h) /\ table[i].ip # h
      BY <3>3
    <3>5. i = Victim
      BY <3>4, PlaceCases DEF ArpInv
    <3>6. Age(j) <= Age(i) \/ Age(j) <= 0
      BY <3>5, VictimOldest DEF ArpInv
    <3>7. Age(i) = age[i] /\ Age(j) = age[j] /\ age[i] \in Nat /\ age[j] \in Nat
      BY ArpAssumption DEF ArpInv, AgesKnown, ArpTypeOK
    <3>. QED
      BY <3>6, <3>7
  <2>2. CASE \E dst \in Hosts \cup {"remote", "broadcast"} : ArpOut(dst)
    BY <2>2 DEF ArpOut
  <2>3. CASE ArpTimer
    BY <2>3, TimerAges
  <2>. QED
    BY <2>1, <2>2, <2>3 DEF ArpNext
<1>. QED
  BY <1>1, ArpInvariance, PTL DEF ArpSpec, OldestThrownAway
=============================================================================
