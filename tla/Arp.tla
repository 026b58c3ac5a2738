-------------------------------- MODULE Arp ---------------------------------
(***************************************************************************)
(* The ARP table (src/src/uip/uip_arp.c): which Ethernet address belongs   *)
(* to which IP address of the local network.  uip_arp_arpin learns from    *)
(* requests and replies addressed to the board, uip_arp_out looks up the   *)
(* next hop of a packet or replaces the packet by a request, and           *)
(* uip_arp_timer forgets entries.  All of it runs in the Ethernet          *)
(* interrupt.                                                              *)
(*                                                                         *)
(* arptime and the times of the entries are bytes, and their difference is *)
(* an int: it is negative after arptime has wrapped.                       *)
(***************************************************************************)
EXTENDS Integers, Sequences

CONSTANTS
  Hosts,            \* IP addresses of the local network
  ZeroHalf,         \* those of them with a 16-bit half that is 0 (10.1.0.0)
  Macs,             \* Ethernet addresses
  Router,           \* uip_draddr: the next hop of remote addresses
  UIP_ARPTAB_SIZE,  \* entries of the table
  UIP_ARP_MAXAGE,   \* age at which an entry is forgotten, in timer calls
  WIDTH,            \* values of the byte arptime (256)
  NoAddr            \* address 0.0.0.0; no Ethernet address

ASSUME ArpAssumption == /\ UIP_ARPTAB_SIZE \in Nat \ {0}
                        /\ UIP_ARP_MAXAGE \in Nat \ {0}
                        /\ WIDTH \in Nat \ {0}
                        /\ UIP_ARP_MAXAGE < WIDTH
                        /\ ZeroHalf \subseteq Hosts
                        /\ Router \in Hosts \cup {NoAddr}
                        /\ NoAddr \notin Hosts
                        /\ NoAddr \notin Macs

VARIABLES
  table,       \* arp_table: IP address, Ethernet address, time
  arptime,     \* arptime
  frame,       \* the last frame sent: type, destination, IP address looked up
  announced,   \* history: the Ethernet address a host last told the board
  age          \* history: timer calls since an entry was written (up to WIDTH)

arpVars == <<table, arptime, frame, announced, age>>

Entries == 1..UIP_ARPTAB_SIZE

NoFrame == [type |-> "none", dest |-> NoAddr, ip |-> NoAddr]

ArpTypeOK ==
  /\ table \in [Entries -> [ip : Hosts \cup {NoAddr}, mac : Macs \cup {NoAddr},
                            time : 0..WIDTH - 1]]
  /\ arptime \in 0..WIDTH - 1
  /\ frame \in [type : {"none", "ip", "request", "reply"},
                dest : Macs \cup {NoAddr, "broadcast"}, ip : Hosts \cup {NoAddr}]
  /\ announced \in [Hosts -> Macs \cup {NoAddr}]
  /\ age \in [Entries -> 0..WIDTH]

ArpInit ==
  /\ table = [i \in Entries |-> [ip |-> NoAddr, mac |-> NoAddr, time |-> 0]]
  /\ arptime = 0
  /\ frame = NoFrame
  /\ announced = [h \in Hosts |-> NoAddr]
  /\ age = [i \in Entries |-> 0]

-----------------------------------------------------------------------------
(* The entries of the address h (uip_arp_out); of NoAddr, the free ones.   *)
EntriesOf(h) == {i \in Entries : table[i].ip = h}

(* The entries uip_arp_update finds for the address h: it takes only those *)
(* with both halves of the address non-zero for entries in use.            *)
Matching(h) == {i \in EntriesOf(h) : h \notin ZeroHalf}

(* The first of a set of entries: the loops stop there.                    *)
First(S) == CHOOSE i \in S : \A j \in S : i <= j

(* arptime - tabptr->time, an int.                                         *)
Age(i) == arptime - table[i].time

(* Mutant of Victim: always the first entry.                               *)
VictimFirst == 1

(* The entry uip_arp_update throws away: the first with the greatest age,  *)
(* or the first of all when no age is positive.                            *)
Victim ==
  LET oldest == {i \in Entries : Age(i) > 0 /\ \A j \in Entries : Age(j) <= Age(i)}
  IN  IF oldest = {} THEN 1 ELSE First(oldest)

(* The entry uip_arp_update writes for the address h.                      *)
Place(h) == IF Matching(h) # {} THEN First(Matching(h))
            ELSE IF EntriesOf(NoAddr) # {} THEN First(EntriesOf(NoAddr))
            ELSE Victim

(* Mutant of Written: an entry that exists is only made younger.           *)
WrittenTime(e, h, m) ==
  IF e.ip = h THEN [e EXCEPT !.time = arptime] ELSE [ip |-> h, mac |-> m, time |-> arptime]

(* What it writes into the entry e.                                        *)
Written(e, h, m) == [ip |-> h, mac |-> m, time |-> arptime]

(* uip_arp_arpin: the host h, with the Ethernet address m, asks for the    *)
(* board's address or answers its request; a request is replied to.        *)
ArpIn(opcode, h, m) ==
  LET i == Place(h)
  IN  /\ table' = [table EXCEPT ![i] = Written(@, h, m)]
      /\ age' = [age EXCEPT ![i] = 0]
      /\ announced' = [announced EXCEPT ![h] = m]
      /\ frame' = IF opcode = "request" THEN [type |-> "reply", dest |-> m, ip |-> h]
                  ELSE frame
      /\ UNCHANGED arptime

(* The address whose entry uip_arp_out looks up: the destination if it is  *)
(* local, the router otherwise.                                            *)
NextHop(dst) == IF dst \in Hosts THEN dst ELSE Router

(* uip_arp_out: the frame of a packet to dst; without an entry the packet  *)
(* is overwritten by a request.  A broadcast needs no entry.               *)
ArpOut(dst) ==
  LET h == NextHop(dst)
  IN  /\ frame' = IF dst = "broadcast" THEN [type |-> "ip", dest |-> "broadcast", ip |-> NoAddr]
                  ELSE IF EntriesOf(h) = {} THEN [type |-> "request", dest |-> "broadcast", ip |-> h]
                  ELSE [type |-> "ip", dest |-> table[First(EntriesOf(h))].mac, ip |-> h]
      /\ UNCHANGED <<table, arptime, announced, age>>

(* Mutant of Forgotten: one period too late.                               *)
ForgottenLate(e, now) == e.ip # NoAddr /\ now - e.time > UIP_ARP_MAXAGE

(* uip_arp_timer forgets the entry e when arptime is now.                  *)
Forgotten(e, now) == e.ip # NoAddr /\ now - e.time >= UIP_ARP_MAXAGE

(* ++arptime.                                                              *)
Later == IF arptime = WIDTH - 1 THEN 0 ELSE arptime + 1

(* uip_arp_timer.                                                          *)
ArpTimer ==
  /\ arptime' = Later
  /\ table' = [i \in Entries |-> IF Forgotten(table[i], Later)
                                 THEN [table[i] EXCEPT !.ip = NoAddr] ELSE table[i]]
  /\ age' = [i \in Entries |-> IF age[i] < WIDTH THEN age[i] + 1 ELSE age[i]]
  /\ UNCHANGED <<frame, announced>>

ArpNext ==
  \/ \E opcode \in {"request", "reply"}, h \in Hosts, m \in Macs : ArpIn(opcode, h, m)
  \/ \E dst \in Hosts \cup {"remote", "broadcast"} : ArpOut(dst)
  \/ ArpTimer

ArpSpec == ArpInit /\ [][ArpNext]_arpVars

-----------------------------------------------------------------------------
(* The entry i is in use, for a host uip_arp_update can find again.        *)
Findable(i) == table[i].ip \notin ZeroHalf \cup {NoAddr}

(* A host has one entry, so that looking up the first finds what was       *)
(* written last; a host uip_arp_update does not find may have several.     *)
OneEntryPerHost ==
  \A i, j \in Entries : Findable(i) /\ table[i].ip = table[j].ip => i = j

(* What the table says of a host is what the host last told the board,     *)
(* through updates, evictions and entries that are forgotten, unless one   *)
(* half of the host's address is 0: such a host gets a new entry for every *)
(* word of it, and uip_arp_out may go on using the first.                  *)
TableCurrent ==
  \A i \in Entries : Findable(i) => table[i].mac = announced[table[i].ip]

(* arptime has wrapped since the entry i was written.                      *)
Wrapped(i) == age[i] > arptime

(* An entry of UIP_ARP_MAXAGE is forgotten, unless arptime has wrapped     *)
(* since it was written: then it may stay for ever.                        *)
ForgottenUnlessWrapped ==
  \A i \in Entries : table[i].ip # NoAddr /\ age[i] >= UIP_ARP_MAXAGE => Wrapped(i)

(* The timer forgets no entry before its age, wrap or not.                 *)
NotForgottenEarly ==
  [][\A i \in Entries : ArpTimer /\ table[i].ip # NoAddr /\ table'[i].ip = NoAddr
        => age'[i] >= UIP_ARP_MAXAGE]_arpVars

(* "find the oldest entry and throw it away" (uip_arp.c): while arptime    *)
(* has not wrapped under an entry, a host in the table only loses its      *)
(* entry to a new host when no entry is older.                             *)
OldestThrownAway ==
  [][\A i \in Entries :
       table[i].ip # NoAddr /\ table'[i].ip \notin {NoAddr, table[i].ip}
         => \A j \in Entries : ~ Wrapped(j) => age[j] <= age[i] \/ Wrapped(i)]_arpVars
=============================================================================
