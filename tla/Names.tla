------------------------------- MODULE Names --------------------------------
(***************************************************************************)
(* The DHCP client and the DNS resolver as one UDP application             *)
(* (elua_uip_udp_appcall of src/src/elua_uip.c), the part of               *)
(* elua_uip_mainloop that calls it, and a task that calls elua_net_lookup. *)
(*                                                                         *)
(* The main loop is the Ethernet interrupt: it handles a packet, if one    *)
(* has arrived, and then polls the UDP connections, the DHCP client's      *)
(* first; the task does not run meanwhile.  Neither part of the            *)
(* application looks at the connection it is called for.  resolv_conn is   *)
(* NULL until the board is configured; what resolv_appcall reads through   *)
(* it is the upper half of the reset vector, never port 53.                *)
(***************************************************************************)
EXTENDS Dhcpc, Resolv

CONSTANT MaxLookups   \* bound of the model: calls of elua_net_lookup

ASSUME NamesAssumption == MaxLookups \in Nat

VARIABLES
  turn,      \* what the main loop does next
  task,      \* where the task is in elua_net_lookup
  name,      \* hostname
  slot,      \* the entry of its query
  reached,   \* history: the query has been sent to the DNS server
  last,      \* the last name looked up and the address returned
  lookups    \* calls so far

taskVars == <<task, name, slot, reached, last, lookups>>
vars == <<dhcpVars, resolvVars, turn, taskVars>>

TypeOK ==
  /\ DhcpTypeOK
  /\ ResolvTypeOK
  /\ turn \in {"packet", "dhcp", "dns"}
  /\ task \in {"idle", "query", "seqno", "wait"}
  /\ name \in HostNames \cup {Nobody}
  /\ slot \in Slots
  /\ reached \in BOOLEAN
  /\ last \in [name : HostNames \cup {Nobody}, ip : HostNames \cup {Nobody}]
  /\ lookups \in 0..MaxLookups

Init ==
  /\ DhcpInit
  /\ ResolvInit
  /\ turn = "packet"
  /\ task = "idle"
  /\ name = Nobody
  /\ slot = 0
  /\ reached = FALSE
  /\ last = [name |-> Nobody, ip |-> Nobody]
  /\ lookups = 0

-----------------------------------------------------------------------------
(* elua_net_lookup finds the name in the table, or prepares a request.     *)
Lookup(n) ==
  /\ task = "idle"
  /\ turn = "packet"
  /\ lookups < MaxLookups
  /\ lookups' = lookups + 1
  /\ name' = n
  /\ reached' = FALSE
  /\ IF Cached(n) # {}
     THEN /\ last' = [name |-> n, ip |-> names[Least(Cached(n))].ipaddr]
          /\ UNCHANGED <<task, done>>
     ELSE /\ task' = "query"
          /\ done' = FALSE
          /\ UNCHANGED last
  /\ UNCHANGED <<dhcpVars, names, seqno, ip, asked, turn, slot>>

(* resolv_query, which the interrupt may divide.                           *)
Query ==
  /\ task = "query"
  /\ turn = "packet"
  /\ slot' = Taken
  /\ QueryName(Taken, name)
  /\ task' = "seqno"
  /\ UNCHANGED <<dhcpVars, turn, name, reached, last, lookups>>

QueryEnds ==
  /\ task = "seqno"
  /\ turn = "packet"
  /\ QuerySeqno(slot)
  /\ task' = "wait"
  /\ UNCHANGED <<dhcpVars, turn, name, slot, reached, last, lookups>>

(* The loop that waits for elua_resolv_req_done ends.                      *)
Return ==
  /\ task = "wait"
  /\ turn = "packet"
  /\ done
  /\ last' = [name |-> name, ip |-> ip]
  /\ task' = "idle"
  /\ UNCHANGED <<dhcpVars, resolvVars, turn, name, slot, reached, lookups>>

TaskStep == Query \/ QueryEnds \/ Return

-----------------------------------------------------------------------------
(* The main loop is called with no packet for the application.             *)
NoPacket ==
  /\ turn = "packet"
  /\ turn' = "dhcp"
  /\ UNCHANGED <<dhcpVars, resolvVars, taskVars>>

(* A DHCP message arrives: both parts of the application see it.           *)
DhcpPacket ==
  /\ turn = "packet"
  /\ turn' = "dhcp"
  /\ \E m \in dhcpNet : DhcpNewdata(m)
  /\ IF configured THEN NewdataDhcp ELSE UNCHANGED resolvVars
  /\ UNCHANGED taskVars

(* An answer of the DNS server arrives.                                    *)
DnsPacket ==
  /\ turn = "packet"
  /\ turn' = "dhcp"
  /\ configured
  /\ \E m \in InFlight : Newdata(m)
  /\ UNCHANGED <<dhcpVars, taskVars>>

(* The connection of the DHCP client is polled: a question for a name goes *)
(* to port 67 of everybody and is lost.                                    *)
PollDhcp(expired) ==
  /\ turn = "dhcp"
  /\ turn' = "dns"
  /\ IF configured THEN CheckEntries(FALSE) ELSE UNCHANGED resolvVars
  /\ DhcpPoll(expired)
  /\ UNCHANGED taskVars

(* The connection of the resolver is polled, if there is one yet.          *)
PollDns ==
  /\ turn = "dns"
  /\ turn' = "packet"
  /\ IF configured
     THEN /\ CheckEntries(config.dns # None)
          /\ reached' = (reached \/ slot \in Sent)
     ELSE UNCHANGED <<resolvVars, reached>>
  /\ UNCHANGED <<dhcpVars, task, name, slot, last, lookups>>

MainLoop == NoPacket \/ DhcpPacket \/ DnsPacket \/ (\E e \in BOOLEAN : PollDhcp(e)) \/ PollDns

Next == (\E n \in HostNames : Lookup(n)) \/ TaskStep \/ MainLoop

Spec == Init /\ [][Next]_vars

(* The Ethernet interrupt comes at least with the periodic timer, the task *)
(* runs between interrupts, and a timer that is read expires at last.      *)
FairSpec == /\ Spec
            /\ WF_vars(MainLoop)
            /\ SF_vars(TaskStep)
            /\ SF_vars(PollDhcp(TRUE))

-----------------------------------------------------------------------------
(* A lookup fails for want of an answer only after the DNS server has been *)
(* asked, although every second question goes to the DHCP port.            *)
AskedBeforeGivingUp ==
  \A i \in Slots : i = slot /\ task = "wait" /\ names[i].retries = MAX_RETRIES
                     /\ names[i].state = "error" => reached

(* The task waits for an entry that has ended silently.                    *)
Unanswered == task = "wait" /\ ~ done /\ names[slot].state = "done"

(* A lookup returns, unless its entry ends silently or the DHCP client     *)
(* goes from one offer to the next without an acknowledgment for ever; it  *)
(* may even start before the board is configured.                          *)
LookupsReturn == \/ []<>(pt = "ack")
                 \/ task # "idle" ~> task = "idle" \/ Unanswered
=============================================================================
