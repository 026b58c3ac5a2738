------------------------------- MODULE Dhcpc --------------------------------
(***************************************************************************)
(* The DHCP client (src/src/uip/dhcpc.c): the protothread handle_dhcp,     *)
(* resumed by every call of the UDP application, and dhcpc_configured of   *)
(* src/src/elua_uip.c, which it ends with.  Servers and the network are    *)
(* external: a message sent may arrive late, twice or never, and since xid *)
(* is a constant the board cannot tell the answers of one attempt from     *)
(* those of another.                                                       *)
(*                                                                         *)
(* An address, and the value of an option, is the server it comes from.    *)
(***************************************************************************)
EXTENDS Naturals

CONSTANTS
  Servers,          \* DHCP servers of the network
  Provides,         \* the options a server sends along: subsets of Options
  DiscoverLimit,    \* seconds after which discovery is given up (60)
  RequestLimit,     \* seconds after which a request is given up (10)
  None              \* address 0.0.0.0

Options == {"router", "dns"}

ASSUME DhcpcAssumption == /\ Provides \in [Servers -> SUBSET Options]
                          /\ DiscoverLimit \in Nat \ {0}
                          /\ RequestLimit \in Nat
                          /\ None \notin Servers
                          /\ "static" \notin Servers \cup {None}

VARIABLES
  pt,       \* s.pt: where handle_dhcp continues
  ticks,    \* s.ticks, in seconds
  s,        \* s.ipaddr, s.serverid, s.default_router, s.dnsaddr
  config,   \* what dhcpc_configured has set: nothing, "static" or the lease
  dhcpNet,  \* messages of the servers that may arrive (again)
  bound     \* servers that have leased their address to the board

dhcpVars == <<pt, ticks, s, config, dhcpNet, bound>>

Lease == [ip : Servers \cup {None}, serverid : Servers \cup {None},
          router : Servers \cup {None}, dns : Servers \cup {None}]

NoLease == [ip |-> None, serverid |-> None, router |-> None, dns |-> None]

(* elua_uip_conf_static: the addresses of ELUA_CONF_....                   *)
Static == [ip |-> "static", serverid |-> None, router |-> "static", dns |-> "static"]

(* A reply without the board's hardware address or xid, or another type.   *)
Foreign == [type |-> "foreign", from |-> None]

Replies == [type : {"offer", "ack", "nak"}, from : Servers] \cup {Foreign}

DhcpTypeOK ==
  /\ pt \in {"begin", "offer", "ack", "yield"}
  /\ ticks \in 0..(2 * DiscoverLimit + RequestLimit + 2)
  /\ s \in Lease
  /\ config \in Lease \cup {Static}
  /\ dhcpNet \subseteq Replies
  /\ bound \subseteq Servers

(* dhcpc_init and dhcpc_request.                                           *)
DhcpInit ==
  /\ pt = "begin"
  /\ ticks = 0
  /\ s = NoLease
  /\ config = NoLease
  /\ dhcpNet = {Foreign}
  /\ bound = {}

configured == config.ip # None

-----------------------------------------------------------------------------
(* The offers that a discovery makes the servers send.                     *)
Offers == {[type |-> "offer", from |-> x] : x \in Servers}

(* send_discover.                                                          *)
SendDiscover == dhcpNet' = dhcpNet \cup Offers /\ UNCHANGED bound

(* send_request: the server it names leases its address or refuses, the    *)
(* others know that they are not meant.                                    *)
SendRequest(t) ==
  IF t.serverid = None THEN UNCHANGED <<dhcpNet, bound>>
  ELSE \/ /\ t.ip = t.serverid
          /\ dhcpNet' = dhcpNet \cup {[type |-> "ack", from |-> t.serverid]}
          /\ bound' = bound \cup {t.serverid}
       \/ /\ dhcpNet' = dhcpNet \cup {[type |-> "nak", from |-> t.serverid]}
          /\ UNCHANGED bound

(* parse_msg and parse_options: what a reply makes of s, whatever its type.*)
(* An option the message lacks keeps the value of an earlier message.      *)
Parsed(m) ==
  IF m = Foreign THEN s
  ELSE LET opt(o) == IF o \in Provides[m.from] THEN m.from ELSE s[o]
       IN  [ip       |-> IF m.type = "nak" THEN None ELSE m.from,
            serverid |-> m.from,
            router   |-> opt("router"),
            dns      |-> opt("dns")]

(* dhcpc_configured: the lease t, or the static configuration.             *)
Configured(t) ==
  /\ pt' = "yield"
  /\ config' = IF t.ip # None THEN t ELSE Static
  /\ UNCHANGED <<dhcpNet, bound>>

(* The thread starts.  A message that arrives at this moment has been      *)
(* overwritten by the discovery when it is parsed: it only costs a try.    *)
Begin(newdata) ==
  /\ pt = "begin"
  /\ pt' = "offer"
  /\ ticks' = IF newdata THEN 2 ELSE 1
  /\ SendDiscover
  /\ UNCHANGED <<s, config>>

(* No offer: discover again, waiting twice as long, or give up.            *)
NoOffer(t) ==
  /\ pt = "offer"
  /\ IF ticks < DiscoverLimit
     THEN /\ s' = t
          /\ ticks' = 2 * ticks
          /\ SendDiscover
          /\ UNCHANGED <<pt, config>>
     ELSE /\ s' = [t EXCEPT !.ip = None]
          /\ Configured(s')
          /\ UNCHANGED ticks

(* An offer is requested.                                                  *)
GotOffer(m) ==
  /\ pt = "offer"
  /\ m.type = "offer"
  /\ s' = Parsed(m)
  /\ pt' = "ack"
  /\ ticks' = 1
  /\ SendRequest(s')
  /\ UNCHANGED config

(* No acknowledgment: request again, or start from the beginning.          *)
NoAck(t) ==
  /\ pt = "ack"
  /\ s' = t
  /\ IF ticks <= RequestLimit
     THEN /\ ticks' = ticks + 1
          /\ SendRequest(t)
          /\ UNCHANGED <<pt, config>>
     ELSE /\ pt' = "begin"
          /\ UNCHANGED <<ticks, config, dhcpNet, bound>>

(* Mutant of IsAck: any message of the server will do.                     *)
IsAckOrOffer(m) == m.type \in {"ack", "offer"}

(* parse_msg() == DHCPACK.                                                 *)
IsAck(m) == m.type = "ack"

(* The request is acknowledged.                                            *)
GotAck(m) ==
  /\ pt = "ack"
  /\ IsAck(m)
  /\ s' = Parsed(m)
  /\ Configured(s')
  /\ UNCHANGED ticks

(* handle_dhcp, called with the message m.                                 *)
DhcpNewdata(m) ==
  \/ Begin(TRUE)
  \/ GotOffer(m)
  \/ m.type # "offer" /\ NoOffer(Parsed(m))
  \/ GotAck(m)
  \/ ~ IsAck(m) /\ NoAck(Parsed(m))
  \/ pt = "yield" /\ UNCHANGED dhcpVars

(* handle_dhcp, called by a poll, with the timer expired or not.           *)
DhcpPoll(expired) ==
  \/ Begin(FALSE)
  \/ expired /\ (NoOffer(s) \/ NoAck(s))
  \/ ~ expired /\ pt \in {"offer", "ack"} /\ UNCHANGED dhcpVars
  \/ pt = "yield" /\ UNCHANGED dhcpVars

-----------------------------------------------------------------------------
(* The board never uses an address that no server has leased to it, and    *)
(* every option that the server of its lease sends is the one in use,      *)
(* however offers and answers of other servers and of earlier attempts     *)
(* come in between: messages change s before their type is looked at.      *)
LeaseFromServer ==
  config.ip \in Servers =>
    /\ config.ip \in bound
    /\ \A o \in Provides[config.ip] : config[o] = config.ip
=============================================================================
