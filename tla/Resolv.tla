------------------------------- MODULE Resolv -------------------------------
(***************************************************************************)
(* The DNS resolver (src/src/uip/resolv.c): a table of names, each asked   *)
(* for again and again until an answer with the number of its entry        *)
(* arrives or the retries are used up.  resolv_found of src/src/elua_uip.c *)
(* hands the result to the task.  The server and the network are external: *)
(* an answer may be lost, late or come twice.                              *)
(*                                                                         *)
(* The address of a name is the name itself.                               *)
(***************************************************************************)
EXTENDS Integers

CONSTANTS
  HostNames,        \* names looked up
  RESOLV_ENTRIES,   \* entries of the table
  MAX_RETRIES,      \* queries before a name is given up
  SEQNOS,           \* values of the byte seqno (256)
  Nobody            \* no name, no address

ASSUME ResolvAssumption == /\ RESOLV_ENTRIES \in Nat \ {0}
                           /\ MAX_RETRIES \in Nat \ {0}
                           /\ SEQNOS \in Nat \ {0}
                           /\ Nobody \notin HostNames

VARIABLES
  names,   \* names[]
  seqno,   \* seqno
  done,    \* elua_resolv_req_done
  ip,      \* elua_resolv_ip
  asked    \* questions that have reached the server: entry and name

resolvVars == <<names, seqno, done, ip, asked>>

Slots == 0..RESOLV_ENTRIES - 1

(* An answer holds an address, an error, or neither: only records of other *)
(* types.                                                                  *)
Answers == [id : Slots, name : HostNames, kind : {"address", "error", "other"}]

ResolvTypeOK ==
  /\ names \in [Slots -> [state : {"unused", "new", "asking", "done", "error"},
                          tmr : 0..MAX_RETRIES, retries : 0..MAX_RETRIES,
                          seqno : 0..SEQNOS - 1,
                          name : HostNames \cup {Nobody},
                          ipaddr : HostNames \cup {Nobody}]]
  /\ seqno \in 0..SEQNOS - 1
  /\ done \in BOOLEAN
  /\ ip \in HostNames \cup {Nobody}
  /\ asked \subseteq Slots \X HostNames

(* resolv_init.                                                            *)
ResolvInit ==
  /\ names = [i \in Slots |-> [state |-> "done", tmr |-> 0, retries |-> 0, seqno |-> 0,
                               name |-> Nobody, ipaddr |-> Nobody]]
  /\ seqno = 0
  /\ done = FALSE
  /\ ip = Nobody
  /\ asked = {}

-----------------------------------------------------------------------------
Least(S) == CHOOSE i \in S : \A j \in S : i <= j

(* The entry that resolv_query throws away: the first with the greatest    *)
(* positive difference of sequence numbers, or entry 0.                    *)
Stalest ==
  LET diff(i) == seqno - names[i].seqno
      oldest == {i \in Slots : diff(i) > 0 /\ \A j \in Slots : diff(j) <= diff(i)}
  IN  IF oldest = {} THEN 0 ELSE Least(oldest)

(* The entry that resolv_query takes.                                      *)
Taken == LET unused == {i \in Slots : names[i].state = "unused"}
         IN  IF unused # {} THEN Least(unused) ELSE Stalest

(* resolv_query up to the state of the entry i.                            *)
QueryName(i, name) ==
  /\ names' = [names EXCEPT ![i].name = name, ![i].state = "new"]
  /\ UNCHANGED <<seqno, done, ip, asked>>

(* Its two last assignments.                                               *)
QuerySeqno(i) ==
  /\ names' = [names EXCEPT ![i].seqno = seqno]
  /\ seqno' = IF seqno = SEQNOS - 1 THEN 0 ELSE seqno + 1
  /\ UNCHANGED <<done, ip, asked>>

(* The entries where resolv_lookup finds the name.                         *)
Cached(name) == {i \in Slots : names[i].state = "done" /\ names[i].name = name}

(* Mutant of Found: a failure is not reported.                             *)
FoundAddress(addr) == ip' = addr /\ done' = (done \/ addr # Nobody)

(* resolv_found.                                                           *)
Found(addr) == ip' = addr /\ done' = TRUE

(* A poll gives up an entry, sends its question (again), changes it.       *)
GivesUp(e) == e.state = "asking" /\ e.tmr = 1 /\ e.retries + 1 = MAX_RETRIES

Queries(e) == \/ e.state = "new"
              \/ e.state = "asking" /\ e.tmr = 1 /\ ~ GivesUp(e)

(* Mutant of Polled: intervals of an even number of polls.                 *)
PolledEven(e) ==
  IF e.state = "new" THEN [e EXCEPT !.state = "asking", !.tmr = 2, !.retries = 0]
  ELSE IF e.state # "asking" THEN e
  ELSE IF e.tmr # 1 THEN [e EXCEPT !.tmr = @ - 1]
  ELSE IF GivesUp(e) THEN [e EXCEPT !.state = "error", !.retries = MAX_RETRIES, !.tmr = 0]
  ELSE [e EXCEPT !.retries = @ + 1, !.tmr = 2]

Polled(e) ==
  IF e.state = "new" THEN [e EXCEPT !.state = "asking", !.tmr = 1, !.retries = 0]
  ELSE IF e.state # "asking" THEN e
  ELSE IF e.tmr # 1 THEN [e EXCEPT !.tmr = @ - 1]
  ELSE IF GivesUp(e) THEN [e EXCEPT !.state = "error", !.retries = MAX_RETRIES, !.tmr = 0]
  ELSE [e EXCEPT !.retries = @ + 1, !.tmr = e.retries + 1]

(* The entry whose question check_entries sends: the first that has one.   *)
Sent == {i \in Slots : /\ Queries(names[i])
                       /\ \A j \in Slots : Queries(names[j]) => i <= j}

(* check_entries: the entries up to the first that has a question to send; *)
(* the question may be answered if it is sent to the DNS server (that the  *)
(* answer never arrives stands for the loss of either).                    *)
CheckEntries(toServer) ==
  LET seen == {i \in Slots : \A j \in Sent : i <= j}
  IN  /\ names' = [i \in Slots |-> IF i \in seen THEN Polled(names[i]) ELSE names[i]]
      /\ IF \E i \in seen : GivesUp(names[i]) THEN Found(Nobody) ELSE UNCHANGED <<done, ip>>
      /\ asked' = IF toServer
                  THEN asked \cup {<<i, names[i].name>> : i \in Sent} ELSE asked
      /\ UNCHANGED seqno

(* The answers that the server gives to the questions that reached it.     *)
InFlight == {m \in Answers : <<m.id, m.name>> \in asked}

(* Mutant of EntryOf: the number of the answer is ignored.                 *)
EntryOfAny(m) == {i \in Slots : names[i].state = "asking"}

(* The entry that newdata takes the answer for.                            *)
EntryOf(m) == {i \in {m.id} : names[i].state = "asking"}

(* newdata.  An answer without an address ends the entry silently.         *)
Newdata(m) ==
  /\ \/ EntryOf(m) = {} /\ UNCHANGED <<names, done, ip>>
     \/ \E i \in EntryOf(m) :
          \/ /\ m.kind = "error"
             /\ names' = [names EXCEPT ![i].state = "error"]
             /\ Found(Nobody)
          \/ /\ m.kind = "other"
             /\ names' = [names EXCEPT ![i].state = "done"]
             /\ UNCHANGED <<done, ip>>
          \/ /\ m.kind = "address"
             /\ names' = [names EXCEPT ![i].state = "done", ![i].ipaddr = m.name]
             /\ Found(m.name)
  /\ UNCHANGED <<seqno, asked>>

(* newdata, given a DHCP message: its first bytes 2, 1 are taken for the   *)
(* number 0x0201, cut to entry 1, and what follows has no address.         *)
NewdataDhcp ==
  /\ names' = [i \in Slots |-> IF i = 1 /\ names[i].state = "asking"
                               THEN [names[i] EXCEPT !.state = "done"] ELSE names[i]]
  /\ UNCHANGED <<seqno, done, ip, asked>>

-----------------------------------------------------------------------------
(* An entry only holds the address of another name if that name was asked  *)
(* for under the same entry before: answers of another entry, late or      *)
(* repeated, never get in.                                                 *)
ForeignOnlyByReuse ==
  \A i \in Slots : names[i].state = "done" /\ names[i].ipaddr \notin {Nobody, names[i].name}
                     => <<i, names[i].ipaddr>> \in asked
=============================================================================
