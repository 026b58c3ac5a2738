# A TLA+ model of eLuaWebServer

eLuaWebServer is a port of eLua with a web server that runs Lua inside HTML
pages. It runs without an operating system: a main loop polls the Ethernet
driver, feeds every frame to the uIP TCP/IP stack, runs uIP's periodic timer
every half second, and uIP calls the application back. Beside it are the parts
of eLua that talk to the outside of the board: sockets, ARP, DHCP and DNS, serial
lines, timers and interrupts, a remote file system and XMODEM. This directory
holds models of these parts, with TLC runs on small instances and TLAPS proofs
for all sizes.

Paths below are relative to the repository (`src/uip/uip.c` and so on).

## 1. The system and its parts

### On the path of a request

| Part | State | Operations | Correct when |
|---|---|---|---|
| **uIP TCP** `src/uip/uip.c` | `uip_conns`, `uip_listenports`, `lastport`, one packet buffer `uip_buf` | `uip_process` for a segment, for the timer, for a poll; `uip_listen`, `uip_unlisten`, `uip_connect`, `uip_connect_socket`, `uip_conn_reserve` | a segment has one connection; live entries are not reused; ends are reported; entries of dead peers come back; retransmissions are bounded |
| **Protosockets** `src/uip/psock.c` | `psock` in every connection: `sendptr`, `sendlen`, `readptr`, `readlen`, the saved line of each protothread | `PSOCK_SEND`, `PSOCK_GENERATOR_SEND`, `PSOCK_READTO`, `PSOCK_CLOSE` | a send blocks until its bytes have arrived; bytes arrive once and in order; a retransmission repeats the same bytes |
| **Web server** `src/webserver/httpd.c` | per connection an `httpd_state` (inside `uip_conn`), for all of them `connection[]`: the address and the Lua state of each client | `httpd_appcall`, `handle_input`, `handle_output`, `send_file`, `handle_elua_tags`, `http_run_elua` | each client runs in its own interpreter, which is open; a page starts in a new one, a script continues in it; nothing is leaked |
| **File access** `src/webserver/httpd-fs.c` | `file_fs.huge`, one buffer for all files (the cache is dead code, `FILE_CACHE_SIZE` is 0) | `httpd_fs_open` | what a connection sends is what it opened |
| **Main loop** `src/webserver/httpd-uip.c` | two timers | frames in and out, periodic timer, ARP ageing | runs for ever |
| **Tag output** `src/newlib/genstd.c` | `write_buffer` of the connection | `uip_write` | output is the printed text without line ends, within the buffer |
| **ARP** `src/uip/uip_arp.c` | `arp_table`, `arptime` | update, ageing, choosing an entry | an entry is its host's latest word, and is forgotten in time |

The parts meet in three places, and that is where most of the difficulty is.
uIP calls the application *synchronously* and acts on the flags it leaves in
`uip_flags`, `uip_slen` and `uip_sappdata`; `uip_buf` is the payload of the frame
just received, of the one being sent, and of the one a retransmission expects to
find; and `httpd_state` lies in `uip_conn`, so it is reused for the next
connection of that entry and only some fields are reset.

### Beside it

| Part | State | Operations | Correct when |
|---|---|---|---|
| **Sockets** `src/elua_uip.c` | an `elua_uip_state` in every connection, the accept request, the telnet socket | `elua_uip_appcall` in the interrupt; `elua_net_socket`, `connect`, `send`, `recv`, `close`, `elua_accept` in the program | a call returns, and with what has happened to its connection |
| **DHCP, DNS** `src/uip/dhcpc.c`, `resolv.c` | the thread and its lease; the table of names | one UDP application, called for packets and polls | a lease is one that was granted; a lookup ends, with the address of its name |
| **Ring buffers** `src/buf.c` | indices, count, elements | `buf_write` in the interrupt, `buf_read` in the program | elements are read once and in order |
| **Multiplexer** `src/common_uart.c`, `mux_src/main.c` | at either end: services in and out, escape seen, last character | bytes in and out, restart | characters reach their service in order, also after a restart that left one at most to repeat |
| **Virtual timers** `src/common_tmr.c` | counters, limits and one byte of flags for eight timers | the tick; set, reset, delay, match interrupts | a one-shot fires once, a delay ends |
| **Interrupts to Lua** `src/elua_int.c` | the queue, the Lua hook | `elua_int_add` in the interrupt, the hook in the virtual machine | what is queued is handled, in order |
| **Remote file system** `src/remotefs/`, `src/eluarpc.c`, `rfs_server_src/` | the request under way, the position at the PC | read, write, open, lseek as requests with a timeout | an answer belongs to its request; the server recovers |
| **XMODEM** `src/xmodem.c` | block number, retries, buffer | receive a record, flush, acknowledge | a size is returned for all of the file and nothing else |

ADC sampling, file systems, shell, Lua modules, platform drivers, and third-party
code (Lua, FatFs, dlmalloc) are not modelled. `PROJECT.json` lists each part with
what is modelled of it or why it is not.

### What is hard here

* **Loss, repetition, reordering.** uIP keeps no copy of what it sent; the
  application reproduces it from whatever its state is by then.
* **Reuse.** Four connection entries, four client entries, one file buffer,
  one packet buffer. What a former user left behind decides what the next sees.
* **Protothreads.** A thread resumes at the last `PT_WAIT_UNTIL`; tests above
  that line are not made again, and local variables do not survive.
* **Flags that stay set** during one call (`UIP_ACKDATA`) or across calls
  (`new_pht_page`).
* **Partial failure**: `lua_open()` fails between two tags; a client closes in
  the middle of a response; the remote side vanishes.
* **Counters compared with `==`**, and `u8_t` timers counted up and down.

* **Interrupts without locks.** Most of the socket, timer and buffer code shares
  bytes between an interrupt and the program; where the code disables
  interrupts, it does so for part of an operation.
* **Answers without numbers.** DNS answers carry the number of a table entry that
  may have been reused, remote file system answers carry none, DHCP uses one
  constant; what is late is taken for what is expected.
* **Restarts** of one end of the multiplexer, which knows neither the service nor
  whether the next byte is escaped.

The hazards, each at its line and with the properties that watch it, are in
`PROJECT.json`; behaviours no property is about are in section 3.

## 2. Modules

| Module | Models | Source |
|---|---|---|
| `UipTcp` | the connection table and the TCP state machine | `uip.c` |
| `PsockStream` | one response on its way: `httpd.c`'s sending threads, `psock.c`, uIP's data path, the network, the client | `psock.c`, parts of `httpd.c`, `uip.c` |
| `ByteStream` | abstract: what `psock.h` promises | - |
| `Httpd` | clients, pages, tags, interpreters over several connections | `httpd.c`, `httpd-fs.c` |
| `EluaSockets` | socket calls against the Ethernet interrupt | `elua_uip.c` |
| `Arp` | the ARP table | `uip_arp.c` |
| `Dhcpc`, `Resolv` | the DHCP client, the DNS resolver | `dhcpc.c`, `resolv.c` |
| `Names` | both in the one main loop, with a program that looks names up | `elua_uip.c` |
| `RingBuffer` | a buffer between an interrupt and a program | `buf.c` |
| `Sermux` | both ends of the multiplexer; extends `RingBuffer` | `common_uart.c`, `mux_src/main.c`, `sermux.h` |
| `EluaInt` | the interrupt queue and the Lua hook | `elua_int.c` |
| `VirtualTimers` | timers that raise interrupts; extends `EluaInt` | `common_tmr.c` |
| `RemoteFs` | both ends of the remote file system and the line | `remotefs/`, `eluarpc.c`, `rfs_server_src/` |
| `Xmodem` | the receiver, a sender and the line | `xmodem.c` |
| `MC...` | instances for TLC | |
| `UipTcpProofs`, `PsockStreamProofs`, `HttpdProofs`, `EluaSocketsProofs` | theorems on these modules | |
| `NamesProofs` | theorems on `Names`, with `Dhcpc` and `Resolv` in it, and on `Arp` | |
| `SermuxProofs` | theorems on `RingBuffer` alone and on `Sermux` | |
| `EluaIntProofs` | theorems on `EluaInt` alone and in `VirtualTimers` | |
| `SerialProofs` | theorems on `Xmodem` and on `RemoteFs` | |

The first three component modules cut the path of a request at its interfaces.
`UipTcp` leaves the application arbitrary: what `UIP_APPCALL()` does is any member
of `AppReactions`. `PsockStream` fixes the application (`httpd` sending a response)
and one established connection, and keeps sequence numbers and bytes. `Httpd`
keeps several connections and all clients and reduces a segment to the event it
is for the application (`request`, `acked`, `rexmit`, `other`). `EluaSockets` does
the same for the other application of uIP. `Names`, `Sermux` and `VirtualTimers`
compose: they extend the modules of the parts they use and interleave their
actions. Every module has a `TypeOK` (or `RingTypeOK`, `IntTypeOK`, `ArpTypeOK`,
`RfsTypeOK`), which declares what its variables hold.

### UipTcp

`conns[c]` is `struct uip_conn`: `tcpstate` and `stopped` are `tcpstateflags`,
`remote` the pair `(ripaddr, rport)`, `len`, `timer`, `nrtx` as in the code.
`uip_process` compares a sequence number with `rcv_nxt` and an acknowledgment
number with `snd_nxt + len`, and nothing else, so a segment carries the results
of the two comparisons (`seqok`, `ackok`) instead of the numbers, and `len` only
tells whether something is outstanding. Any segment may arrive at any time,
which includes loss, repetition, reordering and stray hosts. The RTT
estimator may yield any of `RtoValues`.

Each `case` of the state machine is an action (`RecvSynRcvd`, `RecvSynSent`,
`RecvFin`, `RecvEstablished`, `RecvLastAck`, `RecvFinWait1`, `RecvFinWait2`,
`RecvTimeWait`, `RecvClosing`), as is every branch of the timer (`TimerWait`,
`TimerCount`, `TimerGiveUp`, `TimerRexmit`, `TimerPoll`), the search of a
listening port and an entry (`RecvSyn`, `RecvStray`) and each call of the
application (`Listen`, `Unlisten`, `Connect`, `ConnectFull`, `ConnectSocket`,
`Reserve`). `uip_prepare_conn` is one step here; `EluaSockets` has its two halves
(`Open`, `Prepare`). `session` is history: what the application has been told about the
connection. `out` holds the flags of the answer.

### PsockStream

A byte is its position in the response. A segment carries a sequence number
`seq` and the position `pos` of its first byte; it is right when the two are
equal, and `Junk` is a position that is never right. `Items` is the response:
`send` is one `PSOCK_SEND`, `html` is `send_part_of_file` between two tags, `file`
is `send_file` with its generator. `appdata` is the payload area of `uip_buf`,
which `OtherFrame` overwrites. An action is one call of `httpd_appcall` with
everything the protothreads do until they block. `data_acked(s) & send_data(s)` is
evaluated from left to right, as the compiler the build uses does; C leaves the
order open. That `UIP_ACKDATA` stays set for the whole call is `AckedSend`.

### Httpd

A call of `httpd_appcall` is several steps here, because a page may run several
tags in one call: an entry step (`Connected`, `Called`, `Ended`, `Forgotten`), which
looks the client up, steps of the threads (`Get`, `BadRequest`, `SendHtml`, `RunTag`,
`RunTagNoMemory`, `Finish`, `SendAgain`), and a return step (`Insert`, `Evict`,
`WriteBack`) that writes the table. `call` holds the call's local variables, and no
other call begins while one is under way, as in the code. A file is a sequence of
pieces, text or tag; `huge` is the file in the one buffer of all connections. A
file that is overwritten while it is being sent is modelled at the granularity of
pieces: a thread that resumes in the middle of another file's tag is taken to be
at one of its pieces. `RunTag` takes any free interpreter for a new one;
`RunTagNoMemory` is a `lua_open()` that fails. `evicted` is history: the
interpreters of clients that lost their entry.

### EluaSockets

The Lua program is in one call at a time (`task`); it checks the connection
(`Begin`), leaves its request (`Prep`), and waits (`Done`, `RecvTimeout`);
`elua_net_connect` leaves its request (`Connect`), makes the entry one that is being
opened (`Open`, `uip.c:463`) and then fills it (`Prepare`); `elua_accept`
is `Listen`, `Request`, `Accepted`, `AcceptTimeout`, `GiveUp`. An interrupt may come
between any two of these. It is one of the events uIP passes on (`Syn`,
`Established`, `Segment`, `Poll`, `Rexmit`, `Fin`, `Ended`, `FinAfter`, `Silent`) with all
that `elua_uip_appcall` does for it (`App...`, by the socket's state), or a segment
that only tells the window (`Window`). The window of every segment sets the mss to any
of `1 .. UIP_TCP_MSS`, so that what `elua_uip_appcall` subtracts for an acknowledgment
need not be what was sent; `hist.acked` counts what was. A FIN may
acknowledge what is outstanding in the same segment. Data is its
length. The `'\r'` the console adds before `'\n'` is left out, telnet sequences are
bytes that may be taken out of a segment. The module has the TCP states the
sockets can tell apart; `UipTcp` has the others.

### Arp, Dhcpc, Resolv, Names

`Arp`: `ArpIn` is a request or a reply that updates the table, `ArpOut` looks an
address up or replaces the packet by a request, `ArpTimer` is `uip_arp_timer`. The
search of `uip_arp_update` (`Matching`) passes over addresses with a half that is 0
(`ZeroHalf`), the one of `uip_arp_out` (`EntriesOf`) does not. `arptime` wraps at
`WIDTH`. `announced` and `age` are history.

`Dhcpc` is the protothread with its two loops; a packet or a poll resumes it. Server
answers stay in `dhcpNet`, so that they may come late and again. `Resolv` is
`check_entries`, `newdata` and `resolv_query`; a query that reached the server is in
`asked` and may be answered at any time. In `Names` the main loop takes a packet or
none, then polls the DHCP connection and the DNS connection, and both handlers see
every packet and every poll, as in the code. `elua_net_lookup` is a task that the
loop may interrupt, also between the two stores of `resolv_query`.

### RingBuffer, Sermux

`buf_read` is four steps (copy, load, store, increment), the middle two without
interrupts; `BufWrite` is the interrupt. `Sermux` sends characters of two services over
one line, with the escape for the special ones. The board's send is six steps, one for
each byte and each assignment (`TxId`, `TxLast`, `TxData`, `TxFlip`, `TxMark`, `TxOut`),
with the interrupt between any two of them; the PC is one loop. Neither program waits for
the other. An end may stop at any moment (`HostStop`, `DevStop`) and then has lost its
variables; what reaches it until it is started again is lost (`Lose`), since nobody
reads it or the start discards it (`mux_src/main.c:87`). The program on the PC also
stops on a protocol error (`Exit`).

The protocol can repeat one character, once. `trouble` is the history of what it
cannot repair: an end is restarted with more than one character under way to it, or
with one the other end cannot repeat any more (`Hopeless`); a character is sent, or
its sender restarted, while an earlier one waits for an identifier that is not on the
line (`Unplaceable`); the board is restarted in the middle of a send, or asked for a
repetition there. These are conditions on what happens, not guards: the model goes on.

### EluaInt, VirtualTimers

The queue, its two indices and the hook; the hook is a step per access. A handler
may raise an error, which the program may catch. `VirtualTimers` has the tick and
the program's operations as sequences of loads and stores (`op.todo`), since the
flags of all timers share a byte. The tick's loop over the timers, which may queue an
interrupt for each of them, is the recursive function `QueueAfter`.

### RemoteFs, Xmodem

A packet is two units, the size and the body, as the readers read it. A unit may
be lost, or lose bytes, after which the server takes following units for the body
(`Swallow`). `Timeout` is the client's; an answer that is late counts as a fault. The
client builds a request and then empties the receive buffer into the first byte of it
(`client.c:41`, `Emptied`): unless nothing was there, or the last byte happens to be
the one that belongs there, no packet is found and nothing is sent (`SendNothing`). Reads
and writes may fail at the server. The length of the answer to a read that failed,
4294967295, leads the client far outside its buffer (`AnswerWild`): it finds no end of
the packet, or the processor faults and the board is reset (`Reset`). The
client's loops over long reads and writes and the position of the file at the PC
are modelled; opening always succeeds.

`Xmodem` reads a record unit by unit. A unit may be damaged or lost, a reply may be
lost, the sender may pause, and any unit may look like a control character when it
is read where one is expected. The histories are narrow: `misread` is a byte of a
record that was read as EOT; `late` counts the passes that were over before the sender
started, until a record has come and the retries are reset (`xmodem.c:158`).

## 3. Runs

Passing runs explore all reachable states of their instance.

| Run | Instance | Shows |
|---|---|---|
| `tcp_table` | 2 entries, 1 remote host, ports 1 and 2, forced polls | endpoints are unique; ends are reported and closes take effect; retransmissions stay within their budget |
| `tcp_dead_peer` | 1 entry, RTO up to 5, backoff up to 16, forced polls | with silent peers the timer frees every entry that is being opened or closed, and one with data in flight unless forced polls of it never cease |
| `psock_response` | a response of all kinds of parts: header, HTML, output of a tag, a file of two segments; windows closed and open; the client may half-close | the stream is intact, is not aborted, ends complete, and ends; `PsockStream` implements `ByteStream` |
| `httpd` | 2 connections, 3 clients, 2 entries, a page with two tags, a script | the table is sound, clients are isolated, pages start fresh, nothing but evicted clients leaks, also when `lua_open()` fails |
| `sockets` | 2 sockets, buffers up to 2 bytes, an mss of 1 or 2 that windows change | calls return if the peer answers, and count what was acknowledged as long as the mss is the one of the send; an accepted connection is returned also when the time is over; peers are stopped while nobody receives |
| `serial` | 2 services, buffers of 2, 2 characters, two restarts | characters arrive at their service in order, and all of them, unless a restart leaves what cannot be repeated; a read gets the oldest; the count is exact |
| `interrupts` | 2 timers, a queue of 2, 2 operations | what is queued has its hook and is handled; one-shots fire once |
| `arp` | 3 hosts, one with a zero half, 2 entries, 2 hardware addresses, a clock of 5 | an entry is the latest word of a host without a zero half; it is forgotten in time unless the clock wrapped; the oldest makes room |
| `names` | 2 DHCP servers, 2 names, 2 entries, 3 retries, 3 sequence numbers, 3 lookups | leases were granted; an address of another name only by reuse of the entry; a lookup that fails has asked; lookups end |
| `remotefs` | a read of two requests, a short write, reads and writes that fail, 2 faults | a wrong answer only if something old was under way; positions agree; a client that goes on calling is served |
| `xmodem` | 4 blocks, 3 block numbers, 2 faults | blocks in order; a size only for all of them, but for a byte read as EOT; given up only after as many late passes and faults as retries; the receiver returns |

One run is expected to fail, where the code disagrees with what the repository
says of it: `httpd_session`. `new_pht_page` survives a client's first page, so the
script called from it loses the globals the page has set, which `ajax.pht:3` and
`sensor.lua:1` of the site under test rely on.

### Behaviours met on the way

Where a property would fail on one of these it is stated for the other cases, and
its comment says so.

* uIP: a close or abort asked for in a retransmission call is dropped (`uip.c:859`); a
  SYN for port 0 matches a free entry of `uip_listenports` (`uip.c:1287`); a client
  that closes its side right after its request gets a truncated response
  (`uip.c:1642`). A forced poll, which every Ethernet interrupt makes of every
  connection (`elua_uip.c:104`), sets `nrtx` back to 0 when the application sends
  again (`uip.c:1775`): while there is other traffic, a dead peer with data in flight
  need not be given up.
* Protosockets: a `PSOCK_SEND` longer than the mss ends after the first acknowledgment
  (`psock.c:210`); after a loss a generator's data is not generated again, and is what
  the last frame left in `uip_buf` (`psock.c:237`), so `StreamIntact` is about the
  other parts; when the window shrinks the mss between a send and its retransmission,
  the rest is what was in `uip_buf` (`psock.c:151`).
* Web server: the parameters of the request before survive a `GET /` (`httpd.c:317`);
  two connections share one file buffer (`httpd-fs.c:209`), so the text sent may be
  the other's; an empty file waits until the polls abort it (`httpd.c:143`); the
  interpreter of a client that loses its entry is never closed (`httpd.c:431`).
* Sockets: an end that comes while the socket is idle, or a receive has not begun, is
  ignored (`elua_uip.c:322`, `326`): a call that has just checked the connection waits
  for ever or goes on with the next connection of the entry, and a telnet console
  stays taken (`elua_uip.c:340`). A receive that times out leaves the connection
  running, and what arrives is dropped (`elua_uip.c:580`). A window that changes the
  mss miscounts a send (`elua_uip.c:353`).
* Buffers: the test for a full buffer lets one more element in (`buf.c:124`), after
  which it is out of order; `ReadsOldest` is about the time before. `buf_flush` and
  `buf_set` must not meet an interrupt (`buf.c:86`, `106`).
* Multiplexer: a repetition uses up the character that is kept (`common_uart.c:99`,
  `mux_src/main.c:301`), and neither program waits before it sends the next one. After
  a restart with more than one character under way, or a second one, the rest is lost
  or goes to another service; a request for a character that is not there is data for
  the board and the end of the PC's program (`mux_src/main.c:290`); one that cuts into
  `platform_uart_send` gets the identifier of the last service, or a character without
  its escape (`common_uart.c:130`).
* Timers: a store to the shared byte may undo what the tick did to another timer
  (`common_tmr.c:122`); a delay on a timer with a cyclic match never ends
  (`common_tmr.c:97`).
* Interrupts: a caught error in a handler leaves the hook set, and it may run on an
  empty queue and slip (`elua_int.c:48`).
* DNS: an answer with neither address nor error is the end of nothing: the lookup
  waits for ever (`resolv.c:286`). DHCP: any packet ends a wait (`dhcpc.c:284`).
* ARP: after the 8-bit clock wraps an entry's age is negative (`uip_arp.c:153`). A
  host with a half of its address 0 is not found when it speaks again
  (`uip_arp.c:171`): it gets another entry, and packets go on to the first one.
* Remote file system: answers have no number (`client.c:58`); stale bytes destroy the
  request that is about to be sent, and the call fails (`client.c:41`); a read that
  fails is answered with an absurd length (`rfs_server_src/server.c:80`); a request
  that cannot be decoded is sent back as its own answer (`rfs_server_src/main.c:444`).
* XMODEM: when an acknowledgment is lost the repeated block is refused every time and
  the transfer fails (`xmodem.c:93`). Passes that are over before the sender is
  started cost retries, which come back with the first record only (`xmodem.c:158`): a
  sender that starts on the last 'C' and has one damaged record is given up.

### Bounds and why they are enough

* `UIP_CONNS = 2`: every rule of the table relates at most two entries, and one
  remote host with two ports makes both the same and different endpoints happen.
  One host suffices because addresses are only compared for equality.
* `UIP_MAXRTX = 1`, `UIP_MAXSYNRTX = 0`, `UIP_TIME_WAIT_TIMEOUT = 2`, `U8 = 3`:
  each counter passes its limit and wraps. `tcp_dead_peer` has larger ones, since
  a liveness property depends on the timers' arithmetic, and one entry, since
  entries do not interact through timers.
* Port numbers `0..2` with `PortWrap = 1`: the search for a free port wraps around.
* `InitialMss = 3`, windows `0`, `3`, `4`: a part shorter than, equal to and longer
  than a segment; a window that is closed, equal and larger. `MaxPolls = 3` for 20
  in the code; the number matters nowhere else.
* `httpd`: one client more than entries, so that one is evicted while two
  connections are served; as many interpreters as entries, so that `lua_open()`
  fails when one has leaked. Interpreters, clients and connections are
  interchangeable, hence the symmetry set.
* `sockets`: windows of 1 and 2, so that a send of 2 takes one segment or two, the mss
  may change in between, and a segment may or may not fill the buffer of a receive.
* `serial`: the characters are the escape and its image, the ones that need an
  escape and look like one; 2 characters are what can be under way and not be
  repairable; 2 restarts make one fall into the recovery from another. Buffers of 2 are
  filled and their indices wrap; that one is overrun or refuses a character, which the
  properties except, does not happen with 2 characters. The proofs have no bound.
* `interrupts`: periods of 1 and 2 ticks let matches of two timers coincide or
  come apart; a queue of 2 overflows.
* `arp`: `MAXAGE 3 < WIDTH 5`, so that entries age out, and the clock wraps before
  some do; three hosts for two entries, one of which has a zero half.
* `names`: as many sequence numbers as make them wrap with three lookups.
* `remotefs`, `xmodem`: two faults make one fault during the recovery from another;
  more blocks than block numbers, and a buffer that has to grow.

### Fairness

* `UipTcp!Fairness`: weak fairness of `Timer(c)` for each `c`; the main loop runs
  `uip_periodic` for every connection every half second. Nothing is assumed of
  the peers or of the application.
* `PsockStream!Fairness`: weak fairness of the retransmission timers, for the same
  reason; of the network, that what is sent again and again gets through (strong
  fairness of `Client`); of the client, that it acknowledges what it has received.
  The last two are assumptions on the environment, without which TCP promises
  nothing. uIP giving up is the action `Reset`, which may always happen.
* `EluaSockets!Fairness`: the loops of the calls and the time they measure go on
  (`Go`); the main loop polls every connection; a SYN that is not answered is given up
  (`UIP_MAXSYNRTX`, which no poll resets). That data which is outstanding is acknowledged
  or the connection ends is not in it, since forced polls reset the retransmission
  counter; it is what `CallsReturn` asks of the peer (`PeerAnswers`).
* `Sermux!Fairness`: the board's reads and sends go on, the interrupt takes the bytes
  of the line, the PC's loop reads its port, an end that has stopped is started again.
* `VirtualTimers!Fairness`: the tick comes, the program's operation goes on, and the
  virtual machine calls the hook while no operation is under way.
* `Names!FairSpec`: the main loop runs at least with the periodic timer; the program
  runs between interrupts and the DHCP timer expires in some poll (both strong,
  because the loop disables them again and again).
* `RemoteFs!RfsFairness`: both programs run, and the timeout comes when no byte does.
* `Xmodem!FairSpec`: the receiver runs; a sender that waits reads its reply, one that
  has paused goes on.

## 4. Proofs

All theorems are for every value of the constants that satisfies the modules'
`ASSUME`s.

**`UipTcpProofs`**: `TypeCorrect`, `EndpointsUnique`, `BudgetKept`, `EndsReported`,
`ClosesTakeEffect`. The inductive invariant is the conjunction of the first four. They
need each other: the budget is kept because the tests use `==`, which is enough only
if `nrtx` was within bounds and `len` agrees with the state; ends are reported because
an entry that is reused is `CLOSED` or in `TIME_WAIT`, of which the application has
been told. All but a few actions touch one entry and keep its endpoints; `LocalStep`
says what such a step must satisfy for the conjunction to be preserved, and each
action is shown to be such a step. Endpoints stay unique when a connection is opened
because a SYN opens one only if no entry matches it, and `uip_connect` picks a port no
active entry has. `ClosesTakeEffect` has one more hypothesis, that the application
asks for no close while it is called to retransmit (`RexmitOps \subseteq {"none",
"send"}`); section 3 says what happens otherwise.

**`PsockStreamProofs`**: `StreamTypes`, `SendsBlock`, `StreamStaysIntact`,
`EndMeansComplete`, `ResponsesNotAborted`, and `StreamRefinement`: psock over uIP
implements `ByteStream`. The assumption is `FitsMss`: no `PSOCK_SEND` is longer
than the mss and no window makes the mss smaller; section 3 says what happens
otherwise. The invariant has four parts: the mss is the initial one; `Window` ties
`snd_nxt`, `len`, `ptr`, `slen` and `sendptr` to each other and says that what is in
the network is at or before the present send; `Phases` says what each phase
implies for them; `Ends` says where a FIN can be. From `Window` an acknowledgment
that `Acks` accepts covers exactly the present send.

**`HttpdProofs`**: `ServerTypes`, `TableStaysSound`, `ClientsIsolated`,
`PagesAreFresh`, `NothingElseLeaks`. `TableSound` is about the time between calls;
during one, the entry of the calling client may point to an interpreter that has
been closed. The invariant says so: `EntriesOK` states the table's soundness for
every entry but the caller's, `CallOK` that `call.L` is open and the caller's own,
`StateOK` what the `httpd_state` of a connection satisfies in each phase, and
`DeedOK` the same of the last tag. For `PagesAreFresh` the key is that
`new_pht_page` is set until a tag of the page has been reached. `NothingElseLeaks`
adds that an open interpreter is in the table, is the caller's, or is in `evicted`,
and that the caller's entry is the one it will be written back to.

**`EluaSocketsProofs`**: `TypeCorrect`, `PeersAreStopped`, `SendsAreCounted`,
`AcceptReturnsIt`, for any number of sockets and any sizes. The invariant adds to the
properties what the program and the interrupt know of each other: a socket that is
asked for something is the one the call waits for (`Calls`), the socket the interrupt
has set is the one `elua_accept()` is going to return (`Accepting`), nothing is
counted before a send has made its request (`Uncounted`), and while a send goes on its
connection is open and what uIP has outstanding is nothing or what an acknowledgment
will be taken for (`Sent`). `SendsAreCounted` rests on the latter: `hist.steady` says
only that no window has changed the mss under something outstanding, not what is
counted. `EntryStep` is what every event of uIP comes down to: one entry of the table
and its socket are rewritten.

**`NamesProofs`**: `TypeCorrect`, `LeasesAreGranted`, `AnswersFindTheirEntry`, for any
servers, names, entries and retries; and `AskedFirst`, for `MAX_RETRIES > 1`: with one
retry the only question may go to the DHCP port. What makes `AskedFirst` true is a
parity: the main loop polls the two connections in turn, both handlers see every poll,
and an entry waits one poll after its first question, so of its first two questions
one is sent to the DNS server. `FirstTry` says where in that count a name is that the
server has not been asked for, and `OneQuery` that no other entry takes its turn.
`LeasesAreGranted` needs that an acknowledgment on its way is from a server that has
leased (`DhcpInv`), `AnswersFindTheirEntry` that an address was given under the number
of its entry (`EntrySound`).

**`NamesProofs`**, on `Arp`: `ArpTypes`, `TableStaysCurrent`, `OnlyWrappedStay`,
`NothingForgottenEarly`, `OldestGoes`, for any number of hosts and entries and any
width. The invariant `ArpInv` has `OneEntryPerHost` and `TableCurrent`, which need
each other and are about hosts without a zero half, and `AgesKnown`: until the clock
wraps, `arptime` minus the time of an entry is its age. The last two theorems are
about steps, and follow from `AgesKnown`.

**`SermuxProofs`**: `OldestIsRead`, `CountStaysExact`, for buffers of any size under an
arbitrary interrupt (`RingSpec`), and `UartReadsOldest`, `UartCountsExact`, for the
buffers of the virtual UARTs under the multiplexer (`Spec`). The
invariant is `RingInv`: the count is the length of `queue`; until a buffer is overrun
its elements from `rptr` (or one further, while a read has not moved it yet) are
`queue` (`HoldsQueue`); and `ReaderSound`, that what a read has copied and loaded is
still true, because the writer only appends and interrupts are off between load
and store.

`CharactersInOrder` (with `MuxTypeCorrect`) is for any services, any characters and any
number of sends and restarts, at any moment. `DeliveredInOrder` itself says nothing
of the bytes on the line; the invariant `Order` does: without `trouble` nothing was
delivered wrongly, and each direction (`BoardDir`, `PcDir`) is in one of three modes
(`Direction`):

* `Coded`: there is a *reading* of the line, a function from its places to the states of
  a decoder, that starts at the receiver's `in` and `esc`, follows the bytes
  (`Follows`), finds the characters under way in their order (`Matches`), each at its
  service and escaped if it has to be (`AllPlaced`), and ends where the sender is (`Told`);
* `Unplaced`: the receiver was restarted, the one character under way has no service
  for it, and the sender still has that character (`Repeatable`);
* `Asked`: the receiver has dropped it and exactly one request is on the line back.

Since the reading is a function that exists, and not a recursive decoder, no induction
is needed: a byte that is put on the line makes the reading one place longer
(`ReadOn`), one that is taken off makes it one shorter (`ReadTail`), and a restart of
the receiver changes its states up to the first identifier, or up to the first escape
or character (`ReadNameless`, `ReadUnsettled`). The six steps of the board's send are
part of it: a character that has been noted but not put on the line yet belongs to the
sender (`PcTx`, `TxNotes`), and once its bytes are out it is taken for sent, whatever
is still to be assigned (`PcOut`, `PcLast`). `RequestAnswered` is why a request finds
a character. A restart of the receiver is `DirectionRestart`, of the sender
`SenderRestart`, what reaches a stopped end `DirectionLose`; in each the new clause of
`trouble` is what the step needs.

The second half, that `trouble` takes a restart, is `Calm`: until the first one both ends
run, and whatever is on the line to an end that knows no service follows an identifier
(`KnownBoard`, `KnownPc`), so that no end is `Stuck` (`NotStuck`) and no request is on the
line (`NoRequest`).

**`EluaIntProofs`**: `QueueStaysSound`, `HookStaysArmed`, for queues of any size under
arbitrary interrupts (`IntSpec`), and `TimerQueueSound`, `TimerHookArmed`,
`OneShotFiresOnce`, for any number of virtual timers (`Spec`). The invariant `IntInv`
is `Aligned`, until the hook has slipped: the slots in use are those from the read
index, as many as are pending, and the hook is set if there are any, or is being
decided about with the interrupts off. One tick may queue many interrupts, in a loop
over the timers: `LoopIsQueueAfter` shows that `QueueAfter` is defined by its
equation, and that the loop keeps the queue aligned is shown with the least timer at
which it would not (`LeastNumber`), since the provers cannot use the library's
induction theorems.

**`SerialProofs`**, on `Xmodem`: `XmodemTypeCorrect`, `XmodemInOrder`,
`XmodemComplete`, `XmodemRepairs`, for any file, record, retry limit and number of
faults. The first three rest on `Ordered`. The receiver takes a record by the byte
`packnum` alone, so all that keeps blocks apart modulo `NUMBERS` is that the sender is
never more than one block ahead: `Acknowledged` says that it is at the block the
receiver waits for and no acknowledgment is under way, or at the last one received
and at most one is; `Window`, that every undamaged unit on the line is of one of these two.
Two numbers suffice (`NUMBERS > 1`; the byte has 256): the wrap of `packnum` is harmless
for files of any length. `XmodemRepairs` needs `Lockstep`, which holds until there is
trouble of another kind than damage: it says for each state of the receiver what is
on the line and whose turn it is, and has a `Budget`: the retries left, the passes
that were over before the sender started, and the faults done so far make up for
the passes the record still needs. Hence a transfer cannot be given up before late passes
and faults are as many as the retries.

**`SerialProofs`**, on `RemoteFs`: `RfsTypeCorrect`, `RfsAnswersAreMine`,
`RfsPositionKnown`, for any calls, buffers, files and losses. `OnlyMine`: if nothing
old was under way when the request was sent, all the units of both lines are of this
request; a request that was destroyed by stale bytes is not sent and changes nothing
of that. `Known` follows one request while none has failed: not sent, under way
(`Requested`), read by the server (`Accepted`), or executed with its answer under way
(`Executed`), and the position at the server differs from the one the application has
counted exactly by what that answer will report, which is nothing for one that failed.
So no request is executed twice and no part of a call cut into several requests is
lost without a failure.

### Only model-checked

* Liveness (`DeadPeersFreeEntries`, `ResponseEnds`, `CallsReturn`, `EverythingArrives`,
  `InterruptsHandled`, `LookupsReturn`, `ServerRecovers`, `ReceiveReturns`), which is
  beyond the prover.

Every invariant and every action property that a passing run checks is stated by a
theorem.

## 5. Not modelled

* In `uip.c`: checksums, IP and TCP options, fragments, ICMP, urgent data. They are
  pure functions of the packet, or not used by the server.
* `psock_readto`: a request arrives as a whole.
* The text of requests, headers and tags, `uip_write` and JSON: conversions of
  strings.
* `http_run_elua`'s Lua code: it may print or not, nothing else.
* `buf_set` and `buf_flush`, ADC sampling; the hook of a coroutine; the UDP and
  in-memory transports of the remote file system.
* Shell, file systems, Lua modules: sequential code whose state is files or text.
* By far the most lines of the repository are register definitions and drivers of
  the platforms (`src/platform/`), and third-party code (Lua, FatFs, dlmalloc, the
  other uIP demos). They are data or not this program's own logic, so the share of
  lines that the models cover stays small whatever is added.

## 6. Plan

1. `psock_readto` and `buf_bufto`: the token does not depend on how the request is cut
   into segments, against a reference over all cuts.
2. `uip_write` (`genstd.c`): the output of a tag against a reference definition over
   all short strings.
3. `buf_set`, `buf_flush` and the ADC code that calls them.
