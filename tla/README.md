# A formal model of the Gateway6 client (gw6c 5.1)

The Gateway6 client asks a *tunnel broker* for an IPv6-in-IPv4, IPv6-in-UDP or
IPv4-in-IPv6 tunnel with the Tunnel Setup Protocol (TSP), sets it up on the
host and keeps it up, over whatever transport, protocol version and broker
works, and it tells a user interface (GUI), in another process, how that goes.
The TLA+ modules beside this file model its protocol logic, its configuration
and its messaging, TLC checks them on small instances, and TLAPS proves the
main invariants for every value of the constants.  All paths below are under
`src/`; `TC` stands for `tspc-advanced`, `MSG` for `gw6c-messaging/src` and `CFG`
for `gw6c-config/src`.  The Linux build of the client is the one modelled, and
the Windows build of the messaging library, which has no other.

## 1. Inventory

| Component | Code | State | Operations | Hard parts |
|---|---|---|---|---|
| Connection loop | `TC/src/tsp/tsp_client.c` `tspMain` | transport cycle, version index, broker list and cursor, three flags, `gStatusInfo`, the `last_server` and `broker_list` files | one attempt, then a branch for each of its results | three nested loops (version, transport, broker) driven by one chain of results; a cursor into a list that an attempt replaces; `continue` paths without a delay; stop at any time |
| TSP session | `tsp_client.c` `tspSetupTunnel`, `tsp_cap.c`, `tsp_auth*.c`, `tsp_setup.c`, `xml_req.c`, `xml_tun.c` | socket, capabilities, mechanism, the values of the configuration it overwrites, the key file | connect, capabilities, authentication, request, acknowledgement | every exchange may be lost, cut, refused or redirected; the configuration is modified while it is used |
| Transports | `net_rudp.c`, `net_tcp.c`, `tsp_net.c`, ... | socket; `rttengine_stats` | open, send and receive, close | retransmission over a network that loses, duplicates, delays; state that outlives a session |
| Tunnel loop, local setup | `TC/platform/linux/tsp_local.c`, `tsp_tun.c`, `unix-main.c`, `tsp_tun_mgt.c` | tun descriptor, child process, `indSigHUP` | set up, forward packets, tear down | a stop request that races `select()`; failures half-way |
| Keepalive | `net_ka.c` | cycle counters, next event | read, write, periodic check | deciding that a link is dead by five silent cycles |
| Redirection, broker lists | `tsp_redirect.c` | list, file | build, sort, read, write | limits of list and lines; a list sorted while threads write into it |
| Distances | `net_echo_request.c`, `unix-echo-request.c` | one thread per broker, its socket and retries | measure | threads and their arguments; late, wrong and stray answers |
| Messaging: threads | `MSG/communicationsmgr.cc`, `messagesender.cc`, thread wrappers | state, send queue, semaphore | connect, post, disconnect, destroy | a thread terminated where it is; a loss noticed by one of three threads |
| Messaging: servent, pipes | `MSG/servent.cc`, `pipe*.cc` | partial message, sequence number, mutex, pipe | send, receive | fragments; two full pipes; a mutex that is lost |
| Messaging: messages | `MSG/*msgsender.cc`, `*msgtranslator.cc`, `*impl.cc` | the client's globals | encode, decode | globals read and written by two threads |
| Configuration | `CFG/*.cc`, `TC/src/lib/config.c`, `cli.c` | name-value pairs, lines of the file | read, validate, set, save, cancel, defaults | rules across several values; a file written line by line while it is read |
| HAP6 mappings | `CFG/hap6devicemappingconfig.cc` | list of mappings | add, remove, save, reload | the same file operations with other rules |
| Logging | `TC/src/lib/log.c` | log file, buffer | write, rotate | rotation |
| Containers, helpers | `deque.c`, `buffer.c`, `base64.c`, `dns.c`, `xmlparse.c` | - | - | boundaries |

**Interactions.**  `tspMain` calls `tspSetupTunnel` once per iteration; this
calls the transport through the table `net_tools_t`, and, once the broker has
granted a tunnel, `tspStartLocal`, which returns only when the tunnel has ended.
The integer these calls return is the only message between them: `tspMain`
branches on it.  `tspHandleRedirect`, called deep inside an attempt, replaces
the list that `tspMain` walks (through a pointer to a pointer).  The GUI is told
the status through the messaging library, from inside the attempt, at the top
of the loop and at its end.  A SIGHUP sets `indSigHUP`, which the loop polls.
Two files survive the process: the last server that granted a tunnel and the
last broker list.  The configuration file is shared by the GUI, which edits it,
and the client, which reads it once, without a lock.

**What makes each part correct** is listed with the hazards, each at its line,
in `PROJECT.json`; section 3 says which property covers which.

## 2. The modules

| Module | Models | Extends |
|---|---|---|
| `TspClient` | `tspMain`; an attempt is one step (`SetupTunnel`) | |
| `TspSession` | `tspSetupTunnel` exchange by exchange inside the same loop; implements `TspClient` | `TspClient` |
| `TspTransport` | what the session expects of `net_tools_t` | |
| `Rudp` | `net_rudp.c` over a lossy network; implements `TspTransport` | |
| `Keepalive` | the keepalive engine, `net_ka.c` | |
| `Tunnel` | `tspStartLocal` on Linux: setup, both tunnel loops with the engine, teardown | `Keepalive` |
| `BrokerLists` | a redirection: list, measuring threads, sort, file | |
| `MessageChannel` | what the messaging library promises to the client and its GUI | |
| `Servent` | two processes with two threads each over a bounded pipe; implements `MessageChannel` | |
| `CommMgr` | the life of a manager object with all of its threads | |
| `Settings` | every setting: validation, default, checks across settings, the client's `tConf` | |
| `Configuration` | the objects of an editor and of readers, and the file they share | `Settings` |
| `MC_*` | values of the constants for TLC | the module they name |
| `TspClientProofs` | the theorems about `TspClient` | `TspClient`, `TLAPS` |
| `TunnelProofs` | the theorems about `Tunnel` | `Tunnel`, `TLAPS` |
| `TspSessionProofs` | the theorems about `TspSession` | `TspSession`, `TspClientProofs` |
| `RudpProofs` | the theorems about `Rudp` | `Rudp`, `TLAPS` |
| `ServentProofs` | the theorems about `Servent` | `Servent`, `TLAPS` |
| `CommMgrProofs` | the theorems about `CommMgr` | `CommMgr`, `TLAPS` |
| `ConfigurationProofs` | the theorems about `Configuration` | `Configuration`, `TLAPS` |
| `BrokerListsProofs` | the theorems about `BrokerLists` | `BrokerLists`, `TLAPS` |

### TspClient

One variable per local variable or global of `tspMain`, under its own name where
TLA+ allows (`cycle`, `version` = `version_index`, `quickCycle`, `server` =
`c.server`, `current` = `current_broker_in_list`, ...).  `pc` is the place in the
loop: `start`, `loop` (its condition), `setup` (in `tspSetupTunnel`), `result`
(the chain of branches), `sleep` and `fallbackDelay` (its two waits), `end`
(`endtspc`), `done`.  `list` is the broker list, `<<>>` for NULL, and the cursor
a position in it, with `live` saying whether it points into the list now
allocated.  `tried` and `burst` are history variables: no guard reads them.

`ChooseTransport` is the top of the loop; the six actions of `SetupTunnel` are
the classes of results an attempt can have; each branch of the result chain
is an action (`OtherTransport`, `TunnelLost`, `VersionError`, `NextBroker`, ...)
that ends in one of three ways: `RetryNow` (`continue`), `RetryLater` (fall through
to the wait), `GiveUp` (`connected = 0`).  The servers are constants: which
`<<server, transport>>` pairs are unreachable, which versions a server speaks,
which other results occur.  `"UNPARSED"` is a reply without a status code.

The files: `last_server` changes only when a tunnel is granted, `broker_list` when
a list of more than one broker has been sorted; either may be unwritable, and
the list may be cut short.  Memory exhaustion in `FormatBrokerListAddr` is
`FormatBrokerListAddrFails`.

### TspSession

Replaces the six attempt actions by `tspSetupTunnel`'s steps: `tspConnect`,
`GetCapabilities`, one step per exchange of the mechanism (`Exchanges` has the
sequences), `SendRequest` and its reply, `Acknowledge`, `StartLocal`.  Each
exchange can also be lost, cut (the server closes a TCP connection), refused or
redirected; what the code then does differs between the mechanisms and is in
the records of `Exchanges`.  Of the configuration it keeps what an attempt
modifies: `clientAddr` (`client_v4`, where "auto" is overwritten by an address) and
`dnsServer` (taken apart by `strtok`).  `keyfile` is the file of known DSA keys.
`peer` is the server's view of the session.

The refinement needs no mapping beyond the shared variables: `ImplementsClient`
is `Spec` of `TspClient` itself, the steps inside an attempt stutter, and its last
one must be a step of `SetupTunnel`.

### Rudp and TspTransport

`TspTransport` is what a caller may rely on: the link is to the server named, and
an exchange returns the reply to that very request or fails.  `Rudp` is
`internal_send_recv` and the engine it keeps: time passes in half seconds
(`Tick`), the network holds two sets of datagrams from which it loses, copies or
delivers any one at any time.  `rttengine_deinit` resets only what the code
resets.  The round-trip estimate is abstracted to "any value between TMIN and
TMAX", which is what `internal_get_adjusted_rto` leaves of it.  `Drained` is an
assumption on the environment: the client waits at least the fallback delay
before a new UDP session with the same server (checked as `UdpFallbackWaits` in
`TspClient`) and no datagram outlives it; without it two sessions could be
confused, because sequence numbers start over.

### Keepalive and Tunnel

`Keepalive` holds the members of `ka` (without underscores: `count`, `doit`,
`stillUp`, `gotRead`, `gotWrite`, `consecutive`) and has one operator per function
of `net_ka.c`.  `NetKeepaliveDo` is `BetweenEvents` or `EndOfCycle`; its result 2 is
`TimedOut`.  The length of the next cycle is random in the code; `NextCycles` is
the set of lengths that `internal_adjust_next_event` can draw, in whole seconds.

`Tunnel` follows one tunnel from its grant (`type`, `interval`, `keepalive`, any
values) to the result of `tspStartLocal` (`status`).  `pc` is `start` (checks, daemon,
device), `script` (the child process), then in a loop `pass` (stop request,
keepalives), `enter` (about to call `select()` or `usleep()`) and `wait` (in it),
then `leave`, `teardown` and `done`.  The two loops, `TunMainLoop` for IPv6 in
UDP and `tspPerformTunnelLoop` for the tunnels that the kernel forwards, differ in
where they begin, in `Forward` and `ForwardFails`, and in what makes them send
keepalives (`Keeping`).  `enter` and `wait` are apart because SIGHUP interrupts a
wait only once it has begun.  `Tick` is the passing of time in a wait: its unit
is the 100 ms of a pass, and serves as the second of the keepalive engine too.
`silence` and `stopWait` are history variables.  `OtherICMP` says whether ICMPv6
messages of other hosts come to this one; `PingSocket` takes them for replies, as
`internal_do_pingin` does.

### BrokerLists

`phase` is where the main thread is: `idle`, `create` and `join` (`tspGetBrokerDistances`,
element `next`), `sort`, `write`, or `stopped` with a `result`.  `thread[i]` is the thread
of the i-th element: `starting`, `connecting` (its address is known), `sending`,
`waiting` in `select()`, `done`, with the members of its engine (`retries`, `waited`,
`distance`).  A thread writes the distance into the `list` when it ends, as the
code does, and the main thread sorts that same list.  It inserts a copy of one element
after the other into `sorted` (`tspSortBrokerList`, a pass of its loop), which then takes
the place of `list`, or is freed when there is no memory (`SortFails`).  Time is a thread's own
(`Tick`): its unit divides `ECHO_REQUEST_TIMEOUT`, and the adjustments of a distance
keep their ratio to it.  Threads that `CreateThreadFails` leaves behind are not
followed: the client ends.

### Servent and MessageChannel

Side `s` has a sender thread (`sPC`), a receiver thread (`rPC`) and the mutex of the
servent; `posted` is what the program gave to `PostMessage` on this connection, in
pieces (one packet each), `sent` and `count` the position in it and the count of
the queue's semaphore.  `pipe[s]` holds the packets written by `s`, at most `Room`.
`SenderYields` is the sender that finds something to read and lets its receiver go
first; `Stalled` is the end of a wait for the mutex (MUTEX_TIMEOUT).  A thread that
is stopped may be terminated where it is (`TerminateThread`), its mutex with it.
`Crash` ends a process, `Reconnect` makes a new connection.  `ImplementsChannel` maps
`open` to "both threads live" and keeps `posted` and `delivered` as they are.

### CommMgr

The manager thread (`manager`), the workers, the thread that posts (`poster`) and the
program's use of the object (`owner`), one step for each access to what they
share: the state, the queue and its semaphore, the mutex, the servent.  `cleanup`
is the place in `_CleanupInstance`, which the manager thread and the destructor
both call.  A read or write of the pipe is one step; `Servent` has the detail.
`aborted` is the end of the process by a failed assertion.

### Settings and Configuration

A value is a string of a small set: those that a check or a conversion tells
apart.  `ILLFORMED` stands for every value of the wrong form, `NODIR` for the path of
a directory that does not exist.  `Trim`, `Strtol`, `AsShort` and `Slashes` are the
conversions of the code on these values.  The names and values a file or an edit may
have are the constants `Name` and `Value`; `ConfigurationAssumption` says what the code
takes for granted of them: the file of defaults is one the validation accepts, as the
`gw6c.conf` that is installed, no name is empty or looks like a comment, and an address
with blanks in it is of the wrong form.

An object has the map of its settings (`nv`) and the list of the lines of the file
(`lines`), which say what each line is but not its value: `WriteConfigurationData`
takes the value from the map (`SettingsOf` are the names of the lines that are settings,
`RemoveLines` is the loop that removes the lines of mappings).  `kind` is which of the two kinds of object the
process uses; the file operations are the same.  Reading and writing take a step
per line, so that a reader may see any part of the file, and `EditorEnds` may cut
the writing short.  `saved` and `basis` are history variables.

## 3. Runs, and what they show

| Run | Question | Instance |
|---|---|---|
| `client_any` | Does the loop stay right whatever happens? | 3 servers, lists of at most 2, one of which speaks no version, all four modes, all results, stop at any time; 599K states |
| `client_failover` | Does it reach the one broker that works? Does stop end it? | the second broker of the list file grants, only over TCP and in 1.0.1 |
| `rudp` | Is RUDP the transport the session relies on? | 2 servers, 2 sessions of 2 exchanges, MAXRTT 1, MAXRT 2, both kinds of `select()`; 452K states |
| `session` | Does every attempt end as the loop assumes? | 2 servers, every method, every set of mechanisms; 1.2M states |
| `tunnel` | Is a dead link noticed, a live one kept, a stop seen, every tunnel taken down? | every type, with and without keepalives, intervals 0, 1 and 4, 3 cycles; 27K states |
| `brokers` | Is a redirection measured, sorted and handled to its end? | redirections to no broker, to one, to two or three of every kind, to a cut address, to one too many; timeout 2, 3 attempts, one restart |
| `servent` | Are messages delivered whole, in order and once, whatever ends or is killed? | messages of one or two packets, a pipe that holds two, sequence numbers modulo 2, two connections; 465K states |
| `messaging` | Does the library's life cycle hold together? | 4 messages, a queue of 2, two broken connections, one failed initialization accepted |
| `configuration` | Does a client ever run with settings that do not fit together? Is anything lost? | 3 files of each kind, 9 edits of settings and 3 of mappings, 5 operations, two command lines; 927K states |
| `client_last_server` | (fails) is each broker of a list tried? | |
| `session_cut` | (fails) does a session that ends well have had a tunnel? | |
| `tunnel_icmp` | (fails) is a dead link noticed on a host that receives other ICMPv6 messages? | |

Properties of `client_any`: `RouteOK` (the server attempted is the one the flags and
the cursor stand for, and the cursor is never used after its list is freed);
`OldProtocolOnlyOverTCP`; `EveryTransportBeforeMovingOn`; `NoRepeatWithoutRest` and
`UdpFallbackWaits` (the delays that protect the server are never skipped);
`FinalStatusHonest`.  Of `client_failover`: `Connects`, `EachBrokerTried`, `StopEnds`.
Of `rudp`: `ImplementsTransport`, `KeepsTryingOffLinux`,
`ExchangeEnds`.  Of `session`:
`ImplementsClient`, `SocketsClosed`, `StrongestMechanism`, `TunnelAcknowledged`,
`OneKeyPerServer`.  Of `tunnel`: `DeadLinkNoticed` and `LiveLinkKept` bound, from both
sides, the silence after which a tunnel is given up; `StopPrompt`, `NoTunnelLeft`,
`TunnelStops`.  Of `brokers`: `BestBrokerFirst` (every thread was waited for, no broker
is lost, the usable ones come first) and `RedirectionEnds`.  Of `servent`:
`ImplementsChannel`, `StreamIntact` (no reader is ever out of step, also after a
thread was killed in the middle of a message), `NoStandoff` (the two senders never
block each other) and `EverythingDelivered`.  Of `messaging`: `WorkersHaveServent`,
`SentOnceInOrder`, `DestructorEnds`.  Of `configuration`: `EveryNameHasALine` (what is set
is written, what is removed does not come back), `SavedIsLoaded`, `AcceptedIsUsable`.

**Bounds.**  Lists of two brokers have a first, a last and a step between them;
with three servers the list may contain or omit the configured one.  A retry
delay of one or two seconds has a wait that a stop can interrupt.  Two
versions below the newest make all fallbacks happen.  In `Rudp`, MAXRTT 1 < MAXRT 2
keep the two limits apart, TMIN 1 and TMAX 2 make the backoff reach its
ceiling, two exchanges give a stale reply and two sessions a stale session.
In `Tunnel`, intervals 1 and 4
around a first cycle of 2 make cycles shrink at once, grow, and vary within
the zone; 3 cycles are enough for one to be missed, cleared and missed again,
and a long wait of 4 is longer than a pass.  `silence` and `stopWait` need no bound:
the loops end.  In `BrokerLists` lists of two and three have brokers of both families and
names, three attempts a first, a middle and a last one, and a timeout of 2 an
answer before, at and after half of it.  In `Servent` two sequence numbers make a
stale one come round again, and two packets in a pipe for two are what both
senders need to fill it.  In `CommMgr` a queue of 2 fills up, and a threshold of 1
makes both the accepted and the fatal failure happen.  In `Configuration` five
operations are an edit of two settings, a save, and its cancellation or defaults;
`MaxReads` counts the objects a reader makes, and a reload reads again without it.
The theorems remove the bounds for the properties they state of `TspClient`,
`TspSession`, `Rudp`, `Tunnel`, `BrokerLists`, `Servent`, `CommMgr` and `Configuration`.

**Fairness.**  `TspClient`: weak fairness of `tspMain` as a whole; it is one thread,
never blocked but in waits and exchanges that end (`ExchangeEnds`; the tunnel
itself may last for ever, see below).  Nothing is assumed of `RequestStop` or of
the servers.  `Rudp`: time passes and the thread runs; nothing is assumed of the
network.  `Tunnel`: the thread runs and time passes in a wait; packets, errors,
replies and signals need not come.  `TunnelGranted` of `TspClient` stands for the
whole life of a tunnel, so `StopEnds` is a property of the loop outside a tunnel;
inside it `TunnelStops` takes over.  `BrokerLists`: the main thread runs and every
thread makes the progress that needs no message (`Advances`): nothing has to arrive.
`Servent`: each thread goes on while it can, also after it lost the connection; nobody
has to post, to crash or to connect.  `CommMgr`: the same for what does not depend on
the other process, which need not connect, read or write; the destructor, once
called, goes on.

## 4. Proofs

`TspClientProofs` proves, for every set of servers, every bound on the list, every
combination of results, from `ClientAssumption` alone (the constants have their
types; lists have between one and `MaxBrokers` entries):

| Theorem | Statement |
|---|---|
| `TypeCorrect` | `Spec => []TypeOK` |
| `RouteCorrect` | `Spec => []RouteOK` |
| `OldProtocolCorrect` | `Spec => []OldProtocolOnlyOverTCP` |
| `MovingOnCorrect` | `Spec => EveryTransportBeforeMovingOn` |
| `FinalStatusCorrect` | `Spec => []FinalStatusHonest` |
| `NoRepeatCorrect` | `Spec => NoRepeatWithoutRest` |
| `UdpFallbackCorrect` | `Spec => UdpFallbackWaits` |

None of these properties follows from an invariant that is inductive alone.  The inductive invariant `Inv` joins

* `TypeOK` and `CycleInRange`: the cycle exceeds the mode's last one only on the
  way back to the top of the loop, where it starts over;
* `RouteInv`: `RouteOK`, and at most one of the flags explains the server;
* `VersionInv`: 2.0.0 refused sets the second transport before 1.0.1 can be chosen,
  and the transport of the attempt under way is that of its cycle;
* `TriedInv`: the transport under way, the first transport whenever the second is
  in use, and all transports of every broker before the cursor are in `tried`.

`FinalStatusCorrect` has an invariant of its own, `HonestInv`: an attempt sets the
status to "connected" only with a result that a granted tunnel has, each branch for
such a result sets it again, and the one branch that leaves it alone finds it at
"connecting", from where only a stop leads out of the loop.

The two delays rest on `Inv` and two more invariants.  `RefusedInv` says that the server of
an attempt with an older version has refused the newer ones, so that one that speaks some
version always has an older one left after a refusal (`OlderVersionLeft`).  `BurstInv` says of every
attempt of the burst (those since the last wait) that it lies before the one to come: with a
broker before the cursor, or with the first transport when the second is next, or with a
newer version over the same one; and that after a version refused over UDP without a
wait the second transport, which is TCP, is next.  `Delays` joins the three; the two
properties follow at `ChooseTransport`.

Each invariant has one lemma for its preservation, with one step per action;
`AllTried` turns "the chain of quick cycles is over" into "every transport was
tried", from which `MovingOnCorrect` follows at the three actions that leave a
server.

`TspSessionProofs` proves, for every set of servers, methods, offers, keys and
addresses, from `SessionAssumption` (the types, and that every result an exchange
can lead to is one `TspClient` allows):

| Theorem | Statement |
|---|---|
| `SessionImplementsClient` | `SessionSpec => ImplementsClient` |
| `SessionRouteCorrect` | `SessionSpec => []RouteOK` |
| `SocketsCorrect` | `SessionSpec => []SocketsClosed` |
| `AcknowledgedCorrect` | `SessionSpec => []TunnelAcknowledged` |
| `KeysCorrect` | `SessionSpec => []OneKeyPerServer` |
| `MechanismCorrect` | `SessionSpec => []StrongestMechanism` |
| `SessionTypeCorrect` | `SessionSpec => []SessionTypeOK` |

The first one is a step simulation: `PlaceInv` (an attempt is under way exactly while
the loop is in `setup`, its socket open from the connection on) and `AnsweredInv` (beyond
the capabilities the server was reached and speaks the version) make every step inside
an attempt a stutter and its last one a step of `SetupTunnel` (`ClientStep`).  With it every
theorem of `TspClientProofs` holds of the opened attempt; `SessionRouteCorrect` is one.
`MechanismStrongest` says that the chain of tests in `tspAuthenticate` picks the strongest
mechanism of any set offered, `ExchangeInv` that the exchange under way is one of the
mechanism in use, `KeyfileStep` and `AcceptedOnce` that a key is added only for a server
that has none.

`RudpProofs` proves, for every limit of the engine and any number of servers, sessions
and exchanges, from `RudpAssumption` (TMIN <= TMAX, MAXRTT < MAXRT and the types):

| Theorem | Statement |
|---|---|
| `RudpTypeCorrect` | `Spec => []TypeOK` |
| `TransportCorrect` | `Spec => ImplementsTransport` |
| `KeepsTryingCorrect` | `Spec => KeepsTryingOffLinux` |

Its invariant joins `EngineInv` (which transmissions the count of the engine stands for, at
each place), `TimerInv` (the time given to `select()` and the time since `tv_beg` are
together bounded), `PatienceInv` (without Linux's `select()` the time left never gets
negative: the wait began as a whole number of seconds and what is subtracted is one) and
`NetInv` (a datagram to or from the peer of the socket belongs to its session, by
`Drained`).  `ReplyRight` then makes the sequence number tell the request, which is what
`Reply` of `TspTransport` asks for.

`TunnelProofs` proves, for every set of intervals, every first cycle, every number
of cycles and every long wait, from `KeepaliveAssumption` and `TunnelAssumption`
(the constants have their types):

| Theorem | Statement |
|---|---|
| `TypeCorrect` | `Spec => []TunnelTypeOK` |
| `TornDown` | `Spec => []NoTunnelLeft` |
| `StopSeenSoon` | `Spec => []StopPrompt` |
| `LiveLinkSafe` | `Spec => []LiveLinkKept` |
| `DeadLinkFound` | `Spec => []DeadLinkNoticed`, assuming `~OtherICMP` |

The assumption of the last one is what `tunnel_icmp` shows to be needed.  The
inductive invariant joins

* `TunnelTypeOK`, which needs `CycleInv`: the count of missed cycles stays in its
  range only because the loop is left at the maximum;
* `StageInv`: what the interface, the device and the result are at each place;
* `StopInv`: with keepalives a wait is at most a pass, and the time since SIGHUP
  and what is left of the wait together are at most a pass;
* `CycleInv`: the length of the present cycle lies between `ShortestCycle` and
  `LongestCycle` (kept by `NextCycleLength`), and the engine's flags between calls;
* `MissedInv`: every missed cycle but the first passed in silence;
* `SilenceInv`, for `DeadLinkFound` only: the silence and the time to the end of the
  cycle are together at most `Allowed` cycles.  The cycle in which the far end was
  last heard may itself not count as missed, hence one cycle more than
  `KA_MAXIMAL_CYCLES` in `DeadLinkNoticed`.

`DoStep`, `SilencePass` and `MissedPass` say what one call of `NetKeepaliveDo` does to
these; `Product` and its two corollaries carry the arithmetic of cycles.

`ServentProofs` proves, for every length of messages, every room that holds the longest,
every range of sequence numbers and any number of messages and connections, from
`ServentAssumption`:

| Theorem | Statement |
|---|---|
| `ServentTypeCorrect` | `Spec => []ServentTypeOK` |
| `StreamCorrect` | `Spec => []StreamIntact` |
| `ChannelCorrect` | `Spec => ImplementsChannel` |
| `StandoffCorrect` | `Spec => []NoStandoff` |

What the invariant says of a pipe is `FlowInv`: its packets follow one another (`Chain`),
the first is the one its reader waits for (`Starts`), its writer goes on after the last
(`Stops`), and when it is empty reader and writer are at the same packet.  A position is
a message and a fragment; the sequence number matters only inside a message, which is
why any range of them is enough.  With `PostedInv`, `WriterInv` and `ReaderInv` (what was posted,
what is announced by the semaphore, what was read of the message under way) the packet
read is always the right one (`PacketRight`), and a message is complete when its
last packet is.  `AppendChain`, `TailChain` and the like are the lemmas on sequences.
`StandoffCorrect` rests on `TurnsInv`: of two senders on their way to write, the one
that looked last saw an empty pipe, so that the pipe of the other holds no more
than its message under way, and a pipe has room for a whole message; or a mutex was
lost, and then its sender never gets to write.

`CommMgrProofs` proves, for every threshold, queue length and number of posts and
breaks, from `CommMgrAssumption`:

| Theorem | Statement |
|---|---|
| `CommTypeCorrect` | `Spec => []CommTypeOK` |
| `WorkersCorrect` | `Spec => []WorkersHaveServent` |
| `SentInOrder` | `Spec => []SentOnceInOrder` |

Its inductive invariant joins `Places` (types, with `errors` in `Nat` only), `Lifecycle`
(which thread may exist at each place of the manager, of the cleanup and of the
destructor), `ErrorsBounded` (past the threshold only once the state is FATALERROR,
in which the manager does nothing but end), `TookOne` (a sender that has a message
finds it still in the queue, because only it pops and `Reset` comes after it was
stopped) and `Ordered` (the messages written, then those queued, are increasing and
at most `pushed`).  `PushKeepsOrder`, `WriteKeepsOrder` and `ResetKeepsOrder` are the
lemmas on sequences.

`BrokerListsProofs` proves, for every set of redirections, every limit of the list, any
timeout and number of attempts, any number of redirections and restarts, from
`BrokerListsAssumption` (the types):

| Theorem | Statement |
|---|---|
| `BrokersTypeCorrect` | `Spec => []TypeOK` |
| `BrokersSorted` | `Spec => []BestBrokerFirst` |
| `WorkIsUsed` | `Spec => [][Handling /\ Handling' => WorkUsed]_vars` |
| `WorkIsFinite` | `Spec => []WorkFinite` |

`MeasureInv` says what the distance of a thread means (at most the timeout for a broker that
answered, twice that for one that did not, three times and more in the other family),
`RedirectInv` how far the main thread is and that an element has the distance of the
thread that ended, `SortInv` that `sorted` is an increasing rearrangement of the elements
before the cursor.  `InsertionPlace` finds where a new element goes; `InsertionKeepsOrder` and
`InsertionRearranges` are the two halves of the correctness of the sort.
`WorkIsUsed` and `WorkIsFinite` are the variant behind `RedirectionEnds`: the work
left (`MainWork` of the main thread, `WorkOf` each measuring thread) is a number, and every
step of the handling of a redirection takes some of it away, whatever arrives.  A stray
message that restarted `select()`'s timeout would not.  That the steps are taken is
fairness, and with it the property itself stays with TLC.

`ConfigurationProofs` proves, for every set of files, edits, readers and command lines,
from `ConfigurationAssumption` (see section 2; the options of a command line are not
empty):

| Theorem | Statement |
|---|---|
| `AcceptedUsable` | `Spec => []AcceptedIsUsable` |
| `NamesHaveLines` | `Spec => []EveryNameHasALine` |
| `SavedLoaded` | `Spec => []SavedIsLoaded` |

For the first, `ValidIsUsable` is the step from the checks
of `Settings` to `Usable`, through the defaults and the command line; `ReaderOK` says
that an object that calls itself valid, or that loaded its mappings without a
failure, is: it holds at each line read because `StartReading` keeps `bValid` of the
reading before only for the editor, and a reader never edits.

The second is `DataInv`: the settings and the lines of an object have their types, and its
settings are those of its lines (`DataOK`), whatever is read, edited, cancelled or cut short.
The third rests besides on `MappingsTrimmed` (a mapping in memory has no blanks around it) and
`FileInv`: while the editor writes, the lines written so far have its values and nobody
relies on the file (`WriteInv`); once it is written, it has the names and values saved, which
are such that they may be saved (`SavedInv`); the defaults read so far are those of the file
of defaults (`DefaultsInv`); and an object that reads the saved file undisturbed has, after each
line, what the lines up to it give (`BasisInv`, with `Loaded` and `LoadedTo`).  `TrimmedIsValid` says
that what passes the checks passes them again without the blanks around it, as it is
read; `SettingsStep` and `RemoveLinesNames` say what a line adds and which lines stay.

Where these proofs need an induction over data (`InsertionPlace` in the sort, `KeptExists` and
`RemoveLinesNames` here), they use a least number instead (`LeastNumber`, from the library's theorem
that `<` is well founded): the first position of a list at which something holds.

Model-checked only: liveness (`Connects`, `EachBrokerTried`,
`StopEnds`, `ExchangeEnds`, `TunnelStops`, `RedirectionEnds`, `EverythingDelivered`,
`DestructorEnds`), which is out of the prover's reach.  Every invariant and every action
property of the runs that pass, and all three refinements, are theorems.

## 5. What is abstracted, and what is not modelled

* `tspInitialize` (arguments, configuration, logging): when it fails the program
  ends before the loop begins.
* Branches of `tspMain` no state reaches ("pointers aren't safe", results no
  callee returns); `RouteOK` shows that the first is unreachable.
* Cryptography, message texts, the XML of requests and replies.
* Descriptors are not counted: `NetTCPConnect` leaks one per failed connection.
* `FollowRedirection` starts a new burst: nothing in the code limits redirections,
  and two brokers that redirect to each other keep the client busy.
* A server that speaks no version of the protocol is asked again at once, for
  ever: `SpeaksSome` excludes it from the two delay properties.
* `tunnel` works with any grant, so also those a broker need not give; what the
  grant has to do with the configuration is part of `TspSession`.
* `TC/README` says that without keepalives the program exits once the tunnel is set
  up; the code, and `Tunnel`, stay in the loop until a stop request.
* `FAST_HANDOVER` is not defined in any build; a tunnel has no lease on Linux.
* Packets are not modelled, only that there are some in each direction; a ping may
  or may not count as written (`PingOut`).
* Other platforms, setup scripts, MD5, logging, containers: see the components in
  `PROJECT.json`.

Facts of the code that the modules have and no property speaks of:

* Brokers: an answer to an earlier attempt is timed from the last one sent, so that
  a slow broker may come first (225); an answer with an unexpected status keeps its
  time; equal distances reverse the order of the message; a list read back from the
  file has no types, so that its IPv6 addresses get no brackets; when a thread
  cannot be created the arguments of those that run are freed.
* Messages (`MSG/servermsgsender.cc`, `clientmsgtranslator.cc`): a GUI that asks for the
  broker list gets the client ended: `gszBrokerListFile` is never set, so that
  `RetrieveBrokerList` returns NOERROR with no list (`tsp_client.c` 475), although its comment
  says that NOERROR means a list (471), and `Send_BrokerList` asserts one;
  the distance of every broker but the first is read from a wrong place
  (`BuildBrokerList`); `gTunnelInfo.szDelegatedPrefix` is freed before it is cleared
  (`tsp_setup.c` 217), while the receiver thread may read it; the answer to a request for
  the status is composed without a lock and may follow a newer status.
* Messaging: CONNECTED, set after the threads were started, overwrites the
  DISCONNECTED of one that failed at once, and the loss is noticed only with the
  next message; the queue is pushed, popped and emptied without a lock;
  `SenderWakes` fails its assertion when `Reset` came between a push and its release.
* Configuration: `LoadDefaults` writes the file before it validates it; `Save` calls the
  data valid also when it has just refused to save them; a password of blanks is
  saved, and is empty when it is read again; a reader may read half a file, and an
  editor that ends while it writes leaves one; a line of separators alone leaves
  what was read before it; `prefixlen` is checked as a short, so that 65600 passes for
  64; the check of the HAP6 web service compares the tunnel mode with "yes";
  `AddDeviceMapping` takes any name and address, which are removed when they are saved.
  A line longer than the buffer of the parser, and a mapping named like a comment,
  are outside the model (`ConfigurationAssumption`).
* `tspFixConfig` (`cnfchk.c`) reads the configuration before it repairs the names of old
  templates, and those are names that `Validate_Template` refuses: it never gets to
  repair one.

## 6. Disagreements between code and documentation

| Run | The code | The text |
|---|---|---|
| `client_last_server` | a client started from its last server stays with the first broker of a redirection list even if it is down | "The client then connects to each broker in the list ..." (README) |
| `session_cut` | a reply without a status code is NO_ERROR and ends the client | "It will retry until it succeeds" (gw6c.conf.5) |
| `tunnel_icmp` | any ICMPv6 message that comes to the host counts as the answer to a ping, so that a dead tunnel may be kept for ever | "detect inactive tunnels (if no response is received from the server)" (gw6c.conf.5) |

These are part of the models but have no run of their own:

| Module | The code | The text |
|---|---|---|
| `Rudp` | on Linux, where `select()` updates its argument, the time left is subtracted twice after a stale reply: the exchange fails early (`net_rudp.c` 266) | "readjust tv to the remaining time" (259) |
| `TspSession` | "auto" is overwritten by the address of the first session (`config.c` 465) | "the source IP address used when communicating with the server" (gw6c.conf.5 246) |
| `TspSession` | `strtok` leaves only the first DNS server for later requests (`xml_req.c` 115) | a list of servers (gw6c.conf.5 118) |
| `Servent` | a thread terminated while it holds the servent's mutex leaves it locked for ever: later connections fail one after the other (`windows/threadwrapper.cc` 117) | "reinitialization will occur to re-establish connection and get back online" (`communicationsmgr.cc` 217) |
| `Settings` | the option -r is parsed and never used (`tspInitialize`) | "Retry after n seconds until success" (`cli.c` 112) |

## 7. Plan

1. *Done*: `TspClient`, `TspTransport`, `Rudp`, `TspSession` and their proofs.
2. *Done*: `Keepalive`, `Tunnel`, `TunnelProofs`.
3. *Done*: `MessageChannel`, `Servent`, `CommMgr` and their proofs.
4. *Done*: `Settings`, `Configuration`, `BrokerLists` and their proofs.
5. Left: the contents of the GUI's messages and the client's globals behind them;
   the TCP transports as an implementation of `TspTransport`; the rotation of the log.
6. Theorems left: the variants behind the other liveness properties (`TunnelStops`,
   `ExchangeEnds`, `DestructorEnds`), as `WorkIsUsed` is the one behind `RedirectionEnds`.
