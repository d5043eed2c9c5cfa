----------------------------- MODULE TspClient -----------------------------
(***************************************************************************)
(* The connection loop of the Gateway6 client, tspMain() of tsp_client.c:  *)
(* which broker, transport and protocol version each attempt uses, what    *)
(* every result of an attempt (tspSetupTunnel) does to the next one, the   *)
(* broker list and the cursor that walks it, the two files that outlive    *)
(* the process, and the status reported to the GUI.                        *)
(*                                                                         *)
(* One attempt is one step here (SetupTunnel); module TspSession opens it. *)
(***************************************************************************)
EXTENDS Integers, Sequences, FiniteSets

CONSTANTS
  Server,               \* broker addresses
  OriginalServer,       \* `server' of gw6c.conf
  Modes,                \* the tunnel modes gw6c.conf may ask for
  AlwaysUseSameServer,  \* c.always_use_same_server, with a last_server file name
  BrokerListFile,       \* is a broker_list file name configured?
  AutoRetryConnect,     \* c.auto_retry_connect
  RetryDelay,           \* c.retry, in seconds
  MallocMayFail,        \* may FormatBrokerListAddr run out of memory?
  BrokerLists,          \* the broker lists a redirection may carry
  LastFiles,            \* what reading the last_server file at start may give
  MaxBrokers,           \* MAX_REDIRECT_BROKERS_IN_LIST
  ListFiles,            \* what reading the broker_list file at start may give
  Unreachable,          \* <<server, transport>> pairs that never answer
  Speaks,               \* Speaks[s]: the protocol versions server s accepts
  Replies               \* other results of an attempt that reaches a server;
                        \* "UNPARSED" is a reply without a status code

\* The broker list that is no list: a NULL pointer
NULL == <<>>

\* TspProtocolVersionStrings, newest first
V201 == 0
V200 == 1
V101 == 2
Version == V201..V101

TunnelModes == {"V6UDPV4", "V6ANYV4", "V6V4", "V4V6"}
Transport == {"RUDP", "TCP", "RUDP6", "TCP6"}
UDP == {"RUDP", "RUDP6"}

\* Results that only tspStartLocal returns: the broker had granted a tunnel.
Granted == {"NO_ERROR", "KEEPALIVE_TIMEOUT", "TUNNEL_ERROR", "LEASE_EXPIRED",
            "INTERFACE_SETUP_FAILED", "HAP6_SETUP_ERROR",
            "HAP6_EXPOSE_DEVICES_ERROR"}
Refused == {"TSP_ERROR", "SOCKET_ERROR", "SERVER_SIDE_ERROR",
            "SOCKET_ERROR_CANT_CONNECT", "AUTHENTICATION_ERROR", "OTHER"}
Redirected == {"BROKER_REDIRECTION", "BROKER_REDIRECTION_ERROR"}
Status == Granted \cup Refused \cup Redirected \cup {"TSP_VERSION_ERROR"}

\* What tspReadLastServerFromFile and tspReadBrokerListFromFile can return
LastFile == [status : {"OK", "NO_LAST_SERVER", "CANT_OPEN_FILE"}, server : Server]
ListFile == [status : {"OK", "CANT_OPEN_FILE", "TOO_MANY_BROKERS", "CANT_ADD_BROKER"},
             list : Seq(Server)]

ASSUME ClientAssumption ==
  /\ OriginalServer \in Server
  /\ Modes \subseteq TunnelModes
  /\ AlwaysUseSameServer \in BOOLEAN
  /\ BrokerListFile \in BOOLEAN
  /\ AutoRetryConnect \in BOOLEAN
  /\ MallocMayFail \in BOOLEAN
  /\ RetryDelay \in Nat
  /\ MaxBrokers \in Nat \ {0}
  /\ \A l \in BrokerLists : l \in Seq(Server) /\ Len(l) \in 1..MaxBrokers
  /\ LastFiles \subseteq LastFile
  /\ \A f \in ListFiles : f \in ListFile /\ Len(f.list) <= MaxBrokers
  /\ Speaks \in [Server -> SUBSET Version]
  /\ Replies \subseteq Status \cup {"UNPARSED"}

VARIABLES
  tunnelMode,      \* c.tunnel_mode
  pc,              \* where tspMain is
  cycle,           \* reconnect and fallback cycle
  version,         \* version_index
  fallback,        \* tsp_version_fallback
  transport,       \* c.transport
  quickCycle,      \* quick_cycle
  status,          \* result of the last attempt
  server,          \* c.server
  tryingOriginal,  \* trying_original_server
  tryingList,      \* trying_broker_list
  readLast,        \* read_last_server
  list,            \* broker_list, empty for NULL
  current,         \* current_broker_in_list as a position, 0 for NULL
  live,            \* does current point into the list now allocated?
  lastFile,        \* the last_server file
  listFile,        \* the broker_list file
  info,            \* gStatusInfo
  told,            \* the status last sent to the GUI
  sleepLeft,       \* sleepTime
  stop,            \* has a stop been requested (SIGHUP, service stop)?
  tried,           \* history: <<position, transport>> attempted since the
                   \* list was adopted or left
  burst            \* history: <<position, transport, version>> attempted since
                   \* the last wait, tunnel or redirection

choice == <<cycle, version, fallback, transport, quickCycle>>
route == <<server, tryingOriginal, tryingList, readLast>>
brokers == <<list, current, live>>
files == <<lastFile, listFile>>
history == <<tried, burst>>
vars == <<tunnelMode, pc, choice, status, route, brokers, files, info, told,
          sleepLeft, stop, history>>

\* The statuses of gStatusInfo
Idle == [e |-> "DISCONNECTEDIDLE", n |-> "NOERROR"]
Connecting == [e |-> "CONNECTING", n |-> "NOERROR"]
Connected == [e |-> "CONNECTED", n |-> "NOERROR"]
Failed(n) == [e |-> "DISCONNECTEDERROR", n |-> n]

\* The transport mode m uses in cycle c
TransportAt(m, c) ==
  IF m = "V4V6"
  THEN IF c = 1 THEN "TCP6" ELSE "RUDP6"
  ELSE IF c = 1 THEN "TCP" ELSE "RUDP"

Cycles(m) == IF m = "V6UDPV4" THEN {0} ELSE {0, 1}

\* The transports the loop goes through for this tunnel mode
Transports(m) == {TransportAt(m, c) : c \in Cycles(m)}

OldestVersion(m) == IF m \in {"V6UDPV4", "V4V6"} THEN V200 ELSE V101

\* Position of the broker being attempted: 0 for the configured or last
\* server, i for the i-th broker of the list
Position == IF tryingList /\ ~tryingOriginal THEN current ELSE 0

----------------------------------------------------------------------------
Init ==
  /\ tunnelMode \in Modes
  /\ pc = "start"
  /\ cycle = 0 /\ version = V201 /\ fallback = FALSE
  /\ transport = "RUDP" /\ quickCycle = FALSE
  /\ status = "NO_ERROR"
  /\ server = OriginalServer
  /\ tryingOriginal = FALSE /\ tryingList = FALSE /\ readLast = FALSE
  /\ list = NULL /\ current = 0 /\ live = FALSE
  /\ lastFile \in LastFiles
  /\ listFile \in ListFiles
  /\ info = Idle /\ told = Idle
  /\ sleepLeft = 0
  /\ stop = FALSE
  /\ tried = {} /\ burst = {}

\* always_use_same_server: start from the last server, if the file has one ...
StartFromLastServer ==
  /\ pc = "start"
  /\ AlwaysUseSameServer
  /\ lastFile.status = "OK"
  /\ server' = lastFile.server
  /\ readLast' = TRUE
  /\ pc' = "loop"
  /\ UNCHANGED <<choice, status, tryingOriginal, tryingList, brokers, files,
                 info, told, sleepLeft, stop, history>>

\* ... otherwise from the configured one.
StartFromOriginal ==
  /\ pc = "start"
  /\ ~AlwaysUseSameServer \/ lastFile.status # "OK"
  /\ tryingOriginal' = TRUE
  /\ pc' = "loop"
  /\ UNCHANGED <<choice, status, server, tryingList, readLast, brokers, files,
                 info, told, sleepLeft, stop, history>>

\* A signal or the service manager asks the client to stop.
RequestStop ==
  /\ ~stop
  /\ pc # "done"
  /\ stop' = TRUE
  /\ UNCHANGED <<tunnelMode, pc, choice, status, route, brokers, files, info,
                 told, sleepLeft, history>>

\* (mutant of tspCheckForStopOrWait: stop requests go unnoticed)
StopUnnoticed == FALSE

\* A stop request stays pending until the client has ended.
tspCheckForStopOrWait == stop

\* The loop condition
LeaveLoop ==
  /\ pc = "loop"
  /\ tspCheckForStopOrWait
  /\ pc' = "end"
  /\ UNCHANGED <<choice, status, route, brokers, files, info, told, sleepLeft,
                 stop, history>>

\* (mutants of NextVersion: no oldest version; no fallback at all)
NextVersionUnbounded == IF ~fallback THEN V201 ELSE version + 1
NextVersionStuck == V201

\* Version of the next attempt: one step down when the last was refused
NextVersion ==
  IF ~fallback THEN V201
  ELSE IF version < OldestVersion(tunnelMode) THEN version + 1 ELSE version

\* (mutant of QuickCycle: after any transport)
QuickCycleAlways(m, t) == t \in Transport

\* No wait after a failure over the first of two transports
QuickCycle(m, t) == m # "V6UDPV4" /\ t \in UDP

\* The top of the loop: report a changed status, choose transport and version;
\* a cycle past the last transport starts over.  tspSetupTunnel then begins by
\* reporting that the client is connecting.
ChooseTransport ==
  LET c == IF cycle \in Cycles(tunnelMode) THEN cycle ELSE 0
      t == TransportAt(tunnelMode, c)
  IN
  /\ pc = "loop"
  /\ ~tspCheckForStopOrWait
  /\ cycle' = c
  /\ version' = NextVersion
  /\ fallback' = FALSE
  /\ transport' = t
  /\ quickCycle' = QuickCycle(tunnelMode, t)
  /\ info' = Connecting
  /\ told' = Connecting
  /\ tried' = tried \cup {<<Position, t>>}
  /\ burst' = burst \cup {<<Position, t, NextVersion>>}
  /\ pc' = "setup"
  /\ UNCHANGED <<status, route, brokers, files, sleepLeft, stop>>

----------------------------------------------------------------------------
(* The attempt: tspSetupTunnel with the server, transport and version chosen. *)

Reachable == <<server, transport>> \notin Unreachable

\* Nothing answers: the TCP connection fails, or the first exchange over UDP.
NoAnswer ==
  /\ pc = "setup"
  /\ ~Reachable
  /\ status' = "SOCKET_ERROR_CANT_CONNECT"
  /\ pc' = "result"
  /\ UNCHANGED <<choice, route, brokers, files, info, told, sleepLeft, stop,
                 history>>

\* The server does not speak this version of the protocol (status 302).
VersionRefused ==
  /\ pc = "setup"
  /\ Reachable
  /\ version \notin Speaks[server]
  /\ status' = "TSP_VERSION_ERROR"
  /\ pc' = "result"
  /\ UNCHANGED <<choice, route, brokers, files, info, told, sleepLeft, stop,
                 history>>

Answered == pc = "setup" /\ Reachable /\ version \in Speaks[server]

\* The attempt fails before a tunnel is granted.  A reply without a status code
\* is returned as its code, which is 0: NO_ERROR.
NegotiationFails ==
  /\ pc = "setup"
  /\ Reachable
  /\ \/ status' \in Replies \cap Refused
     \/ Answered /\ "UNPARSED" \in Replies /\ status' = "NO_ERROR"
  /\ pc' = "result"
  /\ UNCHANGED <<choice, route, brokers, files, info, told, sleepLeft, stop,
                 history>>

\* The broker grants a tunnel: its name is saved (if the file can be written)
\* and tspStartLocal runs until it returns.  The GUI is told of the connection
\* once the setup script has succeeded.
TunnelGranted ==
  /\ Answered
  /\ status' \in Replies \cap Granted
  /\ lastFile' \in {lastFile, [status |-> "OK", server |-> server]}
  /\ IF status' = "INTERFACE_SETUP_FAILED"
     THEN UNCHANGED <<info, told>>
     ELSE info' = Connected /\ told' = Connected
  /\ burst' = {}
  /\ pc' = "result"
  /\ UNCHANGED <<choice, route, brokers, listFile, sleepLeft, stop, tried>>

\* What the broker_list file holds after tspWriteBrokerListToFile: unchanged
\* when it cannot be opened, cut short when a write fails.  A list of one
\* broker is not written.
FileAfter(l) ==
  IF Len(l) > 1
  THEN {listFile} \cup {[status |-> "OK", list |-> SubSeq(l, 1, n)] : n \in 0..Len(l)}
  ELSE {listFile}

\* The broker redirects and tspHandleRedirect has replaced the list: the old
\* one is freed, whatever current pointed to.
RedirectedToList ==
  /\ Answered
  /\ "BROKER_REDIRECTION" \in Replies
  /\ status' = "BROKER_REDIRECTION"
  /\ list' \in BrokerLists
  /\ live' = FALSE
  /\ listFile' \in FileAfter(list')
  /\ pc' = "result"
  /\ UNCHANGED <<choice, route, current, lastFile, info, told, sleepLeft, stop,
                 history>>

\* A redirection that cannot be handled: the payload is not understood (the
\* list is kept), or no list can be made of it (freed) or sorted (unsorted).
RedirectionFails ==
  /\ Answered
  /\ "BROKER_REDIRECTION_ERROR" \in Replies
  /\ status' = "BROKER_REDIRECTION_ERROR"
  /\ \/ UNCHANGED <<list, live>>
     \/ list' \in {NULL} \cup BrokerLists /\ live' = FALSE
  /\ pc' = "result"
  /\ UNCHANGED <<choice, route, current, files, info, told, sleepLeft, stop,
                 history>>

----------------------------------------------------------------------------
(* The ways an iteration of the loop ends.                                  *)

\* "continue": the next attempt follows at once.
RetryNow == pc' = "loop" /\ UNCHANGED <<told, sleepLeft>>

\* The end of the loop body: report, then wait for the retry delay.
RetryLater ==
  /\ pc' = "sleep"
  /\ told' = info'
  /\ sleepLeft' = RetryDelay

\* connected = 0
GiveUp == pc' = "end" /\ UNCHANGED <<told, sleepLeft>>

Result(s) == pc = "result" /\ status = s

\* (mutant of Succeed: the status is left at "connected")
SucceedSilently ==
  /\ Result("NO_ERROR")
  /\ GiveUp
  /\ UNCHANGED <<choice, status, route, brokers, files, info, stop, history>>

Succeed ==
  /\ Result("NO_ERROR")
  /\ info' = Idle
  /\ GiveUp
  /\ UNCHANGED <<choice, status, route, brokers, files, stop, history>>

\* TSP_ERROR, SOCKET_ERROR and SERVER_SIDE_ERROR: try another transport.
OtherTransport ==
  /\ pc = "result"
  /\ status \in {"TSP_ERROR", "SOCKET_ERROR", "SERVER_SIDE_ERROR"}
  /\ cycle' = cycle + 1
  /\ info' = Failed(status)
  /\ IF quickCycle THEN RetryNow ELSE RetryLater
  /\ UNCHANGED <<version, fallback, transport, quickCycle, status, route,
                 brokers, files, stop, history>>

FatalInfo ==
  CASE status = "HAP6_SETUP_ERROR" ->
         [e |-> "DISCONNECTEDHAP6SETUPERROR", n |-> status]
    [] status = "HAP6_EXPOSE_DEVICES_ERROR" ->
         [e |-> "DISCONNECTEDHAP6EXPOSEDEVICESERROR", n |-> status]
    [] OTHER -> Failed(status)

\* The results no retry can help.
Fatal ==
  /\ pc = "result"
  /\ status \in {"INTERFACE_SETUP_FAILED", "HAP6_SETUP_ERROR",
                 "HAP6_EXPOSE_DEVICES_ERROR", "AUTHENTICATION_ERROR", "OTHER"}
  /\ info' = FatalInfo
  /\ GiveUp
  /\ UNCHANGED <<choice, status, route, brokers, files, stop, history>>

TunnelLost ==
  /\ pc = "result"
  /\ status \in {"KEEPALIVE_TIMEOUT", "TUNNEL_ERROR"}
  /\ IF status = "KEEPALIVE_TIMEOUT" /\ ~AutoRetryConnect
     THEN /\ info' = [e |-> "DISCONNECTEDNORETRY", n |-> status]
          /\ GiveUp
     ELSE /\ info' = Failed(status)
          /\ RetryLater
  /\ UNCHANGED <<choice, status, route, brokers, files, stop, history>>

LeaseExpired ==
  /\ Result("LEASE_EXPIRED")
  /\ info' = Failed(status)
  /\ RetryNow
  /\ UNCHANGED <<choice, status, route, brokers, files, stop, history>>

\* (mutant of CycleAfterVersionError: stay with the transport)
CycleKept == cycle

\* 2.0.0 is followed by the second transport.
CycleAfterVersionError == IF version = V200 THEN 1 ELSE cycle

\* (mutant of NeedsFallbackDelay: never)
NoFallbackDelay == FALSE

\* Over UDP wait, so that the server does not take the new session for the
\* old one, unless the version refused was 2.0.0.
NeedsFallbackDelay == version # V200 /\ transport \in UDP

VersionError ==
  /\ Result("TSP_VERSION_ERROR")
  /\ fallback' = TRUE
  /\ cycle' = CycleAfterVersionError
  /\ info' = Failed(status)
  /\ pc' = IF NeedsFallbackDelay THEN "fallbackDelay" ELSE "loop"
  /\ UNCHANGED <<version, transport, quickCycle, status, route, brokers, files,
                 told, sleepLeft, stop, history>>

\* SLEEP(TSP_VERSION_FALLBACK_DELAY), which no stop request interrupts
FallbackDelay ==
  /\ pc = "fallbackDelay"
  /\ burst' = {}
  /\ pc' = "loop"
  /\ UNCHANGED <<choice, status, route, brokers, files, info, told, sleepLeft,
                 stop, tried>>

\* Start with the first broker of list l, on the first transport.
Adopt(l) ==
  /\ tryingList' = TRUE
  /\ tryingOriginal' = FALSE
  /\ current' = 1
  /\ live' = TRUE
  /\ server' = l[1]
  /\ cycle' = 0
  /\ tried' = {}
  /\ UNCHANGED <<version, fallback, transport, quickCycle, status, readLast,
                 files, stop>>
  /\ RetryNow

FollowRedirection ==
  /\ Result("BROKER_REDIRECTION")
  /\ list # NULL
  /\ info' = Failed(status)
  /\ Adopt(list)
  /\ burst' = {}
  /\ UNCHANGED list

RedirectionError ==
  /\ Result("BROKER_REDIRECTION_ERROR")
  /\ info' = Failed("REDIRECTIONERROR")
  /\ list' = NULL /\ live' = FALSE
  /\ GiveUp
  /\ UNCHANGED <<choice, status, route, current, files, stop, history>>

----------------------------------------------------------------------------
(* SOCKET_ERROR_CANT_CONNECT: the server did not answer.                    *)

CantConnect == Result("SOCKET_ERROR_CANT_CONNECT")

\* More transports to try with this server; the status is left as it is.
NextTransport ==
  /\ CantConnect
  /\ quickCycle
  /\ cycle' = cycle + 1
  /\ RetryNow
  /\ UNCHANGED <<version, fallback, transport, quickCycle, status, route,
                 brokers, files, info, stop, history>>

\* (mutant of AllTransportsFailed: after the first transport)
FirstTransportFailed == CantConnect

AllTransportsFailed == CantConnect /\ ~quickCycle

\* Started from the last server: keep to it.
KeepLastServer ==
  /\ AllTransportsFailed
  /\ readLast
  /\ cycle' = cycle + 1
  /\ info' = Failed("SOCKETERRORCANTCONNECT")
  /\ RetryLater
  /\ UNCHANGED <<version, fallback, transport, quickCycle, status, route,
                 brokers, files, stop, history>>

OriginalFailed == AllTransportsFailed /\ ~readLast /\ tryingOriginal

ListOnFile == BrokerListFile /\ listFile.status = "OK" /\ listFile.list # NULL

\* The configured server is down and the broker_list file names no other.
RetryOriginal ==
  /\ OriginalFailed
  /\ ~ListOnFile
  /\ list' = NULL /\ live' = FALSE
  /\ cycle' = cycle + 1
  /\ info' = Failed("SOCKETERRORCANTCONNECT")
  /\ RetryLater
  /\ UNCHANGED <<version, fallback, transport, quickCycle, status, route,
                 current, files, stop, history>>

\* The configured server is down: turn to the brokers of the file.
AdoptListFile ==
  /\ OriginalFailed
  /\ ListOnFile
  /\ list' = listFile.list
  /\ info' = Failed("SOCKETERRORCANTCONNECT")
  /\ Adopt(list')
  /\ UNCHANGED burst

BrokerFailed ==
  /\ AllTransportsFailed /\ ~readLast /\ ~tryingOriginal /\ tryingList
  /\ list # NULL /\ current # 0

\* (mutants of AtLastBroker: one broker short; always)
OneBrokerShort == current >= Len(list) - 1
AlwaysAtLast == current <= Len(list)

\* current->next == NULL
AtLastBroker == current = Len(list)

NextBroker ==
  /\ BrokerFailed
  /\ ~AtLastBroker
  /\ current' = current + 1
  /\ server' = list[current + 1]
  /\ cycle' = 0
  /\ info' = Failed("SOCKETERRORCANTCONNECT")
  /\ RetryNow
  /\ UNCHANGED <<version, fallback, transport, quickCycle, status,
                 tryingOriginal, tryingList, readLast, list, live, files, stop,
                 history>>

\* (mutant of ServerAfterList: c.server is not restored)
ServerKept == server

\* The end of the list: back to the configured server after the retry delay.
ServerAfterList == OriginalServer

BackToOriginal ==
  /\ BrokerFailed
  /\ AtLastBroker
  /\ server' = ServerAfterList
  /\ tryingOriginal' = TRUE
  /\ cycle' = 0
  /\ tried' = {}
  /\ info' = Failed("SOCKETERRORCANTCONNECT")
  /\ RetryLater
  /\ UNCHANGED <<version, fallback, transport, quickCycle, status, tryingList,
                 readLast, brokers, files, stop, burst>>

\* FormatBrokerListAddr cannot allocate the address of the broker chosen by
\* FollowRedirection, AdoptListFile or NextBroker.
FormatBrokerListAddrFails ==
  /\ MallocMayFail
  /\ \/ Result("BROKER_REDIRECTION") /\ UNCHANGED list
     \/ /\ (OriginalFailed /\ ListOnFile) \/ (BrokerFailed /\ ~AtLastBroker)
        /\ list' = NULL
  /\ status' = "BROKER_REDIRECTION_ERROR"
  /\ info' = Failed("REDIRECTIONERROR")
  /\ tryingList' = TRUE /\ tryingOriginal' = FALSE
  /\ live' = FALSE
  /\ GiveUp
  /\ UNCHANGED <<choice, server, readLast, current, files, stop, history>>

----------------------------------------------------------------------------
\* One second of the wait between attempts; a stop request ends it.
SleepSecond ==
  /\ pc = "sleep"
  /\ sleepLeft > 0
  /\ ~tspCheckForStopOrWait
  /\ sleepLeft' = sleepLeft - 1
  /\ UNCHANGED <<pc, choice, status, route, brokers, files, info, told, stop,
                 history>>

SleepOver ==
  /\ pc = "sleep"
  /\ sleepLeft = 0 \/ tspCheckForStopOrWait
  /\ sleepLeft' = 0
  /\ burst' = {}
  /\ pc' = "loop"
  /\ UNCHANGED <<choice, status, route, brokers, files, info, told, stop, tried>>

\* endtspc: report the final status, free the list and return.
EndTsp ==
  /\ pc = "end"
  /\ told' = info
  /\ list' = NULL /\ live' = FALSE
  /\ pc' = "done"
  /\ UNCHANGED <<choice, status, route, current, files, info, sleepLeft, stop,
                 history>>

Terminated == pc = "done" /\ UNCHANGED vars

SetupTunnel ==
  \/ NoAnswer \/ VersionRefused \/ NegotiationFails \/ TunnelGranted
  \/ RedirectedToList \/ RedirectionFails

HandleCantConnect ==
  \/ NextTransport \/ KeepLastServer \/ RetryOriginal \/ AdoptListFile
  \/ NextBroker \/ BackToOriginal

HandleResult ==
  \/ Succeed \/ OtherTransport \/ Fatal \/ TunnelLost \/ LeaseExpired
  \/ VersionError \/ FollowRedirection \/ RedirectionError
  \/ HandleCantConnect \/ FormatBrokerListAddrFails

tspMain ==
  /\ \/ StartFromLastServer \/ StartFromOriginal
     \/ LeaveLoop \/ ChooseTransport
     \/ SetupTunnel
     \/ HandleResult
     \/ FallbackDelay \/ SleepSecond \/ SleepOver
     \/ EndTsp
  /\ UNCHANGED tunnelMode

Next == tspMain \/ RequestStop \/ Terminated

Spec == Init /\ [][Next]_vars

\* tspMain is one thread that never waits for anything but time and the
\* bounded exchanges of tspSetupTunnel.
FairSpec == Spec /\ WF_vars(tspMain)

----------------------------------------------------------------------------
(* Properties *)

PCs == {"start", "loop", "setup", "result", "sleep", "fallbackDelay", "end", "done"}

Infos ==
  [e : {"DISCONNECTEDIDLE", "CONNECTING", "CONNECTED", "DISCONNECTEDERROR",
        "DISCONNECTEDNORETRY", "DISCONNECTEDHAP6SETUPERROR",
        "DISCONNECTEDHAP6EXPOSEDEVICESERROR"},
   n : Status \cup {"NOERROR", "REDIRECTIONERROR", "SOCKETERRORCANTCONNECT"}]

ControlType ==
  /\ tunnelMode \in Modes
  /\ pc \in PCs
  /\ cycle \in 0..2
  /\ version \in Version
  /\ transport \in Transport
  /\ status \in Status
  /\ info \in Infos
  /\ told \in Infos
  /\ sleepLeft \in 0..RetryDelay

FlagType ==
  /\ fallback \in BOOLEAN
  /\ quickCycle \in BOOLEAN
  /\ tryingOriginal \in BOOLEAN
  /\ tryingList \in BOOLEAN
  /\ readLast \in BOOLEAN
  /\ live \in BOOLEAN
  /\ stop \in BOOLEAN

RouteType ==
  /\ server \in Server
  /\ list \in Seq(Server)
  /\ Len(list) <= MaxBrokers
  /\ current \in 0..MaxBrokers

FileType ==
  /\ lastFile \in LastFile
  /\ listFile \in ListFile
  /\ Len(listFile.list) <= MaxBrokers

HistoryType ==
  /\ tried \subseteq (0..MaxBrokers) \X Transport
  /\ burst \subseteq (0..MaxBrokers) \X Transport \X Version

\* Every variable of tspMain keeps a value of its type; in particular version
\* stays an index of TspProtocolVersionStrings, the cycle never runs further
\* than one past the last transport, and current stays in the list's bounds.
TypeOK == ControlType /\ FlagType /\ RouteType /\ FileType /\ HistoryType

\* The server attempted is the one the flags stand for: the configured (or
\* last) server, or else the broker under a cursor that points into the list
\* now allocated.  So the cursor is never used after tspFreeBrokerList, the
\* branch "pointers aren't safe" of tspMain is never taken, and a failure is
\* never charged to a broker that was not the one attempted.
RouteOK ==
  \/ pc \in {"start", "end", "done"}
  \/ pc = "result" /\ status \in Redirected
  \/ IF Position = 0
     THEN /\ readLast \/ tryingOriginal
          /\ server = IF readLast THEN lastFile.server ELSE OriginalServer
     ELSE /\ live
          /\ current \in 1..Len(list)
          /\ server = list[current]

\* Version 1.0.1 is never attempted over UDP nor by a tunnel mode that needs a
\* later one, however version errors, other failures and redirections mix.
OldProtocolOnlyOverTCP ==
  pc \in {"setup", "result"} =>
    /\ version <= OldestVersion(tunnelMode)
    /\ version = V101 => transport = "TCP"

\* The client leaves a server for another only after every transport of the
\* tunnel mode has been attempted with it ("Do this only if we have tried all
\* transports"), and returns to the configured server only after that has
\* been done with every broker of the list.
MovedOn(positions) == positions \X Transports(tunnelMode) \subseteq tried

EveryTransportBeforeMovingOn ==
  [][CantConnect /\ pc' \in {"loop", "sleep"} =>
       /\ current' = current + 1 /\ Position # 0 => MovedOn({current})
       /\ tryingOriginal /\ ~tryingOriginal' => MovedOn({0})
       /\ ~tryingOriginal /\ tryingOriginal' => MovedOn(1..Len(list))]_vars

\* "retry_delay directive is used to set the number of seconds to sleep before
\* reattempting to establish a tunnel" (gw6c.conf.5): with a server that speaks
\* some version of the tunnel mode, whatever else goes wrong, an attempt with
\* the same server, transport and version is never repeated before the retry
\* delay, the fallback delay, a tunnel or a redirection has come between.  (One
\* that speaks none is asked again at once, for ever.)
Attempted == pc = "loop" /\ pc' = "setup"

SpeaksSome(s) == \E v \in Speaks[s] : v <= OldestVersion(tunnelMode)

NoRepeatWithoutRest ==
  [][Attempted /\ SpeaksSome(server) =>
       <<Position, transport', version'>> \notin burst]_vars

\* After such a server has refused a version over UDP the next session over UDP
\* is delayed ("Wait a little to prevent the TSP version fallback problem with
\* UDP connections that have the same source port").
UdpFallbackWaits ==
  [][/\ Attempted /\ SpeaksSome(server)
     /\ status = "TSP_VERSION_ERROR" /\ transport \in UDP /\ transport' \in UDP
     => burst = {}]_vars

\* When the client has ended, the GUI has its final status: idle if and only
\* if the last session ended without an error, and never "connected".  Only a
\* stop between two transports leaves it at "connecting".
FinalStatusHonest ==
  pc = "done" =>
    /\ told = info
    /\ told.e # "CONNECTED"
    /\ told = Connecting => stop
    /\ ~stop => (told = Idle <=> status = "NO_ERROR")

\* "The client then connects to each broker in the list, the closest one first,
\* until a successful connection is established": from an attempt with broker i
\* the client comes to broker i+1 unless it gets a tunnel or another
\* redirection, or ends.
HasTunnel == pc = "result" /\ status \in Granted

EachBrokerTried ==
  \A i \in 1..(MaxBrokers - 1) :
    (pc = "setup" /\ Position = i /\ i < Len(list)) ~>
      \/ Position = i + 1
      \/ HasTunnel
      \/ pc = "result" /\ status \in Redirected
      \/ stop
      \/ pc = "done"

\* The client gets a tunnel whenever one is to be had: if the configured server
\* or a broker of the list grants tunnels over some transport of the mode, in
\* some version that transport can be used with, one is established.
Grants(s) ==
  \E t \in Transports(tunnelMode), v \in Speaks[s] :
    /\ <<s, t>> \notin Unreachable
    /\ v <= IF t \in UDP THEN V200 ELSE OldestVersion(tunnelMode)

Connects ==
  (/\ pc = "start"
   /\ \/ Grants(OriginalServer)
      \/ ListOnFile /\ \E i \in DOMAIN listFile.list : Grants(listFile.list[i]))
  ~> (HasTunnel \/ stop)

\* A requested stop ends the client, wherever it was.
StopEnds == stop ~> pc = "done"

============================================================================
