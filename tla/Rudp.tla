-------------------------------- MODULE Rudp --------------------------------
(***************************************************************************)
(* Reliable UDP, net_rudp.c: one request at a time over a datagram socket, *)
(* retransmitted until its reply comes or the retries are used up, with an *)
(* adaptive timeout and an engine (rttengine_stats) whose state outlives   *)
(* an exchange and, between sessions, whatever closing it does not reset.  *)
(*                                                                         *)
(* Time passes in half seconds.  The network loses, duplicates, delays and *)
(* reorders datagrams; servers answer any request, as often as it arrives. *)
(***************************************************************************)
EXTENDS Integers, FiniteSets

CONSTANTS
  Host,             \* servers
  None,             \* no server (a NULL sai)
  TMIN, TMAX,       \* RTTENGINE_TMIN and _TMAX, in seconds
  MAXRTT, MAXRT,    \* RTTENGINE_MAXRTT and _MAXRT
  SelectWrites,     \* may select() write the time left into its argument?
  MaxSessions,      \* bound: sessions of the client
  MaxExchanges      \* bound: exchanges of a session

ASSUME RudpAssumption ==
  /\ None \notin Host
  /\ TMIN \in Nat \ {0} /\ TMAX \in Nat /\ TMIN <= TMAX
  /\ MAXRTT \in Nat /\ MAXRT \in Nat /\ MAXRTT < MAXRT
  /\ SelectWrites \subseteq BOOLEAN
  /\ MaxSessions \in Nat /\ MaxExchanges \in Nat

VARIABLES
  phase,        \* where the client is
  session,      \* number of the session: the socket
  host,         \* the server the session was opened for
  sai,          \* rttengine_stats.sai, the address cached
  peer,         \* the server the socket is connected to
  initiated, hasPeer, applyBackoff, retries, rto, sequence,  \* rttengine_stats
  sends,        \* transmissions of the request under way
  tv,           \* tv_sel as select() was last given it, in half seconds
  keepsTime,    \* does select() write the time left into tv, as on Linux?
  left,         \* half seconds until select() times out
  begun,        \* half seconds since the second in which tv_beg was taken
  answer,       \* the request whose reply was accepted last
  toServer,     \* datagrams under way to the servers
  toClient      \* datagrams under way to the client

engine == <<initiated, hasPeer, applyBackoff, retries, rto, sequence>>
timer == <<keepsTime, tv, left, begun>>
net == <<toServer, toClient>>
vars == <<phase, session, host, sai, peer, engine, sends, timer, answer, net>>

\* A datagram: every reply carries the sequence number of its request.  The
\* session is only here to tell requests apart; it is not sent.
Datagram == [host : Host, session : 1..MaxSessions, seq : 1..MaxExchanges]
Request == [session : 1..MaxSessions, seq : 1..MaxExchanges]

\* (mutant of Adjusted: no upper bound)
Unbounded(t) == t

\* internal_get_adjusted_rto
Adjusted(t) == IF t < TMIN THEN TMIN ELSE IF t > TMAX THEN TMAX ELSE t

Init ==
  /\ phase = "closed" /\ session = 0
  /\ host = None /\ sai = None /\ peer = None
  /\ initiated = FALSE /\ hasPeer = FALSE /\ applyBackoff = FALSE
  /\ retries = 0 /\ rto = TMIN /\ sequence = 0
  /\ sends = 0 /\ tv = 0 /\ left = 0 /\ begun = 0
  /\ keepsTime \in SelectWrites
  /\ answer = None
  /\ toServer = {} /\ toClient = {}

\* rttengine_deinit: the rest of rttengine_stats stays as it is.
rttengine_deinit == initiated' = FALSE /\ sai' = None

\* NetRUDPInit
rttengine_init ==
  IF initiated
  THEN UNCHANGED engine
  ELSE /\ initiated' = TRUE /\ hasPeer' = FALSE /\ applyBackoff' = FALSE
       /\ retries' = 0 /\ rto' = TMIN /\ sequence' = 0

\* internal_get_sai: the cached address, or that of the server named
Address(h) == IF initiated /\ sai # None THEN sai ELSE h

\* (mutant of Drained: a session may be opened at any time)
NoDelay(h) == h \in Host

\* tspMain opens a new session with the same server at least the fallback
\* delay after the last: by then no datagram of that one is left.
Drained(h) == \A d \in toServer \cup toClient : d.host # h

NetRUDPConnect(h) ==
  /\ phase = "closed"
  /\ session < MaxSessions
  /\ Drained(h)
  /\ session' = session + 1
  /\ host' = h
  /\ rttengine_init
  /\ \/ phase' = "failed" /\ sai' \in {sai, Address(h)} /\ UNCHANGED peer
     \/ phase' = "open" /\ sai' = Address(h) /\ peer' = Address(h)
  /\ answer' = None
  /\ UNCHANGED <<sends, timer, net>>

\* (mutant of Close: the engine stays initiated)
CloseSocketOnly ==
  /\ phase \in {"open", "failed"}
  /\ phase' = "closed"
  /\ peer' = None /\ answer' = None
  /\ UNCHANGED <<session, host, sai, engine, sends, timer, net>>

\* NetRUDPClose; tspSetupTunnel calls it on every way out, also when
\* NetRUDPConnect has failed.
Close ==
  /\ phase \in {"open", "failed"}
  /\ phase' = "closed"
  /\ rttengine_deinit
  /\ peer' = None /\ answer' = None
  /\ UNCHANGED <<session, host, hasPeer, applyBackoff, retries, rto, sequence,
                 sends, timer, net>>

----------------------------------------------------------------------------
(* internal_send_recv *)

\* An exchange begins with a new sequence number.
Begin ==
  /\ phase = "open"
  /\ sequence < MaxExchanges
  /\ sequence' = sequence + 1
  /\ sends' = 0
  /\ answer' = None
  /\ phase' = "sendloop"
  /\ UNCHANGED <<session, host, sai, peer, initiated, hasPeer, applyBackoff,
                 retries, rto, timer, net>>

\* return -1
ReturnError ==
  /\ phase' = "failed"
  /\ rttengine_deinit
  /\ UNCHANGED <<session, host, peer, hasPeer, applyBackoff, retries, rto,
                 sequence, sends, timer, answer>>

\* (mutant of OutOfRetries: a server never heard is retried as often)
PeerAssumed == retries = MAXRT

OutOfRetries == retries = MAXRT \/ (retries = MAXRTT /\ ~hasPeer)

GiveUp ==
  /\ phase = "sendloop"
  /\ OutOfRetries
  /\ ReturnError
  /\ UNCHANGED net

Send ==
  /\ phase = "sendloop"
  /\ ~OutOfRetries
  /\ applyBackoff' = (applyBackoff \/ retries = MAXRTT)
  /\ toServer' = toServer \cup {[host |-> peer, session |-> session, seq |-> sequence]}
  /\ sends' = sends + 1
  /\ tv' = 2 * rto /\ left' = 2 * rto
  /\ begun' \in {0, 1}
  /\ phase' = "selectloop"
  /\ UNCHANGED <<session, host, sai, peer, initiated, hasPeer, retries, rto,
                 sequence, keepsTime, answer, toClient>>

\* Half a second passes.
Tick ==
  /\ phase = "selectloop"
  /\ left > 0
  /\ left' = left - 1 /\ begun' = begun + 1
  /\ UNCHANGED <<phase, session, host, sai, peer, engine, sends, tv, keepsTime,
                 answer, net>>

\* select() returns 0.
TimeOut ==
  /\ phase = "selectloop"
  /\ left = 0
  /\ retries' = retries + 1
  /\ rto' = IF applyBackoff THEN Adjusted(2 * rto) ELSE rto
  /\ phase' = "sendloop"
  /\ UNCHANGED <<session, host, sai, peer, initiated, hasPeer, applyBackoff,
                 sequence, sends, timer, answer, net>>

\* A datagram from the peer is read; the network may keep a copy of it.
Receives(d) ==
  /\ phase = "selectloop"
  /\ left >= 0
  /\ d \in toClient
  /\ d.host = peer
  /\ toClient' \in {toClient, toClient \ {d}}
  /\ UNCHANGED toServer

\* (mutant of IsReply: sequence numbers are not compared)
AnyReply(d) == d.seq \in 1..MaxExchanges

IsReply(d) == d.seq = sequence

\* The reply: its round trip time gives the next timeout.
RecvReply(d) ==
  /\ Receives(d)
  /\ IsReply(d)
  /\ rto' \in TMIN..TMAX
  /\ retries' = 0
  /\ hasPeer' = TRUE
  /\ answer' = [session |-> d.session, seq |-> d.seq]
  /\ phase' = "open"
  /\ UNCHANGED <<session, host, sai, peer, initiated, applyBackoff, sequence,
                 sends, timer>>

\* (mutant of Remaining: the wait begins anew)
WaitAnew == 2 * rto

\* "readjust tv to the remaining time": what tv_sel holds, less the seconds
\* since tv_beg.
Remaining == (IF keepsTime THEN left ELSE tv) - 2 * (begun \div 2)

\* Another reply: wait on, for the time remaining.
RecvStale(d) ==
  /\ Receives(d)
  /\ ~IsReply(d)
  /\ tv' = Remaining /\ left' = Remaining
  /\ begun' = begun % 2
  /\ UNCHANGED <<phase, session, host, sai, peer, engine, sends, keepsTime, answer>>

\* select() refuses a negative timeout.
SelectFails ==
  /\ phase = "selectloop"
  /\ left < 0
  /\ ReturnError
  /\ UNCHANGED net

\* send() or recv() fails: nobody listens on the server's port.
SocketError ==
  /\ phase \in {"sendloop", "selectloop"}
  /\ phase = "sendloop" => ~OutOfRetries
  /\ left >= 0
  /\ ReturnError
  /\ UNCHANGED net

----------------------------------------------------------------------------
(* The servers and the network *)

\* A server replies to a request as often as it receives it.
ServerReplies(d) ==
  /\ d \in toServer
  /\ toClient' = toClient \cup {d}
  /\ toServer' \in {toServer, toServer \ {d}}
  /\ UNCHANGED <<phase, session, host, sai, peer, engine, sends, timer, answer>>

Lose(d) ==
  /\ d \in toServer \cup toClient
  /\ toServer' = toServer \ {d}
  /\ toClient' = toClient \ {d}
  /\ UNCHANGED <<phase, session, host, sai, peer, engine, sends, timer, answer>>

internal_send_recv ==
  \/ GiveUp \/ Send \/ Tick \/ TimeOut \/ SelectFails \/ SocketError
  \/ \E d \in toClient : RecvReply(d) \/ RecvStale(d)

Client ==
  \/ \E h \in Host : NetRUDPConnect(h)
  \/ Close \/ Begin
  \/ internal_send_recv

Network == \E d \in toServer \cup toClient : ServerReplies(d) \/ Lose(d)

\* The sessions allowed are over.
Done == phase = "closed" /\ session = MaxSessions /\ UNCHANGED vars

Next == Client \/ Network \/ Done

Spec == Init /\ [][Next]_vars

\* Time passes, and the thread does what it does not wait for; nothing is assumed
\* of the network.
FairSpec ==
  Spec /\ WF_vars(Tick) /\ WF_vars(TimeOut) /\ WF_vars(GiveUp \/ Send \/ SelectFails)

----------------------------------------------------------------------------
(* Properties *)

Phases == {"closed", "failed", "open", "sendloop", "selectloop"}

TypeOK ==
  /\ phase \in Phases
  /\ session \in 0..MaxSessions
  /\ host \in Host \cup {None} /\ sai \in Host \cup {None} /\ peer \in Host \cup {None}
  /\ initiated \in BOOLEAN /\ hasPeer \in BOOLEAN /\ applyBackoff \in BOOLEAN
  /\ retries \in 0..MAXRT
  /\ rto \in TMIN..TMAX
  /\ sequence \in 0..MaxExchanges
  /\ sends \in 0..MAXRT
  /\ keepsTime \in SelectWrites
  /\ tv \in Int /\ left \in Int /\ begun \in 0..(2 * TMAX + 1)
  /\ answer \in Request \cup {None}
  /\ toServer \subseteq Datagram /\ toClient \subseteq Datagram

\* RUDP is the transport that the rest of the client takes it for: connected to
\* the server asked for, whatever address an earlier session had cached, and
\* with the reply to the very request, not to an earlier one of this session or
\* of one before it.
Transport == INSTANCE TspTransport WITH
  link <- IF phase \in {"sendloop", "selectloop"} THEN "asked" ELSE phase,
  peer <- peer,
  asked <- IF phase = "closed" \/ sequence = 0 THEN None
           ELSE [session |-> session, seq |-> sequence],
  answer <- answer

ImplementsTransport == Transport!Spec

Exchanging == phase \in {"sendloop", "selectloop"}

AllRetriesUsed ==
  Exchanging /\ phase' = "failed" /\ ~SocketError =>
    sends = IF hasPeer THEN MAXRT ELSE MAXRTT

\* Where select() leaves its argument alone, the request is given up only after
\* all retransmissions the engine allows: MAXRTT for a server never heard, MAXRT
\* for one that has answered before.  No datagram of the network can end it
\* sooner ("readjust tv to the remaining time").  Where select() writes the time
\* left into its argument, as on Linux, a late duplicate can.
KeepsTryingOffLinux == [][~keepsTime => AllRetriesUsed]_vars

\* Every exchange ends, with a reply or without, whatever stale datagrams the
\* network delivers in between.
ExchangeEnds == Exchanging ~> ~Exchanging
=============================================================================
