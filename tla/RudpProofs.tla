----------------------------- MODULE RudpProofs -----------------------------
(* Theorems about reliable UDP (Rudp), for every set of servers, all limits of *)
(* the engine, every number of sessions and both kinds of select().            *)
EXTENDS Rudp, TLAPS

(* Arithmetic                                                                  *)

LEMMA AdjustedType == ASSUME NEW t \in Int PROVE Adjusted(t) \in TMIN..TMAX
  BY RudpAssumption DEF Adjusted

LEMMA Quotient ==
  ASSUME NEW n \in Nat, NEW q, q = n \div 2, NEW r, r = n % 2
  PROVE  n = 2 * q + r
  OBVIOUS

LEMMA Halves ==
  ASSUME NEW n \in Nat
  PROVE  /\ n \div 2 \in Nat
         /\ n % 2 \in {0, 1}
  OBVIOUS

-----------------------------------------------------------------------------
(* The engine                                                                  *)

EngineTypes ==
  /\ phase \in Phases
  /\ initiated \in BOOLEAN /\ hasPeer \in BOOLEAN /\ applyBackoff \in BOOLEAN
  /\ retries \in 0..MAXRT
  /\ rto \in TMIN..TMAX
  /\ sends \in 0..MAXRT

\* An exchange begins with no retransmission counted, since the reply to the last
\* one has reset the count and a session begins with the engine reset; from then
\* on every transmission but the one waited for has been counted.  A server never
\* heard is not asked beyond MAXRTT.
CountInv ==
  /\ phase = "closed" => ~initiated
  /\ phase = "open" => retries = 0
  /\ phase \in {"open", "sendloop", "selectloop"} => initiated
  /\ phase = "sendloop" => sends = retries
  /\ phase = "selectloop" => sends = retries + 1 /\ retries < MAXRT
  /\ phase = "sendloop" /\ ~hasPeer => retries <= MAXRTT
  /\ phase = "selectloop" /\ ~hasPeer => retries < MAXRTT

EngineInv == EngineTypes /\ CountInv

LEMMA EngineStep == EngineInv /\ [Next]_vars => EngineInv'
<1> SUFFICES ASSUME EngineInv, [Next]_vars PROVE EngineInv'
  OBVIOUS
<1> USE RudpAssumption
<1> USE DEF EngineInv, EngineTypes, CountInv, Phases, engine, timer, net, vars
<1>1. ASSUME NEW h \in Host, NetRUDPConnect(h) PROVE EngineInv'
  <2>1. ~initiated
    BY <1>1 DEF NetRUDPConnect
  <2>2. /\ initiated' = TRUE /\ hasPeer' = FALSE /\ applyBackoff' = FALSE
        /\ retries' = 0 /\ rto' = TMIN
    BY <1>1, <2>1 DEF NetRUDPConnect, rttengine_init
  <2>3. phase' \in {"failed", "open"} /\ sends' = sends
    BY <1>1 DEF NetRUDPConnect
  <2>4. initiated' \in BOOLEAN /\ hasPeer' \in BOOLEAN /\ applyBackoff' \in BOOLEAN
    BY <2>2
  <2>5. retries' \in 0..MAXRT /\ rto' \in TMIN..TMAX
    BY <2>2
  <2>6. EngineTypes'
    BY <2>3, <2>4, <2>5
  <2>7. initiated' /\ retries' = 0
    BY <2>2
  <2>8. CountInv'
    BY <2>3, <2>7
  <2>9. QED
    BY <2>6, <2>8
<1>2. CASE Close
  BY <1>2 DEF Close, rttengine_deinit
<1>3. CASE Begin
  BY <1>3 DEF Begin
<1>4. CASE GiveUp
  BY <1>4 DEF GiveUp, ReturnError, rttengine_deinit, OutOfRetries
<1>5. CASE Send
  BY <1>5 DEF Send, OutOfRetries
<1>6. CASE Tick
  BY <1>6 DEF Tick
<1>7. CASE TimeOut
  <2>1. 2 * rto \in Int
    OBVIOUS
  <2>2. rto' \in TMIN..TMAX
    BY <1>7, <2>1, AdjustedType DEF TimeOut
  <2>3. QED
    BY <1>7, <2>2 DEF TimeOut
<1>8. CASE SelectFails
  BY <1>8 DEF SelectFails, ReturnError, rttengine_deinit
<1>9. CASE SocketError
  BY <1>9 DEF SocketError, ReturnError, rttengine_deinit
<1>10. ASSUME NEW d \in toClient, RecvReply(d) PROVE EngineInv'
  BY <1>10 DEF RecvReply, Receives, IsReply
<1>11. ASSUME NEW d \in toClient, RecvStale(d) PROVE EngineInv'
  BY <1>11 DEF RecvStale, Receives
<1>12. ASSUME NEW d \in toServer \cup toClient, ServerReplies(d) PROVE EngineInv'
  BY <1>12 DEF ServerReplies
<1>13. ASSUME NEW d \in toServer \cup toClient, Lose(d) PROVE EngineInv'
  BY <1>13 DEF Lose
<1>14. CASE UNCHANGED vars
  BY <1>14
<1> QED
  BY <1>1, <1>2, <1>3, <1>4, <1>5, <1>6, <1>7, <1>8, <1>9, <1>10,
     <1>11, <1>12, <1>13, <1>14
     DEF Next, Client, internal_send_recv, Network, Done
-----------------------------------------------------------------------------
(* Time                                                                        *)

\* The time given to select() and the time passed since never exceed the longest
\* timeout and the half second that tv_beg is rounded down by.
TimerInv ==
  /\ tv \in Int /\ left \in Int /\ begun \in Nat
  /\ tv <= 2 * TMAX /\ left <= 2 * TMAX
  /\ begun <= 2 * TMAX + 1
  /\ left + begun <= 2 * TMAX + 1

\* Where select() leaves its argument alone, that is the time that was left when the
\* wait began, which is a whole number of seconds: whatever is subtracted from it for
\* the seconds since leaves no negative time.
PatienceInv ==
  phase = "selectloop" /\ ~keepsTime =>
    /\ left >= 0
    /\ begun + left - tv \in {0, 1}
    /\ \E k \in Int : tv = 2 * k

LEMMA TimerStep == EngineInv /\ TimerInv /\ [Next]_vars => TimerInv'
<1> SUFFICES ASSUME EngineTypes, TimerInv, [Next]_vars PROVE TimerInv'
  BY DEF EngineInv
<1> USE RudpAssumption
<1> USE DEF TimerInv, engine, timer, net, vars
<1>1. ASSUME NEW h \in Host, NetRUDPConnect(h) PROVE TimerInv'
  BY <1>1 DEF NetRUDPConnect, rttengine_init, Address
<1>2. CASE Close
  BY <1>2 DEF Close, rttengine_deinit
<1>3. CASE Begin
  BY <1>3 DEF Begin
<1>4. CASE GiveUp
  BY <1>4 DEF GiveUp, ReturnError, rttengine_deinit
<1>5. CASE Send
  <2>1. rto \in Int /\ rto <= TMAX
    BY DEF EngineTypes
  <2>2. PICK b \in {0, 1} : tv' = 2 * rto /\ left' = 2 * rto /\ begun' = b
    BY <1>5 DEF Send
  <2>3. QED
    BY <2>1, <2>2
<1>6. CASE Tick
  BY <1>6 DEF Tick
<1>7. CASE TimeOut
  BY <1>7 DEF TimeOut
<1>8. CASE SelectFails
  BY <1>8 DEF SelectFails, ReturnError, rttengine_deinit
<1>9. CASE SocketError
  BY <1>9 DEF SocketError, ReturnError, rttengine_deinit
<1>10. ASSUME NEW d \in toClient, RecvReply(d) PROVE TimerInv'
  BY <1>10 DEF RecvReply, Receives, IsReply
<1>11. ASSUME NEW d \in toClient, RecvStale(d) PROVE TimerInv'
  <2>1. PICK q \in Nat : q = begun \div 2
    BY Halves
  <2>2. PICK r \in {0, 1} : r = begun % 2
    BY Halves
  <2>3. begun = 2 * q + r
    BY <2>1, <2>2, Quotient
  <2>4. tv' = (IF keepsTime THEN left ELSE tv) - 2 * q /\ left' = tv'
    BY <2>1, <1>11 DEF RecvStale, Remaining
  <2>5. begun' = r
    BY <2>2, <1>11 DEF RecvStale
  <2>7. CASE keepsTime
    <3>1. tv' = left - 2 * q /\ left' = left - 2 * q
      BY <2>4, <2>7
    <3>2. QED
      BY <2>3, <2>5, <3>1
  <2>8. CASE ~keepsTime
    <3>1. tv' = tv - 2 * q /\ left' = tv - 2 * q
      BY <2>4, <2>8
    <3>2. QED
      BY <2>3, <2>5, <3>1
  <2>9. QED
    BY <2>7, <2>8
<1>12. ASSUME NEW d \in toServer \cup toClient, ServerReplies(d) PROVE TimerInv'
  BY <1>12 DEF ServerReplies
<1>13. ASSUME NEW d \in toServer \cup toClient, Lose(d) PROVE TimerInv'
  BY <1>13 DEF Lose
<1>14. CASE UNCHANGED vars
  BY <1>14
<1> QED
  BY <1>1, <1>2, <1>3, <1>4, <1>5, <1>6, <1>7, <1>8, <1>9, <1>10,
     <1>11, <1>12, <1>13, <1>14
     DEF Next, Client, internal_send_recv, Network, Done

LEMMA PatienceStep == EngineInv /\ TimerInv /\ PatienceInv /\ [Next]_vars => PatienceInv'
<1> SUFFICES ASSUME EngineTypes, TimerInv, PatienceInv, [Next]_vars,
                    phase' = "selectloop", ~keepsTime'
             PROVE  /\ left' >= 0
                    /\ begun' + left' - tv' \in {0, 1}
                    /\ \E k \in Int : tv' = 2 * k
  BY DEF EngineInv, PatienceInv
<1> DEFINE Patient == /\ left' >= 0
                      /\ begun' + left' - tv' \in {0, 1}
                      /\ \E k \in Int : tv' = 2 * k
<1> USE RudpAssumption
<1> USE DEF PatienceInv, TimerInv, engine, timer, net, vars
<1>1. ASSUME NEW h \in Host, NetRUDPConnect(h) PROVE Patient
  BY <1>1 DEF NetRUDPConnect, rttengine_init, Address
<1>2. CASE Close
  BY <1>2 DEF Close, rttengine_deinit
<1>3. CASE Begin
  BY <1>3 DEF Begin
<1>4. CASE GiveUp
  BY <1>4 DEF GiveUp, ReturnError, rttengine_deinit
<1>5. CASE Send
  <2>1. rto \in Int /\ rto >= 0
    BY DEF EngineTypes
  <2>2. PICK b \in {0, 1} : tv' = 2 * rto /\ left' = 2 * rto /\ begun' = b
    BY <1>5 DEF Send
  <2>3. left' >= 0 /\ begun' + left' - tv' \in {0, 1}
    BY <2>1, <2>2
  <2>4. QED
    BY <2>1, <2>2, <2>3
<1>6. CASE Tick
  <2>1. ~keepsTime /\ phase = "selectloop" /\ left > 0
    BY <1>6 DEF Tick
  <2>2. left' = left - 1 /\ begun' = begun + 1 /\ tv' = tv
    BY <1>6 DEF Tick
  <2>3. QED
    BY <2>1, <2>2
<1>7. CASE TimeOut
  BY <1>7 DEF TimeOut
<1>8. CASE SelectFails
  BY <1>8 DEF SelectFails, ReturnError, rttengine_deinit
<1>9. CASE SocketError
  BY <1>9 DEF SocketError, ReturnError, rttengine_deinit
<1>10. ASSUME NEW d \in toClient, RecvReply(d) PROVE Patient
  BY <1>10 DEF RecvReply, Receives, IsReply
<1>11. ASSUME NEW d \in toClient, RecvStale(d) PROVE Patient
  <2>1. PICK q \in Nat : q = begun \div 2
    BY Halves
  <2>2. PICK r \in {0, 1} : r = begun % 2
    BY Halves
  <2>3. begun = 2 * q + r
    BY <2>1, <2>2, Quotient
  <2>4. ~keepsTime /\ phase = "selectloop"
    BY <1>11 DEF RecvStale, Receives
  <2>5. tv' = tv - 2 * q /\ left' = tv - 2 * q /\ begun' = r
    BY <2>1, <2>2, <2>4, <1>11 DEF RecvStale, Remaining
  <2>6. PICK k \in Int : tv = 2 * k
    BY <2>4
  <2>7. k - q \in Int /\ tv' = 2 * (k - q)
    BY <2>5, <2>6
  <2>8. left >= 0 /\ begun + left - tv \in {0, 1}
    BY <2>4
  <2>9. k - q >= 0
    BY <2>3, <2>6, <2>8
  <2>10. left' >= 0 /\ begun' + left' - tv' \in {0, 1}
    BY <2>2, <2>5, <2>7, <2>9
  <2>11. QED
    BY <2>7, <2>10
<1>12. ASSUME NEW d \in toServer \cup toClient, ServerReplies(d) PROVE Patient
  BY <1>12 DEF ServerReplies
<1>13. ASSUME NEW d \in toServer \cup toClient, Lose(d) PROVE Patient
  BY <1>13 DEF Lose
<1>14. CASE UNCHANGED vars
  BY <1>14
<1> QED
  BY <1>1, <1>2, <1>3, <1>4, <1>5, <1>6, <1>7, <1>8, <1>9, <1>10,
     <1>11, <1>12, <1>13, <1>14
     DEF Next, Client, internal_send_recv, Network, Done

-----------------------------------------------------------------------------
(* The network                                                                 *)

NetTypes ==
  /\ session \in 0..MaxSessions /\ sequence \in 0..MaxExchanges
  /\ host \in Host \cup {None} /\ sai \in Host \cup {None} /\ peer \in Host \cup {None}
  /\ answer \in Request \cup {None}
  /\ keepsTime \in SelectWrites
  /\ toServer \subseteq Datagram /\ toClient \subseteq Datagram

\* Every datagram under way to or from the peer of the socket belongs to its
\* session, because no datagram of an earlier session with the same server outlives
\* the delay before the next (Drained); the sequence number then tells the request.
NetInv ==
  /\ phase = "closed" => sai = None /\ peer = None /\ answer = None
  /\ phase \in {"open", "sendloop", "selectloop"} => peer \in Host /\ session >= 1
  /\ phase \in {"sendloop", "selectloop"} => sequence >= 1
  /\ \A d \in toServer \cup toClient : d.host = peer => d.session = session

LEMMA DatagramType ==
  ASSUME NEW d \in Datagram
  PROVE  d.host \in Host /\ d.session \in 1..MaxSessions /\ d.seq \in 1..MaxExchanges
  BY DEF Datagram

LEMMA NetStep == EngineInv /\ NetTypes /\ NetInv /\ [Next]_vars => NetTypes' /\ NetInv'
<1> SUFFICES ASSUME CountInv, NetTypes, NetInv, [Next]_vars PROVE NetTypes' /\ NetInv'
  BY DEF EngineInv
<1> USE RudpAssumption
<1> USE DEF NetTypes, NetInv, engine, timer, net, vars
<1>1. ASSUME NEW h \in Host, NetRUDPConnect(h) PROVE NetTypes' /\ NetInv'
  <2>1. ~initiated /\ sai = None /\ peer = None /\ session < MaxSessions /\ phase = "closed"
    BY <1>1 DEF NetRUDPConnect, CountInv
  <2>2. /\ session' = session + 1 /\ host' = h /\ sequence' = 0 /\ answer' = None
        /\ UNCHANGED <<keepsTime, toServer, toClient>>
    BY <1>1, <2>1 DEF NetRUDPConnect, rttengine_init
  <2>3. \/ phase' = "failed" /\ sai' \in {None, h} /\ peer' = None
        \/ phase' = "open" /\ sai' = h /\ peer' = h
    BY <1>1, <2>1 DEF NetRUDPConnect, Address
  <2>4. NetTypes'
    BY <2>1, <2>2, <2>3
  <2>5. \A d \in toServer \cup toClient : d.host # h /\ d.host # None
    BY <1>1, DatagramType DEF NetRUDPConnect, Drained
  <2>6. \A d \in toServer' \cup toClient' : d.host = peer' => d.session = session'
    BY <2>2, <2>3, <2>5
  <2>7. session' >= 1
    BY <2>2
  <2>8. QED
    BY <2>2, <2>3, <2>4, <2>6, <2>7
<1>2. CASE Close
  <2>1. /\ phase' = "closed" /\ sai' = None /\ peer' = None /\ answer' = None
        /\ UNCHANGED <<session, sequence, host, keepsTime, toServer, toClient>>
    BY <1>2 DEF Close, rttengine_deinit
  <2>2. \A d \in toServer \cup toClient : d.host # None
    BY DatagramType
  <2>3. QED
    BY <2>1, <2>2
<1>3. CASE Begin
  BY <1>3 DEF Begin
<1>4. CASE GiveUp
  BY <1>4 DEF GiveUp, ReturnError, rttengine_deinit
<1>5. CASE Send
  <2>1. peer \in Host /\ session \in 1..MaxSessions /\ sequence \in 1..MaxExchanges
    BY <1>5 DEF Send
  <2> DEFINE d == [host |-> peer, session |-> session, seq |-> sequence]
  <2>2. d \in Datagram /\ d.host = peer /\ d.session = session
    BY <2>1 DEF Datagram
  <2>3. /\ toServer' = toServer \cup {d} /\ phase' = "selectloop"
        /\ UNCHANGED <<session, host, sai, peer, sequence, keepsTime, answer, toClient>>
    BY <1>5 DEF Send
  <2> HIDE DEF d
  <2>4. QED
    BY <2>1, <2>2, <2>3
<1>6. CASE Tick
  BY <1>6 DEF Tick
<1>7. CASE TimeOut
  BY <1>7 DEF TimeOut
<1>8. CASE SelectFails
  BY <1>8 DEF SelectFails, ReturnError, rttengine_deinit
<1>9. CASE SocketError
  BY <1>9 DEF SocketError, ReturnError, rttengine_deinit
<1>10. ASSUME NEW d \in toClient, RecvReply(d) PROVE NetTypes' /\ NetInv'
  <2>1. answer' \in Request
    BY <1>10, DatagramType DEF RecvReply, Request
  <2>2. /\ toClient' \subseteq toClient /\ toServer' = toServer /\ phase' = "open" /\ phase = "selectloop"
        /\ UNCHANGED <<session, host, sai, peer, sequence, keepsTime>>
    BY <1>10 DEF RecvReply, Receives
  <2>3. QED
    BY <2>1, <2>2
<1>11. ASSUME NEW d \in toClient, RecvStale(d) PROVE NetTypes' /\ NetInv'
  BY <1>11 DEF RecvStale, Receives
<1>12. ASSUME NEW d \in toServer \cup toClient, ServerReplies(d) PROVE NetTypes' /\ NetInv'
  BY <1>12 DEF ServerReplies
<1>13. ASSUME NEW d \in toServer \cup toClient, Lose(d) PROVE NetTypes' /\ NetInv'
  BY <1>13 DEF Lose
<1>14. CASE UNCHANGED vars
  BY <1>14
<1> QED
  BY <1>1, <1>2, <1>3, <1>4, <1>5, <1>6, <1>7, <1>8, <1>9, <1>10,
     <1>11, <1>12, <1>13, <1>14
     DEF Next, Client, internal_send_recv, Network, Done

-----------------------------------------------------------------------------
(* The transport                                                               *)

LEMMA AskedType ==
  ASSUME NetTypes, NetInv, phase \in {"open", "sendloop", "selectloop"}, sequence # 0
  PROVE  [session |-> session, seq |-> sequence] \in Request
<1>1. session \in 1..MaxSessions /\ sequence \in 1..MaxExchanges
  BY RudpAssumption DEF NetTypes, NetInv
<1>2. QED
  BY <1>1 DEF Request

\* The reply accepted is that to the request asked.
LEMMA ReplyRight ==
  ASSUME NetTypes, NetInv, NEW d \in toClient, RecvReply(d)
  PROVE  answer' = [session |-> session, seq |-> sequence]
  BY DEF RecvReply, Receives, IsReply, NetInv

LEMMA TransportStep ==
  EngineInv /\ NetTypes /\ NetInv /\ [Next]_vars => [Transport!Next]_Transport!vars
<1> SUFFICES ASSUME CountInv, NetTypes, NetInv, [Next]_vars
             PROVE  [Transport!Next]_Transport!vars
  BY DEF EngineInv
<1> USE RudpAssumption
<1> USE DEF Transport!Next, Transport!vars, engine, timer, net, vars
<1>1. ASSUME NEW h \in Host, NetRUDPConnect(h) PROVE [Transport!Next]_Transport!vars
  <2>1. ~initiated /\ sai = None /\ peer = None /\ answer = None /\ phase = "closed"
    BY <1>1 DEF NetRUDPConnect, CountInv, NetInv
  <2>2. sequence' = 0 /\ answer' = None
    BY <1>1, <2>1 DEF NetRUDPConnect, rttengine_init
  <2>3. \/ phase' = "failed" /\ peer' = None
        \/ phase' = "open" /\ peer' = h
    BY <1>1, <2>1 DEF NetRUDPConnect, Address
  <2>4. Transport!Fail \/ Transport!netopen(h)
    BY <2>1, <2>2, <2>3 DEF Transport!Fail, Transport!netopen
  <2>5. QED
    BY <2>4
<1>2. CASE Close
  <2>1. Transport!netclose
    BY <1>2 DEF Close, Transport!netclose
  <2>2. QED
    BY <2>1
<1>3. CASE Begin
  <2>1. /\ sequence' = sequence + 1 /\ sequence' # 0 /\ session' = session
        /\ phase = "open" /\ phase' = "sendloop" /\ peer' = peer /\ answer' = None
    BY <1>3 DEF Begin, NetTypes
  <2>2. [session |-> session, seq |-> sequence'] \in Request
    BY <2>1, <1>3 DEF Begin, NetTypes, NetInv, Request
  <2>3. Transport!Ask([session |-> session, seq |-> sequence'])
    BY <2>1, <2>2 DEF Transport!Ask
  <2>4. QED
    BY <2>2, <2>3
<1>4. CASE GiveUp
  <2>1. Transport!Fail
    BY <1>4 DEF GiveUp, ReturnError, Transport!Fail
  <2>2. QED
    BY <2>1
<1>5. CASE Send
  BY <1>5 DEF Send
<1>6. CASE Tick
  BY <1>6 DEF Tick
<1>7. CASE TimeOut
  BY <1>7 DEF TimeOut
<1>8. CASE SelectFails
  <2>1. Transport!Fail
    BY <1>8 DEF SelectFails, ReturnError, Transport!Fail
  <2>2. QED
    BY <2>1
<1>9. CASE SocketError
  <2>1. Transport!Fail
    BY <1>9 DEF SocketError, ReturnError, Transport!Fail
  <2>2. QED
    BY <2>1
<1>10. ASSUME NEW d \in toClient, RecvReply(d) PROVE [Transport!Next]_Transport!vars
  <2>1. answer' = [session |-> session, seq |-> sequence]
    BY <1>10, ReplyRight
  <2>2. /\ phase = "selectloop" /\ phase' = "open" /\ sequence # 0
        /\ UNCHANGED <<session, sequence, peer>>
    BY <1>10 DEF RecvReply, Receives, NetInv, NetTypes
  <2>3. Transport!Reply
    BY <2>1, <2>2 DEF Transport!Reply
  <2>4. QED
    BY <2>3
<1>11. ASSUME NEW d \in toClient, RecvStale(d) PROVE [Transport!Next]_Transport!vars
  BY <1>11 DEF RecvStale, Receives
<1>12. ASSUME NEW d \in toServer \cup toClient, ServerReplies(d) PROVE [Transport!Next]_Transport!vars
  BY <1>12 DEF ServerReplies
<1>13. ASSUME NEW d \in toServer \cup toClient, Lose(d) PROVE [Transport!Next]_Transport!vars
  BY <1>13 DEF Lose
<1>14. CASE UNCHANGED vars
  BY <1>14
<1> QED
  BY <1>1, <1>2, <1>3, <1>4, <1>5, <1>6, <1>7, <1>8, <1>9, <1>10,
     <1>11, <1>12, <1>13, <1>14
     DEF Next, Client, internal_send_recv, Network, Done

-----------------------------------------------------------------------------
(* Giving up                                                                   *)

\* An exchange that fails without a socket error has used all retransmissions.
LEMMA GivesUpLate ==
  ASSUME EngineInv, TimerInv, PatienceInv, [Next]_vars, ~keepsTime, Exchanging,
         phase' = "failed", ~SocketError
  PROVE  sends = IF hasPeer THEN MAXRT ELSE MAXRTT
<1> USE RudpAssumption
<1>1. GiveUp \/ SelectFails
  BY DEF Next, Client, internal_send_recv, Network, Done, vars, Exchanging, NetRUDPConnect, Close,
         Begin, Send, Tick, TimeOut, RecvReply, RecvStale, Receives, ServerReplies, Lose
<1>2. CASE GiveUp
  BY <1>2 DEF GiveUp, OutOfRetries, EngineInv, EngineTypes, CountInv
<1>3. CASE SelectFails
  BY <1>3 DEF SelectFails, PatienceInv, TimerInv
<1>4. QED
  BY <1>1, <1>2, <1>3

-----------------------------------------------------------------------------
RudpInv == EngineInv /\ TimerInv /\ PatienceInv /\ NetTypes /\ NetInv

LEMMA RudpInvInit == Init => RudpInv
<1> SUFFICES ASSUME Init PROVE RudpInv
  OBVIOUS
<1> USE RudpAssumption DEF Init
<1>1. EngineTypes
  <2>1. initiated \in BOOLEAN /\ hasPeer \in BOOLEAN /\ applyBackoff \in BOOLEAN
    OBVIOUS
  <2>2. phase \in Phases /\ retries \in 0..MAXRT /\ rto \in TMIN..TMAX /\ sends \in 0..MAXRT
    BY DEF Phases
  <2>3. QED
    BY <2>1, <2>2 DEF EngineTypes
<1>2. CountInv
  BY DEF CountInv
<1>3. TimerInv /\ PatienceInv
  BY DEF TimerInv, PatienceInv
<1>4. NetTypes /\ NetInv
  BY DEF NetTypes, NetInv
<1>5. QED
  BY <1>1, <1>2, <1>3, <1>4 DEF RudpInv, EngineInv

LEMMA RudpInvariance == Spec => []RudpInv
<1>1. RudpInv /\ [Next]_vars => RudpInv'
  BY EngineStep, TimerStep, PatienceStep, NetStep DEF RudpInv
<1>2. QED
  BY <1>1, RudpInvInit, PTL DEF Spec

\* The retransmissions stay within the limits of the engine, its timeout between TMIN
\* and TMAX, and the time given to select() within what a send may wait.
THEOREM RudpTypeCorrect == Spec => []TypeOK
<1>1. RudpInv => TypeOK
  <2> SUFFICES ASSUME RudpInv PROVE TypeOK
    OBVIOUS
  <2>1. begun \in 0..(2 * TMAX + 1)
    BY RudpAssumption DEF RudpInv, TimerInv
  <2>2. tv \in Int /\ left \in Int
    BY DEF RudpInv, TimerInv
  <2>3. QED
    BY <2>1, <2>2 DEF RudpInv, EngineInv, EngineTypes, NetTypes, TypeOK
<1>2. QED
  BY <1>1, RudpInvariance, PTL

\* RUDP is the transport the session relies on: the reply accepted is the one to the
\* very request, whatever the network loses, copies or delays, and the server the one
\* asked for, whatever address an earlier session had cached.
THEOREM TransportCorrect == Spec => ImplementsTransport
<1>1. Init => Transport!Init
  BY DEF Init, Transport!Init
<1>2. RudpInv /\ [Next]_vars => [Transport!Next]_Transport!vars
  BY TransportStep DEF RudpInv
<1>3. QED
  BY <1>1, <1>2, RudpInvariance, PTL DEF Spec, ImplementsTransport, Transport!Spec

\* Where select() leaves its argument alone a request is given up only after all the
\* retransmissions the engine allows, whatever stale replies come in between.
THEOREM KeepsTryingCorrect == Spec => KeepsTryingOffLinux
<1>1. RudpInv /\ [Next]_vars => [~keepsTime => AllRetriesUsed]_vars
  BY GivesUpLate DEF RudpInv, AllRetriesUsed
<1>2. QED
  BY <1>1, RudpInvariance, PTL DEF Spec, KeepsTryingOffLinux
=============================================================================
