-------------------------- MODULE TspClientProofs --------------------------
(* Theorems about the connection loop of TspClient, for every tunnel mode,   *)
(* configuration, set of servers, broker list and behaviour of the servers.  *)
EXTENDS TspClient, TLAPS

LEMMA NullType == NULL \in Seq(Server) /\ Len(NULL) = 0
  BY DEF NULL

LEMMA ElementType ==
  ASSUME NEW l \in Seq(Server), NEW i \in 1..Len(l)
  PROVE  l[i] \in Server
  OBVIOUS

LEMMA LengthType == ASSUME NEW l \in Seq(Server) PROVE Len(l) \in Nat
  OBVIOUS

LEMMA NonEmpty ==
  ASSUME NEW l \in Seq(Server), l # NULL
  PROVE  Len(l) \in Nat \ {0} /\ l[1] \in Server
  BY DEF NULL

LEMMA ListType ==
  ASSUME RouteType, NEW l, l = list \/ l = NULL \/ l \in BrokerLists
  PROVE  l \in Seq(Server) /\ Len(l) <= MaxBrokers
<1>1. CASE l = list
  BY <1>1 DEF RouteType
<1>2. CASE l = NULL
  BY <1>2, NullType, ClientAssumption
<1>3. CASE l \in BrokerLists
  BY <1>3, ClientAssumption
<1>4. QED
  BY <1>1, <1>2, <1>3

LEMMA ChoiceType ==
  ASSUME ControlType, NEW c \in Cycles(tunnelMode)
  PROVE  c \in {0, 1} /\ TransportAt(tunnelMode, c) \in Transport /\ NextVersion \in Version
  BY DEF ControlType, TransportAt, NextVersion, OldestVersion, Cycles, Transport, Version, V201, V200, V101

LEMMA PositionType == RouteType => Position \in 0..MaxBrokers
  BY ClientAssumption DEF RouteType, Position

\* What is left of a file after the list l has been written is a list no
\* longer than l.
LEMMA FileAfterType ==
  ASSUME FileType, NEW l \in Seq(Server), Len(l) <= MaxBrokers,
         NEW f \in FileAfter(l)
  PROVE  f \in ListFile /\ Len(f.list) <= MaxBrokers
<1>1. CASE f = listFile
  BY <1>1 DEF FileType
<1>2. CASE \E n \in 0..Len(l) : f = [status |-> "OK", list |-> SubSeq(l, 1, n)]
  <2>1. PICK n \in 0..Len(l) : f = [status |-> "OK", list |-> SubSeq(l, 1, n)]
    BY <1>2
  <2>2. SubSeq(l, 1, n) \in Seq(Server) /\ Len(SubSeq(l, 1, n)) = n
    OBVIOUS
  <2>3. MaxBrokers \in Nat
    BY ClientAssumption
  <2>4. QED
    BY <2>1, <2>2, <2>3 DEF ListFile
<1>3. QED
  BY <1>1, <1>2 DEF FileAfter

\* An attempt is made on one of the transports; only the bookkeeping after it
\* moves the cycle past the last one.
CycleInRange == pc \in {"setup", "result"} => cycle \in {0, 1}

(* The route: which server the flags stand for.                               *)

\* From the start of the loop the flags name a server; the flag that says it
\* is the last one and the flag that says it is the configured one are never
\* both set, which is what lets a failure tell the two apart.
FlagsOK ==
  /\ ~(readLast /\ tryingOriginal)
  /\ IF pc = "start"
     THEN ~readLast /\ ~tryingOriginal /\ ~tryingList /\ server = OriginalServer
     ELSE readLast \/ tryingOriginal \/ tryingList

RouteInv == FlagsOK /\ RouteOK

\* A cursor that is not at the last broker can move on.
LEMMA CursorMoves ==
  ASSUME RouteType, RouteInv, NextBroker
  PROVE  current + 1 \in 1..Len(list)
<1>1. Position = current /\ current # 0 /\ current # Len(list)
  BY DEF NextBroker, BrokerFailed, AllTransportsFailed, CantConnect, Position, AtLastBroker
<1>2. current \in 1..Len(list)
  BY <1>1 DEF RouteInv, RouteOK, NextBroker, BrokerFailed, AllTransportsFailed,
              CantConnect, Result, Redirected
<1>3. Len(list) \in Nat
  BY DEF RouteType
<1>4. QED
  BY <1>1, <1>2, <1>3

LEMMA ModeKept == [Next]_vars => tunnelMode' = tunnelMode
  BY DEF Next, tspMain, RequestStop, Terminated, vars

LEMMA ControlStep ==
  TypeOK /\ CycleInRange /\ [Next]_vars => ControlType' /\ CycleInRange'
<1> SUFFICES ASSUME ControlType, CycleInRange, [Next]_vars
             PROVE  ControlType' /\ CycleInRange'
  BY DEF TypeOK
<1> tunnelMode' = tunnelMode
  BY ModeKept
<1> USE ClientAssumption
<1> USE DEF ControlType, CycleInRange, vars, choice, PCs, Infos, Status, Granted,
        Refused, Redirected, Failed, Idle, Connecting, Connected, RetryNow,
        RetryLater, GiveUp, Result, Adopt, CantConnect, AllTransportsFailed,
        OriginalFailed, BrokerFailed, Answered
<1>1. CASE StartFromLastServer
  BY <1>1 DEF StartFromLastServer
<1>2. CASE StartFromOriginal
  BY <1>2 DEF StartFromOriginal
<1>3. CASE LeaveLoop
  BY <1>3 DEF LeaveLoop
<1>4. CASE ChooseTransport
  <2>1. (IF cycle \in Cycles(tunnelMode) THEN cycle ELSE 0) \in Cycles(tunnelMode)
    BY DEF Cycles
  <2>2. cycle' \in {0, 1} /\ transport' \in Transport /\ version' \in Version
    BY <1>4, <2>1, ChoiceType DEF ChooseTransport
  <2>3. QED
    BY <1>4, <2>2 DEF ChooseTransport
<1>5. CASE NoAnswer
  BY <1>5 DEF NoAnswer
<1>6. CASE VersionRefused
  BY <1>6 DEF VersionRefused
<1>7. CASE NegotiationFails
  BY <1>7 DEF NegotiationFails
<1>8. CASE TunnelGranted
  BY <1>8 DEF TunnelGranted
<1>9. CASE RedirectedToList
  BY <1>9 DEF RedirectedToList
<1>10. CASE RedirectionFails
  BY <1>10 DEF RedirectionFails
<1>11. CASE Succeed
  BY <1>11 DEF Succeed
<1>12. CASE OtherTransport
  BY <1>12 DEF OtherTransport
<1>13. CASE Fatal
  BY <1>13 DEF Fatal, FatalInfo
<1>14. CASE TunnelLost
  BY <1>14 DEF TunnelLost
<1>15. CASE LeaseExpired
  BY <1>15 DEF LeaseExpired
<1>16. CASE VersionError
  BY <1>16 DEF VersionError, CycleAfterVersionError
<1>17. CASE FollowRedirection
  BY <1>17 DEF FollowRedirection
<1>18. CASE RedirectionError
  BY <1>18 DEF RedirectionError
<1>19. CASE NextTransport
  BY <1>19 DEF NextTransport
<1>20. CASE KeepLastServer
  BY <1>20 DEF KeepLastServer
<1>21. CASE RetryOriginal
  BY <1>21 DEF RetryOriginal
<1>22. CASE AdoptListFile
  BY <1>22 DEF AdoptListFile
<1>23. CASE NextBroker
  BY <1>23 DEF NextBroker
<1>24. CASE BackToOriginal
  BY <1>24 DEF BackToOriginal
<1>25. CASE FormatBrokerListAddrFails
  BY <1>25 DEF FormatBrokerListAddrFails
<1>26. CASE FallbackDelay
  BY <1>26 DEF FallbackDelay
<1>27. CASE SleepSecond
  BY <1>27 DEF SleepSecond
<1>28. CASE SleepOver
  BY <1>28 DEF SleepOver
<1>29. CASE EndTsp
  BY <1>29 DEF EndTsp
<1>30. CASE RequestStop
  BY <1>30 DEF RequestStop
<1>31. CASE UNCHANGED vars
  BY <1>31
<1> QED
  BY <1>1, <1>2, <1>3, <1>4, <1>5, <1>6, <1>7, <1>8, <1>9, <1>10, <1>11,
     <1>12, <1>13, <1>14, <1>15, <1>16, <1>17, <1>18, <1>19, <1>20, <1>21,
     <1>22, <1>23, <1>24, <1>25, <1>26, <1>27, <1>28, <1>29, <1>30, <1>31
     DEF Next, tspMain, SetupTunnel, HandleResult, HandleCantConnect,
     Terminated

LEMMA FlagStep == TypeOK /\ [Next]_vars => FlagType'
<1> SUFFICES ASSUME FlagType, [Next]_vars
             PROVE  FlagType'
  BY DEF TypeOK
<1> USE DEF FlagType, choice, route, brokers
<1>1. CASE StartFromLastServer
  BY <1>1 DEF StartFromLastServer
<1>2. CASE StartFromOriginal
  BY <1>2 DEF StartFromOriginal
<1>3. CASE LeaveLoop
  BY <1>3 DEF LeaveLoop
<1>4. CASE ChooseTransport
  BY <1>4 DEF ChooseTransport, QuickCycle
<1>5. CASE NoAnswer
  BY <1>5 DEF NoAnswer
<1>6. CASE VersionRefused
  BY <1>6 DEF VersionRefused
<1>7. CASE NegotiationFails
  BY <1>7 DEF NegotiationFails
<1>8. CASE TunnelGranted
  BY <1>8 DEF TunnelGranted
<1>9. CASE RedirectedToList
  BY <1>9 DEF RedirectedToList
<1>10. CASE RedirectionFails
  BY <1>10 DEF RedirectionFails
<1>11. CASE Succeed
  BY <1>11 DEF Succeed
<1>12. CASE OtherTransport
  BY <1>12 DEF OtherTransport
<1>13. CASE Fatal
  BY <1>13 DEF Fatal
<1>14. CASE TunnelLost
  BY <1>14 DEF TunnelLost
<1>15. CASE LeaseExpired
  BY <1>15 DEF LeaseExpired
<1>16. CASE VersionError
  BY <1>16 DEF VersionError
<1>17. CASE FollowRedirection
  BY <1>17 DEF FollowRedirection, Adopt
<1>18. CASE RedirectionError
  BY <1>18 DEF RedirectionError
<1>19. CASE NextTransport
  BY <1>19 DEF NextTransport
<1>20. CASE KeepLastServer
  BY <1>20 DEF KeepLastServer
<1>21. CASE RetryOriginal
  BY <1>21 DEF RetryOriginal
<1>22. CASE AdoptListFile
  BY <1>22 DEF AdoptListFile, Adopt
<1>23. CASE NextBroker
  BY <1>23 DEF NextBroker
<1>24. CASE BackToOriginal
  BY <1>24 DEF BackToOriginal
<1>25. CASE FormatBrokerListAddrFails
  BY <1>25 DEF FormatBrokerListAddrFails
<1>26. CASE FallbackDelay
  BY <1>26 DEF FallbackDelay
<1>27. CASE SleepSecond
  BY <1>27 DEF SleepSecond
<1>28. CASE SleepOver
  BY <1>28 DEF SleepOver
<1>29. CASE EndTsp
  BY <1>29 DEF EndTsp
<1>30. CASE RequestStop
  BY <1>30 DEF RequestStop
<1>31. CASE UNCHANGED vars
  BY <1>31 DEF vars
<1> QED
  BY <1>1, <1>2, <1>3, <1>4, <1>5, <1>6, <1>7, <1>8, <1>9, <1>10, <1>11,
     <1>12, <1>13, <1>14, <1>15, <1>16, <1>17, <1>18, <1>19, <1>20, <1>21,
     <1>22, <1>23, <1>24, <1>25, <1>26, <1>27, <1>28, <1>29, <1>30, <1>31
     DEF Next, tspMain, SetupTunnel, HandleResult, HandleCantConnect,
     Terminated

LEMMA RouteTypeStep == TypeOK /\ RouteInv /\ [Next]_vars => RouteType'
<1> SUFFICES ASSUME RouteType, FileType, RouteInv, [Next]_vars
             PROVE  RouteType'
  BY DEF TypeOK
<1> USE ClientAssumption, NullType
<1> USE DEF RouteType, route, brokers
<1>1. CASE StartFromLastServer
  BY <1>1 DEF StartFromLastServer, FileType, LastFile
<1>2. CASE StartFromOriginal
  BY <1>2 DEF StartFromOriginal
<1>3. CASE LeaveLoop
  BY <1>3 DEF LeaveLoop
<1>4. CASE ChooseTransport
  BY <1>4 DEF ChooseTransport
<1>5. CASE NoAnswer
  BY <1>5 DEF NoAnswer
<1>6. CASE VersionRefused
  BY <1>6 DEF VersionRefused
<1>7. CASE NegotiationFails
  BY <1>7 DEF NegotiationFails
<1>8. CASE TunnelGranted
  BY <1>8 DEF TunnelGranted
<1>9. CASE RedirectedToList
  BY <1>9 DEF RedirectedToList
<1>10. CASE RedirectionFails
  <2>1. list' = list \/ list' = NULL \/ list' \in BrokerLists
    BY <1>10 DEF RedirectionFails
  <2>2. list' \in Seq(Server) /\ Len(list') <= MaxBrokers
    BY ONLY <2>1, ListType, RouteType
  <2>3. QED
    BY <1>10, <2>2 DEF RedirectionFails
<1>11. CASE Succeed
  BY <1>11 DEF Succeed
<1>12. CASE OtherTransport
  BY <1>12 DEF OtherTransport
<1>13. CASE Fatal
  BY <1>13 DEF Fatal
<1>14. CASE TunnelLost
  BY <1>14 DEF TunnelLost
<1>15. CASE LeaseExpired
  BY <1>15 DEF LeaseExpired
<1>16. CASE VersionError
  BY <1>16 DEF VersionError
<1>17. CASE FollowRedirection
  BY <1>17, NonEmpty DEF FollowRedirection, Adopt
<1>18. CASE RedirectionError
  BY <1>18 DEF RedirectionError
<1>19. CASE NextTransport
  BY <1>19 DEF NextTransport
<1>20. CASE KeepLastServer
  BY <1>20 DEF KeepLastServer
<1>21. CASE RetryOriginal
  BY <1>21 DEF RetryOriginal
<1>22. CASE AdoptListFile
  BY <1>22, NonEmpty DEF AdoptListFile, Adopt, ListOnFile, FileType, ListFile
<1>23. CASE NextBroker
  <2>1. current + 1 \in 1..Len(list)
    BY <1>23, CursorMoves
  <2>2. server' \in Server
    BY <1>23, <2>1, ElementType DEF NextBroker
  <2>3. QED
    BY <1>23, <2>1, <2>2 DEF NextBroker
<1>24. CASE BackToOriginal
  BY <1>24 DEF BackToOriginal, ServerAfterList
<1>25. CASE FormatBrokerListAddrFails
  <2>1. list' = list \/ list' = NULL
    BY <1>25 DEF FormatBrokerListAddrFails
  <2>2. list' \in Seq(Server) /\ Len(list') <= MaxBrokers
    BY ONLY <2>1, ListType, RouteType
  <2>3. server' \in Server /\ current' \in 0..MaxBrokers
    BY <1>25 DEF FormatBrokerListAddrFails
  <2>4. QED
    BY <2>2, <2>3
<1>26. CASE FallbackDelay
  BY <1>26 DEF FallbackDelay
<1>27. CASE SleepSecond
  BY <1>27 DEF SleepSecond
<1>28. CASE SleepOver
  BY <1>28 DEF SleepOver
<1>29. CASE EndTsp
  BY <1>29 DEF EndTsp
<1>30. CASE RequestStop
  BY <1>30 DEF RequestStop
<1>31. CASE UNCHANGED vars
  BY <1>31 DEF vars
<1> QED
  BY <1>1, <1>2, <1>3, <1>4, <1>5, <1>6, <1>7, <1>8, <1>9, <1>10, <1>11,
     <1>12, <1>13, <1>14, <1>15, <1>16, <1>17, <1>18, <1>19, <1>20, <1>21,
     <1>22, <1>23, <1>24, <1>25, <1>26, <1>27, <1>28, <1>29, <1>30, <1>31
     DEF Next, tspMain, SetupTunnel, HandleResult, HandleCantConnect,
     Terminated

LEMMA FileStep == TypeOK /\ [Next]_vars => FileType'
<1> SUFFICES ASSUME RouteType, FileType, [Next]_vars
             PROVE  FileType'
  BY DEF TypeOK
<1> USE ClientAssumption
<1> USE DEF FileType, vars, files, Adopt
<1>1. CASE StartFromLastServer
  BY <1>1 DEF StartFromLastServer
<1>2. CASE StartFromOriginal
  BY <1>2 DEF StartFromOriginal
<1>3. CASE LeaveLoop
  BY <1>3 DEF LeaveLoop
<1>4. CASE ChooseTransport
  BY <1>4 DEF ChooseTransport
<1>5. CASE NoAnswer
  BY <1>5 DEF NoAnswer
<1>6. CASE VersionRefused
  BY <1>6 DEF VersionRefused
<1>7. CASE NegotiationFails
  BY <1>7 DEF NegotiationFails
<1>8. CASE TunnelGranted
  BY <1>8 DEF TunnelGranted, RouteType, LastFile
<1>9. CASE RedirectedToList
  <2>1. list' \in Seq(Server) /\ Len(list') <= MaxBrokers
    BY <1>9 DEF RedirectedToList
  <2>2. QED
    BY <1>9, <2>1, FileAfterType DEF RedirectedToList
<1>10. CASE RedirectionFails
  BY <1>10 DEF RedirectionFails
<1>11. CASE Succeed
  BY <1>11 DEF Succeed
<1>12. CASE OtherTransport
  BY <1>12 DEF OtherTransport
<1>13. CASE Fatal
  BY <1>13 DEF Fatal
<1>14. CASE TunnelLost
  BY <1>14 DEF TunnelLost
<1>15. CASE LeaseExpired
  BY <1>15 DEF LeaseExpired
<1>16. CASE VersionError
  BY <1>16 DEF VersionError
<1>17. CASE FollowRedirection
  BY <1>17 DEF FollowRedirection
<1>18. CASE RedirectionError
  BY <1>18 DEF RedirectionError
<1>19. CASE NextTransport
  BY <1>19 DEF NextTransport
<1>20. CASE KeepLastServer
  BY <1>20 DEF KeepLastServer
<1>21. CASE RetryOriginal
  BY <1>21 DEF RetryOriginal
<1>22. CASE AdoptListFile
  BY <1>22 DEF AdoptListFile
<1>23. CASE NextBroker
  BY <1>23 DEF NextBroker
<1>24. CASE BackToOriginal
  BY <1>24 DEF BackToOriginal
<1>25. CASE FormatBrokerListAddrFails
  BY <1>25 DEF FormatBrokerListAddrFails
<1>26. CASE FallbackDelay
  BY <1>26 DEF FallbackDelay
<1>27. CASE SleepSecond
  BY <1>27 DEF SleepSecond
<1>28. CASE SleepOver
  BY <1>28 DEF SleepOver
<1>29. CASE EndTsp
  BY <1>29 DEF EndTsp
<1>30. CASE RequestStop
  BY <1>30 DEF RequestStop
<1>31. CASE UNCHANGED vars
  BY <1>31
<1> QED
  BY <1>1, <1>2, <1>3, <1>4, <1>5, <1>6, <1>7, <1>8, <1>9, <1>10, <1>11,
     <1>12, <1>13, <1>14, <1>15, <1>16, <1>17, <1>18, <1>19, <1>20, <1>21,
     <1>22, <1>23, <1>24, <1>25, <1>26, <1>27, <1>28, <1>29, <1>30, <1>31
     DEF Next, tspMain, SetupTunnel, HandleResult, HandleCantConnect,
     Terminated

LEMMA HistoryStep == TypeOK /\ [Next]_vars => HistoryType'
<1> SUFFICES ASSUME TypeOK, [Next]_vars
             PROVE  HistoryType'
  OBVIOUS
<1> USE DEF TypeOK, HistoryType, vars, history, Adopt
<1>1. CASE StartFromLastServer
  BY <1>1 DEF StartFromLastServer
<1>2. CASE StartFromOriginal
  BY <1>2 DEF StartFromOriginal
<1>3. CASE LeaveLoop
  BY <1>3 DEF LeaveLoop
<1>4. CASE ChooseTransport
  <2>1. (IF cycle \in Cycles(tunnelMode) THEN cycle ELSE 0) \in Cycles(tunnelMode)
    BY DEF Cycles
  <2>2. QED
    BY <1>4, <2>1, ChoiceType, PositionType DEF ChooseTransport
<1>5. CASE NoAnswer
  BY <1>5 DEF NoAnswer
<1>6. CASE VersionRefused
  BY <1>6 DEF VersionRefused
<1>7. CASE NegotiationFails
  BY <1>7 DEF NegotiationFails
<1>8. CASE TunnelGranted
  BY <1>8 DEF TunnelGranted
<1>9. CASE RedirectedToList
  BY <1>9 DEF RedirectedToList
<1>10. CASE RedirectionFails
  BY <1>10 DEF RedirectionFails
<1>11. CASE Succeed
  BY <1>11 DEF Succeed
<1>12. CASE OtherTransport
  BY <1>12 DEF OtherTransport
<1>13. CASE Fatal
  BY <1>13 DEF Fatal
<1>14. CASE TunnelLost
  BY <1>14 DEF TunnelLost
<1>15. CASE LeaseExpired
  BY <1>15 DEF LeaseExpired
<1>16. CASE VersionError
  BY <1>16 DEF VersionError
<1>17. CASE FollowRedirection
  BY <1>17 DEF FollowRedirection
<1>18. CASE RedirectionError
  BY <1>18 DEF RedirectionError
<1>19. CASE NextTransport
  BY <1>19 DEF NextTransport
<1>20. CASE KeepLastServer
  BY <1>20 DEF KeepLastServer
<1>21. CASE RetryOriginal
  BY <1>21 DEF RetryOriginal
<1>22. CASE AdoptListFile
  BY <1>22 DEF AdoptListFile
<1>23. CASE NextBroker
  BY <1>23 DEF NextBroker
<1>24. CASE BackToOriginal
  BY <1>24 DEF BackToOriginal
<1>25. CASE FormatBrokerListAddrFails
  BY <1>25 DEF FormatBrokerListAddrFails
<1>26. CASE FallbackDelay
  BY <1>26 DEF FallbackDelay
<1>27. CASE SleepSecond
  BY <1>27 DEF SleepSecond
<1>28. CASE SleepOver
  BY <1>28 DEF SleepOver
<1>29. CASE EndTsp
  BY <1>29 DEF EndTsp
<1>30. CASE RequestStop
  BY <1>30 DEF RequestStop
<1>31. CASE UNCHANGED vars
  BY <1>31
<1> QED
  BY <1>1, <1>2, <1>3, <1>4, <1>5, <1>6, <1>7, <1>8, <1>9, <1>10, <1>11,
     <1>12, <1>13, <1>14, <1>15, <1>16, <1>17, <1>18, <1>19, <1>20, <1>21,
     <1>22, <1>23, <1>24, <1>25, <1>26, <1>27, <1>28, <1>29, <1>30, <1>31
     DEF Next, tspMain, SetupTunnel, HandleResult, HandleCantConnect,
     Terminated

LEMMA RouteInvStep == TypeOK /\ RouteInv /\ [Next]_vars => RouteInv'
<1> SUFFICES ASSUME RouteType, FileType, RouteInv, [Next]_vars
             PROVE  RouteInv'
  BY DEF TypeOK
<1> USE DEF RouteInv, FlagsOK, RouteOK, Position, route, brokers, files, RetryNow,
        RetryLater, GiveUp, Result, CantConnect, AllTransportsFailed, Redirected
<1>1. CASE StartFromLastServer
  BY <1>1 DEF StartFromLastServer
<1>2. CASE StartFromOriginal
  BY <1>2 DEF StartFromOriginal
<1>3. CASE LeaveLoop
  BY <1>3 DEF LeaveLoop
<1>4. CASE ChooseTransport
  BY <1>4 DEF ChooseTransport
<1>5. CASE NoAnswer
  BY <1>5 DEF NoAnswer
<1>6. CASE VersionRefused
  BY <1>6 DEF VersionRefused
<1>7. CASE NegotiationFails
  BY <1>7 DEF NegotiationFails, Answered
<1>8. CASE TunnelGranted
  BY <1>8 DEF TunnelGranted, Answered
<1>9. CASE RedirectedToList
  BY <1>9 DEF RedirectedToList, Answered
<1>10. CASE RedirectionFails
  BY <1>10 DEF RedirectionFails, Answered
<1>11. CASE Succeed
  BY <1>11 DEF Succeed
<1>12. CASE OtherTransport
  BY <1>12 DEF OtherTransport
<1>13. CASE Fatal
  BY <1>13 DEF Fatal
<1>14. CASE TunnelLost
  BY <1>14 DEF TunnelLost
<1>15. CASE LeaseExpired
  BY <1>15 DEF LeaseExpired
<1>16. CASE VersionError
  BY <1>16 DEF VersionError
<1>17. CASE FollowRedirection
  <2>1. 1 \in 1..Len(list)
    BY <1>17, NonEmpty DEF FollowRedirection, RouteType
  <2>2. QED
    BY <1>17, <2>1 DEF FollowRedirection, Adopt
<1>18. CASE RedirectionError
  BY <1>18 DEF RedirectionError
<1>19. CASE NextTransport
  BY <1>19 DEF NextTransport
<1>20. CASE KeepLastServer
  BY <1>20 DEF KeepLastServer
<1>21. CASE RetryOriginal
  BY <1>21 DEF RetryOriginal, OriginalFailed
<1>22. CASE AdoptListFile
  <2>1. list' \in Seq(Server) /\ list' # NULL
    BY <1>22 DEF AdoptListFile, ListOnFile, FileType, ListFile
  <2>2. 1 \in 1..Len(list')
    BY <2>1, NonEmpty
  <2>3. QED
    BY <1>22, <2>2 DEF AdoptListFile, Adopt
<1>23. CASE NextBroker
  <2>1. current + 1 \in 1..Len(list) /\ current \in Nat
    BY <1>23, CursorMoves, ClientAssumption DEF RouteType
  <2>2. live
    BY <1>23 DEF NextBroker, BrokerFailed
  <2>3. QED
    BY <1>23, <2>1, <2>2 DEF NextBroker, BrokerFailed
<1>24. CASE BackToOriginal
  BY <1>24 DEF BackToOriginal, BrokerFailed, ServerAfterList
<1>25. CASE FormatBrokerListAddrFails
  BY <1>25 DEF FormatBrokerListAddrFails
<1>26. CASE FallbackDelay
  BY <1>26 DEF FallbackDelay
<1>27. CASE SleepSecond
  BY <1>27 DEF SleepSecond
<1>28. CASE SleepOver
  BY <1>28 DEF SleepOver
<1>29. CASE EndTsp
  BY <1>29 DEF EndTsp
<1>30. CASE RequestStop
  BY <1>30 DEF RequestStop
<1>31. CASE UNCHANGED vars
  BY <1>31 DEF vars
<1> QED
  BY <1>1, <1>2, <1>3, <1>4, <1>5, <1>6, <1>7, <1>8, <1>9, <1>10, <1>11,
     <1>12, <1>13, <1>14, <1>15, <1>16, <1>17, <1>18, <1>19, <1>20, <1>21,
     <1>22, <1>23, <1>24, <1>25, <1>26, <1>27, <1>28, <1>29, <1>30, <1>31
     DEF Next, tspMain, SetupTunnel, HandleResult, HandleCantConnect,
     Terminated

(* The version: 1.0.1 is reached only on the second transport.                *)

\* A refused version leads to another attempt at once; and as 2.0.0 refused
\* moves to the second transport, 1.0.1 can follow only there.
VersionInv ==
  /\ version <= OldestVersion(tunnelMode)
  /\ pc \in {"setup", "result"} /\ version = V101 => cycle = 1 /\ transport = "TCP"
  /\ fallback => pc \in {"loop", "fallbackDelay", "end", "done"}
  /\ fallback /\ pc \in {"loop", "fallbackDelay"} /\ version # V201
     /\ OldestVersion(tunnelMode) = V101 => cycle = 1

LEMMA VersionInvStep == TypeOK /\ CycleInRange /\ VersionInv /\ [Next]_vars => VersionInv'
<1> SUFFICES ASSUME ControlType, FlagType, VersionInv, [Next]_vars
             PROVE  VersionInv'
  BY DEF TypeOK
<1> tunnelMode' = tunnelMode
  BY ModeKept
<1> OldestVersion(tunnelMode) \in {V200, V101}
  BY DEF OldestVersion
<1> USE DEF VersionInv, ControlType, FlagType, Version, V201, V200, V101, choice,
        RetryNow, RetryLater, GiveUp, Result, CantConnect, AllTransportsFailed
<1>1. CASE StartFromLastServer
  BY <1>1 DEF StartFromLastServer
<1>2. CASE StartFromOriginal
  BY <1>2 DEF StartFromOriginal
<1>3. CASE LeaveLoop
  BY <1>3 DEF LeaveLoop
<1>4. CASE ChooseTransport
  <2>1. version' \in Version /\ version' <= OldestVersion(tunnelMode)
    BY <1>4 DEF ChooseTransport, NextVersion
  <2>2. CASE version' = V101
    <3>1. fallback /\ version # V201 /\ OldestVersion(tunnelMode) = V101
      BY <1>4, <2>1, <2>2 DEF ChooseTransport, NextVersion
    <3>2. cycle = 1
      BY <1>4, <3>1 DEF ChooseTransport
    <3>3. tunnelMode \notin {"V6UDPV4", "V4V6"}
      BY <3>1 DEF OldestVersion
    <3>4. cycle' = 1 /\ transport' = "TCP"
      BY <1>4, <3>2, <3>3 DEF ChooseTransport, Cycles, TransportAt
    <3>5. QED
      BY <1>4, <2>1, <3>4 DEF ChooseTransport
  <2>3. CASE version' # V101
    BY <1>4, <2>1, <2>3 DEF ChooseTransport
  <2>4. QED
    BY <2>2, <2>3
<1>5. CASE NoAnswer
  BY <1>5 DEF NoAnswer
<1>6. CASE VersionRefused
  BY <1>6 DEF VersionRefused
<1>7. CASE NegotiationFails
  BY <1>7 DEF NegotiationFails, Answered
<1>8. CASE TunnelGranted
  BY <1>8 DEF TunnelGranted, Answered
<1>9. CASE RedirectedToList
  BY <1>9 DEF RedirectedToList, Answered
<1>10. CASE RedirectionFails
  BY <1>10 DEF RedirectionFails, Answered
<1>11. CASE Succeed
  BY <1>11 DEF Succeed
<1>12. CASE OtherTransport
  BY <1>12 DEF OtherTransport
<1>13. CASE Fatal
  BY <1>13 DEF Fatal
<1>14. CASE TunnelLost
  BY <1>14 DEF TunnelLost
<1>15. CASE LeaseExpired
  BY <1>15 DEF LeaseExpired
<1>16. CASE VersionError
  BY <1>16 DEF VersionError, CycleAfterVersionError
<1>17. CASE FollowRedirection
  BY <1>17 DEF FollowRedirection, Adopt
<1>18. CASE RedirectionError
  BY <1>18 DEF RedirectionError
<1>19. CASE NextTransport
  BY <1>19 DEF NextTransport
<1>20. CASE KeepLastServer
  BY <1>20 DEF KeepLastServer
<1>21. CASE RetryOriginal
  BY <1>21 DEF RetryOriginal, OriginalFailed
<1>22. CASE AdoptListFile
  BY <1>22 DEF AdoptListFile, Adopt, OriginalFailed
<1>23. CASE NextBroker
  BY <1>23 DEF NextBroker, BrokerFailed
<1>24. CASE BackToOriginal
  BY <1>24 DEF BackToOriginal, BrokerFailed
<1>25. CASE FormatBrokerListAddrFails
  BY <1>25 DEF FormatBrokerListAddrFails, OriginalFailed, BrokerFailed
<1>26. CASE FallbackDelay
  BY <1>26 DEF FallbackDelay
<1>27. CASE SleepSecond
  BY <1>27 DEF SleepSecond
<1>28. CASE SleepOver
  BY <1>28 DEF SleepOver
<1>29. CASE EndTsp
  BY <1>29 DEF EndTsp
<1>30. CASE RequestStop
  BY <1>30 DEF RequestStop
<1>31. CASE UNCHANGED vars
  BY <1>31 DEF vars
<1> QED
  BY <1>1, <1>2, <1>3, <1>4, <1>5, <1>6, <1>7, <1>8, <1>9, <1>10, <1>11,
     <1>12, <1>13, <1>14, <1>15, <1>16, <1>17, <1>18, <1>19, <1>20, <1>21,
     <1>22, <1>23, <1>24, <1>25, <1>26, <1>27, <1>28, <1>29, <1>30, <1>31
     DEF Next, tspMain, SetupTunnel, HandleResult, HandleCantConnect,
     Terminated

(* What has been tried: the transports of every broker left behind.           *)

\* The attempts so far: the one under way is recorded, a second transport is
\* used only after the first, and all of them with each broker that the cursor
\* has passed.
Underway ==
  pc \in {"setup", "result"} =>
    /\ transport = TransportAt(tunnelMode, cycle)
    /\ cycle \in Cycles(tunnelMode)
    /\ quickCycle = QuickCycle(tunnelMode, transport)
    /\ <<Position, transport>> \in tried

FirstTransportTried ==
  /\ pc = "start" => cycle = 0
  /\ pc \notin {"start", "end", "done"} /\ cycle = 1 =>
       <<Position, TransportAt(tunnelMode, 0)>> \in tried

PassedTried ==
  pc \notin {"start", "end", "done"} /\ Position # 0 => MovedOn(1..(current - 1))

TriedInv == Underway /\ FirstTransportTried /\ PassedTried

\* When quick cycling is over, every transport has been tried with the server.
LEMMA AllTried ==
  ASSUME TriedInv, AllTransportsFailed
  PROVE  MovedOn({Position})
<1>1. /\ transport = TransportAt(tunnelMode, cycle) /\ cycle \in Cycles(tunnelMode) /\ ~QuickCycle(tunnelMode, transport)
      /\ <<Position, transport>> \in tried
      /\ cycle = 1 => <<Position, TransportAt(tunnelMode, 0)>> \in tried
  BY DEF TriedInv, Underway, FirstTransportTried, AllTransportsFailed, CantConnect, Result
<1>2. \A c \in Cycles(tunnelMode) : c = cycle \/ (cycle = 1 /\ c = 0)
  <2>1. CASE tunnelMode = "V6UDPV4"
    BY <1>1, <2>1 DEF Cycles
  <2>2. CASE tunnelMode # "V6UDPV4"
    <3>1. TransportAt(tunnelMode, 0) \in UDP
      BY <2>2 DEF TransportAt, UDP
    <3>2. cycle = 1
      BY <1>1, <2>2, <3>1 DEF Cycles, QuickCycle
    <3>3. QED
      BY <2>2, <3>2 DEF Cycles
  <2>3. QED
    BY <2>1, <2>2
<1>3. \A c \in Cycles(tunnelMode) : <<Position, TransportAt(tunnelMode, c)>> \in tried
  BY <1>1, <1>2
<1>4. QED
  BY <1>3 DEF MovedOn, Transports

LEMMA UnderwayStep == TypeOK /\ TriedInv /\ [Next]_vars => Underway'
<1> SUFFICES ASSUME TriedInv, [Next]_vars
             PROVE  Underway'
  OBVIOUS
<1> tunnelMode' = tunnelMode
  BY ModeKept
<1> USE DEF TriedInv, Underway, Position, choice, route, brokers, history, RetryNow,
        RetryLater, GiveUp, Result, CantConnect, AllTransportsFailed, Answered
<1>1. CASE StartFromLastServer
  BY <1>1 DEF StartFromLastServer
<1>2. CASE StartFromOriginal
  BY <1>2 DEF StartFromOriginal
<1>3. CASE LeaveLoop
  BY <1>3 DEF LeaveLoop
<1>4. CASE ChooseTransport
  <2>1. (IF cycle \in Cycles(tunnelMode) THEN cycle ELSE 0) \in Cycles(tunnelMode)
    BY DEF Cycles
  <2>2. QED
    BY <1>4, <2>1 DEF ChooseTransport
<1>5. CASE NoAnswer
  BY <1>5 DEF NoAnswer
<1>6. CASE VersionRefused
  BY <1>6 DEF VersionRefused
<1>7. CASE NegotiationFails
  BY <1>7 DEF NegotiationFails
<1>8. CASE TunnelGranted
  BY <1>8 DEF TunnelGranted
<1>9. CASE RedirectedToList
  BY <1>9 DEF RedirectedToList
<1>10. CASE RedirectionFails
  BY <1>10 DEF RedirectionFails
<1>11. CASE Succeed
  BY <1>11 DEF Succeed
<1>12. CASE OtherTransport
  BY <1>12 DEF OtherTransport
<1>13. CASE Fatal
  BY <1>13 DEF Fatal
<1>14. CASE TunnelLost
  BY <1>14 DEF TunnelLost
<1>15. CASE LeaseExpired
  BY <1>15 DEF LeaseExpired
<1>16. CASE VersionError
  BY <1>16 DEF VersionError, CycleAfterVersionError
<1>17. CASE FollowRedirection
  BY <1>17 DEF FollowRedirection, Adopt
<1>18. CASE RedirectionError
  BY <1>18 DEF RedirectionError
<1>19. CASE NextTransport
  BY <1>19 DEF NextTransport
<1>20. CASE KeepLastServer
  BY <1>20 DEF KeepLastServer
<1>21. CASE RetryOriginal
  BY <1>21 DEF RetryOriginal, OriginalFailed
<1>22. CASE AdoptListFile
  BY <1>22 DEF AdoptListFile, Adopt, OriginalFailed
<1>23. CASE NextBroker
  BY <1>23 DEF NextBroker, BrokerFailed
<1>24. CASE BackToOriginal
  BY <1>24 DEF BackToOriginal, BrokerFailed
<1>25. CASE FormatBrokerListAddrFails
  BY <1>25 DEF FormatBrokerListAddrFails
<1>26. CASE FallbackDelay
  BY <1>26 DEF FallbackDelay
<1>27. CASE SleepSecond
  BY <1>27 DEF SleepSecond
<1>28. CASE SleepOver
  BY <1>28 DEF SleepOver
<1>29. CASE EndTsp
  BY <1>29 DEF EndTsp
<1>30. CASE RequestStop
  BY <1>30 DEF RequestStop
<1>31. CASE UNCHANGED vars
  BY <1>31 DEF vars
<1> QED
  BY <1>1, <1>2, <1>3, <1>4, <1>5, <1>6, <1>7, <1>8, <1>9, <1>10, <1>11,
     <1>12, <1>13, <1>14, <1>15, <1>16, <1>17, <1>18, <1>19, <1>20, <1>21,
     <1>22, <1>23, <1>24, <1>25, <1>26, <1>27, <1>28, <1>29, <1>30, <1>31
     DEF Next, tspMain, SetupTunnel, HandleResult, HandleCantConnect,
     Terminated

LEMMA FirstTransportStep == TypeOK /\ VersionInv /\ CycleInRange /\ TriedInv /\ [Next]_vars => FirstTransportTried'
<1> SUFFICES ASSUME CycleInRange, TriedInv, [Next]_vars
             PROVE  FirstTransportTried'
  OBVIOUS
<1> tunnelMode' = tunnelMode
  BY ModeKept
<1> USE DEF TriedInv, Underway, FirstTransportTried, CycleInRange, Position, choice,
        route, brokers, history, RetryNow, RetryLater, GiveUp, Result, CantConnect,
        AllTransportsFailed, Answered
<1>1. CASE StartFromLastServer
  BY <1>1 DEF StartFromLastServer
<1>2. CASE StartFromOriginal
  BY <1>2 DEF StartFromOriginal
<1>3. CASE LeaveLoop
  BY <1>3 DEF LeaveLoop
<1>4. CASE ChooseTransport
  <2>1. cycle' = 1 => cycle = 1
    BY <1>4 DEF ChooseTransport
  <2>2. QED
    BY <1>4, <2>1 DEF ChooseTransport
<1>5. CASE NoAnswer
  BY <1>5 DEF NoAnswer
<1>6. CASE VersionRefused
  BY <1>6 DEF VersionRefused
<1>7. CASE NegotiationFails
  BY <1>7 DEF NegotiationFails
<1>8. CASE TunnelGranted
  BY <1>8 DEF TunnelGranted
<1>9. CASE RedirectedToList
  BY <1>9 DEF RedirectedToList
<1>10. CASE RedirectionFails
  BY <1>10 DEF RedirectionFails
<1>11. CASE Succeed
  BY <1>11 DEF Succeed
<1>12. CASE OtherTransport
  BY <1>12 DEF OtherTransport
<1>13. CASE Fatal
  BY <1>13 DEF Fatal
<1>14. CASE TunnelLost
  BY <1>14 DEF TunnelLost
<1>15. CASE LeaseExpired
  BY <1>15 DEF LeaseExpired
<1>16. CASE VersionError
  BY <1>16 DEF VersionError, CycleAfterVersionError
<1>17. CASE FollowRedirection
  BY <1>17 DEF FollowRedirection, Adopt
<1>18. CASE RedirectionError
  BY <1>18 DEF RedirectionError
<1>19. CASE NextTransport
  BY <1>19 DEF NextTransport
<1>20. CASE KeepLastServer
  BY <1>20 DEF KeepLastServer
<1>21. CASE RetryOriginal
  BY <1>21 DEF RetryOriginal, OriginalFailed
<1>22. CASE AdoptListFile
  BY <1>22 DEF AdoptListFile, Adopt, OriginalFailed
<1>23. CASE NextBroker
  BY <1>23 DEF NextBroker, BrokerFailed
<1>24. CASE BackToOriginal
  BY <1>24 DEF BackToOriginal, BrokerFailed
<1>25. CASE FormatBrokerListAddrFails
  BY <1>25 DEF FormatBrokerListAddrFails
<1>26. CASE FallbackDelay
  BY <1>26 DEF FallbackDelay
<1>27. CASE SleepSecond
  BY <1>27 DEF SleepSecond
<1>28. CASE SleepOver
  BY <1>28 DEF SleepOver
<1>29. CASE EndTsp
  BY <1>29 DEF EndTsp
<1>30. CASE RequestStop
  BY <1>30 DEF RequestStop
<1>31. CASE UNCHANGED vars
  BY <1>31 DEF vars
<1> QED
  BY <1>1, <1>2, <1>3, <1>4, <1>5, <1>6, <1>7, <1>8, <1>9, <1>10, <1>11,
     <1>12, <1>13, <1>14, <1>15, <1>16, <1>17, <1>18, <1>19, <1>20, <1>21,
     <1>22, <1>23, <1>24, <1>25, <1>26, <1>27, <1>28, <1>29, <1>30, <1>31
     DEF Next, tspMain, SetupTunnel, HandleResult, HandleCantConnect,
     Terminated

LEMMA PassedStep == TypeOK /\ RouteInv /\ TriedInv /\ [Next]_vars => PassedTried'
<1> SUFFICES ASSUME RouteType, RouteInv, TriedInv, [Next]_vars
             PROVE  PassedTried'
  BY DEF TypeOK
<1> tunnelMode' = tunnelMode
  BY ModeKept
<1> USE DEF TriedInv, PassedTried, MovedOn, Position, choice, route, brokers,
        history, RetryNow, RetryLater, GiveUp, Result, CantConnect,
        AllTransportsFailed, Answered
<1>1. CASE StartFromLastServer
  BY <1>1 DEF StartFromLastServer, RouteInv, FlagsOK
<1>2. CASE StartFromOriginal
  BY <1>2 DEF StartFromOriginal
<1>3. CASE LeaveLoop
  BY <1>3 DEF LeaveLoop
<1>4. CASE ChooseTransport
  BY <1>4 DEF ChooseTransport
<1>5. CASE NoAnswer
  BY <1>5 DEF NoAnswer
<1>6. CASE VersionRefused
  BY <1>6 DEF VersionRefused
<1>7. CASE NegotiationFails
  BY <1>7 DEF NegotiationFails
<1>8. CASE TunnelGranted
  BY <1>8 DEF TunnelGranted
<1>9. CASE RedirectedToList
  BY <1>9 DEF RedirectedToList
<1>10. CASE RedirectionFails
  BY <1>10 DEF RedirectionFails
<1>11. CASE Succeed
  BY <1>11 DEF Succeed
<1>12. CASE OtherTransport
  BY <1>12 DEF OtherTransport
<1>13. CASE Fatal
  BY <1>13 DEF Fatal
<1>14. CASE TunnelLost
  BY <1>14 DEF TunnelLost
<1>15. CASE LeaseExpired
  BY <1>15 DEF LeaseExpired
<1>16. CASE VersionError
  BY <1>16 DEF VersionError
<1>17. CASE FollowRedirection
  <2>1. 1..(current' - 1) = {}
    BY <1>17 DEF FollowRedirection, Adopt
  <2>2. QED
    BY <2>1
<1>18. CASE RedirectionError
  BY <1>18 DEF RedirectionError
<1>19. CASE NextTransport
  BY <1>19 DEF NextTransport
<1>20. CASE KeepLastServer
  BY <1>20 DEF KeepLastServer
<1>21. CASE RetryOriginal
  BY <1>21 DEF RetryOriginal, OriginalFailed
<1>22. CASE AdoptListFile
  <2>1. 1..(current' - 1) = {}
    BY <1>22 DEF AdoptListFile, Adopt
  <2>2. QED
    BY <2>1
<1>23. CASE NextBroker
  <2>1. MovedOn({current}) /\ MovedOn(1..(current - 1))
    BY <1>23, AllTried DEF NextBroker, BrokerFailed
  <2>2. current \in Nat /\ current # 0
    BY <1>23, ClientAssumption DEF RouteType, NextBroker, BrokerFailed
  <2>3. 1..current = (1..(current - 1)) \cup {current}
    BY <2>2
  <2>4. MovedOn(1..current)
    BY <2>1, <2>3
  <2>5. current' - 1 = current
    BY <1>23, <2>2 DEF NextBroker
  <2>6. QED
    BY <1>23, <2>4, <2>5 DEF NextBroker
<1>24. CASE BackToOriginal
  BY <1>24 DEF BackToOriginal, BrokerFailed
<1>25. CASE FormatBrokerListAddrFails
  BY <1>25 DEF FormatBrokerListAddrFails
<1>26. CASE FallbackDelay
  BY <1>26 DEF FallbackDelay
<1>27. CASE SleepSecond
  BY <1>27 DEF SleepSecond
<1>28. CASE SleepOver
  BY <1>28 DEF SleepOver
<1>29. CASE EndTsp
  BY <1>29 DEF EndTsp
<1>30. CASE RequestStop
  BY <1>30 DEF RequestStop
<1>31. CASE UNCHANGED vars
  BY <1>31 DEF vars
<1> QED
  BY <1>1, <1>2, <1>3, <1>4, <1>5, <1>6, <1>7, <1>8, <1>9, <1>10, <1>11,
     <1>12, <1>13, <1>14, <1>15, <1>16, <1>17, <1>18, <1>19, <1>20, <1>21,
     <1>22, <1>23, <1>24, <1>25, <1>26, <1>27, <1>28, <1>29, <1>30, <1>31
     DEF Next, tspMain, SetupTunnel, HandleResult, HandleCantConnect,
     Terminated

\* The invariant from which the others follow: the cursor moves within the list
\* only because the route is right, and the route is right only because the
\* variables have their types.
Inv == TypeOK /\ CycleInRange /\ RouteInv /\ VersionInv /\ TriedInv

LEMMA InvInit == Init => Inv
<1> SUFFICES ASSUME Init PROVE Inv
  OBVIOUS
<1> USE ClientAssumption DEF Init
<1>1. ControlType /\ CycleInRange
  BY DEF ControlType, CycleInRange, PCs, Infos, Status, Granted, Idle, Version,
         V201, V101, Transport
<1>2. FlagType
  BY DEF FlagType
<1>3. RouteType
  BY NullType DEF RouteType
<1>4. FileType /\ HistoryType
  BY DEF FileType, HistoryType
<1>5. RouteInv
  BY DEF RouteInv, FlagsOK, RouteOK
<1>6. VersionInv
  BY DEF VersionInv, OldestVersion, V201, V200, V101
<1>7. TriedInv
  BY DEF TriedInv, Underway, FirstTransportTried, PassedTried
<1>8. QED
  BY <1>1, <1>2, <1>3, <1>4, <1>5, <1>6, <1>7 DEF Inv, TypeOK

LEMMA InvStep == Inv /\ [Next]_vars => Inv'
  BY ControlStep, FlagStep, RouteTypeStep, FileStep, HistoryStep, RouteInvStep,
     VersionInvStep, UnderwayStep, FirstTransportStep, PassedStep
     DEF Inv, TypeOK, TriedInv

LEMMA Invariance == Spec => []Inv
  BY InvInit, InvStep, PTL DEF Spec

\* Every variable of the connection loop keeps its type: the version stays an
\* index of TspProtocolVersionStrings, the cycle at most one past the last
\* transport, the cursor within the longest list.
THEOREM TypeCorrect == Spec => []TypeOK
<1>1. Inv => TypeOK
  BY DEF Inv
<1>2. QED
  BY <1>1, Invariance, PTL

\* The server attempted is always the one the flags and the cursor stand for,
\* and the cursor never points into a list that was freed.
THEOREM RouteCorrect == Spec => []RouteOK
<1>1. Inv => RouteOK
  BY DEF Inv, RouteInv
<1>2. QED
  BY <1>1, Invariance, PTL

\* Version 1.0.1 is never attempted over UDP, nor by a tunnel mode that needs
\* 2.0.0, however version errors, other failures and redirections follow one
\* another.
THEOREM OldProtocolCorrect == Spec => []OldProtocolOnlyOverTCP
<1>1. Inv => OldProtocolOnlyOverTCP
  BY DEF Inv, VersionInv, OldProtocolOnlyOverTCP
<1>2. QED
  BY <1>1, Invariance, PTL

\* A server is left for another only when every transport of the tunnel mode has
\* been tried with it, and the list only when that is so of all its brokers.
THEOREM MovingOnCorrect == Spec => EveryTransportBeforeMovingOn
<1> DEFINE MovesOn ==
      CantConnect /\ pc' \in {"loop", "sleep"} =>
        /\ current' = current + 1 /\ Position # 0 => MovedOn({current})
        /\ tryingOriginal /\ ~tryingOriginal' => MovedOn({0})
        /\ ~tryingOriginal /\ tryingOriginal' => MovedOn(1..Len(list))
<1>1. ASSUME Inv, Next, CantConnect, pc' \in {"loop", "sleep"}
      PROVE  MovesOn
  <2>1. HandleCantConnect
    BY <1>1 DEF Next, tspMain, HandleResult, SetupTunnel, CantConnect, Result,
         StartFromLastServer, StartFromOriginal, LeaveLoop, ChooseTransport, NoAnswer,
         VersionRefused, Answered, NegotiationFails, TunnelGranted, RedirectedToList,
         RedirectionFails, Succeed, OtherTransport, Fatal, TunnelLost, LeaseExpired,
         VersionError, FollowRedirection, RedirectionError, FormatBrokerListAddrFails,
         GiveUp, FallbackDelay, SleepSecond, SleepOver, EndTsp, RequestStop,
         Terminated, vars
  <2>2. RouteType /\ RouteInv /\ TriedInv
    BY <1>1 DEF Inv, TypeOK
  <2>3. current \in Nat
    BY <2>2, ClientAssumption DEF RouteType
  <2> USE DEF route, brokers, RetryNow, RetryLater
  <2>4. CASE NextTransport
    BY <2>3, <2>4 DEF NextTransport
  <2>5. CASE KeepLastServer
    BY <2>3, <2>5 DEF KeepLastServer
  <2>6. CASE RetryOriginal
    BY <2>3, <2>6 DEF RetryOriginal
  <2>7. CASE AdoptListFile
    <3>1. Position = 0 /\ AllTransportsFailed /\ ~tryingOriginal'
      BY <2>7 DEF AdoptListFile, OriginalFailed, Position, Adopt
    <3>2. MovedOn({0})
      BY <2>2, <3>1, AllTried
    <3>3. QED
      BY <3>1, <3>2
  <2>8. CASE NextBroker
    <3>1. Position = current /\ AllTransportsFailed /\ ~tryingOriginal /\ ~tryingOriginal'
      BY <2>8 DEF NextBroker, BrokerFailed, Position
    <3>2. MovedOn({current})
      BY <2>2, <3>1, AllTried
    <3>3. QED
      BY <3>1, <3>2
  <2>9. CASE BackToOriginal
    <3>1. /\ Position = current /\ AllTransportsFailed /\ ~tryingOriginal
          /\ current' = current /\ current # 0 /\ current = Len(list)
      BY <2>9 DEF BackToOriginal, BrokerFailed, Position, AtLastBroker
    <3>2. MovedOn({current})
      BY <2>2, <3>1, AllTried
    <3>3. MovedOn(1..(current - 1))
      BY <1>1, <2>2, <3>1 DEF TriedInv, PassedTried, CantConnect, Result
    <3>4. 1..Len(list) = (1..(current - 1)) \cup {current}
      BY <2>3, <3>1
    <3>5. MovedOn(1..Len(list))
      BY <3>2, <3>3, <3>4 DEF MovedOn
    <3>6. QED
      BY <2>3, <3>1, <3>5
  <2>10. QED
    BY <2>1, <2>4, <2>5, <2>6, <2>7, <2>8, <2>9 DEF HandleCantConnect
<1>2. Inv /\ [Next]_vars => [MovesOn]_vars
  BY <1>1
<1>3. QED
  BY <1>2, Invariance, PTL DEF Spec, EveryTransportBeforeMovingOn

-----------------------------------------------------------------------------
(* The status the GUI is left with                                            *)

\* A status that may be the last: never "connected", "connecting" only after a
\* stop request, and idle only for a session that ended without an error.
LastStatus ==
  /\ info.e # "CONNECTED"
  /\ info = Connecting => stop
  /\ ~stop => (info = Idle <=> status = "NO_ERROR")

\* The status at each place of the loop.  An attempt sets it to "connected" only
\* together with a result that a granted tunnel has, and each branch for such a
\* result sets it again; the one branch that leaves it alone (NextTransport)
\* finds it at "connecting", and from there the loop is left only by a stop.
HonestInv ==
  /\ pc \in {"start", "loop", "sleep", "fallbackDelay"} => info.e # "CONNECTED"
  /\ pc = "setup" => info = Connecting
  /\ pc = "result" => info = Connecting \/ (info = Connected /\ status \in Granted)
  /\ pc \in {"end", "done"} => LastStatus
  /\ pc = "done" => told = info

LEMMA HonestStep == HonestInv /\ [Next]_vars => HonestInv'
<1> SUFFICES ASSUME HonestInv, [Next]_vars PROVE HonestInv'
  OBVIOUS
<1> USE DEF HonestInv, LastStatus, vars, choice, Granted, Refused, Failed, Idle, Connecting,
        Connected, RetryNow, RetryLater, GiveUp, Result, Adopt, CantConnect,
        AllTransportsFailed, OriginalFailed, BrokerFailed, Answered
<1>1. CASE StartFromLastServer
  BY <1>1 DEF StartFromLastServer
<1>2. CASE StartFromOriginal
  BY <1>2 DEF StartFromOriginal
<1>3. CASE LeaveLoop
  BY <1>3 DEF LeaveLoop, tspCheckForStopOrWait
<1>4. CASE ChooseTransport
  BY <1>4 DEF ChooseTransport
<1>5. CASE NoAnswer
  BY <1>5 DEF NoAnswer
<1>6. CASE VersionRefused
  BY <1>6 DEF VersionRefused
<1>7. CASE NegotiationFails
  BY <1>7 DEF NegotiationFails
<1>8. CASE TunnelGranted
  BY <1>8 DEF TunnelGranted
<1>9. CASE RedirectedToList
  BY <1>9 DEF RedirectedToList
<1>10. CASE RedirectionFails
  BY <1>10 DEF RedirectionFails
<1>11. CASE Succeed
  BY <1>11 DEF Succeed
<1>12. CASE OtherTransport
  BY <1>12 DEF OtherTransport
<1>13. CASE Fatal
  BY <1>13 DEF Fatal, FatalInfo
<1>14. CASE TunnelLost
  BY <1>14 DEF TunnelLost
<1>15. CASE LeaseExpired
  BY <1>15 DEF LeaseExpired
<1>16. CASE VersionError
  BY <1>16 DEF VersionError
<1>17. CASE FollowRedirection
  BY <1>17 DEF FollowRedirection
<1>18. CASE RedirectionError
  BY <1>18 DEF RedirectionError
<1>19. CASE NextTransport
  BY <1>19 DEF NextTransport
<1>20. CASE KeepLastServer
  BY <1>20 DEF KeepLastServer
<1>21. CASE RetryOriginal
  BY <1>21 DEF RetryOriginal
<1>22. CASE AdoptListFile
  BY <1>22 DEF AdoptListFile
<1>23. CASE NextBroker
  BY <1>23 DEF NextBroker
<1>24. CASE BackToOriginal
  BY <1>24 DEF BackToOriginal
<1>25. CASE FormatBrokerListAddrFails
  BY <1>25 DEF FormatBrokerListAddrFails
<1>26. CASE FallbackDelay
  BY <1>26 DEF FallbackDelay
<1>27. CASE SleepSecond
  BY <1>27 DEF SleepSecond
<1>28. CASE SleepOver
  BY <1>28 DEF SleepOver
<1>29. CASE EndTsp
  BY <1>29 DEF EndTsp
<1>30. CASE RequestStop
  BY <1>30 DEF RequestStop
<1>31. CASE UNCHANGED vars
  BY <1>31
<1> QED
  BY <1>1, <1>2, <1>3, <1>4, <1>5, <1>6, <1>7, <1>8, <1>9, <1>10, <1>11,
     <1>12, <1>13, <1>14, <1>15, <1>16, <1>17, <1>18, <1>19, <1>20, <1>21,
     <1>22, <1>23, <1>24, <1>25, <1>26, <1>27, <1>28, <1>29, <1>30, <1>31
     DEF Next, tspMain, SetupTunnel, HandleResult, HandleCantConnect,
     Terminated

\* The status the GUI is left with when the client has ended is true: idle if and
\* only if the last session ended without an error, never "connected", and
\* "connecting" only if a stop came between two transports.
THEOREM FinalStatusCorrect == Spec => []FinalStatusHonest
<1>1. Init => HonestInv
  BY DEF Init, HonestInv, Idle
<1>2. HonestInv => FinalStatusHonest
  BY DEF HonestInv, LastStatus, FinalStatusHonest
<1>3. QED
  BY <1>1, <1>2, HonestStep, PTL DEF Spec

-----------------------------------------------------------------------------
(* The delays between attempts                                                *)

\* The next attempt's cycle, as ChooseTransport makes it.
NextCycle == IF cycle \in Cycles(tunnelMode) THEN cycle ELSE 0

\* An attempt with a version means that the server has refused the newer ones:
\* tsp_version_fallback is set for the next attempt only, and by the branch for
\* a version error only, which does not change the server.
RefusedInv ==
  /\ pc \in {"setup", "result"} =>
       \A v \in Version : v < version => v \notin Speaks[server]
  /\ pc = "result" /\ status = "TSP_VERSION_ERROR" => version \notin Speaks[server]
  /\ fallback /\ pc \in {"loop", "fallbackDelay"} =>
       \A v \in Version : v <= version => v \notin Speaks[server]

LEMMA RefusedStep == TypeOK /\ VersionInv /\ RefusedInv /\ [Next]_vars => RefusedInv'
<1> SUFFICES ASSUME ControlType, FlagType, VersionInv, RefusedInv, [Next]_vars
             PROVE  RefusedInv'
  BY DEF TypeOK
<1>0. tunnelMode' = tunnelMode /\ (pc \notin {"loop", "fallbackDelay", "end", "done"} => ~fallback)
  BY ModeKept DEF VersionInv
<1> USE <1>0 DEF RefusedInv, ControlType, FlagType, Version, V201, V200, V101, Status,
        Granted, Refused, Redirected, choice, route, RetryNow, RetryLater, GiveUp, Result,
        CantConnect, AllTransportsFailed
<1>1. CASE StartFromLastServer
  BY <1>1 DEF StartFromLastServer
<1>2. CASE StartFromOriginal
  BY <1>2 DEF StartFromOriginal
<1>3. CASE LeaveLoop
  BY <1>3 DEF LeaveLoop
<1>4. CASE ChooseTransport
  <2>1. /\ pc = "loop" /\ pc' = "setup" /\ server' = server
        /\ fallback' = FALSE /\ version' = NextVersion
    BY <1>4 DEF ChooseTransport
  <2>2. ASSUME NEW v \in Version, v < NextVersion
        PROVE  v \notin Speaks[server]
    <3>1. fallback /\ NextVersion \in {version, version + 1}
      BY <2>2 DEF NextVersion
    <3>2. v <= version
      BY <2>2, <3>1
    <3>3. QED
      BY <2>1, <2>2, <3>1, <3>2
  <2>3. QED
    BY <2>1, <2>2
<1>5. CASE NoAnswer
  BY <1>5 DEF NoAnswer
<1>6. CASE VersionRefused
  BY <1>6 DEF VersionRefused
<1>7. CASE NegotiationFails
  BY <1>7 DEF NegotiationFails, Answered
<1>8. CASE TunnelGranted
  BY <1>8 DEF TunnelGranted, Answered
<1>9. CASE RedirectedToList
  BY <1>9 DEF RedirectedToList, Answered
<1>10. CASE RedirectionFails
  BY <1>10 DEF RedirectionFails, Answered
<1>11. CASE Succeed
  BY <1>11 DEF Succeed
<1>12. CASE OtherTransport
  BY <1>12 DEF OtherTransport
<1>13. CASE Fatal
  BY <1>13 DEF Fatal
<1>14. CASE TunnelLost
  BY <1>14 DEF TunnelLost
<1>15. CASE LeaseExpired
  BY <1>15 DEF LeaseExpired
<1>16. CASE VersionError
  BY <1>16 DEF VersionError
<1>17. CASE FollowRedirection
  BY <1>17 DEF FollowRedirection, Adopt
<1>18. CASE RedirectionError
  BY <1>18 DEF RedirectionError
<1>19. CASE NextTransport
  BY <1>19 DEF NextTransport
<1>20. CASE KeepLastServer
  BY <1>20 DEF KeepLastServer
<1>21. CASE RetryOriginal
  BY <1>21 DEF RetryOriginal, OriginalFailed
<1>22. CASE AdoptListFile
  BY <1>22 DEF AdoptListFile, Adopt, OriginalFailed
<1>23. CASE NextBroker
  BY <1>23 DEF NextBroker, BrokerFailed
<1>24. CASE BackToOriginal
  BY <1>24 DEF BackToOriginal, BrokerFailed
<1>25. CASE FormatBrokerListAddrFails
  BY <1>25 DEF FormatBrokerListAddrFails, OriginalFailed, BrokerFailed
<1>26. CASE FallbackDelay
  BY <1>26 DEF FallbackDelay
<1>27. CASE SleepSecond
  BY <1>27 DEF SleepSecond
<1>28. CASE SleepOver
  BY <1>28 DEF SleepOver
<1>29. CASE EndTsp
  BY <1>29 DEF EndTsp
<1>30. CASE RequestStop
  BY <1>30 DEF RequestStop
<1>31. CASE UNCHANGED vars
  BY <1>31 DEF vars
<1> QED
  BY <1>1, <1>2, <1>3, <1>4, <1>5, <1>6, <1>7, <1>8, <1>9, <1>10, <1>11,
     <1>12, <1>13, <1>14, <1>15, <1>16, <1>17, <1>18, <1>19, <1>20, <1>21,
     <1>22, <1>23, <1>24, <1>25, <1>26, <1>27, <1>28, <1>29, <1>30, <1>31
     DEF Next, tspMain, SetupTunnel, HandleResult, HandleCantConnect,
     Terminated

\* Attempts with servers before the one at the cursor, with its first transport
\* before the second, or with newer versions over the same transport: none of
\* them is the attempt that follows.
EarlierBrokers ==
  pc \in {"loop", "setup", "result"} => \A b \in burst : b[1] <= Position

EarlierHere ==
  pc \in {"setup", "result"} /\ SpeaksSome(server) =>
    \A b \in burst : b[1] = Position =>
      \/ cycle = 1 /\ b[2] = TransportAt(tunnelMode, 0)
      \/ b[2] = transport /\ b[3] <= version

Ahead ==
  pc = "loop" /\ SpeaksSome(server) =>
    \A b \in burst : b[1] = Position =>
      \/ NextCycle = 1 /\ b[2] = TransportAt(tunnelMode, 0)
      \/ b[2] = TransportAt(tunnelMode, NextCycle) /\ b[3] < NextVersion

\* A version refused over UDP that no delay follows was 2.0.0, and the server
\* speaks 1.0.1: TCP is next.
AwayFromUDP ==
  pc = "loop" /\ SpeaksSome(server) /\ status = "TSP_VERSION_ERROR"
  /\ transport \in UDP /\ burst # {} => NextCycle = 1

\* An expired lease was that of a tunnel.
FreshBurst == pc = "start" \/ Result("LEASE_EXPIRED") => burst = {}

BurstInv == EarlierBrokers /\ EarlierHere /\ Ahead /\ AwayFromUDP /\ FreshBurst

LEMMA BurstElement ==
  ASSUME HistoryType, NEW b \in burst
  PROVE  b[1] \in 0..MaxBrokers /\ b[2] \in Transport /\ b[3] \in Version
  BY DEF HistoryType

LEMMA VersionTypes ==
  ASSUME ControlType
  PROVE  /\ version \in 0..2 /\ OldestVersion(tunnelMode) \in {1, 2}
         /\ OldestVersion(tunnelMode) = 2 => Cycles(tunnelMode) = {0, 1}
  BY DEF ControlType, OldestVersion, Cycles, Version, V201, V200, V101

\* If a server that speaks some version of the tunnel mode has refused this one
\* and the newer ones, there is an older one left to fall back to.
LEMMA OlderVersionLeft ==
  ASSUME ControlType, RouteType, SpeaksSome(server),
         \A v \in Version : v <= version => v \notin Speaks[server]
  PROVE  version < OldestVersion(tunnelMode)
<1>1. PICK v \in Speaks[server] : v <= OldestVersion(tunnelMode)
  BY DEF SpeaksSome
<1>2. v \in Version
  BY <1>1, ClientAssumption DEF RouteType
<1>3. v \in 0..2 /\ ~(v <= version)
  BY <1>1, <1>2 DEF Version, V201, V101
<1>4. QED
  BY <1>1, <1>3, VersionTypes

\* The first transport of a tunnel mode is UDP, the second is not.
LEMMA TransportCycles ==
  ASSUME Underway, pc = "result"
  PROVE  /\ cycle \in {0, 1} /\ transport = TransportAt(tunnelMode, cycle)
         /\ transport \in UDP <=> cycle = 0
         /\ quickCycle => cycle = 0 /\ Cycles(tunnelMode) = {0, 1}
<1>1. transport = TransportAt(tunnelMode, cycle) /\ cycle \in Cycles(tunnelMode)
      /\ quickCycle = QuickCycle(tunnelMode, transport)
  BY DEF Underway
<1>2. cycle \in {0, 1} /\ (transport \in UDP <=> cycle = 0)
  BY <1>1 DEF Cycles, TransportAt, UDP
<1>3. QED
  BY <1>1, <1>2 DEF QuickCycle, Cycles

\* From the first transport to the second.
LEMMA QuickStep ==
  ASSUME Underway, EarlierBrokers, EarlierHere,
         pc = "result", quickCycle, cycle' = cycle + 1, pc' = "loop", tunnelMode' = tunnelMode,
         UNCHANGED <<route, current, burst>>
  PROVE  BurstInv'
<1> USE DEF route
<1>1. cycle = 0 /\ transport = TransportAt(tunnelMode, 0) /\ NextCycle' = 1
  BY TransportCycles DEF NextCycle
<1>2. Position' = Position /\ (SpeaksSome(server))' = SpeaksSome(server)
  BY DEF Position, SpeaksSome
<1>3. EarlierBrokers'
  BY <1>2 DEF EarlierBrokers
<1>4. Ahead'
  BY <1>1, <1>2 DEF EarlierHere, Ahead
<1>5. QED
  BY <1>1, <1>3, <1>4 DEF BurstInv, EarlierHere, AwayFromUDP, FreshBurst, Result

\* From one version to the next older one: over the second transport.
LEMMA FallbackStep ==
  ASSUME ControlType, RouteType, HistoryType, Underway, RefusedInv, EarlierBrokers,
         EarlierHere, VersionError, pc' = "loop", tunnelMode' = tunnelMode
  PROVE  BurstInv'
<1> USE DEF route, Result
<1>0. /\ pc = "result" /\ status = "TSP_VERSION_ERROR" /\ fallback' = TRUE
      /\ version' = version /\ cycle' = (IF version = V200 THEN 1 ELSE cycle)
      /\ version = V200 \/ transport \notin UDP
      /\ UNCHANGED <<route, current, burst>>
  BY DEF VersionError, CycleAfterVersionError, NeedsFallbackDelay, brokers, history
<1>1. Position' = Position /\ (SpeaksSome(server))' = SpeaksSome(server)
  BY <1>0 DEF Position, SpeaksSome
<1>2. EarlierBrokers'
  BY <1>0, <1>1 DEF EarlierBrokers
<1>3. ASSUME SpeaksSome(server)
      PROVE  NextCycle' = 1 /\ NextVersion' = version + 1
  <2>1. version < OldestVersion(tunnelMode)
    <3>1. \A v \in Version : v <= version => v \notin Speaks[server]
      BY <1>0, VersionTypes DEF RefusedInv, Version, V201, V101
    <3>2. QED
      BY <1>3, <3>1, OlderVersionLeft
  <2>2. ASSUME version = V200 PROVE NextCycle' = 1
    <3>1. OldestVersion(tunnelMode) = 2
      BY <2>1, <2>2, VersionTypes DEF V200
    <3>2. cycle' = 1 /\ Cycles(tunnelMode) = {0, 1}
      BY <1>0, <2>2, <3>1, VersionTypes
    <3>3. QED
      BY <3>2 DEF NextCycle
  <2>3. ASSUME transport \notin UDP PROVE NextCycle' = 1
    <3>1. cycle = 1 /\ cycle \in Cycles(tunnelMode)
      BY <1>0, <2>3, TransportCycles DEF Underway
    <3>2. cycle' = 1
      BY <1>0, <3>1
    <3>3. QED
      BY <3>1, <3>2 DEF NextCycle
  <2>4. NextVersion' = version + 1
    <3>1. OldestVersion(tunnelMode') = OldestVersion(tunnelMode)
      OBVIOUS
    <3>2. QED
      BY <1>0, <2>1, <3>1 DEF NextVersion
  <2>5. QED
    BY <1>0, <2>2, <2>3, <2>4
<1>4. Ahead'
  <2>1. SUFFICES ASSUME SpeaksSome(server), NEW b \in burst, b[1] = Position
                 PROVE  \/ b[2] = TransportAt(tunnelMode, 0)
                        \/ b[2] = TransportAt(tunnelMode, 1) /\ b[3] < version + 1
    BY <1>0, <1>1, <1>3 DEF Ahead
  <2>2. b[2] = TransportAt(tunnelMode, 0) \/ (b[2] = transport /\ b[3] <= version)
    BY <1>0, <2>1 DEF EarlierHere
  <2>3. b[3] \in 0..2 /\ version \in 0..2
    BY BurstElement, VersionTypes DEF Version, V201, V101
  <2>4. transport \in {TransportAt(tunnelMode, 0), TransportAt(tunnelMode, 1)}
    BY <1>0, TransportCycles
  <2>5. QED
    BY <2>2, <2>3, <2>4
<1>5. AwayFromUDP'
  BY <1>1, <1>3 DEF AwayFromUDP
<1>6. QED
  BY <1>0, <1>2, <1>4, <1>5 DEF BurstInv, EarlierHere, FreshBurst

\* To another broker: none of the attempts so far was with it.
LEMMA OtherBrokerStep ==
  ASSUME RouteType, HistoryType, EarlierBrokers, pc = "result", pc' = "loop",
         status' # "TSP_VERSION_ERROR", burst' = burst, Position' = Position + 1
  PROVE  BurstInv'
<1>1. Position \in Nat
  BY PositionType, ClientAssumption
<1>2. ASSUME NEW b \in burst
      PROVE  b[1] <= Position + 1 /\ b[1] # Position + 1
  BY <1>1, BurstElement, ClientAssumption DEF EarlierBrokers
<1>3. EarlierBrokers' /\ Ahead'
  BY <1>2 DEF EarlierBrokers, Ahead
<1>4. QED
  BY <1>3 DEF BurstInv, EarlierHere, AwayFromUDP, FreshBurst, Result

LEMMA NextAttempt ==
  ASSUME ControlType, HistoryType, RouteType, BurstInv, ChooseTransport, tunnelMode' = tunnelMode
  PROVE  BurstInv'
<1>1. /\ pc = "loop" /\ pc' = "setup" /\ Position' = Position
      /\ cycle' = NextCycle /\ version' = NextVersion
      /\ transport' = TransportAt(tunnelMode, NextCycle)
      /\ burst' = burst \cup {<<Position, transport', version'>>}
      /\ server' = server
  BY DEF ChooseTransport, NextCycle, Position, route, brokers
<1>2. (SpeaksSome(server))' = SpeaksSome(server)
  BY <1>1 DEF SpeaksSome
<1>3. Position \in Nat /\ NextVersion \in 0..2
  <2>1. NextCycle \in Cycles(tunnelMode)
    BY DEF NextCycle, Cycles
  <2>2. QED
    BY <2>1, ChoiceType, PositionType, ClientAssumption DEF Version, V201, V101
<1>4. EarlierBrokers'
  BY <1>1, <1>3, BurstElement DEF BurstInv, EarlierBrokers
<1>5. EarlierHere'
  <2>1. SUFFICES ASSUME SpeaksSome(server), NEW b \in burst', b[1] = Position
                 PROVE  \/ NextCycle = 1 /\ b[2] = TransportAt(tunnelMode, 0)
                        \/ b[2] = transport' /\ b[3] <= NextVersion
    BY <1>1, <1>2 DEF EarlierHere
  <2>2. CASE b \in burst
    <3>1. \/ NextCycle = 1 /\ b[2] = TransportAt(tunnelMode, 0)
          \/ b[2] = transport' /\ b[3] < NextVersion
      BY <1>1, <2>1, <2>2 DEF BurstInv, Ahead
    <3>2. b[3] \in 0..2
      BY <2>2, BurstElement DEF Version, V201, V101
    <3>3. QED
      BY <1>3, <3>1, <3>2
  <2>3. CASE b = <<Position, transport', version'>>
    BY <1>1, <1>3, <2>3
  <2>4. QED
    BY <1>1, <2>2, <2>3
<1>6. QED
  BY <1>1, <1>4, <1>5 DEF BurstInv, Ahead, AwayFromUDP, FreshBurst, Result

LEMMA BurstStep ==
  TypeOK /\ Underway /\ RefusedInv /\ BurstInv /\ [Next]_vars => BurstInv'
<1> SUFFICES ASSUME ControlType, RouteType, HistoryType, Underway, RefusedInv, BurstInv,
                    [Next]_vars
             PROVE  BurstInv'
  BY DEF TypeOK
<1> tunnelMode' = tunnelMode
  BY ModeKept
<1>0. EarlierBrokers /\ EarlierHere
  BY DEF BurstInv
<1> DEFINE Elsewhere == pc' \notin {"start", "loop", "setup", "result"}
<1>a. ASSUME Elsewhere PROVE BurstInv'
  BY <1>a DEF BurstInv, EarlierBrokers, EarlierHere, Ahead, AwayFromUDP, FreshBurst, Result
<1>b. ASSUME burst' = {} PROVE BurstInv'
  BY <1>b DEF BurstInv, EarlierBrokers, EarlierHere, Ahead, AwayFromUDP, FreshBurst
<1>c. ASSUME pc \in {"setup", "result"}, pc' = "result", status' # "LEASE_EXPIRED",
             UNCHANGED <<choice, route, current, burst>>
      PROVE  BurstInv'
  BY <1>c DEF BurstInv, EarlierBrokers, EarlierHere, Ahead, AwayFromUDP, FreshBurst, Result,
     choice, route, Position, SpeaksSome
<1>d. ASSUME UNCHANGED <<pc, choice, status, route, current, burst>> PROVE BurstInv'
  BY <1>d DEF choice, route, BurstInv, EarlierBrokers, EarlierHere, Ahead, AwayFromUDP,
     FreshBurst, Result, Position, SpeaksSome, NextCycle, NextVersion
<1> HIDE DEF Elsewhere
<1> USE DEF RetryNow, RetryLater, GiveUp, brokers, history
<1>1. CASE StartFromLastServer
  BY <1>1, <1>b DEF StartFromLastServer, BurstInv, FreshBurst
<1>2. CASE StartFromOriginal
  BY <1>2, <1>b DEF StartFromOriginal, BurstInv, FreshBurst
<1>3. CASE LeaveLoop
  BY <1>3, <1>a DEF Elsewhere, LeaveLoop
<1>4. CASE ChooseTransport
  BY <1>4, NextAttempt
<1>5. CASE NoAnswer
  BY <1>5, <1>c DEF NoAnswer
<1>6. CASE VersionRefused
  BY <1>6, <1>c DEF VersionRefused
<1>7. CASE NegotiationFails
  BY <1>7, <1>c DEF NegotiationFails, Answered, Refused
<1>8. CASE TunnelGranted
  BY <1>8, <1>b DEF TunnelGranted
<1>9. CASE RedirectedToList
  BY <1>9, <1>c DEF RedirectedToList, Answered
<1>10. CASE RedirectionFails
  BY <1>10, <1>c DEF RedirectionFails, Answered
<1>11. CASE Succeed
  BY <1>11, <1>a DEF Elsewhere, Succeed
<1>12. CASE OtherTransport
  <2>1. CASE quickCycle
    BY <1>12, <1>0, <2>1, QuickStep DEF OtherTransport
  <2>2. CASE ~quickCycle
    BY <1>12, <1>a, <2>2 DEF OtherTransport, Elsewhere
  <2>3. QED
    BY <2>1, <2>2
<1>13. CASE Fatal
  BY <1>13, <1>a DEF Elsewhere, Fatal
<1>14. CASE TunnelLost
  BY <1>14, <1>a DEF Elsewhere, TunnelLost
<1>15. CASE LeaseExpired
  BY <1>15, <1>b DEF LeaseExpired, BurstInv, FreshBurst
<1>16. CASE VersionError
  <2>1. pc' = "loop" \/ Elsewhere
    BY <1>16 DEF VersionError, Elsewhere
  <2>2. QED
    BY <1>16, <1>0, <1>a, <2>1, FallbackStep
<1>17. CASE FollowRedirection
  BY <1>17, <1>b DEF FollowRedirection
<1>18. CASE RedirectionError
  BY <1>18, <1>a DEF Elsewhere, RedirectionError
<1>19. CASE NextTransport
  BY <1>19, <1>0, QuickStep DEF NextTransport, CantConnect, Result
<1>20. CASE KeepLastServer
  BY <1>20, <1>a DEF Elsewhere, KeepLastServer
<1>21. CASE RetryOriginal
  BY <1>21, <1>a DEF Elsewhere, RetryOriginal
<1>22. CASE AdoptListFile
  <2>1. /\ pc = "result" /\ pc' = "loop" /\ burst' = burst
        /\ status' # "TSP_VERSION_ERROR" /\ Position = 0 /\ Position' = 1
    BY <1>22 DEF AdoptListFile, Adopt, OriginalFailed, AllTransportsFailed, CantConnect, Result, Position
  <2>2. QED
    BY <1>0, <2>1, OtherBrokerStep
<1>23. CASE NextBroker
  <2>1. /\ pc = "result" /\ pc' = "loop" /\ burst' = burst
        /\ status' # "TSP_VERSION_ERROR" /\ Position' = Position + 1
    BY <1>23 DEF NextBroker, BrokerFailed, AllTransportsFailed, CantConnect, Result, Position
  <2>2. QED
    BY <1>0, <2>1, OtherBrokerStep
<1>24. CASE BackToOriginal
  BY <1>24, <1>a DEF Elsewhere, BackToOriginal
<1>25. CASE FormatBrokerListAddrFails
  BY <1>25, <1>a DEF Elsewhere, FormatBrokerListAddrFails
<1>26. CASE FallbackDelay
  BY <1>26, <1>b DEF FallbackDelay
<1>27. CASE SleepSecond
  BY <1>27, <1>a DEF Elsewhere, SleepSecond
<1>28. CASE SleepOver
  BY <1>28, <1>b DEF SleepOver
<1>29. CASE EndTsp
  BY <1>29, <1>a DEF Elsewhere, EndTsp
<1>30. CASE RequestStop
  <2>1. UNCHANGED <<pc, choice, status, route, current, burst>>
    BY <1>30 DEF RequestStop
  <2>2. QED
    BY <1>d, <2>1
<1>31. CASE UNCHANGED vars
  <2>1. UNCHANGED <<pc, choice, status, route, current, burst>>
    BY <1>31 DEF vars
  <2>2. QED
    BY <1>d, <2>1
<1> QED
  BY <1>1, <1>2, <1>3, <1>4, <1>5, <1>6, <1>7, <1>8, <1>9, <1>10, <1>11,
     <1>12, <1>13, <1>14, <1>15, <1>16, <1>17, <1>18, <1>19, <1>20, <1>21,
     <1>22, <1>23, <1>24, <1>25, <1>26, <1>27, <1>28, <1>29, <1>30, <1>31
     DEF Next, tspMain, SetupTunnel, HandleResult, HandleCantConnect,
     Terminated

\* ChooseTransport alone begins an attempt.
LEMMA AttemptChosen == Next /\ Attempted => ChooseTransport
  BY DEF Attempted, Next, tspMain, HandleResult, HandleCantConnect, SetupTunnel, CantConnect,
     Result, AllTransportsFailed, OriginalFailed, BrokerFailed, StartFromLastServer,
     StartFromOriginal, LeaveLoop, NoAnswer, VersionRefused, Answered, NegotiationFails,
     TunnelGranted, RedirectedToList, RedirectionFails, Succeed, OtherTransport, Fatal,
     TunnelLost, LeaseExpired, VersionError, FollowRedirection, RedirectionError,
     NextTransport, KeepLastServer, RetryOriginal, AdoptListFile, NextBroker, BackToOriginal,
     FormatBrokerListAddrFails, FallbackDelay, SleepSecond, SleepOver, EndTsp, RequestStop,
     Terminated, vars

LEMMA Delays == Spec => [](Inv /\ RefusedInv /\ BurstInv)
<1>1. Init => RefusedInv /\ BurstInv
  BY DEF Init, RefusedInv, BurstInv, EarlierBrokers, EarlierHere, Ahead, AwayFromUDP,
     FreshBurst, Result
<1>2. Inv => TypeOK /\ Underway /\ VersionInv
  BY DEF Inv, TriedInv
<1>3. QED
  BY <1>1, <1>2, InvInit, InvStep, RefusedStep, BurstStep, PTL DEF Spec

\* With a server that speaks some version of the tunnel mode, whatever else goes
\* wrong, no attempt (same server of the list, transport and version) is repeated
\* before the retry delay, the fallback delay, a tunnel or a redirection.
THEOREM NoRepeatCorrect == Spec => NoRepeatWithoutRest
<1> DEFINE Rests ==
      Attempted /\ SpeaksSome(server) => <<Position, transport', version'>> \notin burst
<1>1. ASSUME Inv, BurstInv, Next, Attempted, SpeaksSome(server)
      PROVE  <<Position, transport', version'>> \notin burst
  <2>1. ChooseTransport
    BY <1>1, AttemptChosen
  <2>2. /\ transport' = TransportAt(tunnelMode, NextCycle) /\ version' = NextVersion
        /\ pc = "loop"
    BY <2>1 DEF ChooseTransport, NextCycle
  <2>3. NextVersion \in 0..2
    BY <1>1, <2>2, VersionTypes DEF Inv, TypeOK, NextVersion, V201
  <2>4. TransportAt(tunnelMode, 0) # TransportAt(tunnelMode, 1)
    BY DEF TransportAt
  <2>5. ASSUME <<Position, transport', version'>> \in burst
        PROVE  FALSE
    BY <1>1, <2>2, <2>3, <2>4, <2>5 DEF BurstInv, Ahead
  <2>6. QED
    BY <2>5
<1>2. Inv /\ BurstInv /\ [Next]_vars => [Rests]_vars
  BY <1>1
<1>3. QED
  BY <1>2, Delays, PTL DEF Spec, NoRepeatWithoutRest

\* After a server that speaks some version of the tunnel mode has refused one over
\* UDP, the next session over UDP waits: for the fallback delay, or else it is not
\* the next attempt.
THEOREM UdpFallbackCorrect == Spec => UdpFallbackWaits
<1> DEFINE Waits ==
      /\ Attempted /\ SpeaksSome(server)
      /\ status = "TSP_VERSION_ERROR" /\ transport \in UDP /\ transport' \in UDP
      => burst = {}
<1>1. ASSUME BurstInv, Next, Attempted, SpeaksSome(server), status = "TSP_VERSION_ERROR",
             transport \in UDP, transport' \in UDP
      PROVE  burst = {}
  <2>1. ChooseTransport
    BY <1>1, AttemptChosen
  <2>2. transport' = TransportAt(tunnelMode, NextCycle) /\ pc = "loop"
    BY <2>1 DEF ChooseTransport, NextCycle
  <2>3. NextCycle # 1
    BY <1>1, <2>2 DEF TransportAt, UDP
  <2>4. QED
    BY <1>1, <2>2, <2>3 DEF BurstInv, AwayFromUDP
<1>2. BurstInv /\ [Next]_vars => [Waits]_vars
  BY <1>1
<1>3. QED
  BY <1>2, Delays, PTL DEF Spec, UdpFallbackWaits

============================================================================
