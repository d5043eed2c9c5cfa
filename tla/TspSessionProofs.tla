-------------------------- MODULE TspSessionProofs --------------------------
(* Theorems about an attempt of the connection loop, opened exchange by        *)
(* exchange (TspSession): it implements the attempt of one step of TspClient,  *)
(* and what its socket, its mechanism and its keys are, for every set of       *)
(* servers, methods, offers, keys and addresses.                               *)
EXTENDS TspSession, TspClientProofs

(* The steps of the loop outside the attempt                                   *)

\* They neither begin nor end an attempt.
LEMMA LoopStep ==
  ASSUME Loop
  PROVE  /\ UNCHANGED <<config, session>>
         /\ \/ UNCHANGED vars
            \/ UNCHANGED <<pc, choice, route>>
            \/ pc # "setup" /\ pc' # "setup"
<1>1. CASE RequestStop
  BY <1>1 DEF Loop, RequestStop
<1>2. CASE Terminated
  BY <1>2 DEF Loop, Terminated
<1>3. CASE StartFromLastServer \/ StartFromOriginal \/ LeaveLoop
  BY <1>3 DEF Loop, StartFromLastServer, StartFromOriginal, LeaveLoop
<1>4. CASE FallbackDelay \/ SleepSecond \/ SleepOver \/ EndTsp
  BY <1>4 DEF Loop, FallbackDelay, SleepSecond, SleepOver, EndTsp
<1>5. CASE HandleResult
  <2> USE DEF RetryNow, RetryLater, GiveUp, Result, Adopt, CantConnect, AllTransportsFailed,
        OriginalFailed, BrokerFailed
  <2>1. CASE Succeed \/ OtherTransport \/ Fatal \/ TunnelLost \/ LeaseExpired \/ VersionError
    BY <1>5, <2>1 DEF Loop, Succeed, OtherTransport, Fatal, TunnelLost, LeaseExpired, VersionError
  <2>2. CASE FollowRedirection \/ RedirectionError \/ FormatBrokerListAddrFails
    BY <1>5, <2>2 DEF Loop, FollowRedirection, RedirectionError, FormatBrokerListAddrFails
  <2>3. CASE NextTransport \/ KeepLastServer \/ RetryOriginal
    BY <1>5, <2>3 DEF Loop, NextTransport, KeepLastServer, RetryOriginal
  <2>4. CASE AdoptListFile \/ NextBroker \/ BackToOriginal
    BY <1>5, <2>4 DEF Loop, AdoptListFile, NextBroker, BackToOriginal
  <2>5. QED
    BY <1>5, <2>1, <2>2, <2>3, <2>4 DEF HandleResult, HandleCantConnect
<1>6. QED
  BY <1>1, <1>2, <1>3, <1>4, <1>5 DEF Loop

-----------------------------------------------------------------------------
(* Where the attempt is                                                        *)

\* tspSetupTunnel runs exactly while the loop is in it, with an open socket from
\* the connection on.
PlaceInv ==
  /\ pc = "setup" <=> step # "none"
  /\ sock => step \notin {"none", "connect"}
  /\ step \notin {"none", "connect"} => sock

\* What a connection cut in an exchange of the authentication may lead to
LEMMA CutSteps ==
  ASSUME AuthenticationCut
  PROVE  /\ Authenticating
         /\ \/ HandleRedirect
            \/ /\ Proceed("request") /\ exchange' = 0
               /\ UNCHANGED <<authMethod, sock, cap, mechanism, localAddr, request, peer, config>>
            \/ /\ Proceed("crashed")
               /\ UNCHANGED <<authMethod, sock, cap, mechanism, exchange, localAddr, request,
                              peer, config>>
  BY Zenon DEF AuthenticationCut

LEMMA PlaceStep == PlaceInv /\ [SessionNext]_sessionVars => PlaceInv'
<1> SUFFICES ASSUME PlaceInv, [SessionNext]_sessionVars PROVE PlaceInv'
  OBVIOUS
<1> USE DEF PlaceInv, sessionVars, session, vars, Proceed, Return, Left, HandleRedirect,
        RedirectedToList, RedirectionFails, Answered
<1>1. CASE tspConnectFails
  BY <1>1 DEF tspConnectFails
<1>2. CASE tspConnect
  BY <1>2 DEF tspConnect
<1>3. CASE GetCapabilitiesFails
  BY <1>3 DEF GetCapabilitiesFails
<1>4. CASE GetCapabilitiesRedirected
  BY <1>4 DEF GetCapabilitiesRedirected
<1>5. CASE GetCapabilities
  BY <1>5 DEF GetCapabilities
<1>6. CASE AuthenticationFails
  BY <1>6 DEF AuthenticationFails, Authenticating
<1>7. CASE AuthenticationRedirected
  BY <1>7 DEF AuthenticationRedirected, Authenticating
<1>8. CASE AuthenticationGoesOn
  BY <1>8 DEF AuthenticationGoesOn, Authenticating
<1>9. CASE AuthenticationCut
  BY <1>9, CutSteps DEF Authenticating
<1>10. CASE UpdateSourceAddrFails
  BY <1>10 DEF UpdateSourceAddrFails
<1>11. CASE SendRequest
  BY <1>11 DEF SendRequest
<1>12. CASE RequestFails
  BY <1>12 DEF RequestFails
<1>13. CASE RequestRedirected
  BY <1>13 DEF RequestRedirected
<1>14. CASE RequestGranted
  BY <1>14 DEF RequestGranted
<1>15. CASE AcknowledgeFails
  BY <1>15 DEF AcknowledgeFails
<1>16. CASE Acknowledge
  BY <1>16 DEF Acknowledge
<1>17. CASE StartLocal
  BY <1>17 DEF StartLocal, TunnelGranted
<1>18. CASE Begin
  BY <1>18 DEF Begin, ChooseTransport
<1>19. CASE Loop
  BY <1>19, LoopStep
<1>20. CASE Crashed \/ UNCHANGED sessionVars
  BY <1>20 DEF Crashed
<1> QED
  BY <1>1, <1>2, <1>3, <1>4, <1>5, <1>6, <1>7, <1>8, <1>9, <1>10, <1>11,
     <1>12, <1>13, <1>14, <1>15, <1>16, <1>17, <1>18, <1>19, <1>20
     DEF SessionNext, OpenedTunnel

\* Beyond the capabilities the server has answered, in a version it speaks; a TCP
\* connection is made only with a server that can be reached.
AnsweredInv ==
  /\ step = "capabilities" => Reachable \/ transport \in UDP
  /\ step \in {"authenticate", "request", "reply", "acknowledge", "start"} =>
       Reachable /\ version \in Speaks[server]

LEMMA AnsweredStep == PlaceInv /\ AnsweredInv /\ [SessionNext]_sessionVars => AnsweredInv'
<1> SUFFICES ASSUME PlaceInv, AnsweredInv, [SessionNext]_sessionVars PROVE AnsweredInv'
  OBVIOUS
<1> USE DEF AnsweredInv, PlaceInv, sessionVars, session, vars, choice, route, Proceed, Return, Left,
        HandleRedirect, RedirectedToList, RedirectionFails, Answered, Reachable
<1>1. CASE tspConnectFails
  BY <1>1 DEF tspConnectFails
<1>2. CASE tspConnect
  BY <1>2 DEF tspConnect
<1>3. CASE GetCapabilitiesFails
  BY <1>3 DEF GetCapabilitiesFails
<1>4. CASE GetCapabilitiesRedirected
  BY <1>4 DEF GetCapabilitiesRedirected
<1>5. CASE GetCapabilities
  BY <1>5 DEF GetCapabilities
<1>6. CASE AuthenticationFails
  BY <1>6 DEF AuthenticationFails, Authenticating
<1>7. CASE AuthenticationRedirected
  BY <1>7 DEF AuthenticationRedirected, Authenticating
<1>8. CASE AuthenticationGoesOn
  BY <1>8 DEF AuthenticationGoesOn, Authenticating
<1>9. CASE AuthenticationCut
  BY <1>9, CutSteps DEF Authenticating
<1>10. CASE UpdateSourceAddrFails
  BY <1>10 DEF UpdateSourceAddrFails
<1>11. CASE SendRequest
  BY <1>11 DEF SendRequest
<1>12. CASE RequestFails
  BY <1>12 DEF RequestFails
<1>13. CASE RequestRedirected
  BY <1>13 DEF RequestRedirected
<1>14. CASE RequestGranted
  BY <1>14 DEF RequestGranted
<1>15. CASE AcknowledgeFails
  BY <1>15 DEF AcknowledgeFails
<1>16. CASE Acknowledge
  BY <1>16 DEF Acknowledge
<1>17. CASE StartLocal
  BY <1>17 DEF StartLocal, TunnelGranted
<1>18. CASE Begin
  BY <1>18 DEF Begin, ChooseTransport
<1>19. CASE Loop
  BY <1>19, LoopStep
<1>20. CASE Crashed \/ UNCHANGED sessionVars
  BY <1>20 DEF Crashed
<1> QED
  BY <1>1, <1>2, <1>3, <1>4, <1>5, <1>6, <1>7, <1>8, <1>9, <1>10, <1>11,
     <1>12, <1>13, <1>14, <1>15, <1>16, <1>17, <1>18, <1>19, <1>20
     DEF SessionNext, OpenedTunnel

-----------------------------------------------------------------------------
(* The attempt implements that of TspClient.                                   *)

\* A result that no tunnel was granted with, of a server that can be reached
LEMMA ReturnRefuses ==
  ASSUME NEW s \in Refused, pc = "setup", Reachable, Return(s)
  PROVE  NegotiationFails
  BY SessionAssumption DEF Return, NegotiationFails

LEMMA RedirectSetsUp == HandleRedirect => SetupTunnel
  BY DEF HandleRedirect, SetupTunnel

LEMMA ProceedStutters == ASSUME NEW s, Proceed(s), UNCHANGED tunnelMode PROVE UNCHANGED vars
  BY DEF Proceed, vars

\* Each step is one of TspClient or leaves its variables alone.
LEMMA ClientStep == PlaceInv /\ AnsweredInv /\ [SessionNext]_sessionVars => [Next]_vars
<1> SUFFICES ASSUME PlaceInv, AnsweredInv, [SessionNext]_sessionVars PROVE [Next]_vars
  OBVIOUS
<1>a. step # "none" => pc = "setup"
  BY DEF PlaceInv
<1>c. tunnelMode' = tunnelMode
  BY DEF SessionNext, OpenedTunnel, Loop, RequestStop, Terminated, Crashed, sessionVars, vars
<1>b. SetupTunnel => Next
  BY <1>c DEF Next, tspMain
<1>d. "SOCKET_ERROR" \in Refused /\ "TSP_ERROR" \in Refused /\ "SOCKET_ERROR_CANT_CONNECT" \in Refused
      /\ "AUTHENTICATION_ERROR" \in Refused /\ "SERVER_SIDE_ERROR" \in Refused /\ "OTHER" \in Refused
  BY DEF Refused
<1>e. NegotiationFails \/ NoAnswer \/ VersionRefused \/ TunnelGranted => SetupTunnel
  BY DEF SetupTunnel
<1>1. CASE tspConnectFails
  <2>1. step = "connect" /\ Return("SOCKET_ERROR_CANT_CONNECT")
    BY <1>1 DEF tspConnectFails
  <2>2. CASE Reachable
    BY <1>a, <1>b, <1>d, <1>e, <2>1, <2>2, ReturnRefuses
  <2>3. CASE ~Reachable
    BY <1>a, <1>b, <1>e, <2>1, <2>3 DEF Return, NoAnswer
  <2>4. QED
    BY <2>2, <2>3
<1>2. CASE tspConnect
  BY <1>2, <1>c, ProceedStutters DEF tspConnect
<1>3. CASE GetCapabilitiesFails
  <2>1. step = "capabilities" /\ pc = "setup"
    BY <1>3, <1>a DEF GetCapabilitiesFails
  <2>2. CASE Return(CapabilitiesLost(transport))
    <3>1. CASE Reachable
      BY <1>b, <1>d, <1>e, <2>1, <2>2, <3>1, ReturnRefuses DEF CapabilitiesLost
    <3>2. CASE ~Reachable
      BY <1>b, <1>e, <2>1, <2>2, <3>2 DEF AnsweredInv, CapabilitiesLost, Return, NoAnswer
    <3>3. QED
      BY <3>1, <3>2
  <2>3. CASE Reachable /\ version \notin Speaks[server] /\ Return("TSP_VERSION_ERROR")
    <3>1. VersionRefused
      BY <2>1, <2>3 DEF Return, VersionRefused
    <3>2. QED
      BY <3>1, <1>b, <1>e
  <2>4. CASE Reachable /\ Return("TSP_ERROR")
    BY <2>1, <2>4, <1>3, <1>b, <1>d, <1>e, ReturnRefuses
  <2>5. QED
    BY <1>3, <2>2, <2>3, <2>4 DEF GetCapabilitiesFails
<1>4. CASE GetCapabilitiesRedirected
  BY <1>4, <1>b, RedirectSetsUp DEF GetCapabilitiesRedirected
<1>5. CASE GetCapabilities
  <2>1. PICK offered \in Offers :
          \/ Return("TSP_ERROR") \/ Return("AUTHENTICATION_ERROR") \/ Proceed("authenticate")
    BY <1>5 DEF GetCapabilities
  <2>2. pc = "setup" /\ Reachable
    BY <1>5 DEF GetCapabilities, Answered
  <2>3. QED
    BY <2>1, <2>2, <1>b, <1>c, <1>d, <1>e, ReturnRefuses, ProceedStutters
<1>6. CASE AuthenticationFails
  BY <1>6, <1>b, <1>d, <1>e, ReturnRefuses
     DEF AuthenticationFails, Authenticating, Answered
<1>7. CASE AuthenticationRedirected
  BY <1>7, <1>b, RedirectSetsUp DEF AuthenticationRedirected
<1>8. CASE AuthenticationGoesOn
  BY <1>8, <1>c, ProceedStutters DEF AuthenticationGoesOn
<1>9. CASE AuthenticationCut
  BY <1>9, <1>b, <1>c, RedirectSetsUp, ProceedStutters, CutSteps
<1>10. CASE UpdateSourceAddrFails
  BY <1>10, <1>a, <1>b, <1>d, <1>e, ReturnRefuses
     DEF UpdateSourceAddrFails, AnsweredInv
<1>11. CASE SendRequest
  BY <1>11, <1>c, ProceedStutters DEF SendRequest
<1>12. CASE RequestFails
  <2>1. pc = "setup" /\ Answered
    BY <1>12, <1>a DEF RequestFails, AnsweredInv, Answered
  <2>2. CASE Return("NO_ERROR")
    <3>1. NegotiationFails
      BY <2>1, <2>2, SessionAssumption DEF Answered, Return, NegotiationFails
    <3>2. QED
      BY <3>1, <1>12, <1>b, <1>e
  <2>3. CASE Return("SOCKET_ERROR") \/ Return("SERVER_SIDE_ERROR") \/ Return("OTHER")
    BY <2>1, <2>3, <1>12, <1>b, <1>d, <1>e, ReturnRefuses DEF Answered
  <2>4. QED
    BY <1>12, <2>2, <2>3 DEF RequestFails
<1>13. CASE RequestRedirected
  BY <1>13, <1>b, RedirectSetsUp DEF RequestRedirected
<1>14. CASE RequestGranted
  <2>1. Proceed("acknowledge") \/ Proceed("start")
    BY <1>14 DEF RequestGranted
  <2>2. QED
    BY <2>1, <1>14, <1>c, ProceedStutters
<1>15. CASE AcknowledgeFails
  BY <1>15, <1>a, <1>b, <1>d, <1>e, ReturnRefuses
     DEF AcknowledgeFails, AnsweredInv
<1>16. CASE Acknowledge
  BY <1>16, <1>c, ProceedStutters DEF Acknowledge
<1>17. CASE StartLocal
  BY <1>17, <1>b, <1>e DEF StartLocal
<1>18. CASE Begin /\ UNCHANGED tunnelMode
  BY <1>18 DEF Begin, Next, tspMain
<1>19. CASE Loop
  BY <1>19 DEF Loop, Next, tspMain
<1>20. CASE Crashed \/ UNCHANGED sessionVars
  BY <1>20 DEF Crashed, sessionVars
<1> QED
  BY <1>1, <1>2, <1>3, <1>4, <1>5, <1>6, <1>7, <1>8, <1>9, <1>10, <1>11,
     <1>12, <1>13, <1>14, <1>15, <1>16, <1>17, <1>18, <1>19, <1>20
     DEF SessionNext, OpenedTunnel

LEMMA PlaceInit == SessionInit => PlaceInv /\ AnsweredInv
  BY DEF SessionInit, Init, PlaceInv, AnsweredInv

\* Every attempt, exchange by exchange, ends as one step of TspClient says it may:
\* the loop around it behaves as the one that takes an attempt for one step.
THEOREM SessionImplementsClient == SessionSpec => ImplementsClient
<1>1. SessionInit => Init
  BY DEF SessionInit
<1>2. QED
  BY <1>1, PlaceInit, PlaceStep, AnsweredStep, ClientStep, PTL
     DEF SessionSpec, ImplementsClient, Spec

\* So the theorems about TspClient hold of the opened attempt: the server attempted
\* stays the one the flags and the cursor stand for, whatever happens in an exchange.
THEOREM SessionRouteCorrect == SessionSpec => []RouteOK
  BY SessionImplementsClient, RouteCorrect DEF ImplementsClient

\* The socket of an attempt is closed on every way out of tspSetupTunnel, and no
\* exchange is made without one.
THEOREM SocketsCorrect == SessionSpec => []SocketsClosed
<1>1. PlaceInv => SocketsClosed
  BY DEF PlaceInv, SocketsClosed
<1>2. QED
  BY <1>1, PlaceInit, PlaceStep, PTL DEF SessionSpec

-----------------------------------------------------------------------------
(* What the server has agreed to                                               *)

\* Only a grant in version 1.0.1, or an acknowledgement, leads to the tunnel.
LEMMA AcknowledgedStep ==
  TunnelAcknowledged /\ [SessionNext]_sessionVars => TunnelAcknowledged'
<1> SUFFICES ASSUME TunnelAcknowledged, [SessionNext]_sessionVars PROVE TunnelAcknowledged'
  OBVIOUS
<1> USE DEF TunnelAcknowledged, sessionVars, session, Proceed, Return, Left, HandleRedirect
<1>1. CASE tspConnectFails
  BY <1>1 DEF tspConnectFails
<1>2. CASE tspConnect
  BY <1>2 DEF tspConnect
<1>3. CASE GetCapabilitiesFails
  BY <1>3 DEF GetCapabilitiesFails
<1>4. CASE GetCapabilitiesRedirected
  BY <1>4 DEF GetCapabilitiesRedirected
<1>5. CASE GetCapabilities
  BY <1>5 DEF GetCapabilities
<1>6. CASE AuthenticationFails
  BY <1>6 DEF AuthenticationFails
<1>7. CASE AuthenticationRedirected
  BY <1>7 DEF AuthenticationRedirected
<1>8. CASE AuthenticationGoesOn
  BY <1>8 DEF AuthenticationGoesOn
<1>9. CASE AuthenticationCut
  BY <1>9, CutSteps
<1>10. CASE UpdateSourceAddrFails
  BY <1>10 DEF UpdateSourceAddrFails
<1>11. CASE SendRequest
  BY <1>11 DEF SendRequest
<1>12. CASE RequestFails
  BY <1>12 DEF RequestFails
<1>13. CASE RequestRedirected
  BY <1>13 DEF RequestRedirected
<1>14. CASE RequestGranted
  BY <1>14 DEF RequestGranted, NeedsAcknowledge
<1>15. CASE AcknowledgeFails
  BY <1>15 DEF AcknowledgeFails
<1>16. CASE Acknowledge
  BY <1>16 DEF Acknowledge
<1>17. CASE StartLocal
  BY <1>17 DEF StartLocal
<1>18. CASE Begin
  BY <1>18 DEF Begin
<1>19. CASE Loop
  BY <1>19, LoopStep
<1>20. CASE Crashed \/ UNCHANGED sessionVars
  BY <1>20 DEF Crashed
<1> QED
  BY <1>1, <1>2, <1>3, <1>4, <1>5, <1>6, <1>7, <1>8, <1>9, <1>10, <1>11,
     <1>12, <1>13, <1>14, <1>15, <1>16, <1>17, <1>18, <1>19, <1>20
     DEF SessionNext, OpenedTunnel

\* The tunnel is set up only when the server considers it accepted.
THEOREM AcknowledgedCorrect == SessionSpec => []TunnelAcknowledged
<1>1. SessionInit => TunnelAcknowledged
  BY DEF SessionInit, TunnelAcknowledged
<1>2. QED
  BY <1>1, AcknowledgedStep, PTL DEF SessionSpec

\* The file of keys changes only where a key is accepted.
LEMMA KeyfileStep ==
  ASSUME [SessionNext]_sessionVars
  PROVE  keyfile' = keyfile \/ \E key \in Keys : KeyAccepted(key)
<1> USE DEF sessionVars, config, Proceed, Return, Left, HandleRedirect
<1>1. CASE tspConnectFails
  BY <1>1 DEF tspConnectFails
<1>2. CASE tspConnect
  BY <1>2 DEF tspConnect
<1>3. CASE GetCapabilitiesFails
  BY <1>3 DEF GetCapabilitiesFails
<1>4. CASE GetCapabilitiesRedirected
  BY <1>4 DEF GetCapabilitiesRedirected
<1>5. CASE GetCapabilities
  BY <1>5 DEF GetCapabilities
<1>6. CASE AuthenticationFails
  BY <1>6 DEF AuthenticationFails
<1>7. CASE AuthenticationRedirected
  BY <1>7 DEF AuthenticationRedirected
<1>8. CASE AuthenticationGoesOn
  BY <1>8 DEF AuthenticationGoesOn
<1>9. CASE AuthenticationCut
  BY <1>9, CutSteps
<1>10. CASE UpdateSourceAddrFails
  BY <1>10 DEF UpdateSourceAddrFails
<1>11. CASE SendRequest
  BY <1>11 DEF SendRequest
<1>12. CASE RequestFails
  BY <1>12 DEF RequestFails
<1>13. CASE RequestRedirected
  BY <1>13 DEF RequestRedirected
<1>14. CASE RequestGranted
  BY <1>14 DEF RequestGranted
<1>15. CASE AcknowledgeFails
  BY <1>15 DEF AcknowledgeFails
<1>16. CASE Acknowledge
  BY <1>16 DEF Acknowledge
<1>17. CASE StartLocal
  BY <1>17 DEF StartLocal
<1>18. CASE Begin
  BY <1>18 DEF Begin
<1>19. CASE Loop
  BY <1>19, LoopStep
<1>20. CASE Crashed \/ UNCHANGED sessionVars
  BY <1>20 DEF Crashed
<1> QED
  BY <1>1, <1>2, <1>3, <1>4, <1>5, <1>6, <1>7, <1>8, <1>9, <1>10, <1>11,
     <1>12, <1>13, <1>14, <1>15, <1>16, <1>17, <1>18, <1>19, <1>20
     DEF SessionNext, OpenedTunnel

LEMMA AcceptedOnce ==
  ASSUME OneKeyPerServer, NEW key \in Keys, KeyAccepted(key)
  PROVE  OneKeyPerServer'
<1> SUFFICES ASSUME NEW s \in Server, NEW k1 \in Keys, NEW k2 \in Keys,
                    <<s, k1>> \in keyfile', <<s, k2>> \in keyfile'
             PROVE  k1 = k2
  BY DEF OneKeyPerServer
<1>1. /\ \A k \in Keys : <<server, k>> \in keyfile => k = key
      /\ keyfile' = keyfile \cup {<<server, key>>}
  BY DEF KeyAccepted, KeysOnFile
<1>2. CASE s = server
  BY <1>1, <1>2
<1>3. CASE s # server
  BY <1>1, <1>3 DEF OneKeyPerServer
<1>4. QED
  BY <1>2, <1>3

\* Once a server's key is on file the client is never authenticated to it with
\* another one.
THEOREM KeysCorrect == SessionSpec => []OneKeyPerServer
<1>1. SessionInit => OneKeyPerServer
  BY DEF SessionInit, OneKeyPerServer
<1>2. OneKeyPerServer /\ [SessionNext]_sessionVars => OneKeyPerServer'
  <2>1. ASSUME OneKeyPerServer, keyfile' = keyfile PROVE OneKeyPerServer'
    BY <2>1 DEF OneKeyPerServer
  <2>2. QED
    BY <2>1, KeyfileStep, AcceptedOnce
<1>3. QED
  BY <1>1, <1>2, PTL DEF SessionSpec

-----------------------------------------------------------------------------
(* The choice of the mechanism                                                 *)

LEMMA SecurityOrder ==
  /\ Security["PASSDSS-3DES-1"] = 3 /\ Security["DIGEST-MD5"] = 2
  /\ Security["PLAIN"] = 1 /\ Security["ANONYMOUS"] = 0
  BY DEF Security, Mechanisms

\* A mechanism m that the configuration lets be used with a server that offers
\* these, and none more secure is.
Strongest(m, method, offered) ==
  /\ m \in Mechanisms
  /\ IF method = "any"
     THEN m # "ANONYMOUS" /\ \A k \in offered \cap Mechanisms : Security[k] <= Security[m]
     ELSE m = method /\ m \in offered

LEMMA MechanismStrongest ==
  ASSUME NEW method \in Mechanisms \cup {"any"}, NEW offered,
         Mechanism(method, offered) # "none"
  PROVE  Strongest(Mechanism(method, offered), method, offered)
<1> DEFINE may == IF method = "any" THEN Mechanisms \ {"ANONYMOUS"} ELSE {method}
           common == may \cap offered
<1>1. CASE "PASSDSS-3DES-1" \in common
  <2>1. Mechanism(method, offered) = "PASSDSS-3DES-1"
    BY <1>1 DEF Mechanism
  <2>2. QED
    BY <1>1, <2>1, SecurityOrder DEF Strongest, Mechanisms
<1>2. CASE "PASSDSS-3DES-1" \notin common /\ "DIGEST-MD5" \in common
  <2>1. Mechanism(method, offered) = "DIGEST-MD5"
    BY <1>2 DEF Mechanism
  <2>2. QED
    BY <1>2, <2>1, SecurityOrder DEF Strongest, Mechanisms
<1>3. CASE common = {"PLAIN"}
  <2>1. Mechanism(method, offered) = "PLAIN"
    BY <1>3 DEF Mechanism
  <2>2. QED
    BY <1>3, <2>1, SecurityOrder DEF Strongest, Mechanisms
<1>4. CASE common = {"ANONYMOUS"}
  <2>1. Mechanism(method, offered) = "ANONYMOUS"
    BY <1>4 DEF Mechanism
  <2>2. QED
    BY <1>4, <2>1, SecurityOrder DEF Strongest, Mechanisms
<1>5. QED
  BY <1>1, <1>2, <1>3, <1>4 DEF Mechanism

\* The mechanism is chosen once, from the capabilities kept for the session.
MechanismInv ==
  /\ authMethod \in AuthMethods
  /\ step = "authenticate" => Strongest(mechanism, authMethod, cap)

LEMMA MechanismStep == MechanismInv /\ [SessionNext]_sessionVars => MechanismInv'
<1> SUFFICES ASSUME MechanismInv, [SessionNext]_sessionVars PROVE MechanismInv'
  OBVIOUS
<1> USE DEF MechanismInv, sessionVars, session, Proceed, Return, Left, HandleRedirect
<1>1. CASE tspConnectFails
  BY <1>1 DEF tspConnectFails
<1>2. CASE tspConnect
  BY <1>2 DEF tspConnect
<1>3. CASE GetCapabilitiesFails
  BY <1>3 DEF GetCapabilitiesFails
<1>4. CASE GetCapabilitiesRedirected
  BY <1>4 DEF GetCapabilitiesRedirected
<1>5. CASE GetCapabilities
  BY <1>5, MechanismStrongest, SessionAssumption DEF GetCapabilities
<1>6. CASE AuthenticationFails
  BY <1>6 DEF AuthenticationFails
<1>7. CASE AuthenticationRedirected
  BY <1>7 DEF AuthenticationRedirected
<1>8. CASE AuthenticationGoesOn
  <2>1. step = "authenticate" /\ UNCHANGED <<authMethod, mechanism, cap>>
    BY <1>8 DEF AuthenticationGoesOn, Authenticating
  <2>2. QED
    BY <2>1
<1>9. CASE AuthenticationCut
  BY <1>9, CutSteps
<1>10. CASE UpdateSourceAddrFails
  BY <1>10 DEF UpdateSourceAddrFails
<1>11. CASE SendRequest
  BY <1>11 DEF SendRequest
<1>12. CASE RequestFails
  BY <1>12 DEF RequestFails
<1>13. CASE RequestRedirected
  BY <1>13 DEF RequestRedirected
<1>14. CASE RequestGranted
  BY <1>14 DEF RequestGranted
<1>15. CASE AcknowledgeFails
  BY <1>15 DEF AcknowledgeFails
<1>16. CASE Acknowledge
  BY <1>16 DEF Acknowledge
<1>17. CASE StartLocal
  BY <1>17 DEF StartLocal
<1>18. CASE Begin
  BY <1>18 DEF Begin
<1>19. CASE Loop
  BY <1>19, LoopStep
<1>20. CASE Crashed \/ UNCHANGED sessionVars
  BY <1>20 DEF Crashed
<1> QED
  BY <1>1, <1>2, <1>3, <1>4, <1>5, <1>6, <1>7, <1>8, <1>9, <1>10, <1>11,
     <1>12, <1>13, <1>14, <1>15, <1>16, <1>17, <1>18, <1>19, <1>20
     DEF SessionNext, OpenedTunnel

\* Credentials are never sent by a mechanism when the configuration allows, and the
\* server announced, a more secure one.
THEOREM MechanismCorrect == SessionSpec => []StrongestMechanism
<1>1. SessionInit => MechanismInv
  BY DEF SessionInit, MechanismInv
<1>2. MechanismInv => StrongestMechanism
  BY DEF MechanismInv, Strongest, StrongestMechanism
<1>3. QED
  BY <1>1, <1>2, MechanismStep, PTL DEF SessionSpec

-----------------------------------------------------------------------------
(* Types                                                                       *)

\* Every mechanism is a sequence of at least one exchange.
LEMMA ExchangesCounted == ASSUME NEW m \in Mechanisms PROVE Len(Exchanges[m]) \in Nat \ {0}
<1>1. CASE m = "ANONYMOUS"
  BY <1>1 DEF Exchanges, Mechanisms
<1>2. CASE m = "PLAIN"
  BY <1>2 DEF Exchanges, Mechanisms
<1>3. CASE m = "DIGEST-MD5"
  BY <1>3 DEF Exchanges, Mechanisms
<1>4. CASE m = "PASSDSS-3DES-1"
  BY <1>4 DEF Exchanges, Mechanisms
<1>5. QED
  BY <1>1, <1>2, <1>3, <1>4 DEF Mechanisms

\* The exchange under way is one of its mechanism.
ExchangeInv ==
  /\ mechanism \in Mechanisms \cup {"none"}
  /\ exchange \in Nat
  /\ mechanism = "none" => exchange = 0
  /\ mechanism \in Mechanisms => exchange <= Len(Exchanges[mechanism])
  /\ step = "authenticate" => mechanism \in Mechanisms

LEMMA ExchangeStep == MechanismInv /\ ExchangeInv /\ [SessionNext]_sessionVars => ExchangeInv'
<1> SUFFICES ASSUME MechanismInv, ExchangeInv, [SessionNext]_sessionVars PROVE ExchangeInv'
  OBVIOUS
<1> USE DEF ExchangeInv, sessionVars, session, Proceed, Return, Left, HandleRedirect
<1>1. CASE tspConnectFails
  BY <1>1 DEF tspConnectFails
<1>2. CASE tspConnect
  BY <1>2 DEF tspConnect
<1>3. CASE GetCapabilitiesFails
  BY <1>3 DEF GetCapabilitiesFails
<1>4. CASE GetCapabilitiesRedirected
  BY <1>4 DEF GetCapabilitiesRedirected
<1>5. CASE GetCapabilities
  <2>1. CASE step' = "none"
    BY <1>5, <2>1 DEF GetCapabilities
  <2>2. CASE step' # "none"
    <3>1. PICK offered \in Offers : mechanism' = Mechanism(authMethod, offered)
            /\ mechanism' # "none" /\ exchange' = 1
      BY <1>5, <2>2 DEF GetCapabilities
    <3>2. mechanism' \in Mechanisms
      BY <3>1, MechanismStrongest, SessionAssumption DEF MechanismInv, Strongest
    <3>3. QED
      BY <3>1, <3>2, ExchangesCounted DEF Mechanisms
  <2>3. QED
    BY <2>1, <2>2
<1>6. CASE AuthenticationFails
  BY <1>6 DEF AuthenticationFails
<1>7. CASE AuthenticationRedirected
  BY <1>7 DEF AuthenticationRedirected
<1>8. CASE AuthenticationGoesOn
  <2>1. mechanism \in Mechanisms /\ mechanism' = mechanism
    BY <1>8 DEF AuthenticationGoesOn, Authenticating
  <2>2. \/ exchange < Len(Exchanges[mechanism]) /\ exchange' = exchange + 1
        \/ step' = "request" /\ exchange' = 0
    BY <1>8 DEF AuthenticationGoesOn, MoreExchanges
  <2>3. QED
    BY <2>1, <2>2, ExchangesCounted DEF Mechanisms
<1>9. CASE AuthenticationCut
  <2>1. CASE HandleRedirect
    BY <2>1
  <2>2. CASE mechanism' = mechanism /\ (exchange' = 0 \/ exchange' = exchange) /\ step' # "authenticate"
    BY <2>2, ExchangesCounted
  <2>3. QED
    BY <1>9, <2>1, <2>2, CutSteps
<1>10. CASE UpdateSourceAddrFails
  BY <1>10 DEF UpdateSourceAddrFails
<1>11. CASE SendRequest
  BY <1>11 DEF SendRequest
<1>12. CASE RequestFails
  BY <1>12 DEF RequestFails
<1>13. CASE RequestRedirected
  BY <1>13 DEF RequestRedirected
<1>14. CASE RequestGranted
  BY <1>14 DEF RequestGranted
<1>15. CASE AcknowledgeFails
  BY <1>15 DEF AcknowledgeFails
<1>16. CASE Acknowledge
  BY <1>16 DEF Acknowledge
<1>17. CASE StartLocal
  BY <1>17 DEF StartLocal
<1>18. CASE Begin
  BY <1>18 DEF Begin
<1>19. CASE Loop
  BY <1>19, LoopStep
<1>20. CASE Crashed \/ UNCHANGED sessionVars
  BY <1>20 DEF Crashed
<1> QED
  BY <1>1, <1>2, <1>3, <1>4, <1>5, <1>6, <1>7, <1>8, <1>9, <1>10, <1>11,
     <1>12, <1>13, <1>14, <1>15, <1>16, <1>17, <1>18, <1>19, <1>20
     DEF SessionNext, OpenedTunnel

\* The rest of SessionTypeOK; the key file names servers because the loop attempts
\* nothing else (TypeOK).
PartTypes ==
  /\ step \in {"none", "connect", "capabilities", "authenticate", "request",
               "reply", "acknowledge", "start", "crashed"}
  /\ sock \in BOOLEAN
  /\ cap \subseteq Tunnels \cup Mechanisms
  /\ clientAddr \in Addresses \cup {"auto"}
  /\ localAddr \in Addresses
  /\ request.address \in Addresses \cup {"auto"}
  /\ peer \in {"none", "negotiating", "granted", "active"}

LEMMA PartStep == PartTypes /\ [SessionNext]_sessionVars => PartTypes'
<1> SUFFICES ASSUME PartTypes, [SessionNext]_sessionVars PROVE PartTypes'
  OBVIOUS
<1> USE SessionAssumption
<1> USE DEF PartTypes, sessionVars, session, config, Proceed, Return, Left, HandleRedirect
<1>1. CASE tspConnectFails
  BY <1>1 DEF tspConnectFails
<1>2. CASE tspConnect
  BY <1>2 DEF tspConnect
<1>3. CASE GetCapabilitiesFails
  BY <1>3 DEF GetCapabilitiesFails
<1>4. CASE GetCapabilitiesRedirected
  BY <1>4 DEF GetCapabilitiesRedirected
<1>5. CASE GetCapabilities
  BY <1>5 DEF GetCapabilities
<1>6. CASE AuthenticationFails
  BY <1>6 DEF AuthenticationFails
<1>7. CASE AuthenticationRedirected
  BY <1>7 DEF AuthenticationRedirected
<1>8. CASE AuthenticationGoesOn
  BY <1>8 DEF AuthenticationGoesOn
<1>9. CASE AuthenticationCut
  BY <1>9, CutSteps
<1>10. CASE UpdateSourceAddrFails
  BY <1>10 DEF UpdateSourceAddrFails
<1>11. CASE SendRequest
  BY <1>11 DEF SendRequest, SourceAddr
<1>12. CASE RequestFails
  BY <1>12 DEF RequestFails
<1>13. CASE RequestRedirected
  BY <1>13 DEF RequestRedirected
<1>14. CASE RequestGranted
  BY <1>14 DEF RequestGranted
<1>15. CASE AcknowledgeFails
  BY <1>15 DEF AcknowledgeFails
<1>16. CASE Acknowledge
  BY <1>16 DEF Acknowledge
<1>17. CASE StartLocal
  BY <1>17 DEF StartLocal
<1>18. CASE Begin
  BY <1>18 DEF Begin
<1>19. CASE Loop
  BY <1>19, LoopStep
<1>20. CASE Crashed \/ UNCHANGED sessionVars
  BY <1>20 DEF Crashed
<1> QED
  BY <1>1, <1>2, <1>3, <1>4, <1>5, <1>6, <1>7, <1>8, <1>9, <1>10, <1>11,
     <1>12, <1>13, <1>14, <1>15, <1>16, <1>17, <1>18, <1>19, <1>20
     DEF SessionNext, OpenedTunnel

KeyfileType == keyfile \subseteq Server \X Keys

\* The exchange under way is one of the mechanism in use, the key file holds keys
\* of known servers, and every other variable of the session keeps its type.
THEOREM SessionTypeCorrect == SessionSpec => []SessionTypeOK
<1>1. SessionInit => MechanismInv /\ ExchangeInv /\ PartTypes /\ KeyfileType
  <2> SUFFICES ASSUME SessionInit PROVE MechanismInv /\ ExchangeInv /\ PartTypes /\ KeyfileType
    OBVIOUS
  <2>1. MechanismInv /\ KeyfileType
    BY DEF SessionInit, MechanismInv, KeyfileType
  <2>2. ExchangeInv
    BY DEF SessionInit, ExchangeInv, Mechanisms
  <2>3. PartTypes
    BY SessionAssumption DEF SessionInit, PartTypes
  <2>4. QED
    BY <2>1, <2>2, <2>3
<1>2. TypeOK /\ KeyfileType /\ [SessionNext]_sessionVars => KeyfileType'
  BY KeyfileStep DEF KeyfileType, KeyAccepted, TypeOK, RouteType
<1>3. SessionSpec => []TypeOK
  BY SessionImplementsClient, TypeCorrect DEF ImplementsClient
<1>4. MechanismInv /\ ExchangeInv /\ PartTypes /\ KeyfileType => SessionTypeOK
  BY ExchangesCounted DEF MechanismInv, ExchangeInv, PartTypes, KeyfileType, SessionTypeOK, Mechanisms
<1>5. QED
  BY <1>1, <1>2, <1>3, <1>4, MechanismStep, ExchangeStep, PartStep, PTL DEF SessionSpec

=============================================================================
