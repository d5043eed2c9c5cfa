----------------------------- MODULE TspSession -----------------------------
(***************************************************************************)
(* An attempt of the connection loop, opened: tspSetupTunnel() with the    *)
(* connection, the version and capabilities, the authentication, the       *)
(* request for a tunnel and its acknowledgement.  The loop around it is    *)
(* that of TspClient, whose six actions for an attempt are replaced by the *)
(* exchanges below; pc stays at "setup" until tspSetupTunnel returns.      *)
(*                                                                         *)
(* An exchange is lost (the transport returns -1), cut (the server closes  *)
(* the connection: 0) or answered.                                         *)
(***************************************************************************)
EXTENDS TspClient

CONSTANTS
  AuthMethods,   \* values auth_method of gw6c.conf may have
  Offers,        \* sets of capabilities a server may announce
  Keys,          \* DSA keys a server may show
  Addresses,     \* addresses this host may have
  ClientAddress, \* client_v4 (client_v6) of gw6c.conf: "auto" or an address
  DnsServers     \* dns_server of gw6c.conf

Tunnels == {"V6V4", "V6UDPV4", "V4V6"}
Mechanisms == {"PASSDSS-3DES-1", "DIGEST-MD5", "PLAIN", "ANONYMOUS"}

ASSUME SessionAssumption ==
  /\ AuthMethods \subseteq Mechanisms \cup {"any"}
  /\ Offers \subseteq SUBSET (Tunnels \cup Mechanisms)
  /\ ClientAddress \in Addresses \cup {"auto"}
  /\ DnsServers \in Seq(STRING)
  \* whatever a reply to any of the exchanges may lead to
  /\ Refused \cup {"UNPARSED", "BROKER_REDIRECTION", "BROKER_REDIRECTION_ERROR"}
       \subseteq Replies

VARIABLES
  authMethod,  \* conf->auth_method
  step,        \* where tspSetupTunnel is
  sock,        \* is the socket of the attempt open?
  cap,         \* the capabilities the server has announced
  mechanism,   \* the authentication mechanism in use
  exchange,    \* its next exchange
  clientAddr,  \* conf->client_v4 (client_v6)
  localAddr,   \* the address of this end of the connection
  dnsServer,   \* what strtok finds in conf->dns_server
  request,     \* the last request for a tunnel
  keyfile,     \* the key file: <<server, key>> pairs
  peer         \* the server's side of the session: "none", "negotiating",
               \* "granted" or "active"

config == <<clientAddr, dnsServer, keyfile>>
session == <<authMethod, step, sock, cap, mechanism, exchange, localAddr,
             request, peer>>
sessionVars == <<vars, config, session>>

SessionInit ==
  /\ Init
  /\ authMethod \in AuthMethods
  /\ step = "none" /\ sock = FALSE
  /\ cap = {} /\ mechanism = "none" /\ exchange = 0
  /\ clientAddr = ClientAddress /\ localAddr \in Addresses
  /\ dnsServer = DnsServers
  /\ request = [address |-> ClientAddress, dns |-> <<>>]
  /\ keyfile = {}
  /\ peer = "none"

----------------------------------------------------------------------------
(* How tspSetupTunnel begins, goes on and returns                           *)

Begin ==
  /\ ChooseTransport
  /\ step' = "connect"
  /\ UNCHANGED <<authMethod, sock, cap, mechanism, exchange, localAddr,
                 request, peer, config>>

\* tspSetupTunnel goes on to step s; the loop's state is left alone.
Proceed(s) ==
  /\ step' = s
  /\ UNCHANGED <<pc, choice, status, route, brokers, files, info, told,
                 sleepLeft, stop, history>>

\* tspClose and return; nothing of the session is kept but what the server
\* has changed in the configuration and the files.
Left ==
  /\ step' = "none"
  /\ sock' = FALSE
  /\ cap' = {} /\ mechanism' = "none" /\ exchange' = 0
  /\ peer' = "none"
  /\ UNCHANGED <<authMethod, localAddr, request>>

Return(s) ==
  /\ status' = s
  /\ pc' = "result"
  /\ Left
  /\ UNCHANGED <<choice, route, brokers, files, info, told, sleepLeft, stop,
                 history>>

\* The reply to an exchange redirects (1200..1299) and tspHandleRedirect is
\* called with it.
HandleRedirect == (RedirectedToList \/ RedirectionFails) /\ Left /\ UNCHANGED config

\* Only the TCP transports notice that the server closes the connection.
MayBeCut == transport \notin UDP

----------------------------------------------------------------------------
(* Connection and capabilities                                              *)

tspConnectFails ==
  /\ step = "connect"
  /\ Return("SOCKET_ERROR_CANT_CONNECT")
  /\ UNCHANGED config

\* Over UDP this succeeds with a server that is down.
tspConnect ==
  /\ step = "connect"
  /\ Reachable \/ transport \in UDP
  /\ sock' = TRUE
  /\ localAddr' \in Addresses
  /\ Proceed("capabilities")
  /\ UNCHANGED <<authMethod, cap, mechanism, exchange, request, peer, config>>

\* (mutant of CapabilitiesLost: no distinction of UDP)
CapabilitiesLostOver(t) == "SOCKET_ERROR"

\* A lost first exchange over UDP means that nobody listens.
CapabilitiesLost(t) == IF t \in UDP THEN "SOCKET_ERROR_CANT_CONNECT" ELSE "SOCKET_ERROR"

GetCapabilitiesFails ==
  /\ step = "capabilities"
  /\ \/ Return(CapabilitiesLost(transport))
     \/ /\ Reachable /\ version \notin Speaks[server]
        /\ Return("TSP_VERSION_ERROR")
     \/ Reachable /\ Return("TSP_ERROR")
  /\ UNCHANGED config

GetCapabilitiesRedirected == step = "capabilities" /\ HandleRedirect

\* conf->tunnel_mode as a set of TUNNEL_ bits
Wanted ==
  CASE tunnelMode = "V6ANYV4" -> {"V6V4", "V6UDPV4"}
    [] OTHER -> {tunnelMode}

\* (mutant of Mechanism: PLAIN before DIGEST-MD5)
PlainFirst(method, offered) ==
  LET may == IF method = "any" THEN Mechanisms \ {"ANONYMOUS"} ELSE {method}
      common == may \cap offered
  IN CASE "PASSDSS-3DES-1" \in common -> "PASSDSS-3DES-1"
       [] "PASSDSS-3DES-1" \notin common /\ "PLAIN" \in common -> "PLAIN"
       [] common = {"DIGEST-MD5"} -> "DIGEST-MD5"
       [] common = {"ANONYMOUS"} -> "ANONYMOUS"
       [] OTHER -> "none"

\* tspAuthenticate's choice: the first mechanism in this order that the client
\* may use and the server offers; anonymous only if configured.
Mechanism(method, offered) ==
  LET may == IF method = "any" THEN Mechanisms \ {"ANONYMOUS"} ELSE {method}
      common == may \cap offered
  IN CASE "PASSDSS-3DES-1" \in common -> "PASSDSS-3DES-1"
       [] "PASSDSS-3DES-1" \notin common /\ "DIGEST-MD5" \in common -> "DIGEST-MD5"
       [] common = {"PLAIN"} -> "PLAIN"
       [] common = {"ANONYMOUS"} -> "ANONYMOUS"
       [] OTHER -> "none"

\* "CAPABILITY ...": does the server offer the tunnel mode, and how is the
\* client to authenticate?
GetCapabilities ==
  /\ step = "capabilities"
  /\ Answered
  /\ \E offered \in Offers :
       IF offered \cap Wanted = {}
       THEN Return("TSP_ERROR")
       ELSE IF Mechanism(authMethod, offered) = "none"
       THEN Return("AUTHENTICATION_ERROR")
       ELSE /\ cap' = offered
            /\ mechanism' = Mechanism(authMethod, offered)
            /\ exchange' = 1
            /\ peer' = "negotiating"
            /\ Proceed("authenticate")
            /\ UNCHANGED <<authMethod, sock, localAddr, request>>
  /\ UNCHANGED config

----------------------------------------------------------------------------
(* Authentication: each mechanism is a sequence of exchanges.               *)

\* send: nothing is read.  ask: the reply may refuse; is a redirection looked
\* for in it, and what may a connection cut now lead to (the buffer not read
\* into may hold anything in ANONYMOUS and PLAIN; DIGEST-MD5 goes on with a
\* NULL realm or rspauth)?
Send == [sends |-> TRUE, redirects |-> FALSE, cut |-> {}]
AskFor(redirects, cut) == [sends |-> FALSE, redirects |-> redirects, cut |-> cut]
Anything == {"accepted", "refused", "redirected"}

AnonymousExchange == AskFor(TRUE, Anything)

PlainCredentials == AskFor(TRUE, Anything)

\* The server's challenge, the response to it, the verdict.  A redirection in the
\* place of the verdict is looked for in the wrong buffer.
DigestChallenge == AskFor(TRUE, {"crash"})
DigestResponse == AskFor(TRUE, {"crash"})
DigestVerdict == AskFor(FALSE, {"refused"})

\* Diffie-Hellman values and the server's key; then the password, encrypted
PassdssKeys == AskFor(FALSE, {"refused"})
PassdssPassword == AskFor(TRUE, {"refused"})

Exchanges ==
  [m \in Mechanisms |->
     CASE m = "ANONYMOUS" -> <<AnonymousExchange>>
       [] m = "PLAIN" -> <<Send, PlainCredentials>>
       [] m = "DIGEST-MD5" -> <<DigestChallenge, DigestResponse, DigestVerdict>>
       [] m = "PASSDSS-3DES-1" -> <<Send, PassdssKeys, PassdssPassword>>]

Authenticating == step = "authenticate" /\ Answered
Current == Exchanges[mechanism][exchange]

\* Lost or refused, and every error that is not a redirection: tspSetupTunnel
\* does not tell them apart.
AuthenticationFails ==
  /\ Authenticating
  /\ Return("AUTHENTICATION_ERROR")
  /\ UNCHANGED config

AuthenticationRedirected == Authenticating /\ Current.redirects /\ HandleRedirect

\* The lines of the key file for this server
KeysOnFile == {k \in Keys : <<server, k>> \in keyfile}

\* (mutant of KeyAccepted: a key that does not match is added)
AnyKeyAccepted(key) == keyfile' = keyfile \cup {<<server, key>>}

\* add_dsakey_to_keyfile: a key on file must match; one not on file is added if
\* the user says yes and the file can be written.
KeyAccepted(key) ==
  /\ KeysOnFile \subseteq {key}
  /\ keyfile' = keyfile \cup {<<server, key>>}

\* (mutant of MoreExchanges: one too many)
OneExchangeMore == exchange <= Len(Exchanges[mechanism])

MoreExchanges == exchange < Len(Exchanges[mechanism])

\* The exchange succeeds; after the last one the client is authenticated.  The
\* second of PASSDSS-3DES-1 shows the server's key.
AuthenticationGoesOn ==
  /\ Authenticating
  /\ IF mechanism = "PASSDSS-3DES-1" /\ exchange = 2
     THEN \E key \in Keys : KeyAccepted(key)
     ELSE UNCHANGED keyfile
  /\ IF MoreExchanges
     THEN Proceed("authenticate") /\ exchange' = exchange + 1
     ELSE Proceed("request") /\ exchange' = 0
  /\ UNCHANGED <<authMethod, sock, cap, mechanism, localAddr, request, peer,
                 clientAddr, dnsServer>>

\* The server closes the connection during an exchange.
AuthenticationCut ==
  /\ Authenticating /\ MayBeCut /\ ~Current.sends
  /\ \/ "redirected" \in Current.cut /\ HandleRedirect
     \/ /\ "accepted" \in Current.cut
        /\ Proceed("request")
        /\ exchange' = 0
        /\ UNCHANGED <<authMethod, sock, cap, mechanism, localAddr, request,
                       peer, config>>
     \/ /\ "crash" \in Current.cut
        /\ Proceed("crashed")
        /\ UNCHANGED <<authMethod, sock, cap, mechanism, exchange, localAddr,
                       request, peer, config>>

----------------------------------------------------------------------------
(* Request and acknowledgement                                              *)

\* tspUpdateSourceAddr cannot tell the address of the connection.
UpdateSourceAddrFails ==
  /\ step = "request"
  /\ clientAddr = "auto"
  /\ Return("SOCKET_ERROR")
  /\ UNCHANGED config

\* client_v4 as the request has it
SourceAddr == IF clientAddr = "auto" THEN localAddr ELSE clientAddr

\* strtok leaves the first name in the place of the string it takes apart.
AfterStrtok(names) == IF names = <<>> THEN <<>> ELSE <<Head(names)>>

\* tspUpdateSourceAddr puts the address in the place of "auto"; then
\* tspBuildCreateRequest goes through dns_server.
SendRequest ==
  /\ step = "request"
  /\ clientAddr' = SourceAddr
  /\ request' = [address |-> SourceAddr, dns |-> dnsServer]
  /\ dnsServer' = AfterStrtok(dnsServer)
  /\ Proceed("reply")
  /\ UNCHANGED <<authMethod, sock, cap, mechanism, exchange, localAddr, peer,
                 keyfile>>

\* Lost or cut; a status other than 200 (310 is a server side error); no status
\* at all, or a reply that tspSendRecv calls a PROTOCOL_ERROR.
RequestFails ==
  /\ step = "reply"
  /\ \/ Return("SOCKET_ERROR")
     \/ Answered /\ \E s \in {"SERVER_SIDE_ERROR", "OTHER", "NO_ERROR"} : Return(s)
  /\ UNCHANGED config

RequestRedirected == step = "reply" /\ HandleRedirect

\* (mutant of NeedsAcknowledge: for no version)
NeverAcknowledged == FALSE

\* Version 1.0.1 goes straight to tunnel mode.
NeedsAcknowledge == version # V101

RequestGranted ==
  /\ step = "reply"
  /\ Answered
  /\ peer' = IF version = V101 THEN "active" ELSE "granted"
  /\ Proceed(IF NeedsAcknowledge THEN "acknowledge" ELSE "start")
  /\ UNCHANGED <<authMethod, sock, cap, mechanism, exchange, localAddr,
                 request, config>>

AcknowledgeFails ==
  /\ step = "acknowledge"
  /\ Return("SOCKET_ERROR")
  /\ UNCHANGED config

Acknowledge ==
  /\ step = "acknowledge"
  /\ peer' = "active"
  /\ Proceed("start")
  /\ UNCHANGED <<authMethod, sock, cap, mechanism, exchange, localAddr,
                 request, config>>

\* (mutant of StartLocal: the socket is left open)
SocketLeftOpen == TunnelGranted /\ step = "start" /\ step' = "none"
  /\ UNCHANGED <<authMethod, sock, cap, mechanism, exchange, localAddr, request,
                 peer, config>>

\* tspWriteLastServerToFile and tspStartLocal, until the tunnel ends
StartLocal ==
  /\ step = "start"
  /\ TunnelGranted
  /\ Left
  /\ UNCHANGED config

\* A process that has crashed takes no more steps.
Crashed == step = "crashed" /\ UNCHANGED sessionVars

OpenedTunnel ==
  /\ \/ tspConnectFails \/ tspConnect
     \/ GetCapabilitiesFails \/ GetCapabilitiesRedirected \/ GetCapabilities
     \/ AuthenticationFails \/ AuthenticationRedirected
     \/ AuthenticationGoesOn \/ AuthenticationCut
     \/ UpdateSourceAddrFails \/ SendRequest
     \/ RequestFails \/ RequestRedirected \/ RequestGranted
     \/ AcknowledgeFails \/ Acknowledge
     \/ StartLocal
  /\ UNCHANGED tunnelMode

\* The steps of the loop outside the attempt
Loop ==
  /\ \/ (StartFromLastServer \/ StartFromOriginal \/ LeaveLoop) /\ UNCHANGED tunnelMode
     \/ (HandleResult \/ FallbackDelay \/ SleepSecond \/ SleepOver \/ EndTsp)
        /\ UNCHANGED tunnelMode
     \/ RequestStop
     \/ Terminated
  /\ UNCHANGED <<config, session>>

SessionNext ==
  \/ Begin /\ UNCHANGED tunnelMode
  \/ OpenedTunnel
  \/ Loop
  \/ Crashed

SessionSpec == SessionInit /\ [][SessionNext]_sessionVars

----------------------------------------------------------------------------
(* Properties *)

SessionTypeOK ==
  /\ authMethod \in AuthMethods
  /\ step \in {"none", "connect", "capabilities", "authenticate", "request",
               "reply", "acknowledge", "start", "crashed"}
  /\ sock \in BOOLEAN
  /\ cap \subseteq Tunnels \cup Mechanisms
  /\ mechanism \in Mechanisms \cup {"none"}
  /\ exchange \in 0..(IF mechanism = "none" THEN 0 ELSE Len(Exchanges[mechanism]))
  /\ clientAddr \in Addresses \cup {"auto"}
  /\ localAddr \in Addresses
  /\ request.address \in Addresses \cup {"auto"}
  /\ keyfile \subseteq Server \X Keys
  /\ peer \in {"none", "negotiating", "granted", "active"}

\* Every attempt ends as one step of TspClient says it may: over every
\* transport a server that does not answer gives SOCKET_ERROR_CANT_CONNECT, a
\* refused version TSP_VERSION_ERROR, a redirection the new list, and the last
\* server's file changes only when a tunnel has been granted.
ImplementsClient == Spec

\* The socket of an attempt is closed on each of the ways out of
\* tspSetupTunnel, and no exchange is made without one.
SocketsClosed ==
  /\ pc # "setup" => ~sock
  /\ step \notin {"none", "connect"} => sock

\* "The most secure mechanism common to the client and the broker will be used"
\* (gw6c.conf.5): credentials are never sent by a mechanism when the
\* configuration allows, and the server announced, a more secure one; nor
\* anonymously when credentials are configured.
Security == [m \in Mechanisms |->
  CASE m = "PASSDSS-3DES-1" -> 3 [] m = "DIGEST-MD5" -> 2
    [] m = "PLAIN" -> 1 [] m = "ANONYMOUS" -> 0]

StrongestMechanism ==
  step = "authenticate" =>
    IF authMethod = "any"
    THEN /\ mechanism # "ANONYMOUS"
         /\ \A m \in cap \cap Mechanisms : Security[m] <= Security[mechanism]
    ELSE mechanism = authMethod /\ mechanism \in cap

\* The tunnel is set up only when the server considers it accepted, which needs
\* the acknowledgement unless the version is 1.0.1.
TunnelAcknowledged == step = "start" => peer = "active"

\* Once a server's key is on file the client is never authenticated to it with
\* another one, in any later session with the same server.
OneKeyPerServer ==
  \A s \in Server, k1, k2 \in Keys :
    <<s, k1>> \in keyfile /\ <<s, k2>> \in keyfile => k1 = k2

\* "It will retry until it succeeds" (gw6c.conf.5): the loop takes an attempt
\* for a session that has ended well only if a tunnel was set up.
SuccessMeansTunnel ==
  pc = "result" /\ status = "NO_ERROR" => info = Connected

============================================================================
