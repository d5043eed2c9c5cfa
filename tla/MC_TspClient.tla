---------------------------- MODULE MC_TspClient ----------------------------
(* Values of the constants of TspClient for TLC: three servers, of which o is *)
(* the configured one, and lists of at most two brokers.                      *)
EXTENDS TspClient, TLC

CONSTANTS o, a, b

MCServer == {o, a, b}

MCLists == {<<a>>, <<a, b>>, <<b, o>>}

NoLastFile == {[status |-> "NO_LAST_SERVER", server |-> o],
               [status |-> "CANT_OPEN_FILE", server |-> o]}
SomeLastFile == {[status |-> "OK", server |-> a]} \cup NoLastFile

NoListFile == {[status |-> "CANT_OPEN_FILE", list |-> <<>>]}
AnyListFile == NoListFile \cup
  {[status |-> "OK", list |-> <<a, b>>], [status |-> "OK", list |-> <<>>],
   [status |-> "TOO_MANY_BROKERS", list |-> <<a, b>>],
   [status |-> "CANT_ADD_BROKER", list |-> <<a>>]}
TwoBrokersOnFile == {[status |-> "OK", list |-> <<a, b>>]}

AllReachable == {}
UdpFiltered == {<<s, t>> : s \in {a, b}, t \in {"RUDP", "RUDP6"}}
FirstBrokerDown == {<<s, t>> : s \in {o, a}, t \in Transport}
BDown == {<<b, t>> : t \in Transport}
OnlySecondOverTCP == FirstBrokerDown \cup UdpFiltered

AllVersions == [s \in MCServer |-> Version]
Mixed == (o :> {V101}) @@ (a :> {V200, V101}) @@ (b :> {})
SecondSpeaksOldest == (o :> Version) @@ (a :> Version) @@ (b :> {V101})

AnyReply == (Status \ {"TSP_VERSION_ERROR"}) \cup {"UNPARSED"}
TunnelOnly == {"NO_ERROR"}
TunnelOrRedirect == {"NO_ERROR", "BROKER_REDIRECTION"}
============================================================================
