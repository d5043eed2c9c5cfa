---------------------------- MODULE MC_TspSession ----------------------------
(* Values of the constants of TspSession for TLC: the configured server o and  *)
(* one broker a it may redirect to.                                            *)
EXTENDS TspSession, TLC

CONSTANTS o, a, key1, key2, home, away

MCServer == {o, a}
MCLists == {<<a>>}
NoFile == {[status |-> "NO_LAST_SERVER", server |-> o]}
NoListFile == {[status |-> "CANT_OPEN_FILE", list |-> <<>>]}
UdpFiltered == {<<o, "RUDP">>}
Mixed == (o :> {V200, V101}) @@ (a :> {V201})
AnyReply == (Status \ {"TSP_VERSION_ERROR"}) \cup {"UNPARSED"}

AllMethods == Mechanisms \cup {"any"}
AllOffers == {auth \cup t : auth \in SUBSET Mechanisms, t \in {{}, {"V6V4"}}}
PlainOffer == {{"V6V4", "PLAIN"}}

NoDns == <<>>
TwoDns == <<"ns1", "ns2">>
============================================================================
