----------------------------- MODULE MC_BrokerLists -----------------------------
(* BrokerLists for TLC: redirections to no broker, to one, to two or three of    *)
(* every kind, to one with an address that is cut, and to one broker too many.   *)
EXTENDS BrokerLists

Redirection(v4, v6, dn) == [ipv4 |-> v4, ipv6 |-> v6, dn |-> dn]

MC_Messages ==
  {Redirection(<<>>, <<>>, <<>>), Redirection(<<"a">>, <<>>, <<>>),
   Redirection(<<"a">>, <<"b">>, <<"c">>), Redirection(<<"a", "long">>, <<>>, <<>>),
   Redirection(<<"a", "b">>, <<"c">>, <<"d">>)}
MC_Address == {"a", "b", "c", "d", "long"}
MC_TooLong == {"long"}
===============================================================================
