---------------------------- MODULE TspTransport ----------------------------
(***************************************************************************)
(* What tsp_setup and tsp_auth expect of the functions of net_tools_t:     *)
(* netopen connects to the server named, netsendrecv sends a request and   *)
(* returns the reply to that very request or fails, netclose ends it.      *)
(***************************************************************************)
CONSTANTS Host, Request, None

VARIABLES
  link,    \* "closed", "open", "asked" or "failed"
  peer,    \* the server connected to
  asked,   \* the request of the last exchange
  answer   \* the request whose reply the last exchange returned

vars == <<link, peer, asked, answer>>

Init == link = "closed" /\ peer = None /\ asked = None /\ answer = None

netopen(h) ==
  /\ link = "closed"
  /\ link' = "open"
  /\ peer' = h
  /\ asked' = None /\ answer' = None

\* netsendrecv is called ...
Ask(r) ==
  /\ link = "open"
  /\ link' = "asked"
  /\ asked' = r /\ answer' = None
  /\ UNCHANGED peer

\* ... and returns.
Reply ==
  /\ link = "asked"
  /\ link' = "open"
  /\ answer' = asked
  /\ UNCHANGED <<peer, asked>>

\* netopen or netsendrecv returns -1.
Fail ==
  /\ link \in {"closed", "asked"}
  /\ link' = "failed"
  /\ UNCHANGED <<peer, asked, answer>>

netclose ==
  /\ link \in {"open", "failed"}
  /\ link' = "closed"
  /\ peer' = None /\ asked' = None /\ answer' = None

Next ==
  \/ \E h \in Host : netopen(h)
  \/ \E r \in Request : Ask(r)
  \/ Reply \/ Fail \/ netclose

Spec == Init /\ [][Next]_vars
=============================================================================
