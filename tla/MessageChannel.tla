---------------------------- MODULE MessageChannel ----------------------------
(***************************************************************************)
(* What the messaging library promises to its two users, the client and    *)
(* its GUI: while a connection lasts, the messages a side has posted are   *)
(* given to the other side whole, once each and in the order of posting.   *)
(* A connection that ends may lose the ones still under way, and nothing   *)
(* of it is ever given to a later connection.                              *)
(***************************************************************************)
EXTENDS Naturals, Sequences

CONSTANTS
  Side,      \* the two ends
  Other(_),  \* the end opposite
  Message    \* what may be posted

VARIABLES
  posted,     \* posted[s]: what s has posted on this connection, oldest first
  delivered,  \* delivered[s]: what s has been given on this connection
  open        \* open[s]: does s take new messages?

channelVars == <<posted, delivered, open>>

ChannelInit ==
  /\ posted = [s \in Side |-> <<>>]
  /\ delivered = [s \in Side |-> <<>>]
  /\ open = [s \in Side |-> TRUE]

Post(s, m) ==
  /\ open[s]
  /\ posted' = [posted EXCEPT ![s] = Append(@, m)]
  /\ UNCHANGED <<delivered, open>>

Deliver(s) ==
  LET n == Len(delivered[s]) + 1 IN
  /\ n <= Len(posted[Other(s)])
  /\ delivered' = [delivered EXCEPT ![s] = Append(@, posted[Other(s)][n])]
  /\ UNCHANGED <<posted, open>>

Close(s) ==
  /\ open[s]
  /\ open' = [open EXCEPT ![s] = FALSE]
  /\ UNCHANGED <<posted, delivered>>

Connect ==
  /\ \A s \in Side : ~open[s]
  /\ posted' = [s \in Side |-> <<>>]
  /\ delivered' = [s \in Side |-> <<>>]
  /\ open' = [s \in Side |-> TRUE]

ChannelNext ==
  \/ \E s \in Side : Deliver(s) \/ Close(s) \/ \E m \in Message : Post(s, m)
  \/ Connect

ChannelSpec == ChannelInit /\ [][ChannelNext]_channelVars
===============================================================================
