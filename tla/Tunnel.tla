-------------------------------- MODULE Tunnel --------------------------------
(***************************************************************************)
(* The life of a tunnel on Linux, from the grant to the result that        *)
(* tspSetupTunnel returns: tspStartLocal of tsp_local.c with the setup     *)
(* script, the two loops (TunMainLoop forwards the packets of an           *)
(* IPv6-in-UDP tunnel itself, tspPerformTunnelLoop only watches one that   *)
(* the kernel forwards), the keepalive engine in them, and the teardown.   *)
(* Time passes in the loops only, one unit being a pass of 100 ms; it is   *)
(* also the second of the keepalive engine, so that a cycle is a few       *)
(* passes long.                                                            *)
(***************************************************************************)
EXTENDS Keepalive

CONSTANTS
  Types,       \* tunnel types the broker grants
  LongWait,    \* the one week of TunMainLoop's select(), in passes
  OtherICMP    \* does this host receive other ICMPv6 messages?

ASSUME TunnelAssumption ==
  /\ Types \subseteq {"V6UDPV4", "V6V4", "V4V6"}
  /\ LongWait \in Nat \ {0}
  /\ OtherICMP \in BOOLEAN

VARIABLES
  type,       \* t->type
  interval,   \* t->keepalive_interval
  keepalive,  \* c->keepalive
  pc,         \* where tspStartLocal is
  status,     \* what it returns
  iface,      \* the tunnel interface: "none", "partial", "up" or "torn"
  tunfd,      \* is the tun device open?
  timeout,    \* of select(), or of usleep(), in passes
  indSigHUP,  \* has SIGHUP been received?
  silence,    \* history: passes since the far end was heard of
  stopWait    \* history: passes since SIGHUP

grant == <<type, interval, keepalive>>
history == <<silence, stopWait>>
vars == <<ka, grant, pc, status, iface, tunfd, timeout, indSigHUP, history>>

UDPTunnel == type = "V6UDPV4"

\* Does the loop call NetKeepaliveDo?  tspPerformTunnelLoop does not ask
\* c->keepalive.
Keeping == interval # 0 /\ (UDPTunnel => keepalive)

Init ==
  /\ Zero
  /\ type \in Types /\ interval \in Intervals /\ keepalive \in BOOLEAN
  /\ pc = "start" /\ status = "NO_ERROR"
  /\ iface = "none" /\ tunfd = FALSE
  /\ timeout = 0 /\ indSigHUP = FALSE
  /\ silence = 0 /\ stopWait = 0

----------------------------------------------------------------------------
(* tspStartLocal up to the loop *)

SetupFailed ==
  /\ status' = "INTERFACE_SETUP_FAILED"
  /\ pc' = "done"
  /\ UNCHANGED <<ka, grant, timeout, indSigHUP, history>>

\* Not root, no IPv6, daemon() or TunInit fails; IPv4-in-IPv6 is not supported.
CannotStart ==
  /\ pc = "start"
  /\ SetupFailed
  /\ UNCHANGED <<iface, tunfd>>

Start ==
  /\ pc = "start"
  /\ type # "V4V6"
  /\ tunfd' = UDPTunnel
  /\ pc' = "script"
  /\ UNCHANGED <<ka, grant, status, iface, timeout, indSigHUP, history>>

\* What tspSetupInterface leaves behind when it fails: nothing when the broker's
\* answer is not valid or there is no script, or what the script has done so far.
FailedInterface == {"none", "partial"}

\* fork(), wait() or tspSetupInterface in the child process fails; the parent
\* keeps its tun device open.
ScriptFails ==
  /\ pc = "script"
  /\ iface' \in FailedInterface
  /\ SetupFailed
  /\ UNCHANGED tunfd

\* (mutant of PassWait: the long wait is kept)
PassWaitLong == LongWait

\* A pass of either loop takes at most 100 ms.
PassWait == 1

\* The wait of a loop as it begins: TunMainLoop waits for a week unless it has
\* keepalives to send.
FirstWait == IF UDPTunnel /\ interval = 0 THEN LongWait ELSE PassWait

\* The script in the child process has succeeded: the loop is entered.
\* TunMainLoop begins with a pass, tspPerformTunnelLoop by waiting.
ScriptSucceeds ==
  /\ pc = "script"
  /\ iface' = "up"
  /\ IF interval # 0 THEN NetKeepaliveInit(interval) ELSE UNCHANGED ka
  /\ timeout' = FirstWait
  /\ pc' = IF UDPTunnel THEN "pass" ELSE "enter"
  /\ UNCHANGED <<grant, status, tunfd, indSigHUP, history>>

----------------------------------------------------------------------------
(* The loops: a pass checks for a stop request and calls NetKeepaliveDo,     *)
(* then waits ("enter": about to).                                           *)

\* (mutant of StopRequested: not looked at while keepalives are sent)
StopIgnored == indSigHUP /\ ~Keeping

\* tspCheckForStopOrWait
StopRequested == indSigHUP

StopSeen ==
  /\ pc = "pass"
  /\ StopRequested
  /\ pc' = "leave"
  /\ UNCHANGED <<ka, grant, status, iface, tunfd, timeout, indSigHUP, history>>

\* select() reduces the timeout it is given; TunMainLoop sets it anew only when
\* it calls NetKeepaliveDo.
NextWait == IF Keeping \/ ~UDPTunnel THEN PassWait ELSE timeout

\* A reply of the far end to a ping, or a message of another host: the ping
\* socket receives every ICMPv6 message that comes to this host.
PingSocket(reply, other) == reply \/ (other /\ OtherICMP)

Pass ==
  /\ pc = "pass"
  /\ ~StopRequested
  /\ timeout' = NextWait
  /\ IF Keeping
     THEN \E reply, other \in BOOLEAN :
            /\ NetKeepaliveDo(PingSocket(reply, other))
            /\ silence' = IF reply THEN 0 ELSE silence
            /\ IF TimedOut
               THEN status' = "KEEPALIVE_TIMEOUT" /\ pc' = "leave"
               ELSE pc' = "enter" /\ UNCHANGED status
     ELSE pc' = "enter" /\ UNCHANGED <<ka, status, silence>>
  /\ UNCHANGED <<grant, iface, tunfd, indSigHUP, stopWait>>

\* select() or usleep() is called.
Enter ==
  /\ pc = "enter"
  /\ pc' = "wait"
  /\ UNCHANGED <<ka, grant, status, iface, tunfd, timeout, indSigHUP, history>>

Less(n) == IF n > 0 THEN n - 1 ELSE 0

Tick ==
  /\ pc = "wait"
  /\ timeout > 0
  /\ timeout' = timeout - 1
  /\ nextEvent' = Less(nextEvent)
  /\ silence' = IF Keeping THEN silence + 1 ELSE silence
  /\ stopWait' = IF indSigHUP THEN stopWait + 1 ELSE stopWait
  /\ UNCHANGED <<init, maximal, current, flags, grant, pc, status, iface, tunfd,
                 indSigHUP>>

WaitOver ==
  /\ pc = "wait"
  /\ timeout = 0
  /\ pc' = "pass"
  /\ UNCHANGED <<ka, grant, status, iface, tunfd, timeout, indSigHUP, history>>

\* The device, the socket or both are readable: packets of this host go out,
\* those of the far end come in.
Forward ==
  /\ pc = "wait" /\ UDPTunnel
  /\ \E out, in \in BOOLEAN :
       /\ out \/ in
       /\ NetKeepaliveGotWrite(out)
       /\ NetKeepaliveGotRead(in)
       /\ silence' = IF in THEN 0 ELSE silence
  /\ pc' = "pass"
  /\ UNCHANGED <<init, maximal, current, nextEvent, stillUp, doit, count,
                 consecutive, grant, status, iface, tunfd, timeout, indSigHUP,
                 stopWait>>

\* A packet cannot be read from the device or passed on whole.
ForwardFails ==
  /\ pc = "wait" /\ UDPTunnel
  /\ status' = "TUNNEL_ERROR"
  /\ pc' = "leave"
  /\ UNCHANGED <<ka, grant, iface, tunfd, timeout, indSigHUP, history>>

\* The loop is left: TunMainLoop ends the keepalives only if c->keepalive says
\* so; tspStartLocal closes the device.
Leave ==
  /\ pc = "leave"
  /\ IF Keeping THEN NetKeepaliveDestroy ELSE UNCHANGED ka
  /\ tunfd' = FALSE
  /\ pc' = "teardown"
  /\ UNCHANGED <<grant, status, iface, timeout, indSigHUP, history>>

\* (mutant of TearDown: not after an error)
TearDownOnStop ==
  /\ pc = "teardown"
  /\ iface' = IF status = "NO_ERROR" THEN "torn" ELSE iface
  /\ pc' = "done"
  /\ UNCHANGED <<ka, grant, status, tunfd, timeout, indSigHUP, history>>

\* The teardown script is run; its failure is only logged.
TearDown ==
  /\ pc = "teardown"
  /\ iface' = "torn"
  /\ pc' = "done"
  /\ UNCHANGED <<ka, grant, status, tunfd, timeout, indSigHUP, history>>

\* SIGHUP, at any time; it interrupts select() and usleep().
SignalHUP ==
  /\ ~indSigHUP /\ pc # "done"
  /\ indSigHUP' = TRUE
  /\ pc' = IF pc = "wait" THEN "pass" ELSE pc
  /\ UNCHANGED <<ka, grant, status, iface, tunfd, timeout, history>>

Done == pc = "done" /\ UNCHANGED vars

tspStartLocal ==
  \/ CannotStart \/ Start \/ ScriptFails \/ ScriptSucceeds
  \/ StopSeen \/ Pass \/ Enter \/ WaitOver
  \/ Leave \/ TearDown

Next ==
  \/ tspStartLocal \/ Tick
  \/ Forward \/ ForwardFails
  \/ SignalHUP
  \/ Done

Spec == Init /\ [][Next]_vars

\* The thread runs and time passes; packets, errors and signals need not come.
FairSpec == Spec /\ WF_vars(tspStartLocal) /\ WF_vars(Tick)

----------------------------------------------------------------------------
(* Properties *)

Looping == pc \in {"pass", "enter", "wait"}

TunnelTypeOK ==
  /\ KeepaliveTypeOK
  /\ type \in Types /\ interval \in Intervals /\ keepalive \in BOOLEAN
  /\ pc \in {"start", "script", "pass", "enter", "wait", "leave", "teardown", "done"}
  /\ status \in {"NO_ERROR", "KEEPALIVE_TIMEOUT", "TUNNEL_ERROR",
                 "INTERFACE_SETUP_FAILED"}
  /\ iface \in {"none", "partial", "up", "torn"}
  /\ tunfd \in BOOLEAN /\ indSigHUP \in BOOLEAN
  /\ timeout \in 0..(LongWait + PassWait)
  /\ silence \in Nat /\ stopWait \in Nat

\* The longest and the shortest time between two pings
LongestCycle == IF interval > KA_INITIAL_KEEPALIVE THEN interval ELSE KA_INITIAL_KEEPALIVE
ShortestCycle ==
  LET z == (3 * interval) \div 4
  IN IF z < KA_INITIAL_KEEPALIVE THEN z ELSE KA_INITIAL_KEEPALIVE

\* Keepalives "detect inactive tunnels (if no response is received from the
\* server)" (gw6c.conf.5): the loop never goes on for longer than one cycle more
\* than KA_MAXIMAL_CYCLES without anything from the far end, whatever this host
\* sends meanwhile and however the cycles vary.
DeadLinkNoticed ==
  Looping /\ Keeping => silence <= (KA_MAXIMAL_CYCLES + 1) * LongestCycle

\* A tunnel over which something is heard once in KA_MAXIMAL_CYCLES - 1 of the
\* shortest cycles is never given up.
LiveLinkKept ==
  status = "KEEPALIVE_TIMEOUT" => silence >= (KA_MAXIMAL_CYCLES - 1) * ShortestCycle

\* With keepalives a stop request is seen within a pass, even when the signal
\* comes just before select() is called.
StopPrompt == Looping /\ Keeping => stopWait <= 1

\* A tunnel that was brought up is taken down again on every way out of its
\* loop, whatever the result, and its device closed; and the result NO_ERROR,
\* on which the client ends, is returned only on a stop request.
NoTunnelLeft ==
  pc = "done" =>
    /\ iface = "torn" <=> status # "INTERFACE_SETUP_FAILED"
    /\ iface # "up"
    /\ iface = "torn" => ~tunfd
    /\ status = "NO_ERROR" => indSigHUP

\* A requested stop ends the tunnel, with keepalives or without.
TunnelStops == indSigHUP ~> pc = "done"
=============================================================================
