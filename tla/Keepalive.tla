------------------------------ MODULE Keepalive ------------------------------
(***************************************************************************)
(* The keepalive engine, net_ka.c.  The tunnel loop reports what it reads  *)
(* and writes and calls NetKeepaliveDo at every pass; when a cycle is over *)
(* the engine pings the far end unless there was traffic in both           *)
(* directions, draws the length of the next cycle, and after               *)
(* KA_MAXIMAL_CYCLES cycles without anything read gives the tunnel up.     *)
(* The unit of time is that of gettimeofday()'s seconds.                   *)
(***************************************************************************)
EXTENDS Integers

CONSTANTS
  KA_INITIAL_KEEPALIVE,  \* length of the first cycle
  KA_MAXIMAL_CYCLES,     \* cycles without a read that end the tunnel
  Intervals              \* intervals a server may impose, 0 for none

ASSUME KeepaliveAssumption ==
  /\ KA_INITIAL_KEEPALIVE \in Nat \ {0}
  /\ KA_MAXIMAL_CYCLES \in Nat \ {0}
  /\ Intervals \subseteq Nat

VARIABLES
  init,       \* ka.init
  maximal,    \* ka.maximal_keepalive
  current,    \* ka.current_keepalive, in whole seconds
  nextEvent,  \* seconds until ka.next_event
  stillUp, doit, count, gotRead, gotWrite, consecutive  \* members of ka

flags == <<stillUp, doit, count, gotRead, gotWrite, consecutive>>
ka == <<init, maximal, current, nextEvent, flags>>

\* memset(&ka, 0, ...)
Zero ==
  /\ init = FALSE /\ maximal = 0 /\ current = 0 /\ nextEvent = 0
  /\ stillUp = FALSE /\ doit = FALSE /\ count = 0
  /\ gotRead = FALSE /\ gotWrite = FALSE /\ consecutive = 0

NetKeepaliveInit(interval) ==
  /\ init' = TRUE /\ maximal' = interval
  /\ current' = KA_INITIAL_KEEPALIVE /\ nextEvent' = KA_INITIAL_KEEPALIVE
  /\ stillUp' = FALSE /\ doit' = TRUE /\ count' = 0
  /\ gotRead' = FALSE /\ gotWrite' = FALSE /\ consecutive' = 0

NetKeepaliveDestroy ==
  /\ init' = FALSE /\ maximal' = 0 /\ current' = 0 /\ nextEvent' = 0
  /\ stillUp' = FALSE /\ doit' = FALSE /\ count' = 0
  /\ gotRead' = FALSE /\ gotWrite' = FALSE /\ consecutive' = 0

NetKeepaliveGotRead(read) == gotRead' = (gotRead \/ (read /\ init))
NetKeepaliveGotWrite(wrote) == gotWrite' = (gotWrite \/ (wrote /\ init))

----------------------------------------------------------------------------
(* NetKeepaliveDo *)

\* Was anything read since the last call, ping replies included?
Read(ping) == ping \/ gotRead

\* (mutant of ConsecutiveAfterRead: a read does not clear the count)
ConsecutiveKept(read) == consecutive

ConsecutiveAfterRead(read) == IF read THEN 0 ELSE consecutive

\* Only 0, 1, 2 and more are told apart.
CountAfter(read) == IF read /\ count < 3 THEN count + 1 ELSE count

DoitAfter == doit /\ ~gotWrite

\* Traffic in both directions, other than one ping and its reply or copies
\* of it, shows that the tunnel is up.
Up(read) ==
  /\ ConsecutiveAfterRead(read) = 0
  /\ CountAfter(read) \notin {1, 2}
  /\ ~DoitAfter
  /\ stillUp \/ CountAfter(read) > 0

\* The lower end of the upper timeout value zone, three quarters of the maximum
ZoneMinimum == (3 * maximal) \div 4

\* internal_adjust_next_event: within the zone a little up or down; below it up
\* by at most 80 percent and to the maximum, unless pings were missed.  (Of the
\* fractions only whole seconds are kept; at the lower end they decide which.)
NextCycles(missed) ==
  {t \in ZoneMinimum..maximal : current >= ZoneMinimum}
  \cup {t \in current..maximal :
          /\ current <= ZoneMinimum
          /\ 5 * t <= 9 * (current + 1)
          /\ t > current => missed < 2}

\* (mutant of StillUpNext: kept for the next cycle)
StillUpKept(up) == up

\* "until next time, we are down unless noted otherwise"
StillUpNext(up) == FALSE

\* Nothing is due: only the counters change.
BetweenEvents(read) ==
  /\ nextEvent > 0
  /\ consecutive' = ConsecutiveAfterRead(read)
  /\ count' = CountAfter(read)
  /\ doit' = DoitAfter
  /\ gotRead' = FALSE /\ gotWrite' = FALSE
  /\ UNCHANGED <<init, maximal, current, nextEvent, stillUp>>

\* internal_do_pingout: may or may not send the ping; it counts all the same.
PingOut == BOOLEAN

\* The end of a cycle
EndOfCycle(read) ==
  /\ nextEvent <= 0
  /\ IF Up(read)
     THEN consecutive' = ConsecutiveAfterRead(read) /\ gotWrite' = FALSE
     ELSE consecutive' = ConsecutiveAfterRead(read) + 1 /\ gotWrite' \in PingOut
  /\ doit' = TRUE /\ count' = 0 /\ gotRead' = FALSE
  /\ current' \in NextCycles(consecutive')
  /\ nextEvent' = current'
  /\ stillUp' = StillUpNext(Up(read))
  /\ UNCHANGED <<init, maximal>>

\* ping: is the ping socket readable?  Afterwards TimedOut says if 2 is returned.
NetKeepaliveDo(ping) == BetweenEvents(Read(ping)) \/ EndOfCycle(Read(ping))

\* (mutant of TimedOut: one cycle late)
TimedOutLate == consecutive' > KA_MAXIMAL_CYCLES

TimedOut == consecutive' = KA_MAXIMAL_CYCLES

FlagsOK ==
  /\ init \in BOOLEAN /\ stillUp \in BOOLEAN /\ doit \in BOOLEAN
  /\ gotRead \in BOOLEAN /\ gotWrite \in BOOLEAN

NumbersOK ==
  /\ maximal \in Intervals \cup {0}
  /\ current \in Nat /\ nextEvent \in Nat
  /\ count \in 0..3 /\ consecutive \in 0..KA_MAXIMAL_CYCLES

KeepaliveTypeOK == FlagsOK /\ NumbersOK
=============================================================================
