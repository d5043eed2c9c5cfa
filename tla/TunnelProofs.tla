----------------------------- MODULE TunnelProofs -----------------------------
(* Proofs about Tunnel, for every interval, number of cycles and first cycle. *)
EXTENDS Tunnel, TLAPS

\* The phases of tspStartLocal, in which the interface and the result follow
\* from one another.
StageInv ==
  /\ pc \in {"start", "script"} => iface = "none" /\ status = "NO_ERROR"
  /\ Looping => iface = "up" /\ status = "NO_ERROR"
  /\ pc \in {"leave", "teardown"} =>
       /\ iface = "up" /\ status # "INTERFACE_SETUP_FAILED"
       /\ status = "NO_ERROR" => indSigHUP
  /\ pc = "teardown" => ~tunfd
  /\ NoTunnelLeft

\* While keepalives are sent a wait is one pass, and a stop request is as old as
\* the wait under way.
StopInv ==
  /\ ~indSigHUP \/ pc \in {"start", "script"} => stopWait = 0
  /\ Looping /\ Keeping =>
       /\ timeout <= PassWait
       /\ IF pc = "pass" THEN stopWait <= 1
          ELSE indSigHUP => stopWait + timeout <= 1

\* A cycle is never longer than LongestCycle, nor shorter than ShortestCycle.
CycleInv ==
  Looping /\ Keeping =>
    /\ maximal = interval
    /\ ShortestCycle <= current
    /\ current <= LongestCycle
    /\ nextEvent <= current
    /\ init /\ ~stillUp
    /\ consecutive < KA_MAXIMAL_CYCLES
    /\ gotRead => pc = "pass" /\ silence = 0

\* Time until the engine next looks at its counters
Due == IF nextEvent >= timeout THEN nextEvent ELSE timeout

\* Cycles that may have passed by then since the far end was heard of: one if
\* that was in this cycle, one more than those missed if it was before (that in
\* which it was heard may not have counted).
Allowed == IF count > 0 THEN 1 ELSE consecutive + 2

SilenceInv ==
  /\ pc \in {"start", "script"} => silence = 0
  /\ Looping /\ Keeping => silence + Due <= Allowed * LongestCycle

\* Each cycle missed but the first has passed in silence, and of the present one
\* all but nextEvent.
MissedInv ==
  /\ Looping /\ Keeping /\ consecutive >= 1 /\ ~gotRead =>
       silence + nextEvent + ShortestCycle >= consecutive * ShortestCycle + current
  /\ LiveLinkKept

\* The bounds of a cycle in terms of the interval and of the first cycle
LEMMA CycleLengths ==
  ASSUME interval \in Nat
  PROVE  /\ LongestCycle \in Nat \ {0} /\ interval <= LongestCycle
         /\ KA_INITIAL_KEEPALIVE <= LongestCycle
         /\ ShortestCycle \in Nat /\ ShortestCycle <= (3 * interval) \div 4
         /\ ShortestCycle <= KA_INITIAL_KEEPALIVE
  BY KeepaliveAssumption DEF LongestCycle, ShortestCycle

\* No step changes the grant, nor anything that depends on it alone.
LEMMA GrantKept ==
  [Next]_vars => UNCHANGED <<grant, LongestCycle, ShortestCycle, Keeping, UDPTunnel>>
<1>1. [Next]_vars => UNCHANGED grant
  BY DEF Next, tspStartLocal, CannotStart, Start, ScriptFails, SetupFailed, ScriptSucceeds,
     StopSeen, Pass, Enter, WaitOver, Leave, TearDown, Tick, Forward, ForwardFails,
     SignalHUP, Done, vars
<1>2. QED
  BY <1>1 DEF grant, LongestCycle, ShortestCycle, Keeping, UDPTunnel

\* The cycle that follows another is as long as cycles may be.
LEMMA NextCycleLength ==
  ASSUME TunnelTypeOK, maximal = interval,
         ShortestCycle <= current, current <= LongestCycle,
         NEW missed, NEW t \in NextCycles(missed)
  PROVE  t \in Nat /\ ShortestCycle <= t /\ t <= LongestCycle
<1>1. interval \in Nat /\ current \in Nat
  BY KeepaliveAssumption DEF TunnelTypeOK, KeepaliveTypeOK, NumbersOK
<1>2. ZoneMinimum \in Nat /\ ShortestCycle <= ZoneMinimum
  BY <1>1, CycleLengths DEF ZoneMinimum
<1>3. t \in ZoneMinimum..maximal \/ t \in current..maximal
  BY DEF NextCycles
<1>4. QED
  BY <1>1, <1>2, <1>3, CycleLengths

\* The first states are at the first stage.
LEMMA StageInit == Init => StageInv
  BY DEF Init, StageInv, Looping, NoTunnelLeft

\* Every step goes from its stage to the next with the interface and the result it has there.
LEMMA StageStep == StageInv /\ [Next]_vars => StageInv'
<1> SUFFICES ASSUME StageInv, [Next]_vars PROVE StageInv'
  OBVIOUS
<1> USE DEF StageInv, Looping, NoTunnelLeft, StopRequested
<1>1. CASE CannotStart
  BY <1>1 DEF CannotStart, SetupFailed
<1>2. CASE Start
  BY <1>2 DEF Start
<1>3. CASE ScriptFails
  BY <1>3 DEF ScriptFails, SetupFailed, FailedInterface
<1>4. CASE ScriptSucceeds
  BY <1>4 DEF ScriptSucceeds
<1>5. CASE StopSeen
  BY <1>5 DEF StopSeen
<1>6. CASE Pass
  BY <1>6 DEF Pass
<1>7. CASE Enter
  BY <1>7 DEF Enter
<1>8. CASE WaitOver
  BY <1>8 DEF WaitOver
<1>9. CASE Leave
  BY <1>9 DEF Leave
<1>10. CASE TearDown
  BY <1>10 DEF TearDown
<1>11. CASE Tick
  BY <1>11 DEF Tick
<1>12. CASE Forward
  BY <1>12 DEF Forward
<1>13. CASE ForwardFails
  BY <1>13 DEF ForwardFails
<1>14. CASE SignalHUP
  BY <1>14 DEF SignalHUP
<1>15. CASE UNCHANGED vars
  BY <1>15 DEF vars
<1> QED
  BY <1>1, <1>2, <1>3, <1>4, <1>5, <1>6, <1>7, <1>8, <1>9, <1>10, <1>11, <1>12, <1>13, <1>14, <1>15
     DEF Next, tspStartLocal, Done

\* No stop is waited for at first.
LEMMA StopInit == Init => StopInv
  BY DEF Init, StopInv, Looping

\* A wait that begins after SIGHUP never adds up to more than a pass with what went before.
LEMMA StopStep == TunnelTypeOK /\ StopInv /\ [Next]_vars => StopInv'
<1> SUFFICES ASSUME TunnelTypeOK, StopInv, [Next]_vars PROVE StopInv'
  OBVIOUS
<1> UNCHANGED <<Keeping, UDPTunnel>>
  BY GrantKept
<1> USE DEF TunnelTypeOK, StopInv, Looping, StopRequested, PassWait, FirstWait, NextWait,
        history, Keeping
<1>1. CASE CannotStart
  BY <1>1 DEF CannotStart, SetupFailed
<1>2. CASE Start
  BY <1>2 DEF Start
<1>3. CASE ScriptFails
  BY <1>3 DEF ScriptFails, SetupFailed, FailedInterface
<1>4. CASE ScriptSucceeds
  BY <1>4 DEF ScriptSucceeds
<1>5. CASE StopSeen
  BY <1>5 DEF StopSeen
<1>6. CASE Pass
  BY <1>6 DEF Pass
<1>7. CASE Enter
  BY <1>7 DEF Enter
<1>8. CASE WaitOver
  BY <1>8 DEF WaitOver
<1>9. CASE Leave
  BY <1>9 DEF Leave
<1>10. CASE TearDown
  BY <1>10 DEF TearDown
<1>11. CASE Tick
  BY <1>11 DEF Tick
<1>12. CASE Forward
  BY <1>12 DEF Forward
<1>13. CASE ForwardFails
  BY <1>13 DEF ForwardFails
<1>14. CASE SignalHUP
  BY <1>14 DEF SignalHUP
<1>15. CASE UNCHANGED vars
  BY <1>15 DEF vars
<1> QED
  BY <1>1, <1>2, <1>3, <1>4, <1>5, <1>6, <1>7, <1>8, <1>9, <1>10, <1>11, <1>12, <1>13, <1>14, <1>15
     DEF Next, tspStartLocal, Done

\* The first states have their types.
LEMMA TypeInit == Init => TunnelTypeOK
<1> SUFFICES ASSUME Init PROVE TunnelTypeOK
  OBVIOUS
<1>1. KeepaliveTypeOK
  <2>1. FlagsOK
    BY DEF Init, Zero, FlagsOK
  <2>2. NumbersOK
    BY KeepaliveAssumption DEF Init, Zero, NumbersOK
  <2>3. QED
    BY <2>1, <2>2 DEF KeepaliveTypeOK
<1>2. /\ timeout \in 0..(LongWait + PassWait)
      /\ silence \in Nat /\ stopWait \in Nat
  BY TunnelAssumption DEF Init, PassWait
<1>3. QED
  BY <1>1, <1>2 DEF Init, TunnelTypeOK

\* No cycle is under way at first.
LEMMA CycleInit == Init => CycleInv
  BY DEF Init, CycleInv, Looping

\* What a call of NetKeepaliveDo does to the engine's variables
LEMMA DoStep ==
  ASSUME TunnelTypeOK, CycleInv, Looping, Keeping,
         NEW ping \in BOOLEAN, NetKeepaliveDo(ping)
  PROVE  /\ KeepaliveTypeOK'
         /\ ~TimedOut => consecutive' < KA_MAXIMAL_CYCLES
         /\ maximal' = interval /\ ShortestCycle <= current' /\ current' <= LongestCycle
         /\ nextEvent' <= current' /\ init' /\ ~stillUp' /\ ~gotRead'
<1>1. /\ maximal = interval /\ ShortestCycle <= current /\ current <= LongestCycle
      /\ nextEvent <= current /\ init /\ ~stillUp /\ consecutive < KA_MAXIMAL_CYCLES
      /\ consecutive \in Nat /\ KA_MAXIMAL_CYCLES \in Nat
  BY KeepaliveAssumption DEF CycleInv, TunnelTypeOK, KeepaliveTypeOK, NumbersOK
<1> FlagsOK /\ NumbersOK
  BY DEF TunnelTypeOK, KeepaliveTypeOK
<1>2. CASE BetweenEvents(Read(ping))
  <2>1. FlagsOK'
    BY <1>2 DEF BetweenEvents, FlagsOK, DoitAfter
  <2>2. NumbersOK' /\ consecutive' < KA_MAXIMAL_CYCLES
    BY <1>1, <1>2, KeepaliveAssumption DEF BetweenEvents, NumbersOK,
       ConsecutiveAfterRead, CountAfter
  <2>3. QED
    BY <1>1, <1>2, <2>1, <2>2 DEF BetweenEvents, KeepaliveTypeOK
<1>3. CASE EndOfCycle(Read(ping))
  <2>1. current' \in Nat /\ ShortestCycle <= current' /\ current' <= LongestCycle
    BY <1>1, <1>3, NextCycleLength DEF EndOfCycle
  <2>2. /\ ConsecutiveAfterRead(Read(ping)) \in Nat
        /\ ConsecutiveAfterRead(Read(ping)) < KA_MAXIMAL_CYCLES
    BY <1>1, KeepaliveAssumption DEF ConsecutiveAfterRead
  <2>3. consecutive' \in 0..KA_MAXIMAL_CYCLES
    BY <1>1, <1>3, <2>2 DEF EndOfCycle
  <2>4. gotWrite' \in BOOLEAN
    BY <1>3 DEF EndOfCycle, PingOut
  <2>5. /\ doit' = TRUE /\ count' = 0 /\ gotRead' = FALSE /\ nextEvent' = current'
        /\ stillUp' = FALSE /\ maximal' = maximal /\ init' = init
    BY <1>3 DEF EndOfCycle, StillUpNext
  <2>6. FlagsOK'
    BY <2>4, <2>5 DEF FlagsOK
  <2>7. NumbersOK'
    BY <2>1, <2>3, <2>5 DEF NumbersOK
  <2>8. QED
    BY <1>1, <2>1, <2>3, <2>5, <2>6, <2>7 DEF TimedOut, KeepaliveTypeOK
<1>4. QED
  BY <1>2, <1>3 DEF NetKeepaliveDo

\* Every step keeps the types: the number of missed cycles stays in its range as the loop
\* is left when it reaches the maximum (CycleInv).
LEMMA TypeStep == TunnelTypeOK /\ CycleInv /\ [Next]_vars => TunnelTypeOK'
<1> SUFFICES ASSUME TunnelTypeOK, CycleInv, [Next]_vars PROVE TunnelTypeOK'
  OBVIOUS
<1> USE KeepaliveAssumption, TunnelAssumption DEF TunnelTypeOK, KeepaliveTypeOK,
        FlagsOK, NumbersOK, ka, flags, grant, history
<1>1. CASE CannotStart
  BY <1>1 DEF CannotStart, SetupFailed
<1>2. CASE Start
  <2>1. tunfd' \in BOOLEAN
    BY <1>2 DEF Start, UDPTunnel
  <2>2. QED
    BY <1>2, <2>1 DEF Start
<1>3. CASE ScriptFails
  BY <1>3 DEF ScriptFails, SetupFailed, FailedInterface
<1>4. CASE ScriptSucceeds
  <2>1. KeepaliveTypeOK'
    <3>1. CASE interval # 0
      <4>1. NetKeepaliveInit(interval)
        BY <1>4, <3>1 DEF ScriptSucceeds
      <4>2. FlagsOK'
        BY <4>1 DEF NetKeepaliveInit
      <4>3. NumbersOK'
        BY <4>1 DEF NetKeepaliveInit
      <4>4. QED
        BY <4>2, <4>3
    <3>2. CASE interval = 0
      <4>1. UNCHANGED ka
        BY <1>4, <3>2 DEF ScriptSucceeds
      <4>2. QED
        BY <4>1
    <3>3. QED
      BY <3>1, <3>2
  <2>2. timeout' \in 0..(LongWait + PassWait)
    BY <1>4 DEF ScriptSucceeds, FirstWait, PassWait
  <2>3. QED
    BY <1>4, <2>1, <2>2 DEF ScriptSucceeds
<1>5. CASE StopSeen
  BY <1>5 DEF StopSeen
<1>6. CASE Pass
  <2>1. timeout' \in 0..(LongWait + PassWait)
    BY <1>6 DEF Pass, NextWait, PassWait
  <2>2. CASE Keeping
    <3>1. PICK reply, other \in BOOLEAN :
            /\ NetKeepaliveDo(PingSocket(reply, other))
            /\ silence' = IF reply THEN 0 ELSE silence
            /\ IF TimedOut
               THEN status' = "KEEPALIVE_TIMEOUT" /\ pc' = "leave"
               ELSE pc' = "enter" /\ UNCHANGED status
      BY <1>6, <2>2 DEF Pass
    <3>2. PingSocket(reply, other) \in BOOLEAN
      BY DEF PingSocket
    <3>3. KeepaliveTypeOK'
      <4>1. Looping
        BY <1>6 DEF Pass, Looping
      <4>2. QED
        BY <2>2, <3>1, <3>2, <4>1, DoStep
    <3>4. /\ status' \in {"NO_ERROR", "KEEPALIVE_TIMEOUT"} \cup {status}
          /\ pc' \in {"leave", "enter"} /\ silence' \in Nat
      BY <3>1
    <3>5. QED
      BY <1>6, <2>1, <3>3, <3>4 DEF Pass
  <2>3. CASE ~Keeping
    BY <1>6, <2>1, <2>3 DEF Pass
  <2>4. QED
    BY <2>2, <2>3
<1>7. CASE Enter
  BY <1>7 DEF Enter
<1>8. CASE WaitOver
  BY <1>8 DEF WaitOver
<1>9. CASE Leave
  <2>1. CASE Keeping
    <3>1. NetKeepaliveDestroy
      BY <1>9, <2>1 DEF Leave
    <3>2. FlagsOK'
      BY <3>1 DEF NetKeepaliveDestroy
    <3>3. NumbersOK'
      BY <3>1 DEF NetKeepaliveDestroy
    <3>4. QED
      BY <1>9, <3>2, <3>3 DEF Leave
  <2>2. CASE ~Keeping
    <3>1. UNCHANGED ka
      BY <1>9, <2>2 DEF Leave
    <3>2. FlagsOK'
      BY <3>1
    <3>3. NumbersOK'
      BY <3>1
    <3>4. QED
      BY <1>9, <3>2, <3>3 DEF Leave
  <2>3. QED
    BY <2>1, <2>2
<1>10. CASE TearDown
  BY <1>10 DEF TearDown
<1>11. CASE Tick
  BY <1>11 DEF Tick, Less, PassWait
<1>12. CASE Forward
  BY <1>12 DEF Forward, NetKeepaliveGotRead, NetKeepaliveGotWrite
<1>13. CASE ForwardFails
  BY <1>13 DEF ForwardFails
<1>14. CASE SignalHUP
  BY <1>14 DEF SignalHUP
<1>15. CASE UNCHANGED vars
  BY <1>15 DEF vars
<1> QED
  BY <1>1, <1>2, <1>3, <1>4, <1>5, <1>6, <1>7, <1>8, <1>9, <1>10, <1>11, <1>12, <1>13, <1>14, <1>15
     DEF Next, tspStartLocal, Done

\* Every step keeps the bounds of the cycle.
LEMMA CycleStep == TunnelTypeOK /\ CycleInv /\ [Next]_vars => CycleInv'
<1> SUFFICES ASSUME TunnelTypeOK, CycleInv, [Next]_vars, Looping', Keeping'
             PROVE  CycleInv'
  BY DEF CycleInv
<1> UNCHANGED <<interval, LongestCycle, ShortestCycle, Keeping, UDPTunnel>>
  BY GrantKept DEF grant
<1> USE DEF CycleInv, Looping, ka, flags, grant, history
<1>1. CASE CannotStart
  BY <1>1 DEF CannotStart, SetupFailed
<1>2. CASE Start
  BY <1>2 DEF Start
<1>3. CASE ScriptFails
  BY <1>3 DEF ScriptFails, SetupFailed, FailedInterface
<1>4. CASE ScriptSucceeds
  BY <1>4, CycleLengths, KeepaliveAssumption DEF ScriptSucceeds,
     NetKeepaliveInit, TunnelTypeOK, Keeping
<1>5. CASE StopSeen
  BY <1>5 DEF StopSeen
<1>6. CASE Pass
  <2>1. PICK reply, other \in BOOLEAN :
          /\ NetKeepaliveDo(PingSocket(reply, other))
          /\ IF TimedOut THEN pc' = "leave" ELSE pc' = "enter"
    BY <1>6 DEF Pass
  <2>2. PingSocket(reply, other) \in BOOLEAN
    BY DEF PingSocket
  <2>3. Looping /\ Keeping /\ ~TimedOut
    <3>1. pc = "pass" /\ pc' # "leave"
      BY <1>6 DEF Pass
    <3>2. QED
      BY <2>1, <3>1
  <2>4. init' /\ ~stillUp' /\ ~gotRead'
    <3> HIDE DEF CycleInv, Looping
    <3>1. QED
      BY <2>1, <2>2, <2>3, DoStep
  <2>5. /\ ~TimedOut => consecutive' < KA_MAXIMAL_CYCLES
        /\ maximal' = interval /\ ShortestCycle <= current' /\ current' <= LongestCycle
        /\ nextEvent' <= current'
    <3> HIDE DEF CycleInv, Looping
    <3>1. QED
      BY <2>1, <2>2, <2>3, DoStep
  <2>6. /\ maximal' = interval' /\ ShortestCycle' <= current' /\ current' <= LongestCycle'
        /\ nextEvent' <= current' /\ consecutive' < KA_MAXIMAL_CYCLES
    BY <2>3, <2>5
  <2>7. QED
    BY <2>4, <2>6
<1>7. CASE Enter
  BY <1>7 DEF Enter
<1>8. CASE WaitOver
  BY <1>8 DEF WaitOver
<1>9. CASE Leave
  BY <1>9 DEF Leave
<1>10. CASE TearDown
  BY <1>10 DEF TearDown
<1>11. CASE Tick
  BY <1>11 DEF Tick, Less, TunnelTypeOK, KeepaliveTypeOK, FlagsOK, NumbersOK
<1>12. CASE Forward
  BY <1>12 DEF Forward, NetKeepaliveGotRead
<1>13. CASE ForwardFails
  BY <1>13 DEF ForwardFails
<1>14. CASE SignalHUP
  BY <1>14 DEF SignalHUP
<1>15. CASE UNCHANGED vars
  BY <1>15 DEF vars
<1> QED
  BY <1>1, <1>2, <1>3, <1>4, <1>5, <1>6, <1>7, <1>8, <1>9, <1>10, <1>11, <1>12, <1>13, <1>14, <1>15
     DEF Next, tspStartLocal, Done


\* Products of naturals: their growth, for the steps that count cycles
LEMMA Product ==
  ASSUME NEW a \in Nat, NEW b \in Nat, NEW l \in Nat
  PROVE  /\ a * l \in Nat /\ (a + 1) * l = a * l + l
         /\ (a + b) * l = a * l + b * l
         /\ a <= b => a * l <= b * l
<1>1. a * l \in Nat /\ b * l \in Nat /\ (a + 1) * l = a * l + l
  OBVIOUS
<1>2. (a + b) * l = a * l + b * l
  OBVIOUS
<1>3. ASSUME a <= b PROVE a * l <= b * l
  <2>1. PICK d \in Nat : b = a + d
    <3>1. b - a \in Nat /\ b = a + (b - a)
      BY <1>3
    <3>2. QED
      BY <3>1
  <2>2. b * l = a * l + d * l /\ d * l \in Nat
    BY <2>1
  <2>3. QED
    BY <1>1, <2>2
<1>4. QED
  BY <1>1, <1>2, <1>3

\* Once a length is within one or more of it
LEMMA AtLeastOne ==
  ASSUME NEW a \in Nat, a >= 1, NEW l \in Nat
  PROVE  l <= a * l /\ a * l \in Nat
<1>1. 1 * l <= a * l
  BY Product
<1>2. QED
  BY <1>1, Product

\* and twice within two or more.
LEMMA AtLeastTwo ==
  ASSUME NEW a \in Nat, a >= 2, NEW l \in Nat
  PROVE  l + l <= a * l /\ a * l \in Nat
<1>1. 2 * l <= a * l
  BY Product
<1>2. QED
  BY <1>1, Product

\* What a call of NetKeepaliveDo makes of the silence when no other message comes
LEMMA SilencePass ==
  ASSUME TunnelTypeOK, StopInv, CycleInv, SilenceInv, pc = "pass", Keeping, ~OtherICMP,
         NEW reply \in BOOLEAN, NEW other \in BOOLEAN,
         NetKeepaliveDo(PingSocket(reply, other)),
         silence' = IF reply THEN 0 ELSE silence,
         UNCHANGED LongestCycle, timeout' = PassWait
  PROVE  silence' + Due' <= Allowed' * LongestCycle'
<1> DEFINE L == LongestCycle
           read == Read(PingSocket(reply, other))
<1>0. Looping
  BY DEF Looping
<1>1. /\ L \in Nat \ {0}
      /\ current \in Nat /\ nextEvent \in Nat /\ consecutive \in Nat /\ count \in 0..3
      /\ silence \in Nat /\ timeout \in Nat
  BY KeepaliveAssumption, TunnelAssumption, CycleLengths
     DEF TunnelTypeOK, KeepaliveTypeOK, NumbersOK, PassWait
<1>2. nextEvent <= current /\ current <= L /\ ~stillUp /\ (gotRead => silence = 0)
  BY <1>0 DEF CycleInv
<1>3. silence + Due <= Allowed * L
  BY <1>0 DEF SilenceInv
<1>4. (read => silence' = 0) /\ (~read => silence' = silence) /\ silence' \in Nat
  BY <1>1, <1>2 DEF Read, PingSocket
<1>5. CASE BetweenEvents(read)
  <2>1. nextEvent' = nextEvent /\ nextEvent' > 0
    BY <1>5 DEF BetweenEvents
  <2>2. Due' = nextEvent /\ nextEvent <= Due
    BY <1>1, <2>1 DEF Due, PassWait
  <2>3. CASE read
    <3>1. Allowed' \in Nat /\ Allowed' >= 1
      BY <1>1, <1>5, <2>3 DEF BetweenEvents, ConsecutiveAfterRead, CountAfter, Allowed
    <3>2. L <= Allowed' * L /\ Allowed' * L \in Nat
      BY <1>1, <3>1, AtLeastOne
    <3>3. silence' = 0 /\ Due' <= L /\ Due' \in Nat /\ LongestCycle' = L
      BY <1>1, <1>2, <1>4, <2>2, <2>3
    <3>4. silence' + Due' <= Allowed' * L
      BY <1>1, <3>2, <3>3
    <3>5. QED
      BY <3>3, <3>4
  <2>4. CASE ~read
    <3>1. count' = count /\ consecutive' = consecutive
      BY <1>5, <2>4 DEF BetweenEvents, ConsecutiveAfterRead, CountAfter
    <3>2. Allowed' = Allowed /\ Allowed \in Nat
      BY <1>1, <3>1 DEF Allowed
    <3>3. Allowed * L \in Nat
      BY <1>1, <3>2, Product
    <3>4. Due \in Nat /\ silence' = silence /\ LongestCycle' = L
      BY <1>1, <1>4, <2>4 DEF Due
    <3>5. silence' + Due' <= Allowed * L
      BY <1>1, <1>3, <2>2, <3>3, <3>4
    <3>6. QED
      BY <3>2, <3>4, <3>5
  <2>5. QED
    BY <2>3, <2>4
<1>6. CASE EndOfCycle(read)
  <2>1. current' \in Nat /\ current' <= L
    <3>1. maximal = interval /\ ShortestCycle <= current
      BY <1>0 DEF CycleInv
    <3>2. QED
      BY <1>2, <1>6, <3>1, NextCycleLength DEF EndOfCycle
  <2>2. Due' \in Nat /\ Due' <= L
    BY <1>1, <1>6, <2>1 DEF EndOfCycle, Due, PassWait
  <2>3. Allowed' = consecutive' + 2
    BY <1>6 DEF EndOfCycle, Allowed
  <2>4. CASE read
    <3>1. ConsecutiveAfterRead(read) = 0
      BY <2>4 DEF ConsecutiveAfterRead
    <3>2. consecutive' \in {ConsecutiveAfterRead(read), ConsecutiveAfterRead(read) + 1}
      BY <1>6 DEF EndOfCycle
    <3>3. Allowed' \in Nat /\ Allowed' >= 1
      BY <2>3, <3>1, <3>2
    <3>4. L <= Allowed' * L /\ Allowed' * L \in Nat
      BY <1>1, <3>3, AtLeastOne
    <3>5. silence' = 0 /\ LongestCycle' = L
      BY <1>4, <2>4
    <3>6. silence' + Due' <= Allowed' * L
      BY <1>1, <2>2, <3>4, <3>5
    <3>7. QED
      BY <3>5, <3>6
  <2>5. CASE ~read
    <3>1. Due \in Nat /\ silence <= Allowed * L
      <4>1. Allowed \in Nat
        BY <1>1 DEF Allowed
      <4>2. Allowed * L \in Nat
        BY <1>1, <4>1, Product
      <4>3. QED
        BY <1>1, <1>3, <4>2 DEF Due
    <3>2. consecutive' = consecutive \/ consecutive' = consecutive + 1
      BY <1>6, <2>5 DEF EndOfCycle, ConsecutiveAfterRead
    <3>3. CASE count > 0
      <4>1. silence <= L
        BY <1>1, <3>1, <3>3 DEF Allowed
      <4>2. Allowed' \in Nat /\ Allowed' >= 2
        BY <1>1, <2>3, <3>2
      <4>3. L + L <= Allowed' * L /\ Allowed' * L \in Nat
        BY <1>1, <4>2, AtLeastTwo
      <4>4. silence' = silence /\ LongestCycle' = L
        BY <1>4, <2>5
      <4>5. silence' + Due' <= Allowed' * L
        BY <1>1, <2>2, <4>1, <4>3, <4>4
      <4>6. QED
        BY <4>4, <4>5
    <3>4. CASE count = 0
      <4>1. ~Up(read)
        BY <1>2, <2>5, <3>4 DEF Up, CountAfter
      <4>2. consecutive' = consecutive + 1
        BY <1>6, <2>5, <4>1 DEF EndOfCycle, ConsecutiveAfterRead
      <4>3. Allowed = consecutive + 2 /\ Allowed' = Allowed + 1 /\ Allowed \in Nat
        BY <1>1, <2>3, <3>4, <4>2 DEF Allowed
      <4>4. Allowed' * L = Allowed * L + L /\ Allowed * L \in Nat
        BY <1>1, <4>3, Product
      <4>5. QED
        BY <1>1, <1>4, <2>2, <2>5, <3>1, <4>4
    <3>5. QED
      BY <1>1, <3>3, <3>4
  <2>6. QED
    BY <2>4, <2>5
<1>7. QED
  BY <1>5, <1>6 DEF NetKeepaliveDo

\* Nothing is silent at first.
LEMMA SilenceInit == Init => SilenceInv
  BY DEF Init, SilenceInv, Looping

\* Every step keeps SilenceInv: time passes as fast in Due as in the silence.
LEMMA SilenceStep ==
  ASSUME ~OtherICMP
  PROVE  TunnelTypeOK /\ StopInv /\ CycleInv /\ SilenceInv /\ [Next]_vars => SilenceInv'
<1> SUFFICES ASSUME TunnelTypeOK, StopInv, CycleInv, SilenceInv, [Next]_vars
             PROVE  SilenceInv'
  OBVIOUS
<1>k. Keeping' <=> Keeping
  BY GrantKept
<1>l. UNCHANGED LongestCycle
  BY GrantKept
<1>t. /\ timeout \in Nat /\ nextEvent \in Nat /\ silence \in Nat /\ count \in 0..3
      /\ consecutive \in Nat /\ LongestCycle \in Nat \ {0} /\ interval \in Nat
  BY KeepaliveAssumption, TunnelAssumption, CycleLengths
     DEF TunnelTypeOK, KeepaliveTypeOK, NumbersOK, PassWait
<1>p. Allowed \in Nat /\ Allowed * LongestCycle \in Nat
  <2>1. Allowed \in Nat
    BY <1>t DEF Allowed
  <2>2. QED
    BY <1>t, <2>1, Product
<1> USE DEF SilenceInv, Looping, ka, flags, history
<1>1. CASE CannotStart
  BY <1>1, <1>k, <1>l DEF CannotStart, SetupFailed
<1>2. CASE Start
  BY <1>2, <1>k, <1>l DEF Start
<1>3. CASE ScriptFails
  BY <1>3, <1>k, <1>l DEF ScriptFails, SetupFailed, FailedInterface
<1>4. CASE ScriptSucceeds
  <2> SUFFICES ASSUME Keeping PROVE silence' + Due' <= Allowed' * LongestCycle'
    BY <1>4, <1>k, <1>l DEF ScriptSucceeds
  <2>1. interval # 0
    BY DEF Keeping
  <2>2. /\ nextEvent' = KA_INITIAL_KEEPALIVE /\ consecutive' = 0 /\ count' = 0
        /\ timeout' = PassWait /\ silence' = 0
    BY <1>4, <1>k, <1>l, <2>1 DEF ScriptSucceeds, NetKeepaliveInit, FirstWait
  <2>3. Due' = KA_INITIAL_KEEPALIVE /\ Allowed' = 2
    BY <2>2, KeepaliveAssumption DEF Due, Allowed, PassWait
  <2>4. QED
    BY <1>t, <1>l, <2>2, <2>3, CycleLengths, KeepaliveAssumption
<1>5. CASE StopSeen
  BY <1>5, <1>k, <1>l DEF StopSeen
<1>6. CASE Pass
  <2> SUFFICES ASSUME Keeping PROVE silence' + Due' <= Allowed' * LongestCycle'
    BY <1>6, <1>k, <1>l DEF Pass
  <2>1. PICK reply, other \in BOOLEAN :
          /\ NetKeepaliveDo(PingSocket(reply, other))
          /\ silence' = IF reply THEN 0 ELSE silence
    BY <1>6, <1>k, <1>l DEF Pass
  <2>2. pc = "pass" /\ timeout' = PassWait
    BY <1>6, <1>k, <1>l DEF Pass, NextWait
  <2> HIDE DEF SilenceInv, Looping
  <2>3. QED
    BY <1>l, <2>1, <2>2, SilencePass
<1>7. CASE Enter
  <2>1. Due' = Due /\ Allowed' = Allowed
    BY <1>7, <1>k, <1>l DEF Enter, Due, Allowed
  <2>2. QED
    BY <1>7, <1>k, <1>l, <2>1 DEF Enter
<1>8. CASE WaitOver
  <2>1. Due' = Due /\ Allowed' = Allowed
    BY <1>8, <1>k, <1>l DEF WaitOver, Due, Allowed
  <2>2. QED
    BY <1>8, <1>k, <1>l, <2>1 DEF WaitOver
<1>9. CASE Leave
  BY <1>9, <1>k, <1>l DEF Leave
<1>10. CASE TearDown
  BY <1>10, <1>k, <1>l DEF TearDown
<1>11. CASE Tick
  <2> SUFFICES ASSUME Keeping PROVE silence' + Due' <= Allowed' * LongestCycle'
    BY <1>11, <1>k, <1>l DEF Tick
  <2>1. silence' = silence + 1 /\ timeout' = timeout - 1 /\ nextEvent' = Less(nextEvent)
        /\ timeout > 0 /\ pc = "wait"
    BY <1>11, <1>k, <1>l DEF Tick
  <2>2. Due' = Due - 1 /\ Due \in Nat
    BY <1>t, <2>1 DEF Due, Less
  <2>3. Allowed' = Allowed
    BY <1>11, <1>k, <1>l DEF Tick, Allowed
  <2>4. silence + Due <= Allowed * LongestCycle
    BY <2>1
  <2>5. silence' + Due' <= Allowed * LongestCycle
    BY <1>t, <1>p, <2>1, <2>2, <2>4
  <2>6. QED
    BY <1>l, <2>3, <2>5
<1>12. CASE Forward
  <2> SUFFICES ASSUME Keeping PROVE silence' + Due' <= Allowed' * LongestCycle'
    BY <1>12, <1>k, <1>l DEF Forward
  <2>1. (silence' = 0 \/ silence' = silence) /\ pc = "wait"
    BY <1>12 DEF Forward
  <2>2. Due' = Due /\ Allowed' = Allowed /\ Due \in Nat
    BY <1>12, <1>k, <1>l, <1>t DEF Forward, Due, Allowed
  <2>3. silence + Due <= Allowed * LongestCycle
    BY <2>1
  <2> HIDE DEF SilenceInv
  <2>4. silence' + Due' <= Allowed * LongestCycle
    BY <1>t, <1>p, <2>1, <2>2, <2>3
  <2>5. QED
    BY <1>l, <2>2, <2>4
<1>13. CASE ForwardFails
  BY <1>13, <1>k, <1>l DEF ForwardFails
<1>14. CASE SignalHUP
  <2>1. Due' = Due /\ Allowed' = Allowed
    BY <1>14, <1>k, <1>l DEF SignalHUP, Due, Allowed
  <2>2. QED
    BY <1>14, <1>k, <1>l, <2>1 DEF SignalHUP
<1>15. CASE UNCHANGED vars
  <2>1. Due' = Due /\ Allowed' = Allowed
    BY <1>15, <1>k, <1>l DEF vars, Due, Allowed
  <2>2. QED
    BY <1>15, <1>k, <1>l, <2>1 DEF vars
<1> QED
  BY <1>1, <1>2, <1>3, <1>4, <1>5, <1>6, <1>7, <1>8, <1>9, <1>10, <1>11, <1>12, <1>13, <1>14, <1>15
     DEF Next, tspStartLocal, Done

\* What it makes of the cycles missed
LEMMA MissedPass ==
  ASSUME TunnelTypeOK, CycleInv, MissedInv, pc = "pass", Keeping,
         NEW reply \in BOOLEAN, NEW other \in BOOLEAN,
         NetKeepaliveDo(PingSocket(reply, other)),
         silence' = IF reply THEN 0 ELSE silence
  PROVE  /\ consecutive' >= 1 =>
              silence' + nextEvent' + ShortestCycle >= consecutive' * ShortestCycle + current'
         /\ TimedOut => silence' >= (KA_MAXIMAL_CYCLES - 1) * ShortestCycle
<1> DEFINE S == ShortestCycle
           read == Read(PingSocket(reply, other))
<1>0. Looping
  BY DEF Looping
<1>1. /\ S \in Nat /\ KA_MAXIMAL_CYCLES \in Nat \ {0}
      /\ current \in Nat /\ nextEvent \in Nat /\ consecutive \in Nat
      /\ silence \in Nat
  BY KeepaliveAssumption, CycleLengths DEF TunnelTypeOK, KeepaliveTypeOK, NumbersOK
<1>2. S <= current /\ consecutive < KA_MAXIMAL_CYCLES
  BY <1>0 DEF CycleInv
<1>3. (~read => silence' = silence) /\ silence' \in Nat /\ (~read => ~gotRead)
  BY <1>1 DEF Read, PingSocket
<1>4. consecutive >= 1 /\ ~read => silence + nextEvent + S >= consecutive * S + current
  BY <1>0, <1>3 DEF MissedInv
<1>5. CASE BetweenEvents(read)
  <2>1. nextEvent' = nextEvent /\ current' = current
    BY <1>5 DEF BetweenEvents
  <2>2. consecutive' = IF read THEN 0 ELSE consecutive
    BY <1>5 DEF BetweenEvents, ConsecutiveAfterRead
  <2>3. ~TimedOut
    BY <1>1, <1>2, <2>2 DEF TimedOut
  <2>4. consecutive' >= 1 => ~read /\ consecutive' = consecutive
    BY <2>2
  <2>5. QED
    BY <1>3, <1>4, <2>1, <2>3, <2>4
<1>6. CASE EndOfCycle(read)
  <2>1. nextEvent = 0
    BY <1>1, <1>6 DEF EndOfCycle
  <2>2. current' \in Nat /\ nextEvent' = current'
    <3>1. maximal = interval /\ current <= LongestCycle
      BY <1>0 DEF CycleInv
    <3>2. QED
      BY <1>2, <1>6, <3>1, NextCycleLength DEF EndOfCycle
  <2>3. consecutive' >= 1 => consecutive' = ConsecutiveAfterRead(read) + 1
    BY <1>6 DEF EndOfCycle, Up
  <2>4. silence' >= ConsecutiveAfterRead(read) * S
    <3>1. CASE read \/ consecutive = 0
      <4>1. ConsecutiveAfterRead(read) = 0
        BY <3>1 DEF ConsecutiveAfterRead
      <4>2. QED
        BY <1>1, <1>3, <4>1
    <3>2. CASE ~read /\ consecutive >= 1
      <4> DEFINE past == consecutive * S
      <4>1. past \in Nat
        BY <1>1, Product
      <4>2. silence + S >= past + current
        BY <1>1, <1>4, <2>1, <3>2
      <4>3. ConsecutiveAfterRead(read) * S = past /\ silence' = silence
        BY <1>3, <3>2 DEF ConsecutiveAfterRead
      <4> HIDE DEF past
      <4>4. silence >= past
        BY <1>1, <1>2, <4>1, <4>2
      <4>5. QED
        BY <4>3, <4>4
    <3>3. QED
      BY <1>1, <3>1, <3>2
  <2>5. consecutive' >= 1 => silence' + S >= consecutive' * S /\ consecutive' * S \in Nat
    <3> SUFFICES ASSUME consecutive' >= 1
                 PROVE  silence' + S >= consecutive' * S /\ consecutive' * S \in Nat
      OBVIOUS
    <3> DEFINE c == ConsecutiveAfterRead(read)
    <3>1. c \in Nat
      BY <1>1 DEF ConsecutiveAfterRead
    <3>2. consecutive' = c + 1
      BY <2>3
    <3> HIDE DEF c
    <3>3. c * S \in Nat /\ (c + 1) * S = c * S + S
      BY <1>1, <3>1, Product
    <3>4. silence' >= c * S
      BY <2>4 DEF c
    <3>5. QED
      BY <1>1, <1>3, <3>2, <3>3, <3>4
  <2>6. consecutive' >= 1 => silence' + nextEvent' + S >= consecutive' * S + current'
    BY <1>1, <1>3, <2>2, <2>5
  <2>7. TimedOut => silence' >= (KA_MAXIMAL_CYCLES - 1) * S
    <3>1. KA_MAXIMAL_CYCLES - 1 \in Nat /\ KA_MAXIMAL_CYCLES = (KA_MAXIMAL_CYCLES - 1) + 1
      BY <1>1
    <3>2. /\ (KA_MAXIMAL_CYCLES - 1) * S \in Nat
          /\ KA_MAXIMAL_CYCLES * S = (KA_MAXIMAL_CYCLES - 1) * S + S
      BY <1>1, <3>1, Product
    <3>3. TimedOut => silence' + S >= KA_MAXIMAL_CYCLES * S
      BY <1>1, <2>5 DEF TimedOut
    <3>4. QED
      BY <1>1, <1>3, <3>2, <3>3
  <2>8. QED
    BY <2>6, <2>7
<1>7. QED
  BY <1>5, <1>6 DEF NetKeepaliveDo

\* No cycle is missed at first.
LEMMA MissedInit == Init => MissedInv
  BY DEF Init, MissedInv, Looping, LiveLinkKept

\* Every step keeps MissedInv.
LEMMA MissedStep ==
  TunnelTypeOK /\ StageInv /\ CycleInv /\ MissedInv /\ [Next]_vars => MissedInv'
<1> SUFFICES ASSUME TunnelTypeOK, StageInv, CycleInv, MissedInv, [Next]_vars
             PROVE  MissedInv'
  OBVIOUS
<1>k. Keeping' <=> Keeping
  BY GrantKept
<1>l. UNCHANGED ShortestCycle
  BY GrantKept
<1>t. /\ timeout \in Nat /\ nextEvent \in Nat /\ silence \in Nat /\ current \in Nat
      /\ consecutive \in Nat /\ ShortestCycle \in Nat /\ interval \in Nat
  BY KeepaliveAssumption, TunnelAssumption, CycleLengths
     DEF TunnelTypeOK, KeepaliveTypeOK, NumbersOK, PassWait
<1>s. Looping \/ pc \in {"start", "script"} => status = "NO_ERROR"
  BY DEF StageInv
<1> USE DEF MissedInv, LiveLinkKept, Looping, ka, flags, history
<1>1. CASE CannotStart
  BY <1>1, <1>k, <1>l DEF CannotStart, SetupFailed
<1>2. CASE Start
  BY <1>2, <1>k, <1>l DEF Start
<1>3. CASE ScriptFails
  BY <1>3, <1>k, <1>l DEF ScriptFails, SetupFailed, FailedInterface
<1>4. CASE ScriptSucceeds
  <2>1. Keeping => consecutive' = 0
    BY <1>4, <1>k, <1>l DEF ScriptSucceeds, NetKeepaliveInit, Keeping
  <2>2. status' = "NO_ERROR"
    BY <1>4, <1>k, <1>l, <1>s DEF ScriptSucceeds
  <2>3. QED
    BY <1>k, <1>l, <2>1, <2>2
<1>5. CASE StopSeen
  BY <1>5, <1>k, <1>l DEF StopSeen
<1>6. CASE Pass
  <2>1. CASE Keeping
    <3>1. PICK reply, other \in BOOLEAN :
            /\ NetKeepaliveDo(PingSocket(reply, other))
            /\ silence' = IF reply THEN 0 ELSE silence
            /\ ~TimedOut => UNCHANGED status
      BY <1>6, <1>k, <1>l, <2>1 DEF Pass
    <3>2. pc = "pass"
      BY <1>6, <1>k, <1>l DEF Pass
    <3>3. /\ consecutive' >= 1 =>
               silence' + nextEvent' + ShortestCycle >= consecutive' * ShortestCycle + current'
          /\ TimedOut => silence' >= (KA_MAXIMAL_CYCLES - 1) * ShortestCycle
      <4> HIDE DEF MissedInv, Looping
      <4>1. QED
        BY <2>1, <3>1, <3>2, MissedPass
    <3>4. ~TimedOut => status' = "NO_ERROR"
      BY <1>s, <3>1, <3>2
    <3>5. QED
      BY <1>k, <1>l, <3>3, <3>4
  <2>2. CASE ~Keeping
    BY <1>6, <1>k, <1>l, <1>s, <2>2 DEF Pass
  <2>3. QED
    BY <2>1, <2>2
<1>7. CASE Enter
  BY <1>7, <1>k, <1>l DEF Enter
<1>8. CASE WaitOver
  BY <1>8, <1>k, <1>l DEF WaitOver
<1>9. CASE Leave
  BY <1>9, <1>k, <1>l DEF Leave
<1>10. CASE TearDown
  BY <1>10, <1>k, <1>l DEF TearDown
<1>11. CASE Tick
  <2>1. status' = "NO_ERROR"
    BY <1>11, <1>k, <1>l, <1>s DEF Tick
  <2>2. ASSUME Keeping, consecutive >= 1, ~gotRead
        PROVE  silence' + nextEvent' + ShortestCycle >= consecutive * ShortestCycle + current
    <3>1. silence + nextEvent + ShortestCycle >= consecutive * ShortestCycle + current
      BY <1>11, <1>k, <1>l, <2>2 DEF Tick
    <3>2. /\ silence' = silence + 1
          /\ nextEvent' = nextEvent - 1 \/ (nextEvent' = 0 /\ nextEvent = 0)
      BY <1>11, <1>k, <1>l, <1>t, <2>2 DEF Tick, Less
    <3> DEFINE past == consecutive * ShortestCycle
    <3>4. past \in Nat
      BY <1>t, Product
    <3> HIDE DEF past, MissedInv, LiveLinkKept
    <3>5. silence' + nextEvent' + ShortestCycle >= past + current
      <4>1. silence + nextEvent + ShortestCycle >= past + current
        BY <3>1 DEF past
      <4>2. QED
        BY <1>t, <3>2, <3>4, <4>1
    <3>6. QED
      BY <3>5 DEF past
  <2>3. UNCHANGED <<consecutive, gotRead, current>>
    BY <1>11, <1>k, <1>l DEF Tick
  <2>4. QED
    BY <1>k, <1>l, <2>1, <2>2, <2>3
<1>12. CASE Forward
  <2>1. status' = "NO_ERROR"
    BY <1>12, <1>k, <1>l, <1>s DEF Forward
  <2>2. UNCHANGED <<consecutive, nextEvent, current>> /\ pc = "wait"
    BY <1>12, <1>k, <1>l DEF Forward
  <2>3. Keeping /\ ~gotRead' => UNCHANGED silence /\ ~gotRead
    <3>1. Keeping => init
      BY <2>2 DEF CycleInv
    <3>2. QED
      BY <1>12, <1>k, <1>l, <3>1 DEF Forward, NetKeepaliveGotRead
  <2>4. QED
    BY <1>k, <1>l, <2>1, <2>2, <2>3
<1>13. CASE ForwardFails
  BY <1>13, <1>k, <1>l DEF ForwardFails
<1>14. CASE SignalHUP
  BY <1>14, <1>k, <1>l DEF SignalHUP
<1>15. CASE UNCHANGED vars
  BY <1>15, <1>k, <1>l DEF vars
<1> QED
  BY <1>1, <1>2, <1>3, <1>4, <1>5, <1>6, <1>7, <1>8, <1>9, <1>10, <1>11, <1>12, <1>13, <1>14, <1>15
     DEF Next, tspStartLocal, Done

\* The inductive invariant of the theorems that need no assumption on OtherICMP
Inv == TunnelTypeOK /\ StageInv /\ StopInv /\ CycleInv /\ MissedInv

\* The inductive invariant holds at first
LEMMA InvInit == Init => Inv
  BY TypeInit, StageInit, StopInit, CycleInit, MissedInit DEF Inv

\* and is kept by every step,
LEMMA InvStep == Inv /\ [Next]_vars => Inv'
  BY TypeStep, StageStep, StopStep, CycleStep, MissedStep DEF Inv

\* hence holds always.
LEMMA Invariance == Spec => []Inv
  BY InvInit, InvStep, PTL DEF Spec

----------------------------------------------------------------------------
(* Theorems *)

\* Whatever the intervals, the counters and times of the loop and of the
\* keepalive engine stay in their ranges; above all the missed cycles never pass
\* KA_MAXIMAL_CYCLES, the only value at which the engine reports them.
THEOREM TypeCorrect == Spec => []TunnelTypeOK
<1>1. Inv => TunnelTypeOK
  BY DEF Inv
<1>2. QED
  BY <1>1, Invariance, PTL

\* On every way out of its loop a tunnel that was brought up is taken down and
\* its device closed, and NO_ERROR is returned only on a stop request.
THEOREM TornDown == Spec => []NoTunnelLeft
<1>1. Inv => NoTunnelLeft
  BY DEF Inv, StageInv
<1>2. QED
  BY <1>1, Invariance, PTL

\* With keepalives a stop request is seen within one pass, whatever LongWait is.
THEOREM StopSeenSoon == Spec => []StopPrompt
<1>1. Inv => StopPrompt
  <2> SUFFICES ASSUME Inv, Looping, Keeping PROVE stopWait <= 1
    BY DEF StopPrompt
  <2>1. stopWait \in Nat /\ timeout \in Nat
    BY TunnelAssumption DEF Inv, TunnelTypeOK, PassWait
  <2>2. CASE indSigHUP
    BY <2>1, <2>2 DEF Inv, StopInv
  <2>3. CASE ~indSigHUP
    BY <2>3 DEF Inv, StopInv
  <2>4. QED
    BY <2>2, <2>3
<1>2. QED
  BY <1>1, Invariance, PTL

\* A tunnel is given up only after KA_MAXIMAL_CYCLES - 1 of the shortest cycles
\* in silence, on hosts that receive other ICMPv6 messages too.
THEOREM LiveLinkSafe == Spec => []LiveLinkKept
<1>1. Inv => LiveLinkKept
  BY DEF Inv, MissedInv
<1>2. QED
  BY <1>1, Invariance, PTL

\* Where no other ICMPv6 message comes to this host, a dead link is noticed
\* within KA_MAXIMAL_CYCLES + 1 of the longest cycles, for every sequence of
\* cycles that the engine may draw and whatever this host sends.
THEOREM DeadLinkFound ==
  ASSUME ~OtherICMP
  PROVE  Spec => []DeadLinkNoticed
<1>1. Inv /\ SilenceInv => DeadLinkNoticed
  <2> SUFFICES ASSUME Inv, SilenceInv, Looping, Keeping
               PROVE  silence <= (KA_MAXIMAL_CYCLES + 1) * LongestCycle
    BY DEF DeadLinkNoticed
  <2>1. /\ timeout \in Nat /\ nextEvent \in Nat /\ silence \in Nat
        /\ consecutive \in Nat /\ count \in 0..3 /\ LongestCycle \in Nat
        /\ KA_MAXIMAL_CYCLES \in Nat \ {0}
    BY KeepaliveAssumption, TunnelAssumption, CycleLengths
       DEF Inv, TunnelTypeOK, KeepaliveTypeOK, NumbersOK, PassWait
  <2>2. consecutive < KA_MAXIMAL_CYCLES
    BY DEF Inv, CycleInv
  <2>3. Allowed \in Nat /\ Allowed <= KA_MAXIMAL_CYCLES + 1
    BY <2>1, <2>2 DEF Allowed
  <2>4. Allowed * LongestCycle <= (KA_MAXIMAL_CYCLES + 1) * LongestCycle
    BY <2>1, <2>3, Product
  <2>5. silence + Due <= Allowed * LongestCycle /\ Due \in Nat
    BY <2>1 DEF SilenceInv, Due
  <2>6. Allowed * LongestCycle \in Nat /\ (KA_MAXIMAL_CYCLES + 1) * LongestCycle \in Nat
    BY <2>1, <2>3, Product
  <2>7. QED
    BY <2>1, <2>4, <2>5, <2>6
<1>2. Inv /\ SilenceInv /\ [Next]_vars => SilenceInv'
  BY SilenceStep DEF Inv
<1>3. QED
  BY <1>1, <1>2, Invariance, SilenceInit, PTL DEF Spec
=============================================================================
