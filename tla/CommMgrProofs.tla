----------------------------- MODULE CommMgrProofs -----------------------------
(* Proofs about CommMgr, for every threshold, size of the queue and number of  *)
(* messages and of lost connections.                                           *)
EXTENDS CommMgr, SequenceTheorems, TLAPS

\* Where each thread is, the connection and the semaphore: CommTypeOK without
\* the numbers and the sequences.
PlacesOK ==
  /\ state \in {"DISCONNECTED", "PENDINGCONNECTION", "CONNECTED", "FATALERROR"}
  /\ manager \in {"check", "clean", "connect", "start", "started", "ended"}
  /\ owner \in {"alive", "stop", "clean", "gone", "aborted"}
  /\ cleanup \in {"idle", "sender", "receiver", "servent", "done"}
  /\ ipc \in {"none", "made", "up", "broken"}
  /\ sender \in {"none", "wait", "took", "writing", "failed"}
  /\ receiver \in {"none", "peek", "reading", "process", "pushed", "failed"}
  /\ mutex \in {"free", "sender", "receiver"}
  /\ poster \in {"idle", "checked", "pushed"}

SemaphoreOK == count \in 0..MAX_QUEUE_ITEMS /\ breaks \in 0..MaxBreaks

\* How far a cleanup is and what the manager does tell which threads there are:
\* the manager only goes on with a cleanup that is over, and the destructor
\* begins its own after the manager has ended.
Lifecycle ==
  /\ manager \in {"check", "connect", "start", "started"} => cleanup = "idle"
  /\ owner \in {"clean", "gone"} => manager = "ended"
  /\ cleanup \in {"receiver", "servent", "done"} => sender = "none"
  /\ cleanup \in {"servent", "done"} => receiver = "none"
  /\ cleanup = "done" => ipc = "none"
  /\ manager = "connect" => ipc = "made"
  /\ manager = "start" => ipc \in {"up", "broken"}
  /\ WorkersHaveServent

\* The manager tries again only while it has not failed too often.
ErrorsBounded ==
  /\ errors \in Nat
  /\ \/ errors <= INITERRORS_THRESHOLD
     \/ /\ errors = INITERRORS_THRESHOLD + 1
        /\ \/ manager = "ended"
           \/ manager = "check" /\ state = "FATALERROR" /\ ipc \in {"none", "made"}

\* The sender has something to write when it has been woken.
TookOne == sender \in {"took", "writing"} => queue # <<>>

\* Messages are numbered in the order they are pushed; those written come
\* before those that wait.
Ordered ==
  /\ pushed \in 0..MaxPosts
  /\ queue \in Seq(1..MaxPosts) /\ written \in Seq(1..MaxPosts)
  /\ \A i \in 1..Len(queue) : queue[i] <= pushed
  /\ \A i \in 1..Len(written) : written[i] <= pushed
  /\ \A i, j \in 1..Len(queue) : i < j => queue[i] < queue[j]
  /\ SentOnceInOrder

Inv == PlacesOK /\ SemaphoreOK /\ Lifecycle /\ ErrorsBounded /\ TookOne /\ Ordered

-------------------------------------------------------------------------------
(* The first state                                                              *)

LEMMA InvInit == Init => Inv
  BY CommMgrAssumption
     DEF Init, Inv, PlacesOK, SemaphoreOK, Lifecycle, WorkersHaveServent, ErrorsBounded, TookOne,
         Ordered, SentOnceInOrder

-------------------------------------------------------------------------------
(* Where the threads are                                                        *)

LEMMA PlacesStep ==
  ASSUME PlacesOK, [Next]_vars
  PROVE  PlacesOK'
<1>1. CASE Posting
  BY <1>1 DEF Posting, PostChecks, PostPushes, PostReleases, managerVars, workerVars,
      queueVars, Reset, CreateConnectionPoint, AcceptConnection, CloseConnection, PlacesOK
<1>2. CASE Sending
  BY <1>2 DEF Sending, SenderWakes, SenderYields, SenderWrites, SenderWrote, SenderFails,
      managerVars, workerVars, queueVars, Reset, CreateConnectionPoint, AcceptConnection,
      CloseConnection, PlacesOK
<1>3. CASE Receiving
  BY <1>3 DEF Receiving, ReceiverReads, ReceiverRead, ReceiverFails, ReceiverProcesses,
      ReceiverReleases, managerVars, workerVars, queueVars, Reset, CreateConnectionPoint,
      AcceptConnection, CloseConnection, PlacesOK
<1>4. CASE Cleaning
  BY <1>4 DEF Cleaning, StopSender, StopReceiver, CloseServent, managerVars, workerVars,
      queueVars, Reset, CreateConnectionPoint, AcceptConnection, CloseConnection, PlacesOK
<1>5. CASE Managing
  BY <1>5 DEF Managing, ManagerCleans, ManagerEnds, ManagerInitializes, ManagerFails,
      ManagerConnects, ManagerStarts, ManagerReports, managerVars, workerVars, queueVars,
      Reset, CreateConnectionPoint, AcceptConnection, CloseConnection, PlacesOK
<1>6. CASE Destroying
  BY <1>6 DEF Destroying, Destroy, StopManager, Destroyed, managerVars, workerVars,
      queueVars, Reset, CreateConnectionPoint, AcceptConnection, CloseConnection, PlacesOK
<1>7. CASE Break
  BY <1>7 DEF Break, managerVars, workerVars, queueVars, Reset, CreateConnectionPoint,
      AcceptConnection, CloseConnection, PlacesOK
<1>8. CASE UNCHANGED vars
  BY <1>8 DEF vars, managerVars, workerVars, queueVars, Reset, CreateConnectionPoint,
      AcceptConnection, CloseConnection, PlacesOK
<1>9. QED
  BY <1>1, <1>2, <1>3, <1>4, <1>5, <1>6, <1>7, <1>8 DEF Next

\* A cleanup stops the sender, then the receiver, then closes the servent, and
\* nobody starts a thread meanwhile.
LEMMA LifecycleStep ==
  ASSUME PlacesOK, Lifecycle, [Next]_vars
  PROVE  Lifecycle'
<1>1. CASE Posting
  BY <1>1 DEF Posting, PostChecks, PostPushes, PostReleases, Running, managerVars,
      workerVars, queueVars, CreateConnectionPoint, AcceptConnection, CloseConnection,
      PlacesOK, Lifecycle, WorkersHaveServent
<1>2. CASE Sending
  BY <1>2 DEF Sending, SenderWakes, SenderYields, SenderWrites, SenderWrote, SenderFails,
      Running, managerVars, workerVars, queueVars, CreateConnectionPoint, AcceptConnection,
      CloseConnection, PlacesOK, Lifecycle, WorkersHaveServent
<1>3. CASE Receiving
  BY <1>3 DEF Receiving, ReceiverReads, ReceiverRead, ReceiverFails, ReceiverProcesses,
      ReceiverReleases, Running, managerVars, workerVars, queueVars, CreateConnectionPoint,
      AcceptConnection, CloseConnection, PlacesOK, Lifecycle, WorkersHaveServent
<1>4. CASE Cleaning
  BY <1>4 DEF Cleaning, StopSender, StopReceiver, CloseServent, Running, managerVars,
      workerVars, queueVars, CreateConnectionPoint, AcceptConnection, CloseConnection,
      PlacesOK, Lifecycle, WorkersHaveServent
<1>5. CASE Managing
  BY <1>5 DEF Managing, ManagerCleans, ManagerEnds, ManagerInitializes, ManagerFails,
      ManagerConnects, ManagerStarts, ManagerReports, Running, managerVars, workerVars,
      queueVars, CreateConnectionPoint, AcceptConnection, CloseConnection, PlacesOK,
      Lifecycle, WorkersHaveServent
<1>6. CASE Destroying
  BY <1>6 DEF Destroying, Destroy, StopManager, Destroyed, Running, managerVars,
      workerVars, queueVars, CreateConnectionPoint, AcceptConnection, CloseConnection,
      PlacesOK, Lifecycle, WorkersHaveServent
<1>7. CASE Break
  BY <1>7 DEF Break, Running, managerVars, workerVars, queueVars, CreateConnectionPoint,
      AcceptConnection, CloseConnection, PlacesOK, Lifecycle, WorkersHaveServent
<1>8. CASE UNCHANGED vars
  BY <1>8 DEF vars, Running, managerVars, workerVars, queueVars, CreateConnectionPoint,
      AcceptConnection, CloseConnection, PlacesOK, Lifecycle, WorkersHaveServent
<1>9. QED
  BY <1>1, <1>2, <1>3, <1>4, <1>5, <1>6, <1>7, <1>8 DEF Next

-------------------------------------------------------------------------------
(* The numbers                                                                  *)

LEMMA SemaphoreStep ==
  ASSUME SemaphoreOK, [Next]_vars
  PROVE  SemaphoreOK'
<1>1. CASE Posting
  BY CommMgrAssumption, <1>1 DEF Posting, PostChecks, PostPushes, PostReleases,
      managerVars, workerVars, queueVars, Reset, Release, SemaphoreOK
<1>2. CASE Sending
  BY CommMgrAssumption, <1>2 DEF Sending, SenderWakes, SenderYields, SenderWrites,
      SenderWrote, SenderFails, managerVars, workerVars, queueVars, Reset, Release,
      SemaphoreOK
<1>3. CASE Receiving
  BY CommMgrAssumption, <1>3 DEF Receiving, ReceiverReads, ReceiverRead, ReceiverFails,
      ReceiverProcesses, ReceiverReleases, managerVars, workerVars, queueVars, Reset,
      Release, SemaphoreOK
<1>4. CASE Cleaning
  BY CommMgrAssumption, <1>4 DEF Cleaning, StopSender, StopReceiver, CloseServent,
      managerVars, workerVars, queueVars, Reset, Release, SemaphoreOK
<1>5. CASE Managing
  BY CommMgrAssumption, <1>5 DEF Managing, ManagerCleans, ManagerEnds, ManagerInitializes,
      ManagerFails, ManagerConnects, ManagerStarts, ManagerReports, managerVars,
      workerVars, queueVars, Reset, Release, SemaphoreOK
<1>6. CASE Destroying
  BY CommMgrAssumption, <1>6 DEF Destroying, Destroy, StopManager, Destroyed, managerVars,
      workerVars, queueVars, Reset, Release, SemaphoreOK
<1>7. CASE Break
  BY CommMgrAssumption, <1>7 DEF Break, managerVars, workerVars, queueVars, Reset, Release,
      SemaphoreOK
<1>8. CASE UNCHANGED vars
  BY CommMgrAssumption, <1>8 DEF vars, managerVars, workerVars, queueVars, Reset, Release,
      SemaphoreOK
<1>9. QED
  BY <1>1, <1>2, <1>3, <1>4, <1>5, <1>6, <1>7, <1>8 DEF Next

\* When the manager fails once too often it has no servent and no thread, so
\* nobody takes FATALERROR back.
LEMMA ErrorsStep ==
  ASSUME PlacesOK, Lifecycle, ErrorsBounded, [Next]_vars
  PROVE  ErrorsBounded'
<1>1. CASE Posting
  BY CommMgrAssumption, <1>1 DEF Posting, PostChecks, PostPushes, PostReleases, Running,
      managerVars, workerVars, queueVars, CreateConnectionPoint, AcceptConnection,
      CloseConnection, PlacesOK, Lifecycle, WorkersHaveServent, ErrorsBounded
<1>2. CASE Sending
  BY CommMgrAssumption, <1>2 DEF Sending, SenderWakes, SenderYields, SenderWrites,
      SenderWrote, SenderFails, Running, managerVars, workerVars, queueVars,
      CreateConnectionPoint, AcceptConnection, CloseConnection, PlacesOK, Lifecycle,
      WorkersHaveServent, ErrorsBounded
<1>3. CASE Receiving
  BY CommMgrAssumption, <1>3 DEF Receiving, ReceiverReads, ReceiverRead, ReceiverFails,
      ReceiverProcesses, ReceiverReleases, Running, managerVars, workerVars, queueVars,
      CreateConnectionPoint, AcceptConnection, CloseConnection, PlacesOK, Lifecycle,
      WorkersHaveServent, ErrorsBounded
<1>4. CASE Cleaning
  BY CommMgrAssumption, <1>4 DEF Cleaning, StopSender, StopReceiver, CloseServent, Running,
      managerVars, workerVars, queueVars, CreateConnectionPoint, AcceptConnection,
      CloseConnection, PlacesOK, Lifecycle, WorkersHaveServent, ErrorsBounded
<1>5. CASE Managing
  BY CommMgrAssumption, <1>5 DEF Managing, ManagerCleans, ManagerEnds, ManagerInitializes,
      ManagerFails, ManagerConnects, ManagerStarts, ManagerReports, Running, managerVars,
      workerVars, queueVars, CreateConnectionPoint, AcceptConnection, CloseConnection,
      PlacesOK, Lifecycle, WorkersHaveServent, ErrorsBounded
<1>6. CASE Destroying
  BY CommMgrAssumption, <1>6 DEF Destroying, Destroy, StopManager, Destroyed, Running,
      managerVars, workerVars, queueVars, CreateConnectionPoint, AcceptConnection,
      CloseConnection, PlacesOK, Lifecycle, WorkersHaveServent, ErrorsBounded
<1>7. CASE Break
  BY CommMgrAssumption, <1>7 DEF Break, Running, managerVars, workerVars, queueVars,
      CreateConnectionPoint, AcceptConnection, CloseConnection, PlacesOK, Lifecycle,
      WorkersHaveServent, ErrorsBounded
<1>8. CASE UNCHANGED vars
  BY CommMgrAssumption, <1>8 DEF vars, Running, managerVars, workerVars, queueVars,
      CreateConnectionPoint, AcceptConnection, CloseConnection, PlacesOK, Lifecycle,
      WorkersHaveServent, ErrorsBounded
<1>9. QED
  BY <1>1, <1>2, <1>3, <1>4, <1>5, <1>6, <1>7, <1>8 DEF Next

-------------------------------------------------------------------------------
(* The queue and what was written                                               *)

LEMMA PushKeepsOrder ==
  ASSUME Ordered, Push, UNCHANGED written
  PROVE  Ordered' /\ queue' # <<>>
<1>1. /\ pushed \in Nat /\ pushed' = pushed + 1 /\ pushed + 1 <= MaxPosts
      /\ queue' = Append(queue, pushed + 1) /\ written' = written
  BY CommMgrAssumption DEF Ordered, Push
<1>2. /\ queue \in Seq(1..MaxPosts) /\ written \in Seq(1..MaxPosts)
      /\ Len(queue) \in Nat /\ Len(written) \in Nat
  BY DEF Ordered
<1>3. pushed + 1 \in 1..MaxPosts
  BY <1>1, CommMgrAssumption
<1>4. /\ queue' \in Seq(1..MaxPosts) /\ Len(queue') = Len(queue) + 1
      /\ \A i \in 1..Len(queue) : queue'[i] = queue[i]
      /\ queue'[Len(queue) + 1] = pushed + 1
  BY <1>1, <1>2, <1>3
<1>5. \A i \in 1..Len(queue) : queue[i] \in Nat /\ queue[i] <= pushed
  BY <1>2, CommMgrAssumption DEF Ordered
<1>6. \A i \in 1..Len(written) : written[i] \in Nat /\ written[i] <= pushed
  BY <1>2, CommMgrAssumption DEF Ordered
<1>7. pushed' \in 0..MaxPosts
  BY <1>1, CommMgrAssumption
<1>8. \A i \in 1..Len(queue') : queue'[i] <= pushed'
  BY <1>1, <1>2, <1>4, <1>5
<1>9. \A i \in 1..Len(written') : written'[i] <= pushed'
  BY <1>1, <1>6
<1>10. \A i, j \in 1..Len(queue') : i < j => queue'[i] < queue'[j]
  <2> SUFFICES ASSUME NEW i \in 1..Len(queue'), NEW j \in 1..Len(queue'), i < j
               PROVE  queue'[i] < queue'[j]
    OBVIOUS
  <2>1. i \in 1..Len(queue) /\ queue'[i] = queue[i]
    BY <1>2, <1>4
  <2>2. CASE j \in 1..Len(queue)
    BY <1>4, <2>1, <2>2 DEF Ordered
  <2>3. CASE j = Len(queue) + 1
    BY <1>1, <1>4, <1>5, <2>1, <2>3
  <2>4. QED
    BY <1>2, <1>4, <2>2, <2>3
<1>11. SentOnceInOrder'
  <2>1. \A i \in 1..Len(written), j \in 1..Len(queue') : written[i] < queue'[j]
    BY <1>1, <1>2, <1>4, <1>6 DEF Ordered, SentOnceInOrder
  <2>2. QED
    BY <1>1, <2>1 DEF Ordered, SentOnceInOrder
<1>12. queue' # <<>>
  BY <1>2, <1>4, EmptySeq
<1>13. QED
  BY <1>1, <1>2, <1>4, <1>7, <1>8, <1>9, <1>10, <1>11, <1>12 DEF Ordered

LEMMA WriteKeepsOrder ==
  ASSUME Ordered, queue # <<>>, UNCHANGED pushed,
         written' = Append(written, Head(queue)), queue' = Tail(queue)
  PROVE  Ordered'
<1>1. /\ pushed \in 0..MaxPosts /\ pushed \in Nat /\ pushed' = pushed
      /\ queue \in Seq(1..MaxPosts) /\ written \in Seq(1..MaxPosts)
      /\ Len(queue) \in Nat /\ Len(written) \in Nat
  BY CommMgrAssumption DEF Ordered
<1>2. Len(queue) >= 1
  BY <1>1, EmptySeq
<1>3. Head(queue) = queue[1] /\ queue[1] \in 1..MaxPosts
  <2>1. queue[1] \in 1..MaxPosts
    <3>1. 1 \in 1..Len(queue)
      BY <1>1, <1>2
    <3>2. QED
      BY <1>1, <3>1, ElementOfSeq
  <2>2. Head(queue) = queue[1]
    BY <1>1, <1>2
  <2>3. QED
    BY <2>1, <2>2
<1>4. /\ written' \in Seq(1..MaxPosts) /\ Len(written') = Len(written) + 1
      /\ \A i \in 1..Len(written) : written'[i] = written[i]
      /\ written'[Len(written) + 1] = queue[1]
  BY <1>1, <1>3
<1>5. /\ queue' \in Seq(1..MaxPosts) /\ Len(queue') = Len(queue) - 1
      /\ \A i \in 1..(Len(queue) - 1) : queue'[i] = queue[i + 1]
  BY <1>1, <1>2
<1>6. \A i \in 1..Len(queue) : queue[i] \in Nat /\ queue[i] <= pushed
  BY <1>1, CommMgrAssumption DEF Ordered
<1>7. \A i \in 1..Len(written) : written[i] \in Nat /\ written[i] <= pushed
  BY <1>1, CommMgrAssumption DEF Ordered
<1>8. \A i \in 1..Len(queue') : queue'[i] <= pushed'
  BY <1>1, <1>2, <1>5, <1>6
<1>9. \A i \in 1..Len(written') : written'[i] <= pushed'
  BY <1>1, <1>2, <1>4, <1>6, <1>7
<1>10. \A i, j \in 1..Len(queue') : i < j => queue'[i] < queue'[j]
  <2> SUFFICES ASSUME NEW i \in 1..Len(queue'), NEW j \in 1..Len(queue'), i < j
               PROVE  queue'[i] < queue'[j]
    OBVIOUS
  <2>1. i + 1 \in 1..Len(queue) /\ j + 1 \in 1..Len(queue) /\ i + 1 < j + 1
    BY <1>1, <1>2, <1>5
  <2>2. queue[i + 1] < queue[j + 1]
    BY <2>1 DEF Ordered
  <2>3. queue'[i] = queue[i + 1] /\ queue'[j] = queue[j + 1]
    BY <1>5
  <2>4. QED
    BY <2>2, <2>3
<1>11. SentOnceInOrder'
  <2>1. \A i, j \in 1..Len(written') : i < j => written'[i] < written'[j]
    <3> SUFFICES ASSUME NEW i \in 1..Len(written'), NEW j \in 1..Len(written'), i < j
                 PROVE  written'[i] < written'[j]
      OBVIOUS
    <3>1. i \in 1..Len(written) /\ 1 \in 1..Len(queue) /\ written'[i] = written[i]
      BY <1>1, <1>2, <1>4
    <3>2. CASE j \in 1..Len(written)
      <4>1. written[i] < written[j]
        BY <3>1, <3>2 DEF Ordered, SentOnceInOrder
      <4>2. written'[j] = written[j]
        BY <1>4, <3>2
      <4>3. QED
        BY <3>1, <4>1, <4>2
    <3>3. CASE j = Len(written) + 1
      <4>1. written[i] < queue[1]
        BY <3>1 DEF Ordered, SentOnceInOrder
      <4>2. written'[j] = queue[1]
        BY <1>4, <3>3
      <4>3. QED
        BY <3>1, <4>1, <4>2
    <3>4. j \in 1..Len(written) \/ j = Len(written) + 1
      BY <1>1, <1>4
    <3>5. QED
      BY <3>2, <3>3, <3>4
  <2>2. \A i \in 1..Len(written'), j \in 1..Len(queue') : written'[i] < queue'[j]
    <3> SUFFICES ASSUME NEW i \in 1..Len(written'), NEW j \in 1..Len(queue')
                 PROVE  written'[i] < queue'[j]
      OBVIOUS
    <3>1. j + 1 \in 1..Len(queue) /\ 1 \in 1..Len(queue) /\ 1 < j + 1 /\ queue'[j] = queue[j + 1]
      BY <1>1, <1>2, <1>5
    <3>2. CASE i \in 1..Len(written)
      BY <1>4, <3>1, <3>2 DEF Ordered, SentOnceInOrder
    <3>3. CASE i = Len(written) + 1
      BY <1>4, <3>1, <3>3 DEF Ordered
    <3>4. QED
      BY <1>1, <1>4, <3>2, <3>3
  <2>3. QED
    BY <2>1, <2>2 DEF SentOnceInOrder
<1>12. QED
  BY <1>1, <1>4, <1>5, <1>8, <1>9, <1>10, <1>11 DEF Ordered

LEMMA ResetKeepsOrder ==
  ASSUME Ordered, Reset, UNCHANGED <<written, pushed>>
  PROVE  Ordered'
<1>1. queue' = <<>> /\ written' = written /\ pushed' = pushed
  BY DEF Reset
<1>2. queue' \in Seq(1..MaxPosts) /\ Len(queue') = 0
  BY <1>1, EmptySeq
<1>3. QED
  BY <1>1, <1>2 DEF Ordered, SentOnceInOrder

LEMMA OrderKept ==
  ASSUME Ordered, UNCHANGED <<queue, written, pushed>>
  PROVE  Ordered'
  BY DEF Ordered, SentOnceInOrder

\* Only the sender takes messages from the queue, after it has written them.
LEMMA OrderStep ==
  ASSUME TookOne, Ordered, [Next]_vars
  PROVE  Ordered'
<1>1. CASE Posting
  <2>1. CASE PostPushes
    BY <2>1, PushKeepsOrder, OrderKept DEF PostPushes
  <2>2. CASE PostChecks \/ PostReleases
    BY <2>2, OrderKept DEF PostChecks, PostReleases, queueVars
  <2>3. QED
    BY <1>1, <2>1, <2>2 DEF Posting
<1>2. CASE Sending
  <2>1. CASE SenderWrote
    BY <2>1, WriteKeepsOrder DEF SenderWrote, TookOne
  <2>2. CASE SenderWakes \/ SenderYields \/ SenderWrites \/ SenderFails
    BY <2>2, OrderKept DEF SenderWakes, SenderYields, SenderWrites, SenderFails, queueVars
  <2>3. QED
    BY <1>2, <2>1, <2>2 DEF Sending
<1>3. CASE Receiving
  <2>1. CASE ReceiverProcesses
    BY <2>1, PushKeepsOrder, OrderKept DEF ReceiverProcesses
  <2>2. CASE ReceiverReads \/ ReceiverRead \/ ReceiverFails \/ ReceiverReleases
    BY <2>2, OrderKept
       DEF ReceiverReads, ReceiverRead, ReceiverFails, ReceiverReleases, queueVars
  <2>3. QED
    BY <1>3, <2>1, <2>2 DEF Receiving
<1>4. CASE Cleaning
  <2>1. CASE CloseServent
    BY <2>1, ResetKeepsOrder DEF CloseServent
  <2>2. CASE StopSender \/ StopReceiver
    BY <2>2, OrderKept DEF StopSender, StopReceiver, queueVars
  <2>3. QED
    BY <1>4, <2>1, <2>2 DEF Cleaning
<1>5. CASE Managing
  BY <1>5, OrderKept DEF Managing, ManagerCleans, ManagerEnds, ManagerInitializes,
      ManagerFails, ManagerConnects, ManagerStarts, ManagerReports, queueVars
<1>6. CASE Destroying
  BY <1>6, OrderKept DEF Destroying, Destroy, StopManager, Destroyed, queueVars
<1>7. CASE Break
  BY <1>7, OrderKept DEF Break, queueVars
<1>8. CASE UNCHANGED vars
  BY <1>8, OrderKept DEF vars, queueVars
<1>9. QED
  BY <1>1, <1>2, <1>3, <1>4, <1>5, <1>6, <1>7, <1>8 DEF Next

\* Nobody else takes the message the sender was woken for: the queue is emptied
\* only after the sender has been stopped.
LEMMA TookOneStep ==
  ASSUME Lifecycle, TookOne, Ordered, [Next]_vars
  PROVE  TookOne'
<1>1. CASE Posting
  <2>1. CASE PostPushes
    BY <2>1, PushKeepsOrder DEF PostPushes, workerVars, TookOne
  <2>2. CASE PostChecks \/ PostReleases
    BY <2>2 DEF PostChecks, PostReleases, workerVars, queueVars, TookOne
  <2>3. QED
    BY <1>1, <2>1, <2>2 DEF Posting
<1>2. CASE Sending
  BY <1>2 DEF Sending, SenderWakes, SenderYields, SenderWrites, SenderWrote, SenderFails,
      managerVars, workerVars, queueVars, Lifecycle, TookOne
<1>3. CASE Receiving
  <2>1. CASE ReceiverProcesses
    BY <2>1, PushKeepsOrder DEF ReceiverProcesses, TookOne
  <2>2. CASE ReceiverReads \/ ReceiverRead \/ ReceiverFails \/ ReceiverReleases
    BY <2>2 DEF ReceiverReads, ReceiverRead, ReceiverFails, ReceiverReleases, queueVars, TookOne
  <2>3. QED
    BY <1>3, <2>1, <2>2 DEF Receiving
<1>4. CASE Cleaning
  BY <1>4 DEF Cleaning, StopSender, StopReceiver, CloseServent, managerVars, workerVars,
      queueVars, Lifecycle, TookOne
<1>5. CASE Managing
  BY <1>5 DEF Managing, ManagerCleans, ManagerEnds, ManagerInitializes, ManagerFails,
      ManagerConnects, ManagerStarts, ManagerReports, managerVars, workerVars, queueVars,
      Lifecycle, TookOne
<1>6. CASE Destroying
  BY <1>6 DEF Destroying, Destroy, StopManager, Destroyed, managerVars, workerVars,
      queueVars, Lifecycle, TookOne
<1>7. CASE Break
  BY <1>7 DEF Break, managerVars, workerVars, queueVars, Lifecycle, TookOne
<1>8. CASE UNCHANGED vars
  BY <1>8 DEF vars, managerVars, workerVars, queueVars, Lifecycle, TookOne
<1>9. QED
  BY <1>1, <1>2, <1>3, <1>4, <1>5, <1>6, <1>7, <1>8 DEF Next

-------------------------------------------------------------------------------
(* The theorems                                                                 *)

THEOREM Invariance == Spec => []Inv
<1>1. Inv /\ [Next]_vars => Inv'
  BY PlacesStep, LifecycleStep, SemaphoreStep, ErrorsStep, OrderStep, TookOneStep DEF Inv
<1>2. QED
  BY <1>1, InvInit, PTL DEF Spec

\* The count of the semaphore never exceeds its maximum, and the manager gives
\* up after INITERRORS_THRESHOLD + 1 failures in a row.
THEOREM CommTypeCorrect == Spec => []CommTypeOK
<1>1. Inv => CommTypeOK
  <2> SUFFICES ASSUME Inv PROVE CommTypeOK
    OBVIOUS
  <2>1. errors \in 0..(INITERRORS_THRESHOLD + 1)
    BY CommMgrAssumption DEF Inv, ErrorsBounded
  <2>2. QED
    BY <2>1 DEF Inv, PlacesOK, SemaphoreOK, Ordered, CommTypeOK
<1>2. QED
  BY <1>1, Invariance, PTL

\* Wherever a thread is terminated and whenever the destructor is called, no
\* thread runs on without the servent it reads and writes.
THEOREM WorkersCorrect == Spec => []WorkersHaveServent
<1>1. Inv => WorkersHaveServent
  BY DEF Inv, Lifecycle
<1>2. QED
  BY <1>1, Invariance, PTL

\* Over any number of connections, and with a queue of any size, no message is
\* written twice or before an earlier one.
THEOREM SentInOrder == Spec => []SentOnceInOrder
<1>1. Inv => SentOnceInOrder
  BY DEF Inv, Ordered
<1>2. QED
  BY <1>1, Invariance, PTL
================================================================================
