-------------------------------- MODULE CommMgr --------------------------------
(***************************************************************************)
(* The life of a CommunicationsManager (gw6c-messaging, Windows build): a  *)
(* manager thread that connects, watches the connection's state and starts *)
(* over when it is lost, the sender and receiver threads of a connection,  *)
(* the threads that post messages (the program's own, and the receiver     *)
(* when it answers a request), and the destructor.  What a thread does on  *)
(* the pipe is one step here; Servent has the detail.                      *)
(***************************************************************************)
EXTENDS Naturals, Sequences

CONSTANTS
  INITERRORS_THRESHOLD,  \* failed initializations in a row that are accepted
  MAX_QUEUE_ITEMS,       \* messages that may wait in the send queue
  MaxPosts,              \* bound: messages posted
  MaxBreaks              \* bound: connections lost

ASSUME CommMgrAssumption ==
  /\ INITERRORS_THRESHOLD \in Nat
  /\ MAX_QUEUE_ITEMS \in Nat
  /\ MaxPosts \in Nat
  /\ MaxBreaks \in Nat

VARIABLES
  state,        \* m_eManagerStatus
  errors,       \* nErrorCount of the manager thread
  manager,      \* where CommunicationsManager::Work is
  owner,        \* where the program is with its manager object
  cleanup,      \* where _CleanupInstance is
  ipc,          \* m_IPCServent: none, made (not connected), up or broken
  sender,       \* where SenderThread::Work is
  receiver,     \* where ReceiverThread::Work is
  mutex,        \* who holds m_pSemIPCMutex
  poster,       \* where the program's thread is in PostMessage
  queue,        \* m_SendQueue; messages are numbered as they are pushed
  count,        \* the count of m_pSemaphore
  pushed,       \* messages pushed so far
  written,      \* messages written to the pipe, in order
  breaks        \* connections lost so far

managerVars == <<errors, manager>>
workerVars == <<sender, receiver, mutex>>
queueVars == <<queue, count, pushed>>
vars == <<state, managerVars, owner, cleanup, ipc, workerVars, poster, queueVars, written, breaks>>

Running == owner # "aborted"

\* SetState: the sender's queue is open while the manager is connected.
Enabled == state = "CONNECTED" /\ Len(queue) < MAX_QUEUE_ITEMS

Push ==
  /\ pushed < MaxPosts
  /\ queue' = Append(queue, pushed + 1)
  /\ pushed' = pushed + 1

\* Reset: the queue is emptied, with a new semaphore.
Reset == queue' = <<>> /\ count' = 0

\* The server end of the pipe: created, connected to, closed.
CreateConnectionPoint == ipc' = "made"
AcceptConnection == ipc' = "up"
CloseConnection == ipc' = "none"

\* Mutant: the semaphore has no maximum.
Release_Unbounded == count + 1

\* ReleaseLock fails on a semaphore at its maximum.
Release == IF count < MAX_QUEUE_ITEMS THEN count + 1 ELSE count

-------------------------------------------------------------------------------
(* PostMessage: the check, the push and the release of the semaphore           *)

PostChecks ==
  /\ Running /\ owner = "alive" /\ poster = "idle" /\ Enabled /\ pushed < MaxPosts
  /\ poster' = "checked"
  /\ UNCHANGED <<state, managerVars, owner, cleanup, ipc, workerVars, queueVars, written, breaks>>

PostPushes ==
  /\ Running /\ poster = "checked"
  /\ IF pushed < MaxPosts THEN Push /\ poster' = "pushed"
                          ELSE poster' = "idle" /\ UNCHANGED <<queue, pushed>>
  /\ UNCHANGED <<state, managerVars, owner, cleanup, ipc, workerVars, count, written, breaks>>

PostReleases ==
  /\ Running /\ poster = "pushed"
  /\ count' = Release
  /\ poster' = "idle"
  /\ UNCHANGED <<state, managerVars, owner, cleanup, ipc, workerVars, queue, pushed, written, breaks>>

-------------------------------------------------------------------------------
(* SenderThread::Work                                                          *)

\* ShouldStop says no and a message is announced; the assertion that there is
\* one may fail, which ends the process.
SenderWakes ==
  /\ Running /\ sender = "wait" /\ cleanup # "sender" /\ count > 0
  /\ count' = count - 1
  /\ IF queue # <<>> THEN sender' = "took" /\ UNCHANGED owner
                     ELSE owner' = "aborted" /\ UNCHANGED sender
  /\ UNCHANGED <<state, managerVars, cleanup, ipc, receiver, mutex, poster, queue, pushed, written, breaks>>

\* Something is to be read first: the message is given back.
SenderYields ==
  /\ Running /\ sender = "took" /\ mutex = "free" /\ ipc = "up"
  /\ sender' = "wait"
  /\ count' = Release
  /\ UNCHANGED <<state, managerVars, owner, cleanup, ipc, receiver, mutex, poster, queue, pushed, written, breaks>>

SenderWrites ==
  /\ Running /\ sender = "took" /\ mutex = "free" /\ ipc = "up"
  /\ sender' = "writing"
  /\ mutex' = "sender"
  /\ UNCHANGED <<state, managerVars, owner, cleanup, ipc, receiver, poster, queueVars, written, breaks>>

\* Mutant: the message that was written stays in the queue.
SenderWrote_Keeps ==
  /\ Running /\ sender = "writing" /\ ipc = "up"
  /\ sender' = "wait"
  /\ mutex' = "free"
  /\ written' = Append(written, Head(queue))
  /\ UNCHANGED <<state, managerVars, owner, cleanup, ipc, receiver, poster, queueVars, breaks>>

SenderWrote ==
  /\ Running /\ sender = "writing" /\ ipc = "up"
  /\ sender' = "wait"
  /\ mutex' = "free"
  /\ written' = Append(written, Head(queue))
  /\ queue' = Tail(queue)
  /\ UNCHANGED <<state, managerVars, owner, cleanup, ipc, receiver, poster, count, pushed, breaks>>

\* The pipe is broken, or the mutex is not got within MUTEX_TIMEOUT.
SenderFails ==
  /\ Running
  /\ \/ sender = "took" /\ (ipc = "broken" \/ mutex # "free") /\ UNCHANGED mutex
     \/ sender = "writing" /\ ipc = "broken" /\ mutex' = "free"
  /\ sender' = "failed"
  /\ state' = "DISCONNECTED"
  /\ UNCHANGED <<managerVars, owner, cleanup, ipc, receiver, poster, queueVars, written, breaks>>

-------------------------------------------------------------------------------
(* ReceiverThread::Work                                                        *)

ReceiverReads ==
  /\ Running /\ receiver = "peek" /\ cleanup # "receiver" /\ mutex = "free" /\ ipc = "up"
  /\ receiver' = "reading"
  /\ mutex' = "receiver"
  /\ UNCHANGED <<state, managerVars, owner, cleanup, ipc, sender, poster, queueVars, written, breaks>>

ReceiverRead ==
  /\ Running /\ receiver = "reading"
  /\ receiver' = "process"
  /\ mutex' = "free"
  /\ UNCHANGED <<state, managerVars, owner, cleanup, ipc, sender, poster, queueVars, written, breaks>>

ReceiverFails ==
  /\ Running
  /\ \/ receiver = "peek" /\ ((mutex = "free" /\ ipc = "broken") \/ sender = "writing") /\ UNCHANGED mutex
     \/ receiver = "reading" /\ ipc = "broken" /\ mutex' = "free"
  /\ receiver' = "failed"
  /\ state' = "DISCONNECTED"
  /\ UNCHANGED <<managerVars, owner, cleanup, ipc, sender, poster, queueVars, written, breaks>>

\* ProcessMessage: the message is not a request, or its answer is posted.
ReceiverProcesses ==
  /\ Running /\ receiver = "process"
  /\ \/ receiver' = "peek" /\ UNCHANGED <<queue, pushed>>
     \/ Enabled /\ Push /\ receiver' = "pushed"
  /\ UNCHANGED <<state, managerVars, owner, cleanup, ipc, sender, mutex, poster, count, written, breaks>>

ReceiverReleases ==
  /\ Running /\ receiver = "pushed"
  /\ receiver' = "peek"
  /\ count' = Release
  /\ UNCHANGED <<state, managerVars, owner, cleanup, ipc, sender, mutex, poster, queue, pushed, written, breaks>>

-------------------------------------------------------------------------------
(* _CleanupInstance, by the manager thread or the destructor                   *)

\* ThreadWrapper::Stop: a thread that has not ended after 200 ms is terminated
\* where it is: a mutex it holds stays locked, a message it pushed is not
\* announced.
StopSender ==
  /\ Running /\ cleanup = "sender"
  /\ sender' = "none"
  /\ cleanup' = "receiver"
  /\ UNCHANGED <<state, managerVars, owner, ipc, receiver, mutex, poster, queueVars, written, breaks>>

\* Mutant: the receiver is left running when it is in the pipe.
StopReceiver_Leaves ==
  /\ Running /\ cleanup = "receiver"
  /\ receiver' = IF receiver = "reading" THEN receiver ELSE "none"
  /\ cleanup' = "servent"
  /\ UNCHANGED <<state, managerVars, owner, ipc, sender, mutex, poster, queueVars, written, breaks>>

StopReceiver ==
  /\ Running /\ cleanup = "receiver"
  /\ receiver' = "none"
  /\ cleanup' = "servent"
  /\ UNCHANGED <<state, managerVars, owner, ipc, sender, mutex, poster, queueVars, written, breaks>>

\* The servent is closed and deleted; MessageSender::Reset.
CloseServent ==
  /\ Running /\ cleanup = "servent"
  /\ CloseConnection /\ Reset
  /\ cleanup' = "done"
  /\ UNCHANGED <<state, managerVars, owner, workerVars, poster, pushed, written, breaks>>

-------------------------------------------------------------------------------
(* CommunicationsManager::Work                                                 *)

ManagerCleans ==
  /\ Running /\ manager = "check" /\ owner = "alive" /\ state = "DISCONNECTED"
  /\ manager' = "clean"
  /\ cleanup' = "sender"
  /\ UNCHANGED <<state, errors, owner, ipc, workerVars, poster, queueVars, written, breaks>>

\* The quit event, or a fatal error.
ManagerEnds ==
  /\ Running /\ manager = "check" /\ (owner # "alive" \/ state = "FATALERROR")
  /\ manager' = "ended"
  /\ UNCHANGED <<state, errors, owner, cleanup, ipc, workerVars, poster, queueVars, written, breaks>>

ManagerInitializes ==
  /\ Running /\ manager = "clean" /\ cleanup = "done"
  /\ manager' = "connect"
  /\ cleanup' = "idle"
  /\ state' = "PENDINGCONNECTION"
  /\ CreateConnectionPoint
  /\ UNCHANGED <<errors, owner, workerVars, poster, queueVars, written, breaks>>

ManagerFails ==
  /\ Running /\ manager = "connect"
  /\ errors' = errors + 1
  /\ state' = IF errors' > INITERRORS_THRESHOLD THEN "FATALERROR" ELSE "DISCONNECTED"
  /\ manager' = "check"
  /\ UNCHANGED <<owner, cleanup, ipc, workerVars, poster, queueVars, written, breaks>>

\* The peer connects: AcceptConnection, or Connect, returns.
ManagerConnects ==
  /\ Running /\ manager = "connect"
  /\ AcceptConnection
  /\ sender' = "wait"
  /\ manager' = "start"
  /\ UNCHANGED <<state, errors, owner, cleanup, receiver, mutex, poster, queueVars, written, breaks>>

ManagerStarts ==
  /\ Running /\ manager = "start"
  /\ receiver' = "peek"
  /\ manager' = "started"
  /\ UNCHANGED <<state, errors, owner, cleanup, ipc, sender, mutex, poster, queueVars, written, breaks>>

\* Whatever a thread has reported meanwhile.
ManagerReports ==
  /\ Running /\ manager = "started"
  /\ state' = "CONNECTED"
  /\ errors' = 0
  /\ manager' = "check"
  /\ UNCHANGED <<owner, cleanup, ipc, workerVars, poster, queueVars, written, breaks>>

Break ==
  /\ Running /\ ipc = "up" /\ breaks < MaxBreaks
  /\ ipc' = "broken"
  /\ breaks' = breaks + 1
  /\ UNCHANGED <<state, managerVars, owner, cleanup, workerVars, poster, queueVars, written>>

-------------------------------------------------------------------------------
(* The destructor, called by the thread that posts                             *)

Destroy ==
  /\ Running /\ owner = "alive" /\ poster = "idle"
  /\ owner' = "stop"
  /\ UNCHANGED <<state, managerVars, cleanup, ipc, workerVars, poster, queueVars, written, breaks>>

\* Mutant: the thread is joined, never terminated, as where threads are POSIX threads.
StopManager_Joins ==
  /\ Running /\ owner = "stop" /\ manager = "ended"
  /\ owner' = "clean"
  /\ cleanup' = "sender"
  /\ UNCHANGED <<state, managerVars, ipc, workerVars, poster, queueVars, written, breaks>>

\* Stop of the manager thread: it has ended, or is terminated where it is.
StopManager ==
  /\ Running /\ owner = "stop"
  /\ manager' = "ended"
  /\ owner' = "clean"
  /\ cleanup' = "sender"
  /\ UNCHANGED <<state, errors, ipc, workerVars, poster, queueVars, written, breaks>>

Destroyed ==
  /\ Running /\ owner = "clean" /\ cleanup = "done"
  /\ owner' = "gone"
  /\ cleanup' = "idle"
  /\ UNCHANGED <<state, managerVars, ipc, workerVars, poster, queueVars, written, breaks>>

-------------------------------------------------------------------------------
Init ==
  /\ state = "DISCONNECTED" /\ errors = 0 /\ manager = "check"
  /\ owner = "alive" /\ cleanup = "idle" /\ ipc = "none"
  /\ sender = "none" /\ receiver = "none" /\ mutex = "free" /\ poster = "idle"
  /\ queue = <<>> /\ count = 0 /\ pushed = 0 /\ written = <<>> /\ breaks = 0

Posting == PostChecks \/ PostPushes \/ PostReleases
Sending == SenderWakes \/ SenderYields \/ SenderWrites \/ SenderWrote \/ SenderFails
Receiving ==
  ReceiverReads \/ ReceiverRead \/ ReceiverFails \/ ReceiverProcesses \/ ReceiverReleases
Cleaning == StopSender \/ StopReceiver \/ CloseServent
Managing ==
  \/ ManagerCleans \/ ManagerEnds \/ ManagerInitializes \/ ManagerFails
  \/ ManagerConnects \/ ManagerStarts \/ ManagerReports
Destroying == Destroy \/ StopManager \/ Destroyed

Next == Posting \/ Sending \/ Receiving \/ Cleaning \/ Managing \/ Destroying \/ Break

Spec == Init /\ [][Next]_vars

\* Threads go on while they can; a peer need not connect, the pipe may stay
\* full and a message may never be completed, so what depends on the other
\* process is not fair.
FairSpec ==
  /\ Spec
  /\ WF_vars(SenderWakes \/ SenderYields \/ SenderFails)
  /\ WF_vars(ReceiverProcesses \/ ReceiverReleases \/ ReceiverFails)
  /\ WF_vars(Cleaning)
  /\ WF_vars(ManagerInitializes \/ ManagerStarts \/ ManagerReports)
  /\ WF_vars(StopManager \/ Destroyed)

-------------------------------------------------------------------------------
(* Properties                                                                  *)

\* The states of the threads, of the queue and its semaphore.
CommTypeOK ==
  /\ state \in {"DISCONNECTED", "PENDINGCONNECTION", "CONNECTED", "FATALERROR"}
  /\ errors \in 0..(INITERRORS_THRESHOLD + 1)
  /\ manager \in {"check", "clean", "connect", "start", "started", "ended"}
  /\ owner \in {"alive", "stop", "clean", "gone", "aborted"}
  /\ cleanup \in {"idle", "sender", "receiver", "servent", "done"}
  /\ ipc \in {"none", "made", "up", "broken"}
  /\ sender \in {"none", "wait", "took", "writing", "failed"}
  /\ receiver \in {"none", "peek", "reading", "process", "pushed", "failed"}
  /\ mutex \in {"free", "sender", "receiver"}
  /\ poster \in {"idle", "checked", "pushed"}
  /\ queue \in Seq(1..MaxPosts) /\ written \in Seq(1..MaxPosts)
  /\ count \in 0..MAX_QUEUE_ITEMS /\ pushed \in 0..MaxPosts /\ breaks \in 0..MaxBreaks

\* The two threads live only while the servent they read and write exists, and
\* none survives the destructor: _CleanupInstance stops them first.
WorkersHaveServent ==
  /\ ipc \in {"none", "made"} => sender = "none" /\ receiver = "none"
  /\ owner = "gone" => ipc = "none" /\ manager = "ended"

\* A message is written at most once and never before an earlier one, over all
\* the connections of the manager.
SentOnceInOrder ==
  /\ \A i, j \in 1..Len(written) : i < j => written[i] < written[j]
  /\ \A i \in 1..Len(written), j \in 1..Len(queue) : written[i] < queue[j]

\* The destructor returns, even while the manager waits for a peer or a thread
\* is stuck in the pipe.
DestructorEnds == owner = "stop" ~> owner \in {"gone", "aborted"}
===============================================================================
