-------------------------------- MODULE Servent --------------------------------
(***************************************************************************)
(* The data path between the client and its GUI (gw6c-messaging): two      *)
(* processes at the ends of a duplex pipe, and in each a SenderThread and  *)
(* a ReceiverThread that share the I/O mutex of a Servent.  A message is   *)
(* cut into packets of numbered fragments, written to a pipe that holds    *)
(* Room packets and blocks its writer when full, and put together again    *)
(* on the other side.  The threads of a side that has lost its connection  *)
(* are stopped, by force when they are blocked, and a new connection made. *)
(***************************************************************************)
EXTENDS Naturals, Sequences

CONSTANTS
  Side,           \* the client and the GUI
  MaxParts,       \* fragments of the longest message (63)
  Room,           \* packets a pipe holds in each direction (65000 bytes)
  SeqNums,        \* message sequence numbers (64)
  MaxMessages,    \* bound: messages a side posts on a connection
  MaxConnections  \* bound: connections made

ASSUME ServentAssumption ==
  /\ \E a, b \in Side : a # b /\ Side = {a, b}
  /\ MaxParts \in Nat \ {0}
  /\ Room \in Nat /\ Room >= MaxParts
  /\ SeqNums \in Nat \ {0}
  /\ MaxMessages \in Nat
  /\ MaxConnections \in Nat \ {0}

VARIABLES
  posted,       \* posted[s]: messages pushed on m_SendQueue, oldest first
  sent,         \* how many of them have been popped again
  count,        \* the count of the queue's semaphore
  sPC,          \* where SenderThread::Work is
  rPC,          \* where ReceiverThread::Work is
  mutex,        \* who holds m_pSemIPCMutex
  part,         \* nFragSeqNum of _WriteData: fragments already written
  nSeqNum,      \* the static message sequence number of the process
  reading,      \* _ReadData's nLastSeqNum, nLastFragSeqNum and buffer
  retCode,      \* the error a thread of this side has stopped with
  delivered,    \* messages given to ProcessMessage
  pipe,         \* pipe[s]: packets s has written that are not read yet
  link,         \* is the pipe whole?
  connections   \* connections made so far

senderVars == <<posted, sent, count, sPC, part, nSeqNum>>
receiverVars == <<rPC, reading, delivered>>
vars == <<senderVars, receiverVars, mutex, retCode, pipe, link, connections>>

Other(s) == CHOOSE o \in Side : o # s

-------------------------------------------------------------------------------
(* Messages and packets                                                        *)

\* A message is the sequence of the pieces its fragments carry; it is told
\* from the others by who posted it and as which.
Pieces(s, id, n) == [i \in 1..n |-> <<s, id, i>>]
Message == {Pieces(s, id, n) : s \in Side, id \in 1..MaxMessages, n \in 1..MaxParts}

\* The message at the head of the queue of s, and the packet that comes next.
Current(s) == posted[s][sent[s] + 1]

\* Mutant: the last of several fragments is not told from the first.
PacketType_NoLast(n, len) == IF n + 1 < len /\ n > 0 THEN "FRAG" ELSE "NONFRAG"

PacketType(n, len) ==
  IF n + 1 < len THEN IF n = 0 THEN "FIRST" ELSE "FRAG"
  ELSE IF n = 0 THEN "NONFRAG" ELSE "LAST"

\* Mutant: a sequence number that advances with every packet.
MakePacket_SeqPerPacket(s) ==
  [type |-> PacketType(part[s], Len(Current(s))), seq |-> (nSeqNum[s] + part[s]) % SeqNums,
   frag |-> part[s], data |-> Current(s)[part[s] + 1]]

MakePacket(s) ==
  [type |-> PacketType(part[s], Len(Current(s))), seq |-> nSeqNum[s],
   frag |-> part[s], data |-> Current(s)[part[s] + 1]]

\* Mutant: a sequence number that does not wrap.
NextSeqNum_NoWrap(n) == n + 1

NextSeqNum(n) == (n + 1) % SeqNums

EndsMessage(packet) == packet.type \in {"NONFRAG", "LAST"}

INVALID_SEQNUM == SeqNums + MaxParts
NothingRead == [seq |-> INVALID_SEQNUM, frag |-> INVALID_SEQNUM, data |-> <<>>]

\* What _ReadData returns for this packet.
PacketError(s, packet) ==
  CASE reading[s].seq \notin {INVALID_SEQNUM, packet.seq} -> "IPCDESYNCHRONIZED"
    [] reading[s].frag \notin {INVALID_SEQNUM, packet.frag - 1} -> "PACKETSNOTORDERED"
    [] Len(reading[s].data) >= MaxParts -> "READBUFFERTOOSMALL"
    [] OTHER -> "NOERROR"

-------------------------------------------------------------------------------
(* The pipe                                                                    *)

Inbound(s) == pipe[Other(s)]

\* WriteFile and ReadFile on a pipe of messages; ReadFile takes what was
\* written before the other end was closed.
Write(s, packet) ==
  /\ link = "up" /\ Len(pipe[s]) < Room
  /\ pipe' = [pipe EXCEPT ![s] = Append(@, packet)]
Read(s) ==
  /\ Inbound(s) # <<>>
  /\ pipe' = [pipe EXCEPT ![Other(s)] = Tail(@)]
Connect == link' = "up" /\ pipe' = [s \in Side |-> <<>>]
Disconnect == link' = "broken"

-------------------------------------------------------------------------------
\* m_eManagerStatus = STATE_CONNECTED
Connected(s) == sPC[s] \notin {"failed", "none"} /\ rPC[s] \notin {"failed", "none"}

Stop(PC, s, code) ==
  /\ PC' = [PC EXCEPT ![s] = "failed"]
  /\ retCode' = [retCode EXCEPT ![s] = code]

Unlock(s) == mutex' = [mutex EXCEPT ![s] = "free"]
Lock(s, thread) ==
  /\ mutex[s] = "free"
  /\ mutex' = [mutex EXCEPT ![s] = thread]

\* The holder of the mutex makes no progress for MUTEX_TIMEOUT: the receiver
\* waits for the rest of a message, the sender for room in the pipe, or the
\* holder was terminated.
Stalled(s) ==
  \/ mutex[s] = "receiver" /\ (rPC[s] = "reading" => Inbound(s) = <<>>)
  \/ mutex[s] = "sender" /\ (sPC[s] = "writing" => Len(pipe[s]) = Room)

-------------------------------------------------------------------------------
(* The two threads                                                             *)

PostMessage(s, n) ==
  /\ Connected(s)
  /\ Len(posted[s]) < MaxMessages
  /\ posted' = [posted EXCEPT ![s] = Append(@, Pieces(s, Len(@) + 1, n))]
  /\ count' = [count EXCEPT ![s] = @ + 1]
  /\ UNCHANGED <<sent, sPC, part, nSeqNum, receiverVars, mutex, retCode, pipe, link, connections>>

\* WaitAndLock on the semaphore of the queue.
SenderWakes(s) ==
  /\ sPC[s] = "wait" /\ count[s] > 0
  /\ count' = [count EXCEPT ![s] = @ - 1]
  /\ sPC' = [sPC EXCEPT ![s] = "peek"]
  /\ UNCHANGED <<posted, sent, part, nSeqNum, receiverVars, mutex, retCode, pipe, link, connections>>

\* Mutant: a sender that does not give the message back to the semaphore.
SenderYields_Forgets(s) ==
  /\ sPC[s] = "peek" /\ mutex[s] = "free" /\ Inbound(s) # <<>>
  /\ sPC' = [sPC EXCEPT ![s] = "wait"]
  /\ UNCHANGED <<posted, sent, count, part, nSeqNum, receiverVars, mutex, retCode, pipe, link, connections>>

\* Servent::CanRead of the sender: with something to read it gives the message
\* back to the semaphore; a mutex it does not get in time reads as "nothing".
SenderYields(s) ==
  /\ sPC[s] = "peek" /\ mutex[s] = "free" /\ Inbound(s) # <<>>
  /\ count' = [count EXCEPT ![s] = @ + 1]
  /\ sPC' = [sPC EXCEPT ![s] = "wait"]
  /\ UNCHANGED <<posted, sent, part, nSeqNum, receiverVars, mutex, retCode, pipe, link, connections>>

\* Mutant: a sender that does not look for incoming messages first.
NothingToRead_Unchecked(s) == mutex[s] = "free" \/ Stalled(s)

NothingToRead(s) == (mutex[s] = "free" /\ Inbound(s) = <<>> /\ link = "up") \/ Stalled(s)

SenderMayWrite(s) ==
  /\ sPC[s] = "peek" /\ NothingToRead(s)
  /\ sPC' = [sPC EXCEPT ![s] = "write"]
  /\ UNCHANGED <<posted, sent, count, part, nSeqNum, receiverVars, mutex, retCode, pipe, link, connections>>

SenderLocks(s) ==
  /\ sPC[s] = "write" /\ Lock(s, "sender")
  /\ sPC' = [sPC EXCEPT ![s] = "writing"]
  /\ part' = [part EXCEPT ![s] = 0]
  /\ UNCHANGED <<posted, sent, count, nSeqNum, receiverVars, retCode, pipe, link, connections>>

\* A pass of the loop of _WriteData; the last one returns, pops the message
\* and advances the sequence number.
WritePacket(s) ==
  /\ sPC[s] = "writing"
  /\ Write(s, MakePacket(s))
  /\ part' = [part EXCEPT ![s] = @ + 1]
  /\ IF EndsMessage(MakePacket(s))
     THEN /\ Unlock(s)
          /\ sPC' = [sPC EXCEPT ![s] = "wait"]
          /\ sent' = [sent EXCEPT ![s] = @ + 1]
          /\ nSeqNum' = [nSeqNum EXCEPT ![s] = NextSeqNum(@)]
     ELSE UNCHANGED <<mutex, sPC, sent, nSeqNum>>
  /\ UNCHANGED <<posted, count, receiverVars, retCode, link, connections>>

\* The peek or the write fails, or the mutex is not got in time.
SenderFails(s) ==
  /\ \/ /\ sPC[s] = "peek" /\ mutex[s] = "free" /\ link = "broken"
        /\ Stop(sPC, s, "PEEKPIPEFAILED") /\ UNCHANGED mutex
     \/ /\ sPC[s] = "writing" /\ link = "broken"
        /\ Stop(sPC, s, "WRITEPIPEFAILED") /\ Unlock(s)
     \/ /\ sPC[s] = "write" /\ Stalled(s)
        /\ Stop(sPC, s, "IOWAITTIMEOUT") /\ UNCHANGED mutex
  /\ UNCHANGED <<posted, sent, count, part, nSeqNum, receiverVars, pipe, link, connections>>

ReceiverMayRead(s) ==
  /\ rPC[s] = "peek" /\ mutex[s] = "free" /\ Inbound(s) # <<>>
  /\ rPC' = [rPC EXCEPT ![s] = "read"]
  /\ UNCHANGED <<reading, delivered, senderVars, mutex, retCode, pipe, link, connections>>

ReceiverLocks(s) ==
  /\ rPC[s] = "read" /\ Lock(s, "receiver")
  /\ rPC' = [rPC EXCEPT ![s] = "reading"]
  /\ reading' = [reading EXCEPT ![s] = NothingRead]
  /\ UNCHANGED <<delivered, senderVars, retCode, pipe, link, connections>>

\* A pass of the loop of _ReadData.
ReadPacket(s) ==
  /\ rPC[s] = "reading" /\ Read(s)
  /\ LET packet == Head(Inbound(s)) IN
     /\ IF PacketError(s, packet) # "NOERROR"
        THEN Stop(rPC, s, PacketError(s, packet)) /\ Unlock(s) /\ UNCHANGED reading
        ELSE /\ reading' = [reading EXCEPT ![s] =
                  [seq |-> packet.seq, frag |-> packet.frag, data |-> Append(@.data, packet.data)]]
             /\ IF EndsMessage(packet)
                THEN Unlock(s) /\ rPC' = [rPC EXCEPT ![s] = "process"]
                ELSE UNCHANGED <<mutex, rPC>>
             /\ UNCHANGED retCode
  /\ UNCHANGED <<delivered, senderVars, link, connections>>

ReceiverFails(s) ==
  /\ \/ /\ rPC[s] = "peek" /\ mutex[s] = "free" /\ link = "broken" /\ Inbound(s) = <<>>
        /\ Stop(rPC, s, "PEEKPIPEFAILED") /\ UNCHANGED mutex
     \/ /\ rPC[s] = "reading" /\ link = "broken" /\ Inbound(s) = <<>>
        /\ Stop(rPC, s, "PEEKPIPEFAILED") /\ Unlock(s)
     \/ /\ rPC[s] = "read" /\ Stalled(s)
        /\ Stop(rPC, s, "IOWAITTIMEOUT") /\ UNCHANGED mutex
  /\ UNCHANGED <<reading, delivered, senderVars, pipe, link, connections>>

ProcessMessage(s) ==
  /\ rPC[s] = "process"
  /\ delivered' = [delivered EXCEPT ![s] = Append(@, reading[s].data)]
  /\ rPC' = [rPC EXCEPT ![s] = "peek"]
  /\ UNCHANGED <<reading, senderVars, mutex, retCode, pipe, link, connections>>

-------------------------------------------------------------------------------
(* Losing and making a connection                                              *)

\* _CleanupInstance stops the sender, then the receiver: a thread that does
\* not come to its ShouldStop within 200 ms is terminated where it is blocked,
\* and does not unlock the mutex it may hold.
StopSender(s) ==
  /\ sPC[s] # "none" /\ ~Connected(s)
  /\ \/ sPC[s] \in {"wait", "failed"}
     \/ sPC[s] \in {"peek", "write"} /\ mutex[s] # "free"
     \/ sPC[s] = "writing" /\ Len(pipe[s]) = Room /\ link = "up"
  /\ sPC' = [sPC EXCEPT ![s] = "none"]
  /\ UNCHANGED <<posted, sent, count, part, nSeqNum, receiverVars, mutex, retCode, pipe, link, connections>>

StopReceiver(s) ==
  /\ sPC[s] = "none" /\ rPC[s] # "none"
  /\ \/ rPC[s] \in {"peek", "process", "failed"}
     \/ rPC[s] = "read" /\ mutex[s] # "free"
     \/ rPC[s] = "reading" /\ Inbound(s) = <<>> /\ link = "up"
  /\ rPC' = [rPC EXCEPT ![s] = "none"]
  /\ Disconnect     \* m_IPCServent->UnInitialize
  /\ UNCHANGED <<reading, delivered, senderVars, mutex, retCode, pipe, connections>>

\* The process of a side ends; what it has written may still be read, or not.
Crash(s) ==
  /\ Connected(s) /\ connections < MaxConnections
  /\ sPC' = [sPC EXCEPT ![s] = "none"]
  /\ rPC' = [rPC EXCEPT ![s] = "none"]
  /\ mutex' = [mutex EXCEPT ![s] = "free"]
  /\ nSeqNum' = [nSeqNum EXCEPT ![s] = 0]
  /\ link' = "broken"
  /\ pipe' \in {pipe, [pipe EXCEPT ![s] = <<>>]}
  /\ UNCHANGED <<posted, sent, count, part, reading, delivered, retCode, connections>>

\* CommunicationsManager::Initialize on both sides, after MessageSender::Reset.
Reconnect ==
  /\ \A s \in Side : sPC[s] = "none" /\ rPC[s] = "none"
  /\ connections < MaxConnections
  /\ posted' = [s \in Side |-> <<>>]
  /\ sent' = [s \in Side |-> 0]
  /\ count' = [s \in Side |-> 0]
  /\ part' = [s \in Side |-> 0]
  /\ sPC' = [s \in Side |-> "wait"]
  /\ rPC' = [s \in Side |-> "peek"]
  /\ reading' = [s \in Side |-> NothingRead]
  /\ delivered' = [s \in Side |-> <<>>]
  /\ retCode' = [s \in Side |-> "NOERROR"]
  /\ Connect
  /\ connections' = connections + 1
  /\ UNCHANGED <<mutex, nSeqNum>>

Init ==
  /\ posted = [s \in Side |-> <<>>]
  /\ sent = [s \in Side |-> 0]
  /\ count = [s \in Side |-> 0]
  /\ part = [s \in Side |-> 0]
  /\ nSeqNum = [s \in Side |-> 0]
  /\ sPC = [s \in Side |-> "wait"]
  /\ rPC = [s \in Side |-> "peek"]
  /\ mutex = [s \in Side |-> "free"]
  /\ reading = [s \in Side |-> NothingRead]
  /\ retCode = [s \in Side |-> "NOERROR"]
  /\ delivered = [s \in Side |-> <<>>]
  /\ pipe = [s \in Side |-> <<>>]
  /\ link = "up"
  /\ connections = 1

SenderStep(s) ==
  SenderWakes(s) \/ SenderYields(s) \/ SenderMayWrite(s) \/ SenderLocks(s) \/ WritePacket(s) \/ SenderFails(s)

ReceiverStep(s) ==
  ReceiverMayRead(s) \/ ReceiverLocks(s) \/ ReadPacket(s) \/ ReceiverFails(s) \/ ProcessMessage(s)

ManagerStep(s) == StopSender(s) \/ StopReceiver(s)

Next ==
  \/ \E s \in Side :
       \/ SenderStep(s) \/ ReceiverStep(s) \/ ManagerStep(s) \/ Crash(s)
       \/ \E n \in 1..MaxParts : PostMessage(s, n)
  \/ Reconnect

Spec == Init /\ [][Next]_vars

\* Every thread goes on while it can.  Nobody has to post, to crash or to
\* connect again.
FairSpec ==
  /\ Spec
  /\ \A s \in Side : /\ WF_vars(SenderStep(s)) /\ WF_vars(ReceiverStep(s))
                     /\ WF_vars(ManagerStep(s))

-------------------------------------------------------------------------------
(* Properties                                                                  *)

\* The states of the threads, the mutex and the pipe.
ServentTypeOK ==
  /\ posted \in [Side -> UNION {[1..n -> Message] : n \in 0..MaxMessages}]
  /\ sent \in [Side -> 0..MaxMessages] /\ count \in [Side -> 0..MaxMessages]
  /\ sPC \in [Side -> {"wait", "peek", "write", "writing", "failed", "none"}]
  /\ rPC \in [Side -> {"peek", "read", "reading", "process", "failed", "none"}]
  /\ mutex \in [Side -> {"free", "sender", "receiver"}]
  /\ part \in [Side -> 0..MaxParts] /\ nSeqNum \in [Side -> 0..(SeqNums - 1)]
  /\ \A s \in Side : Len(pipe[s]) <= Room /\ Len(reading[s].data) <= MaxParts
  /\ link \in {"up", "broken"} /\ connections \in 1..MaxConnections

\* No reader ever finds the stream out of step: the errors _ReadData calls
\* serious do not occur, whatever happened on earlier connections.
StreamIntact ==
  \A s \in Side : retCode[s] \notin {"IPCDESYNCHRONIZED", "PACKETSNOTORDERED", "READBUFFERTOOSMALL"}

\* The two senders never wait for each other, each blocked on a full pipe with
\* the mutex its own receiver needs: what the sender's CanRead is there for
\* ("a race condition between the sender and receiver threads").
NoStandoff == \E s \in Side : ~(sPC[s] = "writing" /\ Len(pipe[s]) = Room /\ link = "up")

\* The threads and the pipe are a channel that delivers in order, once, whole.
Channel == INSTANCE MessageChannel WITH open <- [s \in Side |-> Connected(s)]
ImplementsChannel == Channel!ChannelSpec

\* The mutex outlives the thread that held it: TerminateThread was its end.
MutexLost(s) ==
  \/ mutex[s] = "sender" /\ sPC[s] # "writing"
  \/ mutex[s] = "receiver" /\ rPC[s] # "reading"

\* What was accepted reaches the other side, all of it once nothing more is
\* posted, unless the connection is lost first (or a thread that was killed
\* has taken the mutex with it).
EverythingDelivered ==
  \A s \in Side :
    Len(delivered[Other(s)]) < Len(posted[s]) ~>
      \/ Len(delivered[Other(s)]) = Len(posted[s])
      \/ \E side \in Side : ~Connected(side) \/ MutexLost(side)
===============================================================================
