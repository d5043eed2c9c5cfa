--------------------------- MODULE ServentProofs ---------------------------
(* Theorems about the data path between the client and its GUI (Servent), for  *)
(* every length of messages, room in the pipe, range of sequence numbers and   *)
(* number of messages and connections.                                         *)
EXTENDS Servent, TLAPS

LEMMA Sides ==
  ASSUME NEW s \in Side
  PROVE  Other(s) \in Side /\ Other(s) # s /\ Other(Other(s)) = s
         /\ \A t \in Side : t = s \/ t = Other(s)
<1>1. PICK a, b \in Side : a # b /\ Side = {a, b}
  BY ServentAssumption
<1>2. Other(a) = b /\ Other(b) = a
  BY <1>1 DEF Other
<1>3. QED
  BY <1>1, <1>2

-----------------------------------------------------------------------------
(* Packets and pipes                                                           *)

Piece == Side \X Nat \X Nat
Packets == [type : {"NONFRAG", "FIRST", "FRAG", "LAST"}, seq : Nat, frag : Nat, data : Piece]

\* The number of the message a packet belongs to
Id(p) == p.data[2]

\* A packet is a piece of a message that s has posted, and says so at the last one.
PacketOK(s, p, messages) ==
  /\ Id(p) \in 1..Len(messages)
  /\ p.frag < Len(messages[Id(p)])
  /\ p.data = <<s, Id(p), p.frag + 1>>
  /\ EndsMessage(p) <=> p.frag + 1 = Len(messages[Id(p)])

\* p is the packet with this number of this message; of a message begun it carries
\* the same sequence number.
At(p, id, frag, seq) == Id(p) = id /\ p.frag = frag /\ (frag > 0 => p.seq = seq)

\* The packet that follows p is the one with this number of this message.
Precedes(p, id, frag, seq) ==
  IF EndsMessage(p) THEN id = Id(p) + 1 /\ frag = 0
  ELSE id = Id(p) /\ frag = p.frag + 1 /\ seq = p.seq

\* The packets of a pipe follow one another.
Chain(s, q, messages) ==
  /\ \A i \in 1..Len(q) : PacketOK(s, q[i], messages)
  /\ \A i \in 1..(Len(q) - 1) : Precedes(q[i], Id(q[i + 1]), q[i + 1].frag, q[i + 1].seq)

Starts(q, id, frag, seq) == Len(q) > 0 => At(q[1], id, frag, seq)
Stops(q, id, frag, seq) == Len(q) > 0 => Precedes(q[Len(q)], id, frag, seq)

LEMMA AppendChain ==
  ASSUME NEW s \in Side, NEW q \in Seq(Packets), NEW p \in Packets, NEW messages,
         NEW id \in Nat, NEW frag \in Nat, NEW seq \in Nat,
         Chain(s, q, messages), PacketOK(s, p, messages), Stops(q, id, frag, seq),
         Id(p) = id, p.frag = frag, p.seq = seq
  PROVE  Chain(s, Append(q, p), messages)
<1> DEFINE r == Append(q, p)
<1>1. Len(r) = Len(q) + 1 /\ r[Len(q) + 1] = p /\ \A i \in 1..Len(q) : r[i] = q[i]
  OBVIOUS
<1> HIDE DEF r
<1>2. \A i \in 1..Len(r) : PacketOK(s, r[i], messages)
  BY <1>1 DEF Chain
<1>3. ASSUME NEW i \in 1..(Len(r) - 1)
      PROVE  Precedes(r[i], Id(r[i + 1]), r[i + 1].frag, r[i + 1].seq)
  <2>1. CASE i = Len(q)
    BY <1>1, <2>1 DEF Stops
  <2>2. CASE i < Len(q)
    <3>1. i \in 1..(Len(q) - 1) /\ i + 1 \in 1..Len(q)
      BY <1>1, <2>2
    <3>2. r[i] = q[i] /\ r[i + 1] = q[i + 1]
      BY <1>1, <2>2, <3>1
    <3>3. QED
      BY <3>1, <3>2 DEF Chain
  <2>3. QED
    BY <1>1, <2>1, <2>2
<1>4. QED
  BY <1>2, <1>3 DEF Chain, r

LEMMA AppendStops ==
  ASSUME NEW q \in Seq(Packets), NEW p \in Packets, NEW id, NEW frag, NEW seq,
         Precedes(p, id, frag, seq)
  PROVE  Stops(Append(q, p), id, frag, seq)
  BY DEF Stops

LEMMA AppendStarts ==
  ASSUME NEW q \in Seq(Packets), NEW p \in Packets, NEW id, NEW frag, NEW seq,
         Starts(q, id, frag, seq), Len(q) = 0 => At(p, id, frag, seq)
  PROVE  Starts(Append(q, p), id, frag, seq)
<1>1. CASE Len(q) = 0
  BY <1>1 DEF Starts
<1>2. CASE Len(q) # 0
  BY <1>2 DEF Starts
<1>3. QED
  BY <1>1, <1>2

LEMMA TailChain ==
  ASSUME NEW s \in Side, NEW q \in Seq(Packets), NEW messages, q # <<>>,
         Chain(s, q, messages)
  PROVE  Chain(s, Tail(q), messages)
<1> DEFINE r == Tail(q)
<1>1. Len(q) \in Nat \ {0} /\ Len(r) = Len(q) - 1 /\ \A i \in 1..Len(r) : r[i] = q[i + 1]
  OBVIOUS
<1> HIDE DEF r
<1>2. \A i \in 1..Len(r) : PacketOK(s, r[i], messages)
  BY <1>1 DEF Chain
<1>3. ASSUME NEW i \in 1..(Len(r) - 1)
      PROVE  Precedes(r[i], Id(r[i + 1]), r[i + 1].frag, r[i + 1].seq)
  <2>1. i + 1 \in 1..(Len(q) - 1) /\ i \in 1..Len(r) /\ i + 1 \in 1..Len(r)
    BY <1>1
  <2>2. r[i] = q[i + 1] /\ r[i + 1] = q[(i + 1) + 1]
    BY <1>1, <2>1
  <2>3. QED
    BY <2>1, <2>2 DEF Chain
<1>4. QED
  BY <1>2, <1>3 DEF Chain, r

LEMMA TailStarts ==
  ASSUME NEW s \in Side, NEW q \in Seq(Packets), NEW messages, q # <<>>,
         Chain(s, q, messages),
         NEW id, NEW frag, NEW seq,
         Precedes(q[1], id, frag, seq) 
  PROVE  Starts(Tail(q), id, frag, seq)
<1> SUFFICES ASSUME Len(Tail(q)) > 0 PROVE At(Tail(q)[1], id, frag, seq)
  BY DEF Starts
<1>1. Len(q) \in Nat /\ Len(q) > 1 /\ Tail(q)[1] = q[2]
  OBVIOUS
<1>2. 1 \in 1..(Len(q) - 1) /\ 1 + 1 = 2
  BY <1>1
<1>3. Precedes(q[1], Id(q[2]), q[2].frag, q[2].seq)
  BY <1>2 DEF Chain
<1>4. QED
  BY <1>1, <1>3 DEF Precedes, At

LEMMA TailStops ==
  ASSUME NEW q \in Seq(Packets), q # <<>>, NEW id, NEW frag, NEW seq,
         Stops(q, id, frag, seq)
  PROVE  Stops(Tail(q), id, frag, seq)
<1> SUFFICES ASSUME Len(Tail(q)) > 0 PROVE Precedes(Tail(q)[Len(Tail(q))], id, frag, seq)
  BY DEF Stops
<1>1. Len(q) \in Nat /\ Len(q) > 1 /\ Len(Tail(q)) = Len(q) - 1
  OBVIOUS
<1>2. Tail(q)[Len(q) - 1] = q[Len(q)]
  BY <1>1
<1>3. QED
  BY <1>1, <1>2 DEF Stops

LEMMA PostChain ==
  ASSUME NEW s \in Side, NEW q \in Seq(Packets), NEW messages \in Seq(Seq(Piece)),
         NEW m \in Seq(Piece), Chain(s, q, messages)
  PROVE  Chain(s, q, Append(messages, m))
<1> DEFINE n == Append(messages, m)
<1>1. Len(n) = Len(messages) + 1 /\ Len(messages) \in Nat
      /\ \A i \in 1..Len(messages) : n[i] = messages[i]
  OBVIOUS
<1> HIDE DEF n
<1>2. ASSUME NEW i \in 1..Len(q) PROVE PacketOK(s, q[i], n)
  <2>1. PacketOK(s, q[i], messages)
    BY DEF Chain
  <2>2. QED
    BY <1>1, <2>1 DEF PacketOK
<1>3. QED
  BY <1>2 DEF Chain, n
-----------------------------------------------------------------------------
(* The invariant                                                               *)

Codes == {"NOERROR", "IPCDESYNCHRONIZED", "PACKETSNOTORDERED", "READBUFFERTOOSMALL",
          "PEEKPIPEFAILED", "WRITEPIPEFAILED", "IOWAITTIMEOUT"}

Types ==
  /\ posted \in [Side -> Seq(Seq(Piece))] /\ delivered \in [Side -> Seq(Seq(Piece))]
  /\ sent \in [Side -> Nat] /\ count \in [Side -> Nat]
  /\ part \in [Side -> Nat] /\ nSeqNum \in [Side -> Nat]
  /\ sPC \in [Side -> {"wait", "peek", "write", "writing", "failed", "none"}]
  /\ rPC \in [Side -> {"peek", "read", "reading", "process", "failed", "none"}]
  /\ mutex \in [Side -> {"free", "sender", "receiver"}]
  /\ retCode \in [Side -> Codes]
  /\ reading \in [Side -> [seq : Nat, frag : Nat, data : Seq(Piece)]]
  /\ pipe \in [Side -> Seq(Packets)]

\* The messages posted are sequences of pieces that name them.
PostedInv(s) ==
  \A i \in 1..Len(posted[s]) :
    /\ Len(posted[s][i]) \in 1..MaxParts
    /\ \A k \in 1..Len(posted[s][i]) : posted[s][i][k] = <<s, i, k>>

SenderLives(s) == sPC[s] \notin {"failed", "none"}
ReceiverLives(s) == rPC[s] \notin {"failed", "none"}

\* Every message that was not written yet is announced by the semaphore or in the
\* hands of the sender, which is in the middle of a message it has not sent.
Holding(s) == IF sPC[s] \in {"peek", "write", "writing"} THEN 1 ELSE 0

WriterInv(s) ==
  /\ SenderLives(s) => sent[s] + count[s] + Holding(s) = Len(posted[s])
  /\ sPC[s] = "writing" => part[s] < Len(posted[s][sent[s] + 1])

\* The message and the packet that s writes next, and that s reads next
WriteId(s) == sent[s] + 1
WriteFrag(s) == IF sPC[s] = "writing" THEN part[s] ELSE 0
ReadId(s) == Len(delivered[s]) + (IF rPC[s] = "process" THEN 2 ELSE 1)
ReadFrag(s) == IF rPC[s] = "reading" THEN Len(reading[s].data) ELSE 0

\* What s has read of the message under way and given to the program
ReaderInv(s) ==
  /\ rPC[s] = "reading" =>
       /\ \A i \in 1..Len(reading[s].data) : reading[s].data[i] = <<Other(s), ReadId(s), i>>
       /\ IF Len(reading[s].data) = 0
          THEN reading[s].seq = INVALID_SEQNUM /\ reading[s].frag = INVALID_SEQNUM
          ELSE reading[s].frag = Len(reading[s].data) - 1
  /\ rPC[s] = "process" =>
       /\ Len(delivered[s]) + 1 <= Len(posted[Other(s)])
       /\ reading[s].data = posted[Other(s)][Len(delivered[s]) + 1]
  /\ Len(delivered[s]) <= Len(posted[Other(s)])
  /\ \A i \in 1..Len(delivered[s]) : delivered[s][i] = posted[Other(s)][i]

\* The pipe that s writes holds what lies between its reader and its writer.
FlowInv(s) ==
  /\ Chain(s, pipe[s], posted[s])
  /\ ReceiverLives(Other(s)) =>
       Starts(pipe[s], ReadId(Other(s)), ReadFrag(Other(s)), reading[Other(s)].seq)
  /\ SenderLives(s) => Stops(pipe[s], WriteId(s), WriteFrag(s), nSeqNum[s])
  /\ ReceiverLives(Other(s)) /\ SenderLives(s) /\ Len(pipe[s]) = 0 =>
       /\ ReadId(Other(s)) = WriteId(s) /\ ReadFrag(Other(s)) = WriteFrag(s)
       /\ WriteFrag(s) > 0 => reading[Other(s)].seq = nSeqNum[s]

ServentInv ==
  /\ Types
  /\ StreamIntact
  /\ \A s \in Side : PostedInv(s) /\ WriterInv(s) /\ ReaderInv(s) /\ FlowInv(s)

-----------------------------------------------------------------------------
(* Packets written and read                                                    *)

LEMMA PacketTypes ==
  ASSUME NEW n \in Nat, NEW len \in Nat, n < len
  PROVE  /\ PacketType(n, len) \in {"NONFRAG", "FIRST", "FRAG", "LAST"}
         /\ PacketType(n, len) \in {"NONFRAG", "LAST"} <=> n + 1 = len
  BY DEF PacketType

LEMMA PacketMade ==
  ASSUME Types, NEW s \in Side, PostedInv(s), WriterInv(s), sPC[s] = "writing"
  PROVE  /\ MakePacket(s) \in Packets
         /\ PacketOK(s, MakePacket(s), posted[s])
         /\ Id(MakePacket(s)) = sent[s] + 1 /\ MakePacket(s).frag = part[s]
         /\ MakePacket(s).seq = nSeqNum[s]
<1>1. sent[s] \in Nat /\ count[s] \in Nat /\ part[s] \in Nat /\ nSeqNum[s] \in Nat
      /\ posted[s] \in Seq(Seq(Piece))
  BY DEF Types
<1>2. sent[s] + 1 \in 1..Len(posted[s]) /\ part[s] < Len(Current(s))
  <2>1. sent[s] + count[s] + 1 = Len(posted[s])
    BY DEF WriterInv, SenderLives, Holding
  <2>2. QED
    BY <1>1, <2>1 DEF WriterInv, Current
<1>3. Current(s) \in Seq(Piece) /\ Len(Current(s)) \in Nat
      /\ Current(s)[part[s] + 1] = <<s, sent[s] + 1, part[s] + 1>>
  <2> DEFINE i == sent[s] + 1
             k == part[s] + 1
  <2>1. i \in 1..Len(posted[s]) /\ Current(s) = posted[s][i]
    BY <1>2 DEF Current
  <2>2. Current(s) \in Seq(Piece)
    BY <1>1, <2>1
  <2>3. Len(Current(s)) \in Nat
    BY <2>2
  <2>4. k \in 1..Len(Current(s))
    BY <1>1, <1>2, <2>3
  <2> HIDE DEF i, k
  <2>5. Current(s)[k] = <<s, i, k>>
    BY <2>1, <2>4 DEF PostedInv
  <2>6. QED
    BY <2>2, <2>3, <2>5 DEF i, k
<1>4. Current(s)[part[s] + 1] \in Piece
  BY <1>1, <1>3 DEF Piece
<1> DEFINE t == PacketType(part[s], Len(Current(s)))
<1>5. t \in {"NONFRAG", "FIRST", "FRAG", "LAST"}
      /\ (t \in {"NONFRAG", "LAST"} <=> part[s] + 1 = Len(Current(s)))
  BY <1>1, <1>2, <1>3, PacketTypes
<1>6. MakePacket(s) = [type |-> t, seq |-> nSeqNum[s], frag |-> part[s],
                       data |-> Current(s)[part[s] + 1]]
  BY DEF MakePacket
<1> HIDE DEF t
<1>7. /\ MakePacket(s) \in Packets
      /\ Id(MakePacket(s)) = sent[s] + 1 /\ MakePacket(s).frag = part[s]
      /\ MakePacket(s).seq = nSeqNum[s] /\ MakePacket(s).data = Current(s)[part[s] + 1]
      /\ EndsMessage(MakePacket(s)) <=> part[s] + 1 = Len(Current(s))
  <2>1. MakePacket(s) \in Packets
    BY <1>1, <1>4, <1>5, <1>6 DEF Packets
  <2>2. /\ MakePacket(s).frag = part[s]
        /\ MakePacket(s).seq = nSeqNum[s] /\ MakePacket(s).data = Current(s)[part[s] + 1]
        /\ MakePacket(s).type = t
    BY <1>6
  <2>3. Id(MakePacket(s)) = sent[s] + 1
    BY <1>3, <2>2 DEF Id
  <2>4. EndsMessage(MakePacket(s)) <=> part[s] + 1 = Len(Current(s))
    BY <1>5, <2>2 DEF EndsMessage
  <2>5. QED
    BY <2>1, <2>2, <2>3, <2>4
<1>8. QED
  BY <1>1, <1>2, <1>3, <1>7 DEF PacketOK, Current

\* The packet at the head of the pipe is the one its reader waits for.
LEMMA PacketRight ==
  ASSUME Types, NEW s \in Side, PostedInv(Other(s)), ReaderInv(s), FlowInv(Other(s)),
         rPC[s] = "reading", Inbound(s) # <<>>
  PROVE  LET p == Head(Inbound(s)) IN
         /\ p \in Packets /\ PacketOK(Other(s), p, posted[Other(s)])
         /\ At(p, ReadId(s), Len(reading[s].data), reading[s].seq)
         /\ Len(reading[s].data) < MaxParts
         /\ PacketError(s, p) = "NOERROR"
<1> DEFINE q == pipe[Other(s)]
           p == Head(Inbound(s))
<1>1. Other(s) \in Side /\ Other(Other(s)) = s
  BY Sides
<1>2. q \in Seq(Packets) /\ q # <<>> /\ Len(q) > 0 /\ p = q[1] /\ p \in Packets
  <2>1. q \in Seq(Packets)
    BY <1>1 DEF Types
  <2>2. q # <<>> /\ p = Head(q)
    BY DEF Inbound
  <2> HIDE DEF q, p
  <2>3. QED
    BY <2>1, <2>2
<1>3. PacketOK(Other(s), p, posted[Other(s)])
  BY <1>1, <1>2 DEF FlowInv, Chain
<1>4. At(p, ReadId(s), Len(reading[s].data), reading[s].seq)
  BY <1>1, <1>2 DEF FlowInv, Starts, ReceiverLives, ReadFrag
<1>5. p.frag = Len(reading[s].data) /\ p.frag \in Nat
  BY <1>2, <1>4 DEF At, Packets
<1>6. Len(reading[s].data) < MaxParts
  <2>1. Len(posted[Other(s)][Id(p)]) \in 1..MaxParts /\ p.frag < Len(posted[Other(s)][Id(p)])
    BY <1>3 DEF PacketOK, PostedInv
  <2>2. QED
    BY <1>5, <2>1, ServentAssumption
<1> HIDE DEF p
<1>7. PacketError(s, p) = "NOERROR"
  <2>1. reading[s].seq \in {INVALID_SEQNUM, p.seq} /\ reading[s].frag \in {INVALID_SEQNUM, p.frag - 1}
    <3>1. CASE Len(reading[s].data) = 0
      BY <3>1 DEF ReaderInv
    <3>2. CASE Len(reading[s].data) # 0
      BY <1>4, <1>5, <3>2 DEF ReaderInv, At
    <3>3. QED
      BY <3>1, <3>2
  <2>2. ~(Len(reading[s].data) >= MaxParts)
    BY <1>5, <1>6, ServentAssumption
  <2>3. QED
    BY <2>1, <2>2, Zenon DEF PacketError
<1>8. QED
  BY <1>2, <1>3, <1>4, <1>6, <1>7 DEF p

-----------------------------------------------------------------------------
(* What a step leaves alone                                                    *)

SenderSame(s) ==
  SenderLives(s)' =>
    /\ SenderLives(s) /\ WriteId(s)' = WriteId(s) /\ WriteFrag(s)' = WriteFrag(s)
    /\ nSeqNum'[s] = nSeqNum[s]

ReceiverSame(s) ==
  ReceiverLives(s)' =>
    /\ ReceiverLives(s) /\ ReadId(s)' = ReadId(s) /\ ReadFrag(s)' = ReadFrag(s)
    /\ ReadFrag(s) > 0 => reading'[s].seq = reading[s].seq

LEMMA FlowFrame ==
  ASSUME NEW s \in Side, FlowInv(s), pipe'[s] = pipe[s], Chain(s, pipe[s], posted[s])',
         SenderSame(s), ReceiverSame(Other(s))
  PROVE  FlowInv(s)'
<1>1. Chain(s, pipe[s], posted[s])'
  OBVIOUS
<1>2. ASSUME ReceiverLives(Other(s))'
      PROVE  Starts(pipe[s], ReadId(Other(s)), ReadFrag(Other(s)), reading[Other(s)].seq)'
  BY <1>2 DEF FlowInv, ReceiverSame, Starts, At
<1>3. ASSUME SenderLives(s)'
      PROVE  Stops(pipe[s], WriteId(s), WriteFrag(s), nSeqNum[s])'
  BY <1>3 DEF FlowInv, SenderSame, Stops
<1>4. ASSUME ReceiverLives(Other(s))', SenderLives(s)', Len(pipe'[s]) = 0
      PROVE  /\ (ReadId(Other(s)) = WriteId(s))' /\ (ReadFrag(Other(s)) = WriteFrag(s))'
             /\ WriteFrag(s)' > 0 => reading'[Other(s)].seq = nSeqNum'[s]
  BY <1>4 DEF FlowInv, ReceiverSame, SenderSame
<1>5. QED
  BY <1>1, <1>2, <1>3, <1>4 DEF FlowInv

LEMMA EmptyFlow ==
  ASSUME NEW s \in Side, pipe'[s] = <<>>, ~SenderLives(s)'
  PROVE  FlowInv(s)'
BY DEF FlowInv, Chain, Starts, Stops

-----------------------------------------------------------------------------
(* The invariant is inductive                                                  *)

LEMMA SameSequence ==
  ASSUME NEW S, NEW a \in Seq(S), NEW b \in Seq(S), Len(a) = Len(b),
         \A i \in 1..Len(a) : a[i] = b[i]
  PROVE  a = b
OBVIOUS

\* What is read is the packet the reader waits for, and no error.
LEMMA PacketRead ==
  ASSUME ServentInv, NEW a \in Side, ReadPacket(a)
  PROVE  LET p == Head(Inbound(a)) IN
         /\ p \in Packets /\ PacketOK(Other(a), p, posted[Other(a)])
         /\ At(p, ReadId(a), Len(reading[a].data), reading[a].seq)
         /\ Len(reading[a].data) < MaxParts
         /\ retCode' = retCode
         /\ reading' = [reading EXCEPT ![a] =
              [seq |-> p.seq, frag |-> p.frag, data |-> Append(reading[a].data, p.data)]]
         /\ rPC' = IF EndsMessage(p) THEN [rPC EXCEPT ![a] = "process"] ELSE rPC
         /\ mutex' = IF EndsMessage(p) THEN [mutex EXCEPT ![a] = "free"] ELSE mutex
<1>1. Other(a) \in Side /\ rPC[a] = "reading" /\ Inbound(a) # <<>>
  BY Sides DEF ReadPacket, Read
<1> DEFINE p == Head(Inbound(a))
<1>2. /\ p \in Packets /\ PacketOK(Other(a), p, posted[Other(a)])
      /\ At(p, ReadId(a), Len(reading[a].data), reading[a].seq)
      /\ Len(reading[a].data) < MaxParts
      /\ PacketError(a, p) = "NOERROR"
  BY <1>1, PacketRight DEF ServentInv
<1> HIDE DEF p
<1>3. reading \in [Side -> [seq : Nat, frag : Nat, data : Seq(Piece)]]
  BY DEF ServentInv, Types
<1>4. /\ retCode' = retCode
      /\ reading' = [reading EXCEPT ![a] =
              [seq |-> p.seq, frag |-> p.frag, data |-> Append(@.data, p.data)]]
      /\ IF EndsMessage(p) THEN Unlock(a) /\ rPC' = [rPC EXCEPT ![a] = "process"]
                           ELSE UNCHANGED <<mutex, rPC>>
  BY <1>2, Zenon DEF ReadPacket, p
<1>5. /\ rPC' = IF EndsMessage(p) THEN [rPC EXCEPT ![a] = "process"] ELSE rPC
      /\ mutex' = IF EndsMessage(p) THEN [mutex EXCEPT ![a] = "free"] ELSE mutex
  BY <1>4 DEF Unlock
<1>6. QED
  BY <1>2, <1>3, <1>4, <1>5 DEF p

LEMMA TypesStep == ServentInv /\ [Next]_vars => Types'
<1> SUFFICES ASSUME ServentInv, [Next]_vars PROVE Types'
  OBVIOUS
<1>u. Types
  BY DEF ServentInv
<1> USE <1>u
<1>1. ASSUME NEW a \in Side, SenderWakes(a) PROVE Types'
  <2>1. count[a] \in Nat /\ count[a] > 0
    BY <1>1 DEF senderVars, receiverVars, Types, SenderWakes
  <2>2. count[a] - 1 \in Nat
    BY <2>1
  <2>3. count' \in [Side -> Nat]
    BY <1>1, <2>2 DEF senderVars, receiverVars, SenderWakes, Types
  <2>4. QED
    BY <1>1, <2>3 DEF senderVars, receiverVars, SenderWakes, Types
<1>2. ASSUME NEW a \in Side, SenderYields(a) PROVE Types'
  <2>1. count \in [Side -> Nat]
    BY DEF Types
  <2>2. count' \in [Side -> Nat]
    BY <1>2, <2>1 DEF SenderYields
  <2>3. QED
    BY <1>2, <2>2 DEF SenderYields, Types, receiverVars
<1>3. ASSUME NEW a \in Side, SenderMayWrite(a) PROVE Types'
  BY <1>3 DEF SenderMayWrite, Types, Codes, senderVars, receiverVars
<1>4. ASSUME NEW a \in Side, SenderLocks(a) PROVE Types'
  BY <1>4 DEF SenderLocks, Lock, Types, Codes, senderVars, receiverVars
<1>5. ASSUME NEW a \in Side, WritePacket(a) PROVE Types'
  <2>1. MakePacket(a) \in Packets
    BY <1>5, PacketMade DEF senderVars, receiverVars, ServentInv, WritePacket
  <2>2. nSeqNum[a] \in Nat /\ sent[a] \in Nat
    BY DEF senderVars, receiverVars, Types
  <2>3. ASSUME NEW n \in Nat PROVE NextSeqNum(n) \in Nat
    BY ServentAssumption DEF senderVars, receiverVars, NextSeqNum
  <2>4. NextSeqNum(nSeqNum[a]) \in Nat /\ sent[a] + 1 \in Nat
    BY <2>2, <2>3
  <2>5. sent' \in [Side -> Nat] /\ nSeqNum' \in [Side -> Nat]
    <3>1. sent \in [Side -> Nat] /\ nSeqNum \in [Side -> Nat]
      BY DEF Types
    <3>2. \/ sent' = sent /\ nSeqNum' = nSeqNum
          \/ /\ sent' = [sent EXCEPT ![a] = sent[a] + 1]
             /\ nSeqNum' = [nSeqNum EXCEPT ![a] = NextSeqNum(nSeqNum[a])]
      BY <1>5 DEF WritePacket
    <3>3. QED
      BY <2>4, <3>1, <3>2
  <2>6. sPC' \in [Side -> {"wait", "peek", "write", "writing", "failed", "none"}]
        /\ mutex' \in [Side -> {"free", "sender", "receiver"}]
    BY <1>5 DEF senderVars, receiverVars, Types, WritePacket, Unlock
  <2>7. pipe' \in [Side -> Seq(Packets)]
    BY <1>5, <2>1 DEF senderVars, receiverVars, WritePacket, Write, Types
  <2>8. part' \in [Side -> Nat]
    BY <1>5 DEF senderVars, receiverVars, WritePacket, Types
  <2>9. QED
    BY <1>5, <2>7, <2>8, <2>5, <2>6 DEF senderVars, receiverVars, Types, WritePacket
<1>6. ASSUME NEW a \in Side, SenderFails(a) PROVE Types'
  BY <1>6 DEF SenderFails, Stop, Unlock, Types, Codes, senderVars, receiverVars
<1>7. ASSUME NEW a \in Side, ReceiverMayRead(a) PROVE Types'
  BY <1>7 DEF ReceiverMayRead, Types, Codes, senderVars, receiverVars
<1>8. ASSUME NEW a \in Side, ReceiverLocks(a) PROVE Types'
  <2>1. NothingRead \in [seq : Nat, frag : Nat, data : Seq(Piece)]
    BY ServentAssumption DEF senderVars, receiverVars, NothingRead, INVALID_SEQNUM
  <2>2. QED
    BY <1>8, <2>1 DEF senderVars, receiverVars, ReceiverLocks, Lock, Types
<1>9. ASSUME NEW a \in Side, ReadPacket(a) PROVE Types'
  <2>1. PICK p \in Packets :
          /\ reading' = [reading EXCEPT ![a] =
              [seq |-> p.seq, frag |-> p.frag, data |-> Append(reading[a].data, p.data)]]
          /\ rPC' = IF EndsMessage(p) THEN [rPC EXCEPT ![a] = "process"] ELSE rPC
          /\ mutex' = IF EndsMessage(p) THEN [mutex EXCEPT ![a] = "free"] ELSE mutex
          /\ retCode' = retCode
    BY <1>9, PacketRead
  <2>2. p.seq \in Nat /\ p.frag \in Nat /\ p.data \in Piece
    BY DEF senderVars, receiverVars, Packets
  <2>3. Append(reading[a].data, p.data) \in Seq(Piece)
    BY <2>2 DEF senderVars, receiverVars, Types
  <2>4. reading' \in [Side -> [seq : Nat, frag : Nat, data : Seq(Piece)]]
    BY <2>1, <2>2, <2>3 DEF senderVars, receiverVars, Types
  <2>5. pipe' \in [Side -> Seq(Packets)]
    BY <1>9, Sides DEF senderVars, receiverVars, ReadPacket, Read, Inbound, Types
  <2>6. QED
    BY <1>9, <2>1, <2>4, <2>5 DEF senderVars, receiverVars, Types, ReadPacket
<1>10. ASSUME NEW a \in Side, ReceiverFails(a) PROVE Types'
  BY <1>10 DEF ReceiverFails, Stop, Unlock, Types, Codes, senderVars, receiverVars
<1>11. ASSUME NEW a \in Side, ProcessMessage(a) PROVE Types'
  <2>1. reading[a].data \in Seq(Piece)
    BY DEF senderVars, receiverVars, Types
  <2>2. QED
    <3>1. delivered \in [Side -> Seq(Seq(Piece))] /\ delivered[a] \in Seq(Seq(Piece))
      BY DEF Types
    <3>2. delivered' \in [Side -> Seq(Seq(Piece))]
      BY <1>11, <2>1, <3>1 DEF ProcessMessage
    <3>3. QED
      BY <1>11, <3>2 DEF ProcessMessage, Types, senderVars
<1>12. ASSUME NEW a \in Side, StopSender(a) PROVE Types'
  BY <1>12 DEF StopSender, Types, Codes, senderVars, receiverVars
<1>13. ASSUME NEW a \in Side, StopReceiver(a) PROVE Types'
  BY <1>13 DEF StopReceiver, Disconnect, Types, Codes, senderVars, receiverVars
<1>14. ASSUME NEW a \in Side, Crash(a) PROVE Types'
  <2>1. pipe' \in [Side -> Seq(Packets)]
    <3>1. CASE pipe' = pipe
      BY <3>1 DEF senderVars, receiverVars, Types
    <3>2. CASE pipe' = [pipe EXCEPT ![a] = <<>>]
      BY <3>2 DEF senderVars, receiverVars, Types
    <3>3. QED
      BY <1>14, <3>1, <3>2 DEF senderVars, receiverVars, Crash
  <2>2. nSeqNum' \in [Side -> Nat]
    BY <1>14 DEF senderVars, receiverVars, Crash, Types
  <2>3. QED
    BY <1>14, <2>1, <2>2 DEF senderVars, receiverVars, Crash, Types
<1>15. ASSUME NEW a \in Side, NEW n \in 1..MaxParts, PostMessage(a, n) PROVE Types'
  <2>1. Len(posted[a]) + 1 \in Nat
    BY DEF senderVars, receiverVars, Types
  <2>2. Pieces(a, Len(posted[a]) + 1, n) \in Seq(Piece)
    BY <2>1 DEF senderVars, receiverVars, Pieces, Piece
  <2>3. posted' \in [Side -> Seq(Seq(Piece))]
    BY <1>15, <2>2 DEF senderVars, receiverVars, PostMessage, Types
  <2>4. count' \in [Side -> Nat]
    BY <1>15 DEF senderVars, receiverVars, PostMessage, Types
  <2>5. QED
    BY <1>15, <2>3, <2>4 DEF senderVars, receiverVars, PostMessage, Types
<1>16. CASE Reconnect
  <2>1. NothingRead \in [seq : Nat, frag : Nat, data : Seq(Piece)]
    BY ServentAssumption DEF NothingRead, INVALID_SEQNUM
  <2>2. QED
    BY <1>16, <2>1 DEF Reconnect, Connect, Types, Codes
<1>17. CASE UNCHANGED vars
  BY <1>17 DEF Types, vars, senderVars, receiverVars
<1> QED
  BY <1>1, <1>2, <1>3, <1>4, <1>5, <1>6, <1>7, <1>8, <1>9, <1>10,
     <1>11, <1>12, <1>13, <1>14, <1>15, <1>16, <1>17
     DEF Next, SenderStep, ReceiverStep, ManagerStep

LEMMA IntactStep == ServentInv /\ [Next]_vars => StreamIntact'
<1> SUFFICES ASSUME ServentInv, [Next]_vars PROVE StreamIntact'
  OBVIOUS
<1>u. Types /\ StreamIntact
  BY DEF ServentInv
<1> USE <1>u
<1>1. ASSUME NEW a \in Side, SenderWakes(a) PROVE StreamIntact'
  BY <1>1 DEF SenderWakes, StreamIntact, Types, senderVars, receiverVars
<1>2. ASSUME NEW a \in Side, SenderYields(a) PROVE StreamIntact'
  BY <1>2 DEF SenderYields, StreamIntact, Types, senderVars, receiverVars
<1>3. ASSUME NEW a \in Side, SenderMayWrite(a) PROVE StreamIntact'
  BY <1>3 DEF SenderMayWrite, StreamIntact, Types, senderVars, receiverVars
<1>4. ASSUME NEW a \in Side, SenderLocks(a) PROVE StreamIntact'
  BY <1>4 DEF SenderLocks, Lock, StreamIntact, Types, senderVars, receiverVars
<1>5. ASSUME NEW a \in Side, WritePacket(a) PROVE StreamIntact'
  BY <1>5 DEF WritePacket, Write, Unlock, StreamIntact, Types, senderVars, receiverVars
<1>6. ASSUME NEW a \in Side, SenderFails(a) PROVE StreamIntact'
  BY <1>6 DEF SenderFails, Stop, Unlock, StreamIntact, Types, senderVars, receiverVars
<1>7. ASSUME NEW a \in Side, ReceiverMayRead(a) PROVE StreamIntact'
  BY <1>7 DEF ReceiverMayRead, StreamIntact, Types, senderVars, receiverVars
<1>8. ASSUME NEW a \in Side, ReceiverLocks(a) PROVE StreamIntact'
  BY <1>8 DEF ReceiverLocks, Lock, StreamIntact, Types, senderVars, receiverVars
<1>9. ASSUME NEW a \in Side, ReadPacket(a) PROVE StreamIntact'
  BY <1>9, PacketRead DEF StreamIntact
<1>10. ASSUME NEW a \in Side, ReceiverFails(a) PROVE StreamIntact'
  BY <1>10 DEF ReceiverFails, Stop, Unlock, StreamIntact, Types, senderVars, receiverVars
<1>11. ASSUME NEW a \in Side, ProcessMessage(a) PROVE StreamIntact'
  BY <1>11 DEF ProcessMessage, StreamIntact, Types, senderVars, receiverVars
<1>12. ASSUME NEW a \in Side, StopSender(a) PROVE StreamIntact'
  BY <1>12 DEF StopSender, StreamIntact, Types, senderVars, receiverVars
<1>13. ASSUME NEW a \in Side, StopReceiver(a) PROVE StreamIntact'
  BY <1>13 DEF StopReceiver, Disconnect, StreamIntact, Types, senderVars, receiverVars
<1>14. ASSUME NEW a \in Side, Crash(a) PROVE StreamIntact'
  BY <1>14 DEF Crash, StreamIntact, Types, senderVars, receiverVars
<1>15. ASSUME NEW a \in Side, NEW n \in 1..MaxParts, PostMessage(a, n) PROVE StreamIntact'
  BY <1>15 DEF PostMessage, StreamIntact, Types, senderVars, receiverVars
<1>16. CASE Reconnect
  BY <1>16 DEF Reconnect, Connect, StreamIntact, Types, senderVars, receiverVars
<1>17. CASE UNCHANGED vars
  BY <1>17 DEF StreamIntact, Types, senderVars, receiverVars, vars
<1> QED
  BY <1>1, <1>2, <1>3, <1>4, <1>5, <1>6, <1>7, <1>8, <1>9, <1>10,
     <1>11, <1>12, <1>13, <1>14, <1>15, <1>16, <1>17
     DEF Next, SenderStep, ReceiverStep, ManagerStep

\* Only two actions touch what is posted.
LEMMA PostedChanges ==
  ASSUME [Next]_vars
  PROVE  \/ posted' = posted
         \/ \E a \in Side : \E n \in 1..MaxParts : PostMessage(a, n)
         \/ Reconnect
<1>1. ASSUME NEW a \in Side, SenderWakes(a) PROVE posted' = posted
  BY <1>1 DEF SenderWakes, senderVars, receiverVars
<1>2. ASSUME NEW a \in Side, SenderYields(a) PROVE posted' = posted
  BY <1>2 DEF SenderYields, senderVars, receiverVars
<1>3. ASSUME NEW a \in Side, SenderMayWrite(a) PROVE posted' = posted
  BY <1>3 DEF SenderMayWrite, senderVars, receiverVars
<1>4. ASSUME NEW a \in Side, SenderLocks(a) PROVE posted' = posted
  BY <1>4 DEF SenderLocks, Lock, senderVars, receiverVars
<1>5. ASSUME NEW a \in Side, WritePacket(a) PROVE posted' = posted
  BY <1>5 DEF WritePacket, Write, Unlock, senderVars, receiverVars
<1>6. ASSUME NEW a \in Side, SenderFails(a) PROVE posted' = posted
  BY <1>6 DEF SenderFails, Stop, Unlock, senderVars, receiverVars
<1>7. ASSUME NEW a \in Side, ReceiverMayRead(a) PROVE posted' = posted
  BY <1>7 DEF ReceiverMayRead, senderVars, receiverVars
<1>8. ASSUME NEW a \in Side, ReceiverLocks(a) PROVE posted' = posted
  BY <1>8 DEF ReceiverLocks, Lock, senderVars, receiverVars
<1>9. ASSUME NEW a \in Side, ReadPacket(a) PROVE posted' = posted
  BY <1>9 DEF ReadPacket, Read, Stop, Unlock, senderVars, receiverVars
<1>10. ASSUME NEW a \in Side, ReceiverFails(a) PROVE posted' = posted
  BY <1>10 DEF ReceiverFails, Stop, Unlock, senderVars, receiverVars
<1>11. ASSUME NEW a \in Side, ProcessMessage(a) PROVE posted' = posted
  BY <1>11 DEF ProcessMessage, senderVars, receiverVars
<1>12. ASSUME NEW a \in Side, StopSender(a) PROVE posted' = posted
  BY <1>12 DEF StopSender, senderVars, receiverVars
<1>13. ASSUME NEW a \in Side, StopReceiver(a) PROVE posted' = posted
  BY <1>13 DEF StopReceiver, Disconnect, senderVars, receiverVars
<1>14. ASSUME NEW a \in Side, Crash(a) PROVE posted' = posted
  BY <1>14 DEF Crash, senderVars, receiverVars
<1>15. ASSUME NEW a \in Side, NEW n \in 1..MaxParts, PostMessage(a, n)
      PROVE  \E b \in Side : \E m \in 1..MaxParts : PostMessage(b, m)
  BY <1>15
<1>16. ASSUME Reconnect PROVE Reconnect
  BY <1>16
<1>17. CASE UNCHANGED vars
  BY <1>17 DEF senderVars, receiverVars, vars
<1> QED
  BY <1>1, <1>2, <1>3, <1>4, <1>5, <1>6, <1>7, <1>8, <1>9, <1>10,
     <1>11, <1>12, <1>13, <1>14, <1>15, <1>16, <1>17
     DEF Next, SenderStep, ReceiverStep, ManagerStep

\* What a side has posted grows by messages that name themselves.
LEMMA Posting ==
  ASSUME ServentInv, NEW a \in Side, NEW n \in 1..MaxParts, PostMessage(a, n)
  PROVE  LET i == Len(posted[a]) + 1
             m == Pieces(a, i, n) IN
         /\ posted'[a] = Append(posted[a], m) /\ i \in Nat /\ m \in Seq(Piece)
         /\ Len(m) = n /\ \A k \in 1..n : m[k] = <<a, i, k>>
         /\ posted' = [posted EXCEPT ![a] = Append(posted[a], m)]
         /\ posted'[Other(a)] = posted[Other(a)] /\ Len(posted'[a]) = i /\ posted'[a][i] = m
         /\ \A k \in 1..Len(posted[a]) : posted'[a][k] = posted[a][k]
<1> DEFINE i == Len(posted[a]) + 1
           m == Pieces(a, i, n)
<1>1. posted \in [Side -> Seq(Seq(Piece))] /\ posted[a] \in Seq(Seq(Piece)) /\ i \in Nat
      /\ Len(posted[a]) \in Nat
  BY DEF ServentInv, Types
<1> HIDE DEF i
<1>2. m \in Seq(Piece) /\ Len(m) = n /\ \A k \in 1..n : m[k] = <<a, i, k>>
  BY <1>1 DEF Pieces, Piece
<1> HIDE DEF m
<1>3. posted' = [posted EXCEPT ![a] = Append(posted[a], m)]
  BY DEF PostMessage, i, m
<1>4. posted'[a] = Append(posted[a], m) /\ posted'[Other(a)] = posted[Other(a)]
  BY <1>1, <1>3, Sides
<1>5. \A k \in 1..Len(posted[a]) : posted'[a][k] = posted[a][k]
  BY <1>1, <1>2, <1>4
<1>6. Len(posted'[a]) = i /\ posted'[a][i] = m
  BY <1>1, <1>2, <1>4 DEF i
<1>7. QED
  BY <1>1, <1>2, <1>3, <1>4, <1>5, <1>6 DEF i, m

LEMMA PostedStep ==
  ASSUME ServentInv, [Next]_vars, NEW s \in Side
  PROVE  PostedInv(s)'
<1>1. CASE posted' = posted
  BY <1>1 DEF ServentInv, PostedInv
<1>2. ASSUME NEW a \in Side, NEW n \in 1..MaxParts, PostMessage(a, n)
      PROVE  PostedInv(s)'
  <2>1. CASE s = a
    <3> DEFINE i == Len(posted[a]) + 1
               m == Pieces(a, i, n)
    <3>1. /\ i \in Nat /\ Len(posted'[a]) = i /\ posted'[a][i] = m /\ Len(m) = n
          /\ \A k \in 1..n : m[k] = <<a, i, k>>
          /\ \A k \in 1..Len(posted[a]) : posted'[a][k] = posted[a][k]
      BY <1>2, Posting
    <3>2. Len(posted[a]) \in Nat /\ i = Len(posted[a]) + 1
      BY DEF ServentInv, Types
    <3> HIDE DEF i, m
    <3>3. ASSUME NEW j \in 1..Len(posted'[a])
          PROVE  /\ Len(posted'[a][j]) \in 1..MaxParts
                 /\ \A k \in 1..Len(posted'[a][j]) : posted'[a][j][k] = <<a, j, k>>
      <4>1. CASE j = i
        BY <3>1, <4>1
      <4>2. CASE j # i
        <5>1. j \in 1..Len(posted[a]) /\ posted'[a][j] = posted[a][j]
          BY <3>1, <3>2, <4>2
        <5>2. QED
          BY <5>1 DEF ServentInv, PostedInv
      <4>3. QED
        BY <4>1, <4>2
    <3>4. QED
      BY <2>1, <3>3 DEF PostedInv
  <2>2. CASE s # a
    <3>1. posted'[s] = posted[s]
      <4>1. posted \in [Side -> Seq(Seq(Piece))]
        BY DEF ServentInv, Types
      <4>2. PICK q : posted' = [posted EXCEPT ![a] = q]
        BY <1>2 DEF PostMessage
      <4>3. QED
        BY <2>2, <4>1, <4>2
    <3>2. QED
      BY <3>1 DEF ServentInv, PostedInv
  <2>3. QED
    BY <2>1, <2>2
<1>3. CASE Reconnect
  BY <1>3 DEF Reconnect, PostedInv
<1>4. QED
  BY <1>1, <1>2, <1>3, PostedChanges

LEMMA WriterFrame ==
  ASSUME NEW s \in Side, WriterInv(s), posted'[s] = posted[s], sent'[s] = sent[s],
         count'[s] = count[s], part'[s] = part[s],
         sPC'[s] = sPC[s] \/ sPC'[s] \in {"failed", "none"}
  PROVE  WriterInv(s)'
<1>1. CASE sPC'[s] = sPC[s]
  BY <1>1 DEF WriterInv, SenderLives, Holding
<1>2. CASE sPC'[s] \in {"failed", "none"}
  BY <1>2 DEF WriterInv, SenderLives
<1>3. QED
  BY <1>1, <1>2

\* The message in hand has been posted, and is not empty.
LEMMA InHand ==
  ASSUME ServentInv, NEW s \in Side, sPC[s] \in {"peek", "write", "writing"}
  PROVE  sent[s] + 1 \in 1..Len(posted[s]) /\ Len(posted[s][sent[s] + 1]) \in Nat \ {0}
<1>1. sent[s] \in Nat /\ count[s] \in Nat /\ Len(posted[s]) \in Nat
  BY DEF ServentInv, Types
<1>2. sent[s] + count[s] + 1 = Len(posted[s])
  BY DEF ServentInv, WriterInv, SenderLives, Holding
<1>3. sent[s] + 1 \in 1..Len(posted[s])
  BY <1>1, <1>2
<1>4. QED
  BY <1>3, ServentAssumption DEF ServentInv, PostedInv

LEMMA WriterStep ==
  ASSUME ServentInv, [Next]_vars, NEW s \in Side
  PROVE  WriterInv(s)'
<1>u. /\ Types /\ WriterInv(s) /\ PostedInv(s)
      /\ sent[s] \in Nat /\ count[s] \in Nat /\ part[s] \in Nat
      /\ Len(posted[s]) \in Nat
  <2>1. Types /\ WriterInv(s) /\ PostedInv(s)
    BY DEF ServentInv
  <2>2. /\ sent[s] \in Nat /\ count[s] \in Nat /\ part[s] \in Nat
        /\ posted[s] \in Seq(Seq(Piece))
    BY <2>1 DEF Types
  <2>3. QED
    BY <2>1, <2>2
<1>v. sent[s] \in Nat /\ count[s] \in Nat /\ Len(posted[s]) \in Nat
  BY <1>u
<1> USE <1>u
<1>1. ASSUME NEW a \in Side, SenderWakes(a) PROVE WriterInv(s)'
  <2>1. CASE s # a
    BY <1>1, <2>1, WriterFrame DEF SenderWakes, Types, senderVars
  <2>2. CASE s = a
    <3>1. sPC[s] = "wait" /\ sPC'[s] = "peek"
          /\ posted'[s] = posted[s] /\ sent'[s] = sent[s] /\ count'[s] = count[s] - 1
      BY <1>1, <2>2 DEF SenderWakes, Types, senderVars
    <3>2. QED
      BY <3>1 DEF WriterInv, SenderLives, Holding
  <2>3. QED
    BY <2>1, <2>2
<1>2. ASSUME NEW a \in Side, SenderYields(a) PROVE WriterInv(s)'
  <2>1. CASE s # a
    BY <1>2, <2>1, WriterFrame DEF SenderYields, Types, senderVars
  <2>2. CASE s = a
    <3>1. sPC[s] = "peek" /\ sPC'[s] = "wait"
          /\ posted'[s] = posted[s] /\ sent'[s] = sent[s] /\ count'[s] = count[s] + 1
      BY <1>2, <2>2 DEF SenderYields, Types, senderVars
    <3>2. QED
      BY <3>1 DEF WriterInv, SenderLives, Holding
  <2>3. QED
    BY <2>1, <2>2
<1>3. ASSUME NEW a \in Side, SenderMayWrite(a) PROVE WriterInv(s)'
  <2>1. CASE s # a
    BY <1>3, <2>1, WriterFrame DEF SenderMayWrite, Types, senderVars
  <2>2. CASE s = a
    <3>1. sPC[s] = "peek" /\ sPC'[s] = "write"
          /\ posted'[s] = posted[s] /\ sent'[s] = sent[s] /\ count'[s] = count[s]
      BY <1>3, <2>2 DEF SenderMayWrite, Types, senderVars
    <3>2. QED
      BY <3>1 DEF WriterInv, SenderLives, Holding
  <2>3. QED
    BY <2>1, <2>2
<1>4. ASSUME NEW a \in Side, SenderLocks(a) PROVE WriterInv(s)'
  <2>1. CASE s # a
    BY <1>4, <2>1, WriterFrame DEF SenderLocks, Types, senderVars
  <2>2. CASE s = a
    <3>1. sPC[s] = "write" /\ sPC'[s] = "writing"
          /\ posted'[s] = posted[s] /\ sent'[s] = sent[s] /\ count'[s] = count[s] /\ part'[s] = 0
      BY <1>4, <2>2 DEF SenderLocks, Types, senderVars
    <3>2. QED
      BY <3>1, InHand DEF WriterInv, SenderLives, Holding
  <2>3. QED
    BY <2>1, <2>2
<1>5. ASSUME NEW a \in Side, WritePacket(a) PROVE WriterInv(s)'
  <2>1. CASE s # a
    BY <1>5, <2>1, WriterFrame DEF WritePacket, Types, senderVars
  <2>2. CASE s = a
    <3>1. /\ posted'[s] = posted[s] /\ count'[s] = count[s] /\ part'[s] = part[s] + 1
          /\ sPC[s] = "writing"
      BY <1>5, <2>2 DEF WritePacket, Types
    <3>2. CASE EndsMessage(MakePacket(s))
      <4>1. sPC'[s] = "wait" /\ sent'[s] = sent[s] + 1
        BY <1>5, <2>2, <3>2 DEF WritePacket, Types
      <4>2. sent[s] + count[s] + 1 = Len(posted[s])
        BY <3>1 DEF WriterInv, SenderLives, Holding
      <4>3. Holding(s)' = 0 /\ sent'[s] + count'[s] + 0 = Len(posted'[s])
        BY <3>1, <4>1, <4>2 DEF Holding
      <4>4. QED
        BY <4>1, <4>3 DEF WriterInv
    <3>3. CASE ~EndsMessage(MakePacket(s))
      <4>1. sPC'[s] = "writing" /\ sent'[s] = sent[s]
        BY <1>5, <2>2, <3>1, <3>3 DEF WritePacket, Types
      <4>2. part[s] + 1 < Len(posted[s][sent[s] + 1])
        <5>1. /\ PacketOK(s, MakePacket(s), posted[s])
              /\ Id(MakePacket(s)) = sent[s] + 1 /\ MakePacket(s).frag = part[s]
          BY <3>1, PacketMade
        <5>2. part[s] + 1 # Len(posted[s][sent[s] + 1]) /\ part[s] < Len(posted[s][sent[s] + 1])
          BY <3>3, <5>1 DEF PacketOK
        <5>3. QED
          BY <3>1, <5>2, InHand
      <4>3. QED
        BY <3>1, <4>1, <4>2 DEF WriterInv, SenderLives, Holding
    <3>4. QED
      BY <3>2, <3>3
  <2>3. QED
    BY <2>1, <2>2
<1>6. ASSUME NEW a \in Side, SenderFails(a) PROVE WriterInv(s)'
  BY <1>6, WriterFrame DEF SenderFails, Stop, Unlock, Types, senderVars
<1>7. ASSUME NEW a \in Side, ReceiverMayRead(a) PROVE WriterInv(s)'
  BY <1>7, WriterFrame DEF ReceiverMayRead, Types, senderVars
<1>8. ASSUME NEW a \in Side, ReceiverLocks(a) PROVE WriterInv(s)'
  BY <1>8, WriterFrame DEF ReceiverLocks, Lock, Types, senderVars
<1>9. ASSUME NEW a \in Side, ReadPacket(a) PROVE WriterInv(s)'
  BY <1>9, WriterFrame DEF ReadPacket, Read, Stop, Unlock, Types, senderVars
<1>10. ASSUME NEW a \in Side, ReceiverFails(a) PROVE WriterInv(s)'
  BY <1>10, WriterFrame DEF ReceiverFails, Stop, Unlock, Types, senderVars
<1>11. ASSUME NEW a \in Side, ProcessMessage(a) PROVE WriterInv(s)'
  BY <1>11, WriterFrame DEF ProcessMessage, Types, senderVars
<1>12. ASSUME NEW a \in Side, StopSender(a) PROVE WriterInv(s)'
  BY <1>12, WriterFrame DEF StopSender, Types, senderVars
<1>13. ASSUME NEW a \in Side, StopReceiver(a) PROVE WriterInv(s)'
  BY <1>13, WriterFrame DEF StopReceiver, Disconnect, Types, senderVars
<1>14. ASSUME NEW a \in Side, Crash(a) PROVE WriterInv(s)'
  BY <1>14, WriterFrame DEF Crash, Types, senderVars
<1>15. ASSUME NEW a \in Side, NEW n \in 1..MaxParts, PostMessage(a, n) PROVE WriterInv(s)'
  <2>1. CASE s # a
    BY <1>15, <2>1, WriterFrame DEF PostMessage, Types
  <2>2. CASE s = a
    <3>1. /\ sPC'[s] = sPC[s] /\ sent'[s] = sent[s] /\ count'[s] = count[s] + 1
          /\ part'[s] = part[s]
      BY <1>15, <2>2 DEF PostMessage, Types
    <3>2. /\ Len(posted'[s]) = Len(posted[s]) + 1
          /\ \A k \in 1..Len(posted[s]) : posted'[s][k] = posted[s][k]
      BY <1>15, <2>2, Posting
    <3>3. (SenderLives(s) => sent[s] + count[s] + Holding(s) = Len(posted[s]))'
      <4>1. Holding(s)' = Holding(s) /\ SenderLives(s)' = SenderLives(s)
        BY <3>1 DEF Holding, SenderLives
      <4>2. PICK h \in Nat : h = Holding(s)
        BY DEF Holding
      <4>3. SenderLives(s) => sent[s] + count[s] + h = Len(posted[s])
        BY <4>2 DEF WriterInv
      <4>4. ASSUME SenderLives(s)
            PROVE  sent[s] + (count[s] + 1) + h = Len(posted[s]) + 1
        <5>1. sent[s] + count[s] + h = Len(posted[s])
          BY <4>3, <4>4
        <5> HIDE <1>u
        <5>2. QED
          BY <1>v, <5>1
      <4>5. QED
        BY <3>1, <3>2, <4>1, <4>2, <4>4
    <3>4. (sPC[s] = "writing" => part[s] < Len(posted[s][sent[s] + 1]))'
      <4> SUFFICES ASSUME sPC[s] = "writing" PROVE part[s] < Len(posted'[s][sent[s] + 1])
        BY <3>1
      <4>1. sent[s] + 1 \in 1..Len(posted[s])
        BY InHand
      <4>2. posted'[s][sent[s] + 1] = posted[s][sent[s] + 1]
        BY <3>2, <4>1
      <4>3. QED
        BY <4>2 DEF WriterInv
    <3>5. QED
      BY <3>3, <3>4 DEF WriterInv
  <2>3. QED
    BY <2>1, <2>2
<1>16. CASE Reconnect
  <2>1. /\ sPC'[s] = "wait" /\ sent'[s] = 0 /\ count'[s] = 0 /\ posted'[s] = <<>>
    BY <1>16 DEF Reconnect
  <2>2. QED
    BY <2>1 DEF WriterInv, SenderLives, Holding
<1>17. CASE UNCHANGED vars
  BY <1>17, WriterFrame DEF vars, senderVars
<1> QED
  BY <1>1, <1>2, <1>3, <1>4, <1>5, <1>6, <1>7, <1>8, <1>9, <1>10,
     <1>11, <1>12, <1>13, <1>14, <1>15, <1>16, <1>17
     DEF Next, SenderStep, ReceiverStep, ManagerStep

LEMMA ReaderFrame ==
  ASSUME NEW s \in Side, ReaderInv(s), posted'[Other(s)] = posted[Other(s)],
         delivered'[s] = delivered[s], reading'[s] = reading[s],
         rPC'[s] = rPC[s] \/ rPC'[s] \notin {"reading", "process"}
  PROVE  ReaderInv(s)'
<1>1. CASE rPC'[s] = rPC[s]
  BY <1>1 DEF ReaderInv, ReadId, INVALID_SEQNUM
<1>2. CASE rPC'[s] \notin {"reading", "process"}
  BY <1>2 DEF ReaderInv
<1>3. QED
  BY <1>1, <1>2

LEMMA ReaderStep ==
  ASSUME ServentInv, [Next]_vars, NEW s \in Side
  PROVE  ReaderInv(s)'
<1>u. /\ Types /\ ReaderInv(s) /\ Other(s) \in Side /\ Other(s) # s
  BY Sides DEF ServentInv
<1>v. /\ posted[Other(s)] \in Seq(Seq(Piece)) /\ delivered[s] \in Seq(Seq(Piece))
      /\ reading[s] \in [seq : Nat, frag : Nat, data : Seq(Piece)]
  BY <1>u DEF Types
<1>w. /\ Len(posted[Other(s)]) \in Nat /\ Len(delivered[s]) \in Nat
      /\ reading[s].data \in Seq(Piece) /\ Len(reading[s].data) \in Nat
  BY <1>v
<1> USE <1>u
<1>1. ASSUME NEW a \in Side, SenderWakes(a) PROVE ReaderInv(s)'
  BY <1>1, ReaderFrame DEF SenderWakes, Types, receiverVars, senderVars
<1>2. ASSUME NEW a \in Side, SenderYields(a) PROVE ReaderInv(s)'
  BY <1>2, ReaderFrame DEF SenderYields, Types, receiverVars, senderVars
<1>3. ASSUME NEW a \in Side, SenderMayWrite(a) PROVE ReaderInv(s)'
  BY <1>3, ReaderFrame DEF SenderMayWrite, Types, receiverVars, senderVars
<1>4. ASSUME NEW a \in Side, SenderLocks(a) PROVE ReaderInv(s)'
  BY <1>4, ReaderFrame DEF SenderLocks, Lock, Types, receiverVars, senderVars
<1>5. ASSUME NEW a \in Side, WritePacket(a) PROVE ReaderInv(s)'
  BY <1>5, ReaderFrame DEF WritePacket, Write, Unlock, Types, receiverVars, senderVars
<1>6. ASSUME NEW a \in Side, SenderFails(a) PROVE ReaderInv(s)'
  BY <1>6, ReaderFrame DEF SenderFails, Stop, Unlock, Types, receiverVars, senderVars
<1>7. ASSUME NEW a \in Side, ReceiverMayRead(a) PROVE ReaderInv(s)'
  BY <1>7, ReaderFrame DEF ReceiverMayRead, Types, receiverVars, senderVars
<1>8. ASSUME NEW a \in Side, ReceiverLocks(a) PROVE ReaderInv(s)'
  <2>1. CASE s # a
    BY <1>8, <2>1, ReaderFrame DEF ReceiverLocks, Types, receiverVars, senderVars
  <2>2. CASE s = a
    <3>1. /\ rPC'[s] = "reading" /\ reading'[s] = NothingRead /\ delivered'[s] = delivered[s]
          /\ posted' = posted
      BY <1>8, <2>2 DEF ReceiverLocks, Types, senderVars
    <3>2. /\ reading'[s].data = <<>> /\ reading'[s].seq = INVALID_SEQNUM
          /\ reading'[s].frag = INVALID_SEQNUM /\ INVALID_SEQNUM' = INVALID_SEQNUM
      BY <3>1 DEF NothingRead, INVALID_SEQNUM
    <3>3. QED
      BY <3>1, <3>2 DEF ReaderInv
  <2>3. QED
    BY <2>1, <2>2
<1>9. ASSUME NEW a \in Side, ReadPacket(a) PROVE ReaderInv(s)'
  <2>1. CASE s # a
    <3> DEFINE p == Head(Inbound(a))
    <3>0. /\ reading' = [reading EXCEPT ![a] =
              [seq |-> p.seq, frag |-> p.frag, data |-> Append(reading[a].data, p.data)]]
          /\ rPC' = IF EndsMessage(p) THEN [rPC EXCEPT ![a] = "process"] ELSE rPC
      BY <1>9, PacketRead
    <3> HIDE DEF p
    <3>1. reading'[s] = reading[s] /\ rPC'[s] = rPC[s]
      BY <2>1, <3>0 DEF Types
    <3>2. QED
      BY <1>9, <3>1, ReaderFrame DEF ReadPacket, senderVars
  <2>2. CASE s = a
    <3>1. PICK p \in Packets :
            /\ PacketOK(Other(s), p, posted[Other(s)])
            /\ At(p, ReadId(s), Len(reading[s].data), reading[s].seq)
            /\ reading' = [reading EXCEPT ![s] =
                 [seq |-> p.seq, frag |-> p.frag, data |-> Append(reading[s].data, p.data)]]
            /\ rPC' = IF EndsMessage(p) THEN [rPC EXCEPT ![s] = "process"] ELSE rPC
      BY <1>9, <2>2, PacketRead
    <3>2. rPC[s] = "reading" /\ delivered' = delivered /\ posted' = posted
      BY <1>9, <2>2 DEF ReadPacket, senderVars
    <3> DEFINE d == reading[s].data
               r == Append(d, p.data)
               n == Len(d)
               id == Len(delivered[s]) + 1
               messages == posted[Other(s)]
    <3>3. /\ d \in Seq(Piece) /\ n \in Nat /\ p.data \in Piece /\ p.frag \in Nat
          /\ Len(delivered[s]) \in Nat /\ messages \in Seq(Seq(Piece)) /\ Len(messages) \in Nat
      BY <1>v, <1>w DEF Packets
    <3>4. reading'[s] = [seq |-> p.seq, frag |-> p.frag, data |-> r]
      BY <3>1 DEF Types
    <3>5. ReadId(s) = id /\ Id(p) = id /\ p.frag = n
      BY <3>1, <3>2 DEF ReadId, At
    <3>6. /\ id \in 1..Len(messages) /\ n < Len(messages[id]) /\ p.data = <<Other(s), id, n + 1>>
          /\ EndsMessage(p) <=> n + 1 = Len(messages[id])
      BY <3>1, <3>5 DEF PacketOK
    <3>7. \A i \in 1..n : d[i] = <<Other(s), id, i>>
      BY <3>2, <3>5 DEF ReaderInv
    <3>8. r \in Seq(Piece) /\ Len(r) = n + 1 /\ \A i \in 1..Len(r) : r[i] = <<Other(s), id, i>>
      <4> HIDE DEF id
      <4>1. r \in Seq(Piece) /\ Len(r) = n + 1 /\ r[n + 1] = p.data
            /\ \A i \in 1..n : r[i] = d[i]
        BY <3>3
      <4> HIDE DEF r, d, n
      <4>2. ASSUME NEW i \in 1..Len(r) PROVE r[i] = <<Other(s), id, i>>
        <5>1. CASE i = n + 1
          BY <3>6, <4>1, <5>1
        <5>2. CASE i # n + 1
          <6>1. i \in 1..n
            BY <3>3, <4>1, <5>2
          <6>2. QED
            BY <3>7, <4>1, <6>1
        <5>3. QED
          BY <5>1, <5>2
      <4>3. QED
        BY <4>1, <4>2
    <3>9. /\ Len(delivered'[s]) <= Len(posted'[Other(s)])
          /\ \A i \in 1..Len(delivered'[s]) : delivered'[s][i] = posted'[Other(s)][i]
      BY <3>2 DEF ReaderInv
    <3>10. CASE EndsMessage(p)
      <4>1. rPC'[s] = "process" /\ reading'[s].data = r
        BY <3>1, <3>4, <3>10 DEF Types
      <4>2. messages[id] \in Seq(Piece) /\ Len(messages[id]) = Len(r)
        BY <3>3, <3>6, <3>8, <3>10
      <4>3. \A i \in 1..Len(messages[id]) : messages[id][i] = <<Other(s), id, i>>
        BY <3>6 DEF ServentInv, PostedInv
      <4> HIDE DEF r, id
      <4>4. r = messages[id]
        BY <3>8, <4>2, <4>3, SameSequence
      <4>5. reading'[s].data = posted'[Other(s)][Len(delivered'[s]) + 1]
            /\ Len(delivered'[s]) + 1 <= Len(posted'[Other(s)])
        BY <3>2, <3>6, <4>1, <4>4, <3>3 DEF id
      <4>6. QED
        BY <3>9, <4>1, <4>5 DEF ReaderInv
    <3>11. CASE ~EndsMessage(p)
      <4>1. /\ rPC'[s] = "reading" /\ reading'[s].data = r /\ reading'[s].frag = n
            /\ ReadId(s)' = id
        BY <3>1, <3>2, <3>4, <3>5, <3>11 DEF Types, ReadId
      <4>2. Len(r) # 0 /\ n = Len(r) - 1
        BY <3>3, <3>8
      <4> HIDE DEF r, id, n
      <4>3. QED
        BY <3>8, <3>9, <4>1, <4>2 DEF ReaderInv
    <3>12. QED
      BY <3>10, <3>11
  <2>3. QED
    BY <2>1, <2>2
<1>10. ASSUME NEW a \in Side, ReceiverFails(a) PROVE ReaderInv(s)'
  BY <1>10, ReaderFrame DEF ReceiverFails, Stop, Unlock, Types, receiverVars, senderVars
<1>11. ASSUME NEW a \in Side, ProcessMessage(a) PROVE ReaderInv(s)'
  <2>1. CASE s # a
    BY <1>11, <2>1, ReaderFrame DEF ProcessMessage, Types, receiverVars, senderVars
  <2>2. CASE s = a
    <3> DEFINE d == delivered[s]
               m == reading[s].data
               messages == posted[Other(s)]
    <3>1. /\ rPC[s] = "process" /\ rPC'[s] = "peek" /\ delivered'[s] = Append(d, m)
          /\ posted' = posted
      BY <1>11, <2>2 DEF ProcessMessage, Types, senderVars
    <3>2. d \in Seq(Seq(Piece)) /\ m \in Seq(Piece) /\ Len(d) \in Nat /\ Len(messages) \in Nat
      BY <1>v, <1>w
    <3>3. /\ Len(d) + 1 <= Len(messages) /\ m = messages[Len(d) + 1]
          /\ \A i \in 1..Len(d) : d[i] = messages[i]
      BY <3>1 DEF ReaderInv
    <3>4. /\ Len(Append(d, m)) = Len(d) + 1 /\ Append(d, m)[Len(d) + 1] = m
          /\ \A i \in 1..Len(d) : Append(d, m)[i] = d[i]
      BY <3>2
    <3> HIDE DEF d, m, messages
    <3>5. /\ Len(Append(d, m)) <= Len(messages)
          /\ \A i \in 1..Len(Append(d, m)) : Append(d, m)[i] = messages[i]
      BY <3>2, <3>3, <3>4
    <3>6. QED
      BY <3>1, <3>5 DEF ReaderInv, messages
  <2>3. QED
    BY <2>1, <2>2
<1>12. ASSUME NEW a \in Side, StopSender(a) PROVE ReaderInv(s)'
  BY <1>12, ReaderFrame DEF StopSender, Types, receiverVars, senderVars
<1>13. ASSUME NEW a \in Side, StopReceiver(a) PROVE ReaderInv(s)'
  BY <1>13, ReaderFrame DEF StopReceiver, Disconnect, Types, receiverVars, senderVars
<1>14. ASSUME NEW a \in Side, Crash(a) PROVE ReaderInv(s)'
  BY <1>14, ReaderFrame DEF Crash, Types, receiverVars, senderVars
<1>15. ASSUME NEW a \in Side, NEW n \in 1..MaxParts, PostMessage(a, n) PROVE ReaderInv(s)'
  <2>1. CASE Other(s) # a
    BY <1>15, <2>1, ReaderFrame DEF PostMessage, Types, receiverVars, senderVars
  <2>2. CASE Other(s) = a
    <3> DEFINE messages == posted[a]
    <3>1. /\ rPC' = rPC /\ reading' = reading /\ delivered' = delivered
          /\ Len(messages) \in Nat /\ Len(delivered[s]) \in Nat
      BY <1>15, <2>2, <1>w DEF PostMessage, receiverVars
    <3>2. /\ Len(posted'[a]) = Len(messages) + 1
          /\ \A k \in 1..Len(messages) : posted'[a][k] = messages[k]
      BY <1>15, Posting
    <3>3. Len(delivered[s]) <= Len(messages)
          /\ \A i \in 1..Len(delivered[s]) : delivered[s][i] = messages[i]
      BY <2>2 DEF ReaderInv
    <3> HIDE DEF messages
    <3>4. Len(delivered[s]) <= Len(posted'[a])
          /\ \A i \in 1..Len(delivered[s]) : delivered[s][i] = posted'[a][i]
      BY <3>1, <3>2, <3>3
    <3>5. CASE rPC[s] = "process"
      <4>1. /\ Len(delivered[s]) + 1 <= Len(messages)
            /\ reading[s].data = messages[Len(delivered[s]) + 1]
        BY <2>2, <3>5 DEF ReaderInv, messages
      <4>2. /\ Len(delivered[s]) + 1 <= Len(posted'[a])
            /\ reading[s].data = posted'[a][Len(delivered[s]) + 1]
        BY <3>1, <3>2, <4>1
      <4>3. QED
        BY <2>2, <3>1, <3>4, <3>5, <4>2 DEF ReaderInv
    <3>6. CASE rPC[s] # "process"
      <4>1. ReadId(s)' = ReadId(s) /\ INVALID_SEQNUM' = INVALID_SEQNUM
        BY <3>1 DEF ReadId, INVALID_SEQNUM
      <4>2. QED
        BY <2>2, <3>1, <3>4, <3>6, <4>1 DEF ReaderInv
    <3>7. QED
      BY <3>5, <3>6
  <2>3. QED
    BY <2>1, <2>2
<1>16. CASE Reconnect
  <2>1. rPC'[s] = "peek" /\ delivered'[s] = <<>> /\ posted'[Other(s)] = <<>>
    BY <1>16 DEF Reconnect
  <2>2. QED
    BY <2>1 DEF ReaderInv
<1>17. CASE UNCHANGED vars
  BY <1>17, ReaderFrame DEF vars, receiverVars, senderVars
<1> QED
  BY <1>1, <1>2, <1>3, <1>4, <1>5, <1>6, <1>7, <1>8, <1>9, <1>10,
     <1>11, <1>12, <1>13, <1>14, <1>15, <1>16, <1>17
     DEF Next, SenderStep, ReceiverStep, ManagerStep

LEMMA SamePipes ==
  ASSUME NEW s \in Side, FlowInv(s), pipe'[s] = pipe[s], posted'[s] = posted[s],
         SenderSame(s), ReceiverSame(Other(s))
  PROVE  FlowInv(s)'
<1>1. Chain(s, pipe[s], posted[s])'
  BY DEF FlowInv
<1>2. QED
  BY <1>1, FlowFrame

\* A receiver whose position is untouched, and a sender whose position is.
LEMMA ReceiverKeeps ==
  ASSUME NEW s \in Side,
         \/ rPC'[s] = rPC[s] \/ rPC'[s] \in {"failed", "none"}
         \/ {rPC[s], rPC'[s]} \subseteq {"peek", "read"},
         reading'[s] = reading[s], delivered'[s] = delivered[s]
  PROVE  ReceiverSame(s)
BY DEF ReceiverSame, ReceiverLives, ReadId, ReadFrag

LEMMA SenderKeeps ==
  ASSUME NEW s \in Side,
         \/ sPC'[s] = sPC[s] \/ sPC'[s] \in {"failed", "none"}
         \/ {sPC[s], sPC'[s]} \subseteq {"wait", "peek", "write"}
         \/ (sPC[s] = "write" /\ sPC'[s] = "writing" /\ part'[s] = 0),
         part'[s] = part[s] \/ (part'[s] = 0 /\ sPC[s] = "write"),
         sent'[s] = sent[s], nSeqNum'[s] = nSeqNum[s] \/ sPC'[s] = "none"
  PROVE  SenderSame(s)
BY DEF SenderSame, SenderLives, WriteId, WriteFrag

LEMMA FlowStep ==
  ASSUME ServentInv, [Next]_vars, NEW s \in Side
  PROVE  FlowInv(s)'
<1>u. /\ Types /\ FlowInv(s) /\ Other(s) \in Side /\ Other(s) # s /\ Other(Other(s)) = s
      /\ \A t \in Side : t = s \/ t = Other(s)
  BY Sides DEF ServentInv
<1> USE <1>u
<1>1. ASSUME NEW a \in Side, SenderWakes(a) PROVE FlowInv(s)'
  <2>1. ReceiverSame(Other(s))
    BY <1>1, ReceiverKeeps DEF SenderWakes, receiverVars
  <2>2. SenderSame(s)
    BY <1>1, SenderKeeps DEF SenderWakes, Types
  <2>3. QED
    BY <1>1, <2>1, <2>2, SamePipes DEF SenderWakes
<1>2. ASSUME NEW a \in Side, SenderYields(a) PROVE FlowInv(s)'
  <2>1. ReceiverSame(Other(s))
    BY <1>2, ReceiverKeeps DEF SenderYields, receiverVars
  <2>2. SenderSame(s)
    BY <1>2, SenderKeeps DEF SenderYields, Types
  <2>3. QED
    BY <1>2, <2>1, <2>2, SamePipes DEF SenderYields
<1>3. ASSUME NEW a \in Side, SenderMayWrite(a) PROVE FlowInv(s)'
  <2>1. ReceiverSame(Other(s))
    BY <1>3, ReceiverKeeps DEF SenderMayWrite, receiverVars
  <2>2. SenderSame(s)
    BY <1>3, SenderKeeps DEF SenderMayWrite, Types
  <2>3. QED
    BY <1>3, <2>1, <2>2, SamePipes DEF SenderMayWrite
<1>4. ASSUME NEW a \in Side, SenderLocks(a) PROVE FlowInv(s)'
  <2>1. ReceiverSame(Other(s))
    BY <1>4, ReceiverKeeps DEF SenderLocks, Lock, receiverVars
  <2>2. SenderSame(s)
    BY <1>4, SenderKeeps DEF SenderLocks, Lock, Types
  <2>3. QED
    BY <1>4, <2>1, <2>2, SamePipes DEF SenderLocks, Lock
<1>5. ASSUME NEW a \in Side, WritePacket(a) PROVE FlowInv(s)'
  <2>1. ReceiverSame(Other(s))
    BY <1>5, ReceiverKeeps DEF WritePacket, receiverVars
  <2>2. CASE s # a
    <3>1. SenderSame(s)
      BY <1>5, <2>2, SenderKeeps DEF WritePacket, Types
    <3>2. pipe'[s] = pipe[s] /\ posted'[s] = posted[s]
      BY <1>5, <2>2 DEF WritePacket, Write, Types
    <3>3. QED
      BY <2>1, <3>1, <3>2, SamePipes
  <2>3. CASE s = a
    <3> DEFINE p == MakePacket(s)
               q == pipe[s]
               id == sent[s] + 1
    <3>1. /\ sPC[s] = "writing" /\ pipe'[s] = Append(q, p) /\ posted'[s] = posted[s]
          /\ part'[s] = part[s] + 1
          /\ IF EndsMessage(p)
             THEN sPC'[s] = "wait" /\ sent'[s] = sent[s] + 1
             ELSE sPC'[s] = "writing" /\ sent'[s] = sent[s] /\ nSeqNum'[s] = nSeqNum[s]
      BY <1>5, <2>3 DEF WritePacket, Write, Types
    <3>2. /\ p \in Packets /\ PacketOK(s, p, posted[s])
          /\ Id(p) = id /\ p.frag = part[s] /\ p.seq = nSeqNum[s]
      BY <3>1, PacketMade DEF ServentInv
    <3>3. /\ q \in Seq(Packets) /\ id \in Nat /\ part[s] \in Nat /\ nSeqNum[s] \in Nat
          /\ sent[s] \in Nat
      <4>1. /\ q \in Seq(Packets) /\ part[s] \in Nat /\ nSeqNum[s] \in Nat /\ sent[s] \in Nat
        BY DEF Types
      <4>2. QED
        BY <4>1
    <3>4. WriteId(s) = id /\ WriteFrag(s) = part[s] /\ SenderLives(s)
      BY <3>1 DEF WriteId, WriteFrag, SenderLives
    <3>5. Chain(s, q, posted[s]) /\ Stops(q, id, part[s], nSeqNum[s])
      BY <3>4 DEF FlowInv
    <3> HIDE DEF p, q, id
    <3>6. Chain(s, Append(q, p), posted[s])
      BY <3>2, <3>3, <3>5, AppendChain
    <3>7. ASSUME ReceiverLives(Other(s))'
          PROVE  Starts(pipe[s], ReadId(Other(s)), ReadFrag(Other(s)), reading[Other(s)].seq)'
      <4> DEFINE o == Other(s)
      <4>1. /\ ReceiverLives(o) /\ ReadId(o)' = ReadId(o) /\ ReadFrag(o)' = ReadFrag(o)
            /\ reading'[o].seq = reading[o].seq
        BY <1>5, <2>1, <3>7 DEF ReceiverSame, WritePacket, receiverVars
      <4>2. /\ Starts(q, ReadId(o), ReadFrag(o), reading[o].seq)
            /\ Len(q) = 0 =>
                 /\ ReadId(o) = id /\ ReadFrag(o) = part[s]
                 /\ part[s] > 0 => reading[o].seq = nSeqNum[s]
        BY <3>4, <4>1 DEF FlowInv, q
      <4>3. Len(q) = 0 => At(p, ReadId(o), ReadFrag(o), reading[o].seq)
        BY <3>2, <4>2 DEF At
      <4>4. Starts(Append(q, p), ReadId(o), ReadFrag(o), reading[o].seq)
        BY <3>2, <3>3, <4>2, <4>3, AppendStarts
      <4>5. QED
        BY <3>1, <4>1, <4>4
    <3>8. Precedes(p, WriteId(s)', WriteFrag(s)', nSeqNum'[s])
      <4>1. CASE EndsMessage(p)
        <5>1. WriteId(s)' = id + 1 /\ WriteFrag(s)' = 0
          BY <3>1, <4>1 DEF WriteId, WriteFrag, id
        <5>2. QED
          BY <3>2, <4>1, <5>1 DEF Precedes
      <4>2. CASE ~EndsMessage(p)
        <5>1. WriteId(s)' = id /\ WriteFrag(s)' = part[s] + 1 /\ nSeqNum'[s] = nSeqNum[s]
          BY <3>1, <4>2 DEF WriteId, WriteFrag, id
        <5>2. QED
          BY <3>2, <4>2, <5>1 DEF Precedes
      <4>3. QED
        BY <4>1, <4>2
    <3>9. Stops(Append(q, p), WriteId(s)', WriteFrag(s)', nSeqNum'[s])
      BY <3>2, <3>3, <3>8, AppendStops
    <3>10. Len(Append(q, p)) # 0
      BY <3>2, <3>3
    <3>11. QED
      BY <3>1, <3>6, <3>7, <3>9, <3>10 DEF FlowInv
  <2>4. QED
    BY <2>2, <2>3
<1>6. ASSUME NEW a \in Side, SenderFails(a) PROVE FlowInv(s)'
  <2>1. ReceiverSame(Other(s))
    BY <1>6, ReceiverKeeps DEF SenderFails, Stop, Unlock, receiverVars
  <2>2. SenderSame(s)
    BY <1>6, SenderKeeps DEF SenderFails, Stop, Unlock, Types
  <2>3. QED
    BY <1>6, <2>1, <2>2, SamePipes DEF SenderFails, Stop, Unlock
<1>7. ASSUME NEW a \in Side, ReceiverMayRead(a) PROVE FlowInv(s)'
  <2>1. ReceiverSame(Other(s))
    BY <1>7, ReceiverKeeps DEF ReceiverMayRead, Types
  <2>2. SenderSame(s)
    BY <1>7, SenderKeeps DEF ReceiverMayRead, senderVars
  <2>3. QED
    BY <1>7, <2>1, <2>2, SamePipes DEF ReceiverMayRead, senderVars
<1>8. ASSUME NEW a \in Side, ReceiverLocks(a) PROVE FlowInv(s)'
  <2>1. ReceiverSame(Other(s))
    <3>1. CASE Other(s) # a
      BY <1>8, <3>1, ReceiverKeeps DEF ReceiverLocks, Types
    <3>2. CASE Other(s) = a
      <4>1. /\ rPC[a] = "read" /\ rPC'[a] = "reading" /\ delivered' = delivered
            /\ reading'[a] = NothingRead
        BY <1>8 DEF ReceiverLocks, Types
      <4>2. Len(reading'[a].data) = 0
        BY <4>1 DEF NothingRead
      <4>3. QED
        BY <3>2, <4>1, <4>2 DEF ReceiverSame, ReceiverLives, ReadId, ReadFrag
    <3>3. QED
      BY <3>1, <3>2
  <2>2. SenderSame(s)
    BY <1>8, SenderKeeps DEF ReceiverLocks, senderVars
  <2>3. QED
    BY <1>8, <2>1, <2>2, SamePipes DEF ReceiverLocks, senderVars
<1>9. ASSUME NEW a \in Side, ReadPacket(a) PROVE FlowInv(s)'
  <2>1. SenderSame(s)
    BY <1>9, SenderKeeps DEF ReadPacket, senderVars
  <2> DEFINE p == Head(Inbound(a))
             q == pipe[s]
  <2>2. /\ p \in Packets /\ At(p, ReadId(a), Len(reading[a].data), reading[a].seq)
        /\ reading' = [reading EXCEPT ![a] =
              [seq |-> p.seq, frag |-> p.frag, data |-> Append(reading[a].data, p.data)]]
        /\ rPC' = IF EndsMessage(p) THEN [rPC EXCEPT ![a] = "process"] ELSE rPC
    BY <1>9, PacketRead
  <2>3. rPC[a] = "reading" /\ delivered' = delivered /\ posted' = posted
        /\ Inbound(a) # <<>> /\ pipe' = [pipe EXCEPT ![Other(a)] = Tail(@)]
    BY <1>9 DEF ReadPacket, Read, senderVars
  <2>4. CASE s = a
    <3> HIDE DEF p
    <3>1. ReceiverSame(Other(s))
      BY <2>2, <2>3, <2>4, ReceiverKeeps DEF Types
    <3>2. pipe'[s] = pipe[s]
      BY <2>3, <2>4 DEF Types
    <3>3. QED
      BY <2>1, <2>3, <3>1, <3>2, SamePipes
  <2>5. CASE s = Other(a)
    <3>1. Other(s) = a /\ q = Inbound(a) /\ q # <<>> /\ q \in Seq(Packets) /\ p = q[1]
      BY <2>3, <2>5, Sides DEF Types, Inbound
    <3> HIDE DEF p
    <3>2. pipe'[s] = Tail(q) /\ Chain(s, q, posted[s])
      BY <2>3, <2>5 DEF Types, FlowInv
    <3> HIDE DEF q
    <3>3. Chain(s, Tail(q), posted[s])
      BY <3>1, <3>2, TailChain
    <3> DEFINE n == Len(reading[a].data)
               id == Len(delivered[a]) + 1
    <3>4. /\ reading[a].data \in Seq(Piece) /\ p.data \in Piece /\ n \in Nat /\ p.frag \in Nat
          /\ Len(delivered[a]) \in Nat
      <4>1. reading[a].data \in Seq(Piece) /\ delivered[a] \in Seq(Seq(Piece))
        BY DEF Types
      <4>2. QED
        BY <2>2, <4>1 DEF Packets
    <3>5. Id(p) = id /\ p.frag = n
      BY <2>2, <2>3 DEF At, ReadId
    <3>6. reading'[a].seq = p.seq /\ Len(reading'[a].data) = n + 1
      <4>1. reading'[a] = [seq |-> p.seq, frag |-> p.frag, data |-> Append(reading[a].data, p.data)]
        BY <2>2 DEF Types
      <4>2. QED
        BY <3>4, <4>1
    <3> HIDE DEF n
    <3>7. Precedes(p, ReadId(a)', ReadFrag(a)', reading'[a].seq)
      <4>1. CASE EndsMessage(p)
        <5>1. rPC'[a] = "process"
          BY <2>2, <4>1 DEF Types
        <5>2. ReadId(a)' = id + 1 /\ ReadFrag(a)' = 0
          BY <2>3, <3>4, <5>1 DEF ReadId, ReadFrag
        <5>3. QED
          BY <3>5, <4>1, <5>2 DEF Precedes
      <4>2. CASE ~EndsMessage(p)
        <5>1. rPC'[a] = "reading"
          BY <2>2, <2>3, <4>2 DEF Types
        <5>2. ReadId(a)' = id /\ ReadFrag(a)' = n + 1
          BY <2>3, <3>6, <5>1 DEF ReadId, ReadFrag
        <5>3. QED
          BY <3>5, <3>6, <4>2, <5>2 DEF Precedes
      <4>3. QED
        BY <4>1, <4>2
    <3>8. Starts(Tail(q), ReadId(a)', ReadFrag(a)', reading'[a].seq)
      BY <3>1, <3>2, <3>7, TailStarts
    <3>9. ASSUME SenderLives(s)'
          PROVE  /\ Stops(q, WriteId(s), WriteFrag(s), nSeqNum[s])
                 /\ Stops(Tail(q), WriteId(s), WriteFrag(s), nSeqNum[s])
                 /\ WriteId(s)' = WriteId(s) /\ WriteFrag(s)' = WriteFrag(s)
                 /\ nSeqNum'[s] = nSeqNum[s]
      BY <2>1, <3>1, <3>9, TailStops DEF SenderSame, FlowInv, q
    <3>10. ASSUME SenderLives(s)', Len(Tail(q)) = 0
           PROVE  /\ ReadId(a)' = WriteId(s)' /\ ReadFrag(a)' = WriteFrag(s)'
                  /\ WriteFrag(s)' > 0 => reading'[a].seq = nSeqNum'[s]
      <4>1. Len(q) = 1
        BY <3>1, <3>10
      <4>2. Precedes(p, WriteId(s), WriteFrag(s), nSeqNum[s])
        BY <3>1, <3>9, <3>10, <4>1 DEF Stops
      <4>3. QED
        BY <3>7, <3>9, <3>10, <4>2 DEF Precedes
    <3>11. QED
      BY <2>3, <3>1, <3>2, <3>3, <3>8, <3>9, <3>10 DEF FlowInv
  <2>6. QED
    BY <2>4, <2>5, Sides
<1>10. ASSUME NEW a \in Side, ReceiverFails(a) PROVE FlowInv(s)'
  <2>1. ReceiverSame(Other(s))
    BY <1>10, ReceiverKeeps DEF ReceiverFails, Stop, Unlock, Types
  <2>2. SenderSame(s)
    BY <1>10, SenderKeeps DEF ReceiverFails, Stop, Unlock, senderVars
  <2>3. QED
    BY <1>10, <2>1, <2>2, SamePipes DEF ReceiverFails, Stop, Unlock, senderVars
<1>11. ASSUME NEW a \in Side, ProcessMessage(a) PROVE FlowInv(s)'
  <2>1. ReceiverSame(Other(s))
    <3>1. CASE Other(s) # a
      BY <1>11, <3>1, ReceiverKeeps DEF ProcessMessage, Types
    <3>2. CASE Other(s) = a
      <4>1. /\ rPC[a] = "process" /\ rPC'[a] = "peek"
            /\ delivered'[a] = Append(delivered[a], reading[a].data)
        BY <1>11 DEF ProcessMessage, Types
      <4>2. delivered[a] \in Seq(Seq(Piece)) /\ reading[a].data \in Seq(Piece)
        BY DEF Types
      <4>3. Len(delivered'[a]) = Len(delivered[a]) + 1 /\ Len(delivered[a]) \in Nat
        BY <4>1, <4>2
      <4>4. ReadId(a)' = ReadId(a) /\ ReadFrag(a)' = 0 /\ ReadFrag(a) = 0
        BY <4>1, <4>3 DEF ReadId, ReadFrag
      <4>5. QED
        BY <3>2, <4>1, <4>4 DEF ReceiverSame, ReceiverLives
    <3>3. QED
      BY <3>1, <3>2
  <2>2. SenderSame(s)
    BY <1>11, SenderKeeps DEF ProcessMessage, senderVars
  <2>3. QED
    BY <1>11, <2>1, <2>2, SamePipes DEF ProcessMessage, senderVars
<1>12. ASSUME NEW a \in Side, StopSender(a) PROVE FlowInv(s)'
  <2>1. ReceiverSame(Other(s))
    BY <1>12, ReceiverKeeps DEF StopSender, receiverVars
  <2>2. SenderSame(s)
    BY <1>12, SenderKeeps DEF StopSender, Types
  <2>3. QED
    BY <1>12, <2>1, <2>2, SamePipes DEF StopSender
<1>13. ASSUME NEW a \in Side, StopReceiver(a) PROVE FlowInv(s)'
  <2>1. ReceiverSame(Other(s))
    BY <1>13, ReceiverKeeps DEF StopReceiver, Disconnect, Types
  <2>2. SenderSame(s)
    BY <1>13, SenderKeeps DEF StopReceiver, Disconnect, senderVars
  <2>3. QED
    BY <1>13, <2>1, <2>2, SamePipes DEF StopReceiver, Disconnect, senderVars
<1>14. ASSUME NEW a \in Side, Crash(a) PROVE FlowInv(s)'
  <2>1. ReceiverSame(Other(s))
    BY <1>14, ReceiverKeeps DEF Crash, Types
  <2>2. SenderSame(s)
    BY <1>14, SenderKeeps DEF Crash, Types
  <2>3. CASE pipe'[s] = pipe[s]
    BY <1>14, <2>1, <2>2, <2>3, SamePipes DEF Crash
  <2>4. CASE pipe'[s] # pipe[s]
    <3>1. s = a /\ pipe'[s] = <<>> /\ sPC'[s] = "none"
      BY <1>14, <2>4 DEF Crash, Types
    <3>2. QED
      BY <3>1, EmptyFlow DEF SenderLives
  <2>5. QED
    BY <2>3, <2>4
<1>15. ASSUME NEW a \in Side, NEW n \in 1..MaxParts, PostMessage(a, n) PROVE FlowInv(s)'
  <2>1. ReceiverSame(Other(s))
    BY <1>15, ReceiverKeeps DEF PostMessage, receiverVars
  <2>2. SenderSame(s)
    BY <1>15, SenderKeeps DEF PostMessage
  <2>3. Chain(s, pipe[s], posted[s])'
    <3>1. CASE s # a
      BY <1>15, <3>1 DEF PostMessage, Types, FlowInv
    <3>2. CASE s = a
      <4>1. posted[s] \in Seq(Seq(Piece)) /\ pipe[s] \in Seq(Packets) /\ Chain(s, pipe[s], posted[s])
        BY DEF Types, FlowInv
      <4>2. PICK m \in Seq(Piece) : posted'[s] = Append(posted[s], m)
        BY <1>15, <3>2, Posting
      <4>3. pipe' = pipe
        BY <1>15 DEF PostMessage
      <4>4. QED
        BY <4>1, <4>2, <4>3, PostChain
    <3>3. QED
      BY <3>1, <3>2
  <2>4. QED
    BY <1>15, <2>1, <2>2, <2>3, FlowFrame DEF PostMessage
<1>16. CASE Reconnect
  <2>1. /\ pipe'[s] = <<>> /\ sent'[s] = 0 /\ sPC'[s] = "wait"
        /\ rPC'[Other(s)] = "peek" /\ delivered'[Other(s)] = <<>>
    BY <1>16 DEF Reconnect, Connect
  <2>2. WriteId(s)' = 1 /\ ReadId(Other(s))' = 1 /\ WriteFrag(s)' = 0 /\ ReadFrag(Other(s))' = 0
    BY <2>1 DEF WriteId, ReadId, WriteFrag, ReadFrag
  <2>3. QED
    BY <2>1, <2>2 DEF FlowInv, Chain, Starts, Stops
<1>17. CASE UNCHANGED vars
  <2>1. ReceiverSame(Other(s))
    BY <1>17, ReceiverKeeps DEF vars, receiverVars
  <2>2. SenderSame(s)
    BY <1>17, SenderKeeps DEF vars, senderVars
  <2>3. QED
    BY <1>17, <2>1, <2>2, SamePipes DEF vars, senderVars
<1> QED
  BY <1>1, <1>2, <1>3, <1>4, <1>5, <1>6, <1>7, <1>8, <1>9, <1>10,
     <1>11, <1>12, <1>13, <1>14, <1>15, <1>16, <1>17
     DEF Next, SenderStep, ReceiverStep, ManagerStep

LEMMA InvariantInit == Init => ServentInv
<1> SUFFICES ASSUME Init PROVE ServentInv
  OBVIOUS
<1>1. NothingRead \in [seq : Nat, frag : Nat, data : Seq(Piece)]
  BY ServentAssumption DEF NothingRead, INVALID_SEQNUM
<1>2. Types
  BY <1>1 DEF Init, Types, Codes
<1>3. StreamIntact
  BY DEF Init, StreamIntact
<1>4. ASSUME NEW s \in Side
      PROVE  PostedInv(s) /\ WriterInv(s) /\ ReaderInv(s) /\ FlowInv(s)
  <2>1. /\ posted[s] = <<>> /\ sent[s] = 0 /\ count[s] = 0 /\ sPC[s] = "wait" /\ pipe[s] = <<>>
        /\ rPC[s] = "peek" /\ delivered[s] = <<>> /\ Other(s) \in Side
        /\ posted[Other(s)] = <<>> /\ rPC[Other(s)] = "peek" /\ delivered[Other(s)] = <<>>
    BY Sides DEF Init
  <2>2. PostedInv(s) /\ WriterInv(s) /\ ReaderInv(s)
    BY <2>1 DEF PostedInv, WriterInv, ReaderInv, SenderLives, Holding
  <2>3. WriteId(s) = 1 /\ ReadId(Other(s)) = 1 /\ WriteFrag(s) = 0 /\ ReadFrag(Other(s)) = 0
    BY <2>1 DEF WriteId, ReadId, WriteFrag, ReadFrag
  <2>4. FlowInv(s)
    BY <2>1, <2>3 DEF FlowInv, Chain, Starts, Stops
  <2>5. QED
    BY <2>2, <2>4
<1>5. QED
  BY <1>2, <1>3, <1>4 DEF ServentInv

LEMMA InvariantStep == ServentInv /\ [Next]_vars => ServentInv'
<1> SUFFICES ASSUME ServentInv, [Next]_vars PROVE ServentInv'
  OBVIOUS
<1>1. Types' /\ StreamIntact'
  BY TypesStep, IntactStep
<1>2. ASSUME NEW s \in Side
      PROVE  (PostedInv(s) /\ WriterInv(s) /\ ReaderInv(s) /\ FlowInv(s))'
  BY PostedStep, WriterStep, ReaderStep, FlowStep
<1>3. QED
  BY <1>1, <1>2 DEF ServentInv

LEMMA Invariant == Spec => []ServentInv
  BY InvariantInit, InvariantStep, PTL DEF Spec

\* No reader of the pipe ever finds a packet of another message than the one it is
\* reading, a fragment out of order or a message too long (_ReadData), whatever the
\* threads of both sides do, when they are stopped, killed or started again.
THEOREM StreamCorrect == Spec => []StreamIntact
<1>1. ServentInv => StreamIntact
  BY DEF ServentInv
<1>2. QED
  BY <1>1, Invariant, PTL

-----------------------------------------------------------------------------
(* The channel                                                                 *)

Lasts(s) == Connected(s)' => Connected(s)

\* A step that gives and takes no message closes a side, or nothing.
LEMMA ClosingStep ==
  ASSUME NEW a \in Side, posted' = posted, delivered' = delivered, Lasts(a),
         \A s \in Side : s # a => (Connected(s)' <=> Connected(s))
  PROVE  Channel!Close(a) \/ UNCHANGED Channel!channelVars
<1> DEFINE open == [s \in Side |-> Connected(s)]
<1>1. CASE Connected(a)' <=> Connected(a)
  <2>1. \A s \in Side : Connected(s)' = Connected(s)
    <3> SUFFICES ASSUME NEW s \in Side PROVE Connected(s)' = Connected(s)
      OBVIOUS
    <3>1. Connected(s)' \in BOOLEAN /\ Connected(s) \in BOOLEAN
      BY DEF Connected
    <3>2. QED
      BY <1>1, <3>1
  <2>2. open' = open
    BY <2>1
  <2>3. QED
    BY <2>2 DEF Channel!channelVars
<1>2. CASE Connected(a) /\ ~Connected(a)'
  <2>1. open[a]
    BY <1>2
  <2>2. open' = [open EXCEPT ![a] = FALSE]
    <3>1. \A s \in Side : Connected(s)' = [open EXCEPT ![a] = FALSE][s]
      <4> SUFFICES ASSUME NEW s \in Side PROVE Connected(s)' = [open EXCEPT ![a] = FALSE][s]
        OBVIOUS
      <4>1. Connected(s)' \in BOOLEAN /\ Connected(s) \in BOOLEAN
        BY DEF Connected
      <4>2. CASE s = a
        BY <1>2, <4>1, <4>2
      <4>3. CASE s # a
        BY <4>1, <4>3
      <4>4. QED
        BY <4>2, <4>3
    <3>2. QED
      BY <3>1
  <2>3. QED
    BY <2>1, <2>2 DEF Channel!Close
<1>3. QED
  BY <1>1, <1>2 DEF Lasts

LEMMA ChannelStep == ServentInv /\ [Next]_vars => [Channel!ChannelNext]_(Channel!channelVars)
<1> SUFFICES ASSUME ServentInv, [Next]_vars
             PROVE  [Channel!ChannelNext]_(Channel!channelVars)
  OBVIOUS
<1> DEFINE open == [s \in Side |-> Connected(s)]
<1>u. Types
  BY DEF ServentInv
<1> USE <1>u
<1>1. ASSUME NEW a \in Side, SenderWakes(a) PROVE [Channel!ChannelNext]_(Channel!channelVars)
  <2>1. posted' = posted /\ delivered' = delivered
    BY <1>1 DEF SenderWakes, senderVars, receiverVars
  <2>2. Lasts(a) /\ \A s \in Side : s # a => (Connected(s)' <=> Connected(s))
    BY <1>1 DEF SenderWakes, Types, Connected, Lasts, senderVars, receiverVars
  <2>3. QED
    BY <2>1, <2>2, ClosingStep DEF Channel!ChannelNext
<1>2. ASSUME NEW a \in Side, SenderYields(a) PROVE [Channel!ChannelNext]_(Channel!channelVars)
  <2>1. posted' = posted /\ delivered' = delivered
    BY <1>2 DEF SenderYields, senderVars, receiverVars
  <2>2. Lasts(a) /\ \A s \in Side : s # a => (Connected(s)' <=> Connected(s))
    BY <1>2 DEF SenderYields, Types, Connected, Lasts, senderVars, receiverVars
  <2>3. QED
    BY <2>1, <2>2, ClosingStep DEF Channel!ChannelNext
<1>3. ASSUME NEW a \in Side, SenderMayWrite(a) PROVE [Channel!ChannelNext]_(Channel!channelVars)
  <2>1. posted' = posted /\ delivered' = delivered
    BY <1>3 DEF SenderMayWrite, senderVars, receiverVars
  <2>2. Lasts(a) /\ \A s \in Side : s # a => (Connected(s)' <=> Connected(s))
    BY <1>3 DEF SenderMayWrite, Types, Connected, Lasts, senderVars, receiverVars
  <2>3. QED
    BY <2>1, <2>2, ClosingStep DEF Channel!ChannelNext
<1>4. ASSUME NEW a \in Side, SenderLocks(a) PROVE [Channel!ChannelNext]_(Channel!channelVars)
  <2>1. posted' = posted /\ delivered' = delivered
    BY <1>4 DEF SenderLocks, Lock, senderVars, receiverVars
  <2>2. Lasts(a) /\ \A s \in Side : s # a => (Connected(s)' <=> Connected(s))
    BY <1>4 DEF SenderLocks, Lock, Types, Connected, Lasts, senderVars, receiverVars
  <2>3. QED
    BY <2>1, <2>2, ClosingStep DEF Channel!ChannelNext
<1>5. ASSUME NEW a \in Side, WritePacket(a) PROVE [Channel!ChannelNext]_(Channel!channelVars)
  <2>1. posted' = posted /\ delivered' = delivered
    BY <1>5 DEF WritePacket, senderVars, receiverVars
  <2>2. Lasts(a) /\ \A s \in Side : s # a => (Connected(s)' <=> Connected(s))
    BY <1>5 DEF WritePacket, Types, Connected, Lasts, senderVars, receiverVars
  <2>3. QED
    BY <2>1, <2>2, ClosingStep DEF Channel!ChannelNext
<1>6. ASSUME NEW a \in Side, SenderFails(a) PROVE [Channel!ChannelNext]_(Channel!channelVars)
  <2>1. posted' = posted /\ delivered' = delivered
    BY <1>6 DEF SenderFails, Stop, Unlock, senderVars, receiverVars
  <2>2. Lasts(a) /\ \A s \in Side : s # a => (Connected(s)' <=> Connected(s))
    BY <1>6 DEF SenderFails, Stop, Unlock, Types, Connected, Lasts, senderVars, receiverVars
  <2>3. QED
    BY <2>1, <2>2, ClosingStep DEF Channel!ChannelNext
<1>7. ASSUME NEW a \in Side, ReceiverMayRead(a) PROVE [Channel!ChannelNext]_(Channel!channelVars)
  <2>1. posted' = posted /\ delivered' = delivered
    BY <1>7 DEF ReceiverMayRead, senderVars, receiverVars
  <2>2. Lasts(a) /\ \A s \in Side : s # a => (Connected(s)' <=> Connected(s))
    BY <1>7 DEF ReceiverMayRead, Types, Connected, Lasts, senderVars, receiverVars
  <2>3. QED
    BY <2>1, <2>2, ClosingStep DEF Channel!ChannelNext
<1>8. ASSUME NEW a \in Side, ReceiverLocks(a) PROVE [Channel!ChannelNext]_(Channel!channelVars)
  <2>1. posted' = posted /\ delivered' = delivered
    BY <1>8 DEF ReceiverLocks, Lock, senderVars, receiverVars
  <2>2. Lasts(a) /\ \A s \in Side : s # a => (Connected(s)' <=> Connected(s))
    BY <1>8 DEF ReceiverLocks, Lock, Types, Connected, Lasts, senderVars, receiverVars
  <2>3. QED
    BY <2>1, <2>2, ClosingStep DEF Channel!ChannelNext
<1>9. ASSUME NEW a \in Side, ReadPacket(a) PROVE [Channel!ChannelNext]_(Channel!channelVars)
  <2>1. posted' = posted /\ delivered' = delivered
    BY <1>9 DEF ReadPacket, senderVars, receiverVars
  <2>2. Lasts(a) /\ \A s \in Side : s # a => (Connected(s)' <=> Connected(s))
    <3> DEFINE p == Head(Inbound(a))
    <3>1. rPC' = IF EndsMessage(p) THEN [rPC EXCEPT ![a] = "process"] ELSE rPC
      BY <1>9, PacketRead
    <3>2. sPC' = sPC /\ rPC[a] = "reading"
      BY <1>9 DEF ReadPacket, senderVars
    <3> HIDE DEF p
    <3>3. QED
      BY <3>1, <3>2 DEF Types, Connected, Lasts
  <2>3. QED
    BY <2>1, <2>2, ClosingStep DEF Channel!ChannelNext
<1>10. ASSUME NEW a \in Side, ReceiverFails(a) PROVE [Channel!ChannelNext]_(Channel!channelVars)
  <2>1. posted' = posted /\ delivered' = delivered
    BY <1>10 DEF ReceiverFails, Stop, Unlock, senderVars, receiverVars
  <2>2. Lasts(a) /\ \A s \in Side : s # a => (Connected(s)' <=> Connected(s))
    BY <1>10 DEF ReceiverFails, Stop, Unlock, Types, Connected, Lasts, senderVars, receiverVars
  <2>3. QED
    BY <2>1, <2>2, ClosingStep DEF Channel!ChannelNext
<1>11. ASSUME NEW a \in Side, ProcessMessage(a) PROVE [Channel!ChannelNext]_(Channel!channelVars)
  <2> DEFINE n == Len(delivered[a]) + 1
  <2>1. rPC[a] = "process" /\ posted' = posted
        /\ delivered' = [delivered EXCEPT ![a] = Append(@, reading[a].data)]
    BY <1>11 DEF ProcessMessage, senderVars
  <2>2. n <= Len(posted[Other(a)]) /\ reading[a].data = posted[Other(a)][n]
    BY <2>1 DEF ServentInv, ReaderInv
  <2>3. open' = open
    <3>1. \A s \in Side : Connected(s)' = Connected(s)
      <4> SUFFICES ASSUME NEW s \in Side PROVE Connected(s)' = Connected(s)
        OBVIOUS
      <4>1. sPC'[s] = sPC[s] /\ (rPC'[s] \in {"failed", "none"} <=> rPC[s] \in {"failed", "none"})
        BY <1>11 DEF ProcessMessage, Types, senderVars
      <4>2. QED
        BY <4>1 DEF Connected
    <3>2. QED
      BY <3>1
  <2>4. Channel!Deliver(a)
    BY <2>1, <2>2, <2>3 DEF Channel!Deliver
  <2>5. QED
    BY <2>4 DEF Channel!ChannelNext
<1>12. ASSUME NEW a \in Side, StopSender(a) PROVE [Channel!ChannelNext]_(Channel!channelVars)
  <2>1. posted' = posted /\ delivered' = delivered
    BY <1>12 DEF StopSender, senderVars, receiverVars
  <2>2. Lasts(a) /\ \A s \in Side : s # a => (Connected(s)' <=> Connected(s))
    BY <1>12 DEF StopSender, Types, Connected, Lasts, senderVars, receiverVars
  <2>3. QED
    BY <2>1, <2>2, ClosingStep DEF Channel!ChannelNext
<1>13. ASSUME NEW a \in Side, StopReceiver(a) PROVE [Channel!ChannelNext]_(Channel!channelVars)
  <2>1. posted' = posted /\ delivered' = delivered
    BY <1>13 DEF StopReceiver, Disconnect, senderVars, receiverVars
  <2>2. Lasts(a) /\ \A s \in Side : s # a => (Connected(s)' <=> Connected(s))
    BY <1>13 DEF StopReceiver, Disconnect, Types, Connected, Lasts, senderVars, receiverVars
  <2>3. QED
    BY <2>1, <2>2, ClosingStep DEF Channel!ChannelNext
<1>14. ASSUME NEW a \in Side, Crash(a) PROVE [Channel!ChannelNext]_(Channel!channelVars)
  <2>1. posted' = posted /\ delivered' = delivered
    BY <1>14 DEF Crash, senderVars, receiverVars
  <2>2. Lasts(a) /\ \A s \in Side : s # a => (Connected(s)' <=> Connected(s))
    BY <1>14 DEF Crash, Types, Connected, Lasts, senderVars, receiverVars
  <2>3. QED
    BY <2>1, <2>2, ClosingStep DEF Channel!ChannelNext
<1>15. ASSUME NEW a \in Side, NEW n \in 1..MaxParts, PostMessage(a, n) PROVE [Channel!ChannelNext]_(Channel!channelVars)
  <2> DEFINE m == Pieces(a, Len(posted[a]) + 1, n)
  <2>1. Connected(a) /\ delivered' = delivered /\ sPC' = sPC /\ rPC' = rPC
        /\ Len(posted[a]) < MaxMessages
    BY <1>15 DEF PostMessage, receiverVars
  <2>2. posted' = [posted EXCEPT ![a] = Append(posted[a], m)]
    BY <1>15 DEF PostMessage
  <2>3. m \in Message
    <3>1. Len(posted[a]) \in Nat
      BY DEF Types
    <3>2. Len(posted[a]) + 1 \in 1..MaxMessages
      BY <2>1, <3>1, ServentAssumption
    <3>3. QED
      BY <3>2 DEF Message
  <2>4. open' = open
    BY <2>1 DEF Connected
  <2>5. Channel!Post(a, m)
    BY <2>1, <2>2, <2>4 DEF Channel!Post
  <2>6. QED
    BY <2>3, <2>5 DEF Channel!ChannelNext
<1>16. CASE Reconnect
  <2>1. \A s \in Side : ~open[s]
    BY <1>16 DEF Reconnect, Connected
  <2>2. open' = [s \in Side |-> TRUE]
    <3>1. \A s \in Side : Connected(s)' = TRUE
      BY <1>16 DEF Reconnect, Connected
    <3>2. QED
      BY <3>1
  <2>3. Channel!Connect
    BY <1>16, <2>1, <2>2 DEF Reconnect, Channel!Connect
  <2>4. QED
    BY <2>3 DEF Channel!ChannelNext
<1>17. CASE UNCHANGED vars
  <2>1. open' = open
    BY <1>17 DEF vars, senderVars, receiverVars, Connected
  <2>2. QED
    BY <1>17, <2>1 DEF vars, senderVars, receiverVars, Channel!channelVars
<1> QED
  BY <1>1, <1>2, <1>3, <1>4, <1>5, <1>6, <1>7, <1>8, <1>9, <1>10,
     <1>11, <1>12, <1>13, <1>14, <1>15, <1>16, <1>17
     DEF Next, SenderStep, ReceiverStep, ManagerStep

\* The threads and the pipe are the channel that the client and its GUI use: what is
\* given to a side is what the other one posted, whole, once and in order, and no
\* message outlives the connection it was posted on.
THEOREM ChannelCorrect == Spec => ImplementsChannel
<1>1. Init => Channel!ChannelInit
  <2> SUFFICES ASSUME Init PROVE Channel!ChannelInit
    OBVIOUS
  <2>1. \A s \in Side : Connected(s) = TRUE
    BY DEF Init, Connected
  <2>2. QED
    BY <2>1 DEF Init, Channel!ChannelInit
<1>2. QED
  BY <1>1, ChannelStep, Invariant, PTL DEF Spec, ImplementsChannel, Channel!ChannelSpec

-----------------------------------------------------------------------------
(* Types and bounds                                                            *)

UpTo(n, S) == UNION {[1..i -> S] : i \in 0..n}

LEMMA AppendUpTo ==
  ASSUME NEW S, NEW n \in Nat, NEW q \in UpTo(n, S), Len(q) < n, NEW x \in S
  PROVE  Append(q, x) \in UpTo(n, S)
<1>1. PICK i \in 0..n : q \in [1..i -> S]
  BY DEF UpTo
<1>2. q \in Seq(S) /\ Len(q) = i
  BY <1>1
<1>3. Append(q, x) \in Seq(S) /\ Len(Append(q, x)) = i + 1 /\ i + 1 \in 0..n
  BY <1>2
<1>4. Append(q, x) \in [1..(i + 1) -> S]
  <2>1. ASSUME NEW r \in Seq(S) PROVE r \in [1..Len(r) -> S]
    OBVIOUS
  <2>2. QED
    BY <1>3, <2>1
<1>5. QED
  BY <1>3, <1>4 DEF UpTo

LEMMA EmptyUpTo ==
  ASSUME NEW S, NEW n \in Nat
  PROVE  <<>> \in UpTo(n, S)
<1>1. <<>> \in [1..0 -> S]
  OBVIOUS
<1>2. QED
  BY <1>1 DEF UpTo

\* The parts of ServentTypeOK that bound something
PostedBound == posted \in [Side -> UpTo(MaxMessages, Message)]
CountBound == sent \in [Side -> 0..MaxMessages] /\ count \in [Side -> 0..MaxMessages]
PartBound == part \in [Side -> 0..MaxParts] /\ nSeqNum \in [Side -> 0..(SeqNums - 1)]
PipeBound == \A s \in Side : Len(pipe[s]) <= Room
ReadBound == \A s \in Side : Len(reading[s].data) <= MaxParts
LinkBound == link \in {"up", "broken"} /\ connections \in 1..MaxConnections

Bounds == PostedBound /\ CountBound /\ PartBound /\ PipeBound /\ ReadBound /\ LinkBound

LEMMA TypesAndBounds == Types /\ Bounds => ServentTypeOK
  BY DEF Types, Bounds, PostedBound, CountBound, PartBound, PipeBound, ReadBound, LinkBound,
         UpTo, ServentTypeOK

LEMMA BoundsInit == Init => Bounds
<1> SUFFICES ASSUME Init PROVE Bounds
  OBVIOUS
<1>1. PostedBound
  BY EmptyUpTo, ServentAssumption DEF Init, PostedBound
<1>2. CountBound /\ PartBound /\ PipeBound /\ LinkBound
  BY ServentAssumption DEF Init, CountBound, PartBound, PipeBound, LinkBound
<1>3. ReadBound
  BY ServentAssumption DEF Init, ReadBound, NothingRead
<1>4. QED
  BY <1>1, <1>2, <1>3 DEF Bounds

LEMMA PostedBoundStep ==
  ASSUME ServentInv, PostedBound, [Next]_vars
  PROVE  PostedBound'
<1>1. CASE posted' = posted
  BY <1>1 DEF PostedBound
<1>2. ASSUME NEW a \in Side, NEW n \in 1..MaxParts, PostMessage(a, n)
      PROVE  PostedBound'
  <2> DEFINE m == Pieces(a, Len(posted[a]) + 1, n)
  <2>1. posted' = [posted EXCEPT ![a] = Append(posted[a], m)] /\ Len(posted[a]) < MaxMessages
    BY <1>2 DEF PostMessage
  <2>2. Len(posted[a]) \in Nat
    BY DEF ServentInv, Types
  <2>3. m \in Message
    <3>1. Len(posted[a]) + 1 \in 1..MaxMessages
      BY <2>1, <2>2, ServentAssumption
    <3>2. QED
      BY <3>1 DEF Message
  <2> HIDE DEF m
  <2>4. Append(posted[a], m) \in UpTo(MaxMessages, Message)
    BY <2>1, <2>3, AppendUpTo, ServentAssumption DEF PostedBound
  <2>5. QED
    BY <2>1, <2>4 DEF PostedBound
<1>3. CASE Reconnect
  BY <1>3, EmptyUpTo, ServentAssumption DEF Reconnect, PostedBound
<1>4. QED
  BY <1>1, <1>2, <1>3, PostedChanges

LEMMA PostedLength ==
  ASSUME ServentInv, PostedBound, NEW s \in Side
  PROVE  Len(posted[s]) \in 0..MaxMessages
<1>1. PICK i \in 0..MaxMessages : posted[s] \in [1..i -> Message]
  BY DEF PostedBound, UpTo
<1>2. Len(posted[s]) = i
  BY <1>1
<1>3. QED
  BY <1>2

LEMMA CountBoundStep ==
  ASSUME ServentInv, PostedBound, CountBound, [Next]_vars
  PROVE  CountBound'
<1>u. /\ Types /\ MaxMessages \in Nat
      /\ \A s \in Side : /\ sent[s] \in Nat /\ count[s] \in Nat
                         /\ Len(posted[s]) \in Nat /\ Len(posted[s]) <= MaxMessages
  <2>1. Types /\ MaxMessages \in Nat
    BY ServentAssumption DEF ServentInv
  <2>2. QED
    BY <2>1, PostedLength DEF Types
<1> USE <1>u
<1>1. ASSUME NEW a \in Side, SenderWakes(a) PROVE CountBound'
  <2>1. count[a] - 1 \in 0..MaxMessages
    BY <1>1 DEF SenderWakes, CountBound
  <2>2. QED
    BY <1>1, <2>1 DEF SenderWakes, CountBound
<1>2. ASSUME NEW a \in Side, SenderYields(a) PROVE CountBound'
  <2>1. sent[a] + count[a] + 1 = Len(posted[a])
    BY <1>2 DEF SenderYields, ServentInv, WriterInv, SenderLives, Holding
  <2>2. count[a] + 1 \in 0..MaxMessages
    BY <2>1
  <2>3. QED
    BY <1>2, <2>2 DEF SenderYields, CountBound
<1>3. ASSUME NEW a \in Side, SenderMayWrite(a) PROVE CountBound'
  BY <1>3 DEF SenderMayWrite, CountBound, senderVars
<1>4. ASSUME NEW a \in Side, SenderLocks(a) PROVE CountBound'
  BY <1>4 DEF SenderLocks, Lock, CountBound, senderVars
<1>5. ASSUME NEW a \in Side, WritePacket(a) PROVE CountBound'
  <2>1. sent[a] + 1 \in 0..MaxMessages
    <3>1. sent[a] + 1 \in 1..Len(posted[a])
      BY <1>5, InHand DEF WritePacket
    <3>2. QED
      BY <3>1
  <2>2. QED
    BY <1>5, <2>1 DEF WritePacket, CountBound
<1>6. ASSUME NEW a \in Side, SenderFails(a) PROVE CountBound'
  BY <1>6 DEF SenderFails, Stop, Unlock, CountBound, senderVars
<1>7. ASSUME NEW a \in Side, ReceiverMayRead(a) PROVE CountBound'
  BY <1>7 DEF ReceiverMayRead, CountBound, senderVars
<1>8. ASSUME NEW a \in Side, ReceiverLocks(a) PROVE CountBound'
  BY <1>8 DEF ReceiverLocks, Lock, CountBound, senderVars
<1>9. ASSUME NEW a \in Side, ReadPacket(a) PROVE CountBound'
  BY <1>9 DEF ReadPacket, Read, Stop, Unlock, CountBound, senderVars
<1>10. ASSUME NEW a \in Side, ReceiverFails(a) PROVE CountBound'
  BY <1>10 DEF ReceiverFails, Stop, Unlock, CountBound, senderVars
<1>11. ASSUME NEW a \in Side, ProcessMessage(a) PROVE CountBound'
  BY <1>11 DEF ProcessMessage, CountBound, senderVars
<1>12. ASSUME NEW a \in Side, StopSender(a) PROVE CountBound'
  BY <1>12 DEF StopSender, CountBound, senderVars
<1>13. ASSUME NEW a \in Side, StopReceiver(a) PROVE CountBound'
  BY <1>13 DEF StopReceiver, Disconnect, CountBound, senderVars
<1>14. ASSUME NEW a \in Side, Crash(a) PROVE CountBound'
  BY <1>14 DEF Crash, CountBound, senderVars
<1>15. ASSUME NEW a \in Side, NEW n \in 1..MaxParts, PostMessage(a, n) PROVE CountBound'
  <2>1. SenderLives(a) /\ Len(posted[a]) < MaxMessages
    BY <1>15 DEF PostMessage, Connected, SenderLives
  <2>2. PICK h \in 0..1 : sent[a] + count[a] + h = Len(posted[a])
    BY <2>1 DEF ServentInv, WriterInv, Holding
  <2>3. count[a] + 1 \in 0..MaxMessages
    BY <2>1, <2>2
  <2>4. QED
    BY <1>15, <2>3 DEF PostMessage, CountBound
<1>16. CASE Reconnect
  <2>1. 0 \in 0..MaxMessages
    OBVIOUS
  <2>2. QED
    BY <1>16, <2>1 DEF Reconnect, CountBound
<1>17. CASE UNCHANGED vars
  BY <1>17 DEF CountBound, senderVars, vars
<1> QED
  BY <1>1, <1>2, <1>3, <1>4, <1>5, <1>6, <1>7, <1>8, <1>9, <1>10,
     <1>11, <1>12, <1>13, <1>14, <1>15, <1>16, <1>17
     DEF Next, SenderStep, ReceiverStep, ManagerStep

LEMMA PartBoundStep ==
  ASSUME ServentInv, PartBound, [Next]_vars
  PROVE  PartBound'
<1>u. /\ Types /\ MaxParts \in Nat /\ 0 \in 0..MaxParts
      /\ SeqNums \in Nat \ {0} /\ 0 \in 0..(SeqNums - 1)
  BY ServentAssumption DEF ServentInv
<1> USE <1>u
<1>1. ASSUME NEW a \in Side, SenderWakes(a) PROVE PartBound'
  BY <1>1 DEF SenderWakes, PartBound, senderVars
<1>2. ASSUME NEW a \in Side, SenderYields(a) PROVE PartBound'
  BY <1>2 DEF SenderYields, PartBound, senderVars
<1>3. ASSUME NEW a \in Side, SenderMayWrite(a) PROVE PartBound'
  BY <1>3 DEF SenderMayWrite, PartBound, senderVars
<1>4. ASSUME NEW a \in Side, SenderLocks(a) PROVE PartBound'
  BY <1>4 DEF SenderLocks, Lock, PartBound, senderVars
<1>5. ASSUME NEW a \in Side, WritePacket(a) PROVE PartBound'
  <2>1. part[a] + 1 \in 0..MaxParts
    <3>1. sent[a] + 1 \in 1..Len(posted[a]) /\ part[a] < Len(posted[a][sent[a] + 1])
      BY <1>5, InHand DEF WritePacket, ServentInv, WriterInv
    <3>2. Len(posted[a][sent[a] + 1]) \in 1..MaxParts
      BY <3>1 DEF ServentInv, PostedInv
    <3>3. part[a] \in Nat
      BY DEF Types
    <3>4. QED
      BY <3>1, <3>2, <3>3
  <2>2. NextSeqNum(nSeqNum[a]) \in 0..(SeqNums - 1)
    <3>1. ASSUME NEW n \in Nat PROVE NextSeqNum(n) \in 0..(SeqNums - 1)
      BY DEF NextSeqNum
    <3>2. QED
      BY <3>1 DEF Types
  <2>3. part' = [part EXCEPT ![a] = part[a] + 1]
        /\ (nSeqNum' = nSeqNum \/ nSeqNum' = [nSeqNum EXCEPT ![a] = NextSeqNum(nSeqNum[a])])
    BY <1>5 DEF WritePacket
  <2>4. QED
    BY <2>1, <2>2, <2>3 DEF PartBound
<1>6. ASSUME NEW a \in Side, SenderFails(a) PROVE PartBound'
  BY <1>6 DEF SenderFails, Stop, Unlock, PartBound, senderVars
<1>7. ASSUME NEW a \in Side, ReceiverMayRead(a) PROVE PartBound'
  BY <1>7 DEF ReceiverMayRead, PartBound, senderVars
<1>8. ASSUME NEW a \in Side, ReceiverLocks(a) PROVE PartBound'
  BY <1>8 DEF ReceiverLocks, Lock, PartBound, senderVars
<1>9. ASSUME NEW a \in Side, ReadPacket(a) PROVE PartBound'
  BY <1>9 DEF ReadPacket, Read, Stop, Unlock, PartBound, senderVars
<1>10. ASSUME NEW a \in Side, ReceiverFails(a) PROVE PartBound'
  BY <1>10 DEF ReceiverFails, Stop, Unlock, PartBound, senderVars
<1>11. ASSUME NEW a \in Side, ProcessMessage(a) PROVE PartBound'
  BY <1>11 DEF ProcessMessage, PartBound, senderVars
<1>12. ASSUME NEW a \in Side, StopSender(a) PROVE PartBound'
  BY <1>12 DEF StopSender, PartBound, senderVars
<1>13. ASSUME NEW a \in Side, StopReceiver(a) PROVE PartBound'
  BY <1>13 DEF StopReceiver, Disconnect, PartBound, senderVars
<1>14. ASSUME NEW a \in Side, Crash(a) PROVE PartBound'
  BY <1>14 DEF Crash, PartBound, senderVars
<1>15. ASSUME NEW a \in Side, NEW n \in 1..MaxParts, PostMessage(a, n) PROVE PartBound'
  BY <1>15 DEF PostMessage, PartBound, senderVars
<1>16. CASE Reconnect
  BY <1>16 DEF Reconnect, Connect, PartBound, senderVars
<1>17. CASE UNCHANGED vars
  BY <1>17 DEF PartBound, senderVars, vars
<1> QED
  BY <1>1, <1>2, <1>3, <1>4, <1>5, <1>6, <1>7, <1>8, <1>9, <1>10,
     <1>11, <1>12, <1>13, <1>14, <1>15, <1>16, <1>17
     DEF Next, SenderStep, ReceiverStep, ManagerStep

LEMMA PipeBoundStep ==
  ASSUME ServentInv, PipeBound, [Next]_vars
  PROVE  PipeBound'
<1>u. /\ Types /\ Room \in Nat
      /\ \A s \in Side : pipe[s] \in Seq(Packets) /\ Len(pipe[s]) \in Nat /\ Len(pipe[s]) <= Room
  <2>1. Types /\ Room \in Nat /\ \A s \in Side : Len(pipe[s]) <= Room
    BY ServentAssumption DEF ServentInv, PipeBound
  <2>2. \A s \in Side : pipe[s] \in Seq(Packets)
    BY <2>1 DEF Types
  <2>3. QED
    BY <2>1, <2>2
<1> USE <1>u
<1>1. ASSUME NEW a \in Side, SenderWakes(a) PROVE PipeBound'
  BY <1>1 DEF SenderWakes, PipeBound
<1>2. ASSUME NEW a \in Side, SenderYields(a) PROVE PipeBound'
  BY <1>2 DEF SenderYields, PipeBound
<1>3. ASSUME NEW a \in Side, SenderMayWrite(a) PROVE PipeBound'
  BY <1>3 DEF SenderMayWrite, PipeBound
<1>4. ASSUME NEW a \in Side, SenderLocks(a) PROVE PipeBound'
  BY <1>4 DEF SenderLocks, Lock, PipeBound
<1>5. ASSUME NEW a \in Side, WritePacket(a) PROVE PipeBound'
  <2>1. pipe' = [pipe EXCEPT ![a] = Append(pipe[a], MakePacket(a))] /\ Len(pipe[a]) < Room
    BY <1>5 DEF WritePacket, Write
  <2>2. MakePacket(a) \in Packets
    BY <1>5, PacketMade DEF ServentInv, WritePacket
  <2>3. Len(Append(pipe[a], MakePacket(a))) = Len(pipe[a]) + 1
    BY <2>2
  <2>4. Len(Append(pipe[a], MakePacket(a))) <= Room
    BY <2>1, <2>3
  <2>5. QED
    BY <2>1, <2>4 DEF PipeBound, Types
<1>6. ASSUME NEW a \in Side, SenderFails(a) PROVE PipeBound'
  BY <1>6 DEF SenderFails, Stop, Unlock, PipeBound
<1>7. ASSUME NEW a \in Side, ReceiverMayRead(a) PROVE PipeBound'
  BY <1>7 DEF ReceiverMayRead, PipeBound
<1>8. ASSUME NEW a \in Side, ReceiverLocks(a) PROVE PipeBound'
  BY <1>8 DEF ReceiverLocks, Lock, PipeBound
<1>9. ASSUME NEW a \in Side, ReadPacket(a) PROVE PipeBound'
  <2>1. Other(a) \in Side /\ pipe[Other(a)] # <<>>
        /\ pipe' = [pipe EXCEPT ![Other(a)] = Tail(pipe[Other(a)])]
    BY <1>9, Sides DEF ReadPacket, Read, Inbound
  <2>2. Len(Tail(pipe[Other(a)])) = Len(pipe[Other(a)]) - 1
    BY <2>1
  <2>3. Len(Tail(pipe[Other(a)])) <= Room
    BY <2>1, <2>2
  <2>4. QED
    BY <2>1, <2>3 DEF PipeBound, Types
<1>10. ASSUME NEW a \in Side, ReceiverFails(a) PROVE PipeBound'
  BY <1>10 DEF ReceiverFails, Stop, Unlock, PipeBound
<1>11. ASSUME NEW a \in Side, ProcessMessage(a) PROVE PipeBound'
  BY <1>11 DEF ProcessMessage, PipeBound
<1>12. ASSUME NEW a \in Side, StopSender(a) PROVE PipeBound'
  BY <1>12 DEF StopSender, PipeBound
<1>13. ASSUME NEW a \in Side, StopReceiver(a) PROVE PipeBound'
  BY <1>13 DEF StopReceiver, Disconnect, PipeBound
<1>14. ASSUME NEW a \in Side, Crash(a) PROVE PipeBound'
  <2>1. Len(<<>>) <= Room
    OBVIOUS
  <2>2. QED
    BY <1>14, <2>1 DEF Crash, PipeBound, Types
<1>15. ASSUME NEW a \in Side, NEW n \in 1..MaxParts, PostMessage(a, n) PROVE PipeBound'
  BY <1>15 DEF PostMessage, PipeBound
<1>16. CASE Reconnect
  <2>1. Len(<<>>) <= Room
    OBVIOUS
  <2>2. QED
    BY <1>16, <2>1 DEF Reconnect, Connect, PipeBound
<1>17. CASE UNCHANGED vars
  BY <1>17 DEF PipeBound, vars
<1> QED
  BY <1>1, <1>2, <1>3, <1>4, <1>5, <1>6, <1>7, <1>8, <1>9, <1>10,
     <1>11, <1>12, <1>13, <1>14, <1>15, <1>16, <1>17
     DEF Next, SenderStep, ReceiverStep, ManagerStep

LEMMA ReadBoundStep ==
  ASSUME ServentInv, ReadBound, [Next]_vars
  PROVE  ReadBound'
<1>u. Types /\ Len(NothingRead.data) <= MaxParts
  BY ServentAssumption DEF ServentInv, NothingRead
<1> USE <1>u
<1>1. ASSUME NEW a \in Side, SenderWakes(a) PROVE ReadBound'
  BY <1>1 DEF SenderWakes, ReadBound, receiverVars
<1>2. ASSUME NEW a \in Side, SenderYields(a) PROVE ReadBound'
  BY <1>2 DEF SenderYields, ReadBound, receiverVars
<1>3. ASSUME NEW a \in Side, SenderMayWrite(a) PROVE ReadBound'
  BY <1>3 DEF SenderMayWrite, ReadBound, receiverVars
<1>4. ASSUME NEW a \in Side, SenderLocks(a) PROVE ReadBound'
  BY <1>4 DEF SenderLocks, Lock, ReadBound, receiverVars
<1>5. ASSUME NEW a \in Side, WritePacket(a) PROVE ReadBound'
  BY <1>5 DEF WritePacket, Write, Unlock, ReadBound, receiverVars
<1>6. ASSUME NEW a \in Side, SenderFails(a) PROVE ReadBound'
  BY <1>6 DEF SenderFails, Stop, Unlock, ReadBound, receiverVars
<1>7. ASSUME NEW a \in Side, ReceiverMayRead(a) PROVE ReadBound'
  BY <1>7 DEF ReceiverMayRead, ReadBound, receiverVars
<1>8. ASSUME NEW a \in Side, ReceiverLocks(a) PROVE ReadBound'
  BY <1>8 DEF ReceiverLocks, Lock, ReadBound, receiverVars, Types
<1>9. ASSUME NEW a \in Side, ReadPacket(a) PROVE ReadBound'
  <2> DEFINE p == Head(Inbound(a))
             r == Append(reading[a].data, p.data)
  <2>1. /\ reading' = [reading EXCEPT ![a] = [seq |-> p.seq, frag |-> p.frag, data |-> r]]
        /\ Len(reading[a].data) < MaxParts /\ p \in Packets
    BY <1>9, PacketRead
  <2>2. reading[a].data \in Seq(Piece) /\ p.data \in Piece /\ MaxParts \in Nat
    BY <2>1, ServentAssumption DEF Types, Packets
  <2> HIDE DEF p
  <2>3. Len(r) <= MaxParts
    <3>1. Len(r) = Len(reading[a].data) + 1 /\ Len(reading[a].data) \in Nat
      BY <2>2
    <3>2. QED
      BY <2>1, <2>2, <3>1
  <2> HIDE DEF r
  <2>4. QED
    BY <2>1, <2>3 DEF ReadBound, Types
<1>10. ASSUME NEW a \in Side, ReceiverFails(a) PROVE ReadBound'
  BY <1>10 DEF ReceiverFails, Stop, Unlock, ReadBound, receiverVars
<1>11. ASSUME NEW a \in Side, ProcessMessage(a) PROVE ReadBound'
  BY <1>11 DEF ProcessMessage, ReadBound, receiverVars
<1>12. ASSUME NEW a \in Side, StopSender(a) PROVE ReadBound'
  BY <1>12 DEF StopSender, ReadBound, receiverVars
<1>13. ASSUME NEW a \in Side, StopReceiver(a) PROVE ReadBound'
  BY <1>13 DEF StopReceiver, Disconnect, ReadBound, receiverVars
<1>14. ASSUME NEW a \in Side, Crash(a) PROVE ReadBound'
  BY <1>14 DEF Crash, ReadBound, receiverVars
<1>15. ASSUME NEW a \in Side, NEW n \in 1..MaxParts, PostMessage(a, n) PROVE ReadBound'
  BY <1>15 DEF PostMessage, ReadBound, receiverVars
<1>16. CASE Reconnect
  BY <1>16 DEF Reconnect, Connect, ReadBound, receiverVars, Types
<1>17. CASE UNCHANGED vars
  BY <1>17 DEF ReadBound, receiverVars, vars
<1> QED
  BY <1>1, <1>2, <1>3, <1>4, <1>5, <1>6, <1>7, <1>8, <1>9, <1>10,
     <1>11, <1>12, <1>13, <1>14, <1>15, <1>16, <1>17
     DEF Next, SenderStep, ReceiverStep, ManagerStep

LEMMA LinkBoundStep ==
  ASSUME LinkBound, [Next]_vars
  PROVE  LinkBound'
<1>u. MaxConnections \in Nat
  BY ServentAssumption
<1> USE <1>u
<1>1. ASSUME NEW a \in Side, SenderWakes(a) PROVE LinkBound'
  BY <1>1 DEF SenderWakes, LinkBound
<1>2. ASSUME NEW a \in Side, SenderYields(a) PROVE LinkBound'
  BY <1>2 DEF SenderYields, LinkBound
<1>3. ASSUME NEW a \in Side, SenderMayWrite(a) PROVE LinkBound'
  BY <1>3 DEF SenderMayWrite, LinkBound
<1>4. ASSUME NEW a \in Side, SenderLocks(a) PROVE LinkBound'
  BY <1>4 DEF SenderLocks, Lock, LinkBound
<1>5. ASSUME NEW a \in Side, WritePacket(a) PROVE LinkBound'
  BY <1>5 DEF WritePacket, Write, Unlock, LinkBound
<1>6. ASSUME NEW a \in Side, SenderFails(a) PROVE LinkBound'
  BY <1>6 DEF SenderFails, Stop, Unlock, LinkBound
<1>7. ASSUME NEW a \in Side, ReceiverMayRead(a) PROVE LinkBound'
  BY <1>7 DEF ReceiverMayRead, LinkBound
<1>8. ASSUME NEW a \in Side, ReceiverLocks(a) PROVE LinkBound'
  BY <1>8 DEF ReceiverLocks, Lock, LinkBound
<1>9. ASSUME NEW a \in Side, ReadPacket(a) PROVE LinkBound'
  BY <1>9 DEF ReadPacket, Read, Stop, Unlock, LinkBound
<1>10. ASSUME NEW a \in Side, ReceiverFails(a) PROVE LinkBound'
  BY <1>10 DEF ReceiverFails, Stop, Unlock, LinkBound
<1>11. ASSUME NEW a \in Side, ProcessMessage(a) PROVE LinkBound'
  BY <1>11 DEF ProcessMessage, LinkBound
<1>12. ASSUME NEW a \in Side, StopSender(a) PROVE LinkBound'
  BY <1>12 DEF StopSender, LinkBound
<1>13. ASSUME NEW a \in Side, StopReceiver(a) PROVE LinkBound'
  BY <1>13 DEF StopReceiver, Disconnect, LinkBound
<1>14. ASSUME NEW a \in Side, Crash(a) PROVE LinkBound'
  BY <1>14 DEF Crash, LinkBound
<1>15. ASSUME NEW a \in Side, NEW n \in 1..MaxParts, PostMessage(a, n) PROVE LinkBound'
  BY <1>15 DEF PostMessage, LinkBound
<1>16. CASE Reconnect
  BY <1>16 DEF Reconnect, Connect, LinkBound
<1>17. CASE UNCHANGED vars
  BY <1>17 DEF LinkBound, vars
<1> QED
  BY <1>1, <1>2, <1>3, <1>4, <1>5, <1>6, <1>7, <1>8, <1>9, <1>10,
     <1>11, <1>12, <1>13, <1>14, <1>15, <1>16, <1>17
     DEF Next, SenderStep, ReceiverStep, ManagerStep

\* The states of the threads, the mutexes, the queues and the pipes, and their bounds:
\* a pipe never holds more than its room, a message never has more than MaxParts pieces.
THEOREM ServentTypeCorrect == Spec => []ServentTypeOK
<1>1. ServentInv /\ Bounds /\ [Next]_vars => Bounds'
  BY PostedBoundStep, CountBoundStep, PartBoundStep, PipeBoundStep, ReadBoundStep,
     LinkBoundStep DEF Bounds
<1>2. ServentInv /\ Bounds => ServentTypeOK
  BY TypesAndBounds DEF ServentInv
<1>3. QED
  BY <1>1, <1>2, BoundsInit, Invariant, PTL DEF Spec

-----------------------------------------------------------------------------
(* No standoff                                                                 *)

\* The mutex is held by the thread that reads or writes.
LockInv(s) ==
  /\ sPC[s] = "writing" => mutex[s] = "sender"
  /\ rPC[s] = "reading" => mutex[s] = "receiver"

\* Of two senders on their way to write, the one that looked last found nothing to
\* read: the pipe of the other holds no more than its message under way.
Fresh(s) == Len(pipe[s]) <= WriteFrag(s)
Bound(s) == sPC[s] \in {"write", "writing"}

TurnsInv ==
  \A s \in Side :
    Bound(s) /\ Bound(Other(s)) =>
      \/ MutexLost(s) \/ MutexLost(Other(s))
      \/ Fresh(s) \/ Fresh(Other(s))

StandoffInv == (\A s \in Side : LockInv(s)) /\ TurnsInv

LEMMA LockStep ==
  ASSUME ServentInv, [Next]_vars, NEW s \in Side, LockInv(s)
  PROVE  LockInv(s)'
<1>u. Types
  BY DEF ServentInv
<1> USE <1>u
<1>1. ASSUME NEW a \in Side, SenderWakes(a) PROVE LockInv(s)'
  BY <1>1 DEF SenderWakes, LockInv, Types, senderVars, receiverVars
<1>2. ASSUME NEW a \in Side, SenderYields(a) PROVE LockInv(s)'
  BY <1>2 DEF SenderYields, LockInv, Types, senderVars, receiverVars
<1>3. ASSUME NEW a \in Side, SenderMayWrite(a) PROVE LockInv(s)'
  BY <1>3 DEF SenderMayWrite, LockInv, Types, senderVars, receiverVars
<1>4. ASSUME NEW a \in Side, SenderLocks(a) PROVE LockInv(s)'
  BY <1>4 DEF SenderLocks, Lock, LockInv, Types, senderVars, receiverVars
<1>5. ASSUME NEW a \in Side, WritePacket(a) PROVE LockInv(s)'
  <2>1. rPC' = rPC /\ sPC[a] = "writing"
        /\ \/ sPC' = sPC /\ mutex' = mutex
           \/ sPC' = [sPC EXCEPT ![a] = "wait"] /\ mutex' = [mutex EXCEPT ![a] = "free"]
    BY <1>5 DEF WritePacket, Unlock, receiverVars
  <2>2. QED
    BY <2>1 DEF LockInv, Types
<1>6. ASSUME NEW a \in Side, SenderFails(a) PROVE LockInv(s)'
  BY <1>6 DEF SenderFails, Stop, Unlock, LockInv, Types, senderVars, receiverVars
<1>7. ASSUME NEW a \in Side, ReceiverMayRead(a) PROVE LockInv(s)'
  BY <1>7 DEF ReceiverMayRead, LockInv, Types, senderVars, receiverVars
<1>8. ASSUME NEW a \in Side, ReceiverLocks(a) PROVE LockInv(s)'
  BY <1>8 DEF ReceiverLocks, Lock, LockInv, Types, senderVars, receiverVars
<1>9. ASSUME NEW a \in Side, ReadPacket(a) PROVE LockInv(s)'
  <2> DEFINE p == Head(Inbound(a))
  <2>1. /\ rPC' = IF EndsMessage(p) THEN [rPC EXCEPT ![a] = "process"] ELSE rPC
        /\ mutex' = IF EndsMessage(p) THEN [mutex EXCEPT ![a] = "free"] ELSE mutex
    BY <1>9, PacketRead
  <2>2. sPC' = sPC /\ rPC[a] = "reading"
    BY <1>9 DEF ReadPacket, senderVars
  <2> HIDE DEF p
  <2>3. QED
    BY <2>1, <2>2 DEF LockInv, Types
<1>10. ASSUME NEW a \in Side, ReceiverFails(a) PROVE LockInv(s)'
  BY <1>10 DEF ReceiverFails, Stop, Unlock, LockInv, Types, senderVars, receiverVars
<1>11. ASSUME NEW a \in Side, ProcessMessage(a) PROVE LockInv(s)'
  BY <1>11 DEF ProcessMessage, LockInv, Types, senderVars, receiverVars
<1>12. ASSUME NEW a \in Side, StopSender(a) PROVE LockInv(s)'
  BY <1>12 DEF StopSender, LockInv, Types, senderVars, receiverVars
<1>13. ASSUME NEW a \in Side, StopReceiver(a) PROVE LockInv(s)'
  BY <1>13 DEF StopReceiver, Disconnect, LockInv, Types, senderVars, receiverVars
<1>14. ASSUME NEW a \in Side, Crash(a) PROVE LockInv(s)'
  BY <1>14 DEF Crash, LockInv, Types, senderVars, receiverVars
<1>15. ASSUME NEW a \in Side, NEW n \in 1..MaxParts, PostMessage(a, n) PROVE LockInv(s)'
  BY <1>15 DEF PostMessage, LockInv, Types, senderVars, receiverVars
<1>16. CASE Reconnect
  BY <1>16 DEF Reconnect, Connect, LockInv, Types, senderVars, receiverVars
<1>17. CASE UNCHANGED vars
  BY <1>17 DEF LockInv, Types, senderVars, receiverVars, vars
<1> QED
  BY <1>1, <1>2, <1>3, <1>4, <1>5, <1>6, <1>7, <1>8, <1>9, <1>10,
     <1>11, <1>12, <1>13, <1>14, <1>15, <1>16, <1>17
     DEF Next, SenderStep, ReceiverStep, ManagerStep

\* A lost mutex stays lost while its process goes on.
LEMMA LostStep ==
  ASSUME ServentInv, [Next]_vars, NEW s \in Side, LockInv(s), MutexLost(s), Bound(s)'
  PROVE  MutexLost(s)' \/ Reconnect
<1>u. Types
  BY DEF ServentInv
<1> USE <1>u
<1>1. ASSUME NEW a \in Side, SenderWakes(a) PROVE MutexLost(s)' \/ Reconnect
  BY <1>1 DEF SenderWakes, LockInv, MutexLost, Types, senderVars, receiverVars
<1>2. ASSUME NEW a \in Side, SenderYields(a) PROVE MutexLost(s)' \/ Reconnect
  BY <1>2 DEF SenderYields, LockInv, MutexLost, Types, senderVars, receiverVars
<1>3. ASSUME NEW a \in Side, SenderMayWrite(a) PROVE MutexLost(s)' \/ Reconnect
  BY <1>3 DEF SenderMayWrite, LockInv, MutexLost, Types, senderVars, receiverVars
<1>4. ASSUME NEW a \in Side, SenderLocks(a) PROVE MutexLost(s)' \/ Reconnect
  BY <1>4 DEF SenderLocks, Lock, LockInv, MutexLost, Types, senderVars, receiverVars
<1>5. ASSUME NEW a \in Side, WritePacket(a) PROVE MutexLost(s)' \/ Reconnect
  <2>1. rPC' = rPC /\ sPC[a] = "writing"
        /\ \/ sPC' = sPC /\ mutex' = mutex
           \/ sPC' = [sPC EXCEPT ![a] = "wait"] /\ mutex' = [mutex EXCEPT ![a] = "free"]
    BY <1>5 DEF WritePacket, Unlock, receiverVars
  <2>2. QED
    BY <2>1 DEF LockInv, MutexLost, Types
<1>6. ASSUME NEW a \in Side, SenderFails(a) PROVE MutexLost(s)' \/ Reconnect
  BY <1>6 DEF SenderFails, Stop, Unlock, LockInv, MutexLost, Types, senderVars, receiverVars
<1>7. ASSUME NEW a \in Side, ReceiverMayRead(a) PROVE MutexLost(s)' \/ Reconnect
  BY <1>7 DEF ReceiverMayRead, LockInv, MutexLost, Types, senderVars, receiverVars
<1>8. ASSUME NEW a \in Side, ReceiverLocks(a) PROVE MutexLost(s)' \/ Reconnect
  BY <1>8 DEF ReceiverLocks, Lock, LockInv, MutexLost, Types, senderVars, receiverVars
<1>9. ASSUME NEW a \in Side, ReadPacket(a) PROVE MutexLost(s)' \/ Reconnect
  <2> DEFINE p == Head(Inbound(a))
  <2>1. /\ rPC' = IF EndsMessage(p) THEN [rPC EXCEPT ![a] = "process"] ELSE rPC
        /\ mutex' = IF EndsMessage(p) THEN [mutex EXCEPT ![a] = "free"] ELSE mutex
    BY <1>9, PacketRead
  <2>2. sPC' = sPC /\ rPC[a] = "reading"
    BY <1>9 DEF ReadPacket, senderVars
  <2> HIDE DEF p
  <2>3. QED
    BY <2>1, <2>2 DEF LockInv, MutexLost, Types
<1>10. ASSUME NEW a \in Side, ReceiverFails(a) PROVE MutexLost(s)' \/ Reconnect
  BY <1>10 DEF ReceiverFails, Stop, Unlock, LockInv, MutexLost, Types, senderVars, receiverVars
<1>11. ASSUME NEW a \in Side, ProcessMessage(a) PROVE MutexLost(s)' \/ Reconnect
  BY <1>11 DEF ProcessMessage, LockInv, MutexLost, Types, senderVars, receiverVars
<1>12. ASSUME NEW a \in Side, StopSender(a) PROVE MutexLost(s)' \/ Reconnect
  BY <1>12 DEF StopSender, LockInv, MutexLost, Types, senderVars, receiverVars
<1>13. ASSUME NEW a \in Side, StopReceiver(a) PROVE MutexLost(s)' \/ Reconnect
  BY <1>13 DEF StopReceiver, Disconnect, LockInv, MutexLost, Types, senderVars, receiverVars
<1>14. ASSUME NEW a \in Side, Crash(a) PROVE MutexLost(s)' \/ Reconnect
  BY <1>14 DEF Crash, LockInv, MutexLost, Types, senderVars, receiverVars, Bound
<1>15. ASSUME NEW a \in Side, NEW n \in 1..MaxParts, PostMessage(a, n) PROVE MutexLost(s)' \/ Reconnect
  BY <1>15 DEF PostMessage, LockInv, MutexLost, Types, senderVars, receiverVars
<1>16. CASE Reconnect
  BY <1>16
<1>17. CASE UNCHANGED vars
  BY <1>17 DEF LockInv, MutexLost, Types, senderVars, receiverVars, vars
<1> QED
  BY <1>1, <1>2, <1>3, <1>4, <1>5, <1>6, <1>7, <1>8, <1>9, <1>10,
     <1>11, <1>12, <1>13, <1>14, <1>15, <1>16, <1>17
     DEF Next, SenderStep, ReceiverStep, ManagerStep

\* A sender that was on its way stays so with what it has left in its pipe.
LEMMA FreshStep ==
  ASSUME ServentInv, [Next]_vars, NEW s \in Side, Bound(s), Fresh(s), Bound(s)'
  PROVE  Fresh(s)' \/ Reconnect
<1>u. /\ Types /\ pipe[s] \in Seq(Packets) /\ Len(pipe[s]) \in Nat /\ part[s] \in Nat
      /\ Len(pipe[s]) <= WriteFrag(s) /\ WriteFrag(s) \in Nat
  <2>1. Types /\ Len(pipe[s]) <= WriteFrag(s)
    BY DEF ServentInv, Fresh
  <2>2. pipe[s] \in Seq(Packets) /\ part[s] \in Nat
    BY <2>1 DEF Types
  <2>3. QED
    BY <2>1, <2>2 DEF WriteFrag
<1> USE <1>u
<1>1. ASSUME NEW a \in Side, SenderWakes(a) PROVE Fresh(s)' \/ Reconnect
  <2>1. pipe'[s] = pipe[s] /\ WriteFrag(s)' = WriteFrag(s)
    BY <1>1 DEF SenderWakes, Types, Bound, WriteFrag, senderVars
  <2>2. QED
    BY <2>1 DEF Fresh
<1>2. ASSUME NEW a \in Side, SenderYields(a) PROVE Fresh(s)' \/ Reconnect
  <2>1. pipe'[s] = pipe[s] /\ WriteFrag(s)' = WriteFrag(s)
    BY <1>2 DEF SenderYields, Types, Bound, WriteFrag, senderVars
  <2>2. QED
    BY <2>1 DEF Fresh
<1>3. ASSUME NEW a \in Side, SenderMayWrite(a) PROVE Fresh(s)' \/ Reconnect
  <2>1. pipe'[s] = pipe[s] /\ WriteFrag(s)' = WriteFrag(s)
    BY <1>3 DEF SenderMayWrite, Types, Bound, WriteFrag, senderVars
  <2>2. QED
    BY <2>1 DEF Fresh
<1>4. ASSUME NEW a \in Side, SenderLocks(a) PROVE Fresh(s)' \/ Reconnect
  <2>1. pipe'[s] = pipe[s] /\ (WriteFrag(s)' = WriteFrag(s))
    BY <1>4 DEF SenderLocks, Types, WriteFrag
  <2>2. QED
    BY <2>1 DEF Fresh
<1>5. ASSUME NEW a \in Side, WritePacket(a) PROVE Fresh(s)' \/ Reconnect
  <2>1. CASE s # a
    <3>1. pipe'[s] = pipe[s] /\ WriteFrag(s)' = WriteFrag(s)
      BY <1>5, <2>1 DEF WritePacket, Write, WriteFrag, Types
    <3>2. QED
      BY <3>1 DEF Fresh
  <2>2. CASE s = a
    <3>1. /\ sPC[s] = "writing" /\ sPC'[s] \in {"writing", "wait"} /\ part'[s] = part[s] + 1
          /\ pipe'[s] = Append(pipe[s], MakePacket(s))
      BY <1>5, <2>2 DEF WritePacket, Write, Types
    <3>2. MakePacket(s) \in Packets
      BY <3>1, PacketMade DEF ServentInv
    <3>3. Len(pipe'[s]) = Len(pipe[s]) + 1
      BY <3>1, <3>2
    <3>4. WriteFrag(s) = part[s] /\ WriteFrag(s)' = part[s] + 1
      BY <3>1 DEF WriteFrag, Bound
    <3>5. QED
      BY <3>3, <3>4 DEF Fresh
  <2>3. QED
    BY <2>1, <2>2
<1>6. ASSUME NEW a \in Side, SenderFails(a) PROVE Fresh(s)' \/ Reconnect
  <2>1. pipe'[s] = pipe[s] /\ WriteFrag(s)' = WriteFrag(s)
    BY <1>6 DEF SenderFails, Stop, Unlock, Types, Bound, WriteFrag, senderVars
  <2>2. QED
    BY <2>1 DEF Fresh
<1>7. ASSUME NEW a \in Side, ReceiverMayRead(a) PROVE Fresh(s)' \/ Reconnect
  <2>1. pipe'[s] = pipe[s] /\ WriteFrag(s)' = WriteFrag(s)
    BY <1>7 DEF ReceiverMayRead, Types, Bound, WriteFrag, senderVars
  <2>2. QED
    BY <2>1 DEF Fresh
<1>8. ASSUME NEW a \in Side, ReceiverLocks(a) PROVE Fresh(s)' \/ Reconnect
  <2>1. pipe'[s] = pipe[s] /\ WriteFrag(s)' = WriteFrag(s)
    BY <1>8 DEF ReceiverLocks, Lock, Types, Bound, WriteFrag, senderVars
  <2>2. QED
    BY <2>1 DEF Fresh
<1>9. ASSUME NEW a \in Side, ReadPacket(a) PROVE Fresh(s)' \/ Reconnect
  <2>1. WriteFrag(s)' = WriteFrag(s) /\ Inbound(a) # <<>> /\ pipe' = [pipe EXCEPT ![Other(a)] = Tail(@)]
    BY <1>9 DEF ReadPacket, Read, WriteFrag, senderVars
  <2>2. CASE s # Other(a)
    BY <2>1, <2>2 DEF Fresh, Types
  <2>3. CASE s = Other(a)
    <3>1. pipe'[s] = Tail(pipe[s]) /\ pipe[s] # <<>>
      BY <2>1, <2>3 DEF Inbound, Types
    <3>2. Len(pipe'[s]) = Len(pipe[s]) - 1
      BY <3>1
    <3>3. QED
      BY <2>1, <3>2 DEF Fresh
  <2>4. QED
    BY <2>2, <2>3
<1>10. ASSUME NEW a \in Side, ReceiverFails(a) PROVE Fresh(s)' \/ Reconnect
  <2>1. pipe'[s] = pipe[s] /\ WriteFrag(s)' = WriteFrag(s)
    BY <1>10 DEF ReceiverFails, Stop, Unlock, Types, Bound, WriteFrag, senderVars
  <2>2. QED
    BY <2>1 DEF Fresh
<1>11. ASSUME NEW a \in Side, ProcessMessage(a) PROVE Fresh(s)' \/ Reconnect
  <2>1. pipe'[s] = pipe[s] /\ WriteFrag(s)' = WriteFrag(s)
    BY <1>11 DEF ProcessMessage, Types, Bound, WriteFrag, senderVars
  <2>2. QED
    BY <2>1 DEF Fresh
<1>12. ASSUME NEW a \in Side, StopSender(a) PROVE Fresh(s)' \/ Reconnect
  <2>1. pipe'[s] = pipe[s] /\ WriteFrag(s)' = WriteFrag(s)
    BY <1>12 DEF StopSender, Types, Bound, WriteFrag, senderVars
  <2>2. QED
    BY <2>1 DEF Fresh
<1>13. ASSUME NEW a \in Side, StopReceiver(a) PROVE Fresh(s)' \/ Reconnect
  <2>1. pipe'[s] = pipe[s] /\ WriteFrag(s)' = WriteFrag(s)
    BY <1>13 DEF StopReceiver, Disconnect, Types, Bound, WriteFrag, senderVars
  <2>2. QED
    BY <2>1 DEF Fresh
<1>14. ASSUME NEW a \in Side, Crash(a) PROVE Fresh(s)' \/ Reconnect
  <2>1. s # a
    BY <1>14 DEF Crash, Bound, Types
  <2>2. pipe'[s] = pipe[s] /\ WriteFrag(s)' = WriteFrag(s)
    BY <1>14, <2>1 DEF Crash, WriteFrag, Types
  <2>3. QED
    BY <2>2 DEF Fresh
<1>15. ASSUME NEW a \in Side, NEW n \in 1..MaxParts, PostMessage(a, n) PROVE Fresh(s)' \/ Reconnect
  <2>1. pipe'[s] = pipe[s] /\ WriteFrag(s)' = WriteFrag(s)
    BY <1>15 DEF PostMessage, Types, Bound, WriteFrag, senderVars
  <2>2. QED
    BY <2>1 DEF Fresh
<1>16. CASE Reconnect
  BY <1>16
<1>17. CASE UNCHANGED vars
  <2>1. pipe'[s] = pipe[s] /\ WriteFrag(s)' = WriteFrag(s)
    BY <1>17 DEF vars, senderVars, WriteFrag
  <2>2. QED
    BY <2>1 DEF Fresh
<1> QED
  BY <1>1, <1>2, <1>3, <1>4, <1>5, <1>6, <1>7, <1>8, <1>9, <1>10,
     <1>11, <1>12, <1>13, <1>14, <1>15, <1>16, <1>17
     DEF Next, SenderStep, ReceiverStep, ManagerStep

\* A sender that makes up its mind to write has nothing to read, or no mutex to get.
LEMMA Decides ==
  ASSUME ServentInv, [Next]_vars, NEW s \in Side, ~Bound(s), Bound(s)', Bound(Other(s))
  PROVE  Fresh(Other(s))' \/ MutexLost(s)'
<1>u. Types /\ Other(s) \in Side /\ Other(s) # s
  BY Sides DEF ServentInv
<1> USE <1>u
<1>1. SenderMayWrite(s)
  <2>1. ASSUME NEW a \in Side, SenderWakes(a) PROVE SenderMayWrite(s)
    BY <2>1 DEF SenderWakes, Bound, Types, senderVars, receiverVars
  <2>2. ASSUME NEW a \in Side, SenderYields(a) PROVE SenderMayWrite(s)
    BY <2>2 DEF SenderYields, Bound, Types, senderVars, receiverVars
  <2>3. ASSUME NEW a \in Side, SenderMayWrite(a) PROVE SenderMayWrite(s)
    BY <2>3 DEF SenderMayWrite, Bound, Types
  <2>4. ASSUME NEW a \in Side, SenderLocks(a) PROVE SenderMayWrite(s)
    BY <2>4 DEF SenderLocks, Lock, Bound, Types, senderVars, receiverVars
  <2>5. ASSUME NEW a \in Side, WritePacket(a) PROVE SenderMayWrite(s)
    BY <2>5 DEF WritePacket, Write, Unlock, Bound, Types, senderVars, receiverVars
  <2>6. ASSUME NEW a \in Side, SenderFails(a) PROVE SenderMayWrite(s)
    BY <2>6 DEF SenderFails, Stop, Unlock, Bound, Types, senderVars, receiverVars
  <2>7. ASSUME NEW a \in Side, ReceiverMayRead(a) PROVE SenderMayWrite(s)
    BY <2>7 DEF ReceiverMayRead, Bound, Types, senderVars, receiverVars
  <2>8. ASSUME NEW a \in Side, ReceiverLocks(a) PROVE SenderMayWrite(s)
    BY <2>8 DEF ReceiverLocks, Lock, Bound, Types, senderVars, receiverVars
  <2>9. ASSUME NEW a \in Side, ReadPacket(a) PROVE SenderMayWrite(s)
    BY <2>9 DEF ReadPacket, Read, Stop, Unlock, Bound, Types, senderVars, receiverVars
  <2>10. ASSUME NEW a \in Side, ReceiverFails(a) PROVE SenderMayWrite(s)
    BY <2>10 DEF ReceiverFails, Stop, Unlock, Bound, Types, senderVars, receiverVars
  <2>11. ASSUME NEW a \in Side, ProcessMessage(a) PROVE SenderMayWrite(s)
    BY <2>11 DEF ProcessMessage, Bound, Types, senderVars, receiverVars
  <2>12. ASSUME NEW a \in Side, StopSender(a) PROVE SenderMayWrite(s)
    BY <2>12 DEF StopSender, Bound, Types, senderVars, receiverVars
  <2>13. ASSUME NEW a \in Side, StopReceiver(a) PROVE SenderMayWrite(s)
    BY <2>13 DEF StopReceiver, Disconnect, Bound, Types, senderVars, receiverVars
  <2>14. ASSUME NEW a \in Side, Crash(a) PROVE SenderMayWrite(s)
    BY <2>14 DEF Crash, Bound, Types, senderVars, receiverVars
  <2>15. ASSUME NEW a \in Side, NEW n \in 1..MaxParts, PostMessage(a, n) PROVE SenderMayWrite(s)
    BY <2>15 DEF PostMessage, Bound, Types, senderVars, receiverVars
  <2>16. CASE Reconnect
    BY <2>16 DEF Reconnect, Connect, Bound, Types, senderVars, receiverVars
  <2>17. CASE UNCHANGED vars
    BY <2>17 DEF Bound, Types, senderVars, receiverVars, vars
  <2> QED
    BY <2>1, <2>2, <2>3, <2>4, <2>5, <2>6, <2>7, <2>8, <2>9, <2>10,
       <2>11, <2>12, <2>13, <2>14, <2>15, <2>16, <2>17
       DEF Next, SenderStep, ReceiverStep, ManagerStep
<1>2. sPC[s] = "peek" /\ NothingToRead(s) /\ pipe' = pipe /\ mutex' = mutex /\ rPC' = rPC
      /\ sPC'[s] = "write" /\ WriteFrag(Other(s))' = WriteFrag(Other(s))
  BY <1>1 DEF SenderMayWrite, receiverVars, WriteFrag, Types
<1>3. CASE Inbound(s) = <<>>
  <2>1. part[Other(s)] \in Nat
    BY DEF Types
  <2>2. Len(pipe'[Other(s)]) = 0 /\ WriteFrag(Other(s))' >= 0
    BY <1>2, <1>3, <2>1 DEF Inbound, WriteFrag
  <2>3. QED
    BY <2>2 DEF Fresh
<1>4. CASE Inbound(s) # <<>>
  BY <1>2, <1>4 DEF NothingToRead, Stalled, MutexLost
<1>5. QED
  BY <1>3, <1>4

\* A step moves the sender of one side only.
LEMMA OneSender ==
  ASSUME ServentInv, [Next]_vars, NEW s \in Side, NEW o \in Side, s # o, ~Reconnect
  PROVE  sPC'[s] = sPC[s] \/ sPC'[o] = sPC[o]
<1>u. sPC \in [Side -> {"wait", "peek", "write", "writing", "failed", "none"}]
  BY DEF ServentInv, Types
<1> USE <1>u
<1>1. ASSUME NEW a \in Side, SenderWakes(a) PROVE sPC'[s] = sPC[s] \/ sPC'[o] = sPC[o]
  BY <1>1 DEF SenderWakes, senderVars
<1>2. ASSUME NEW a \in Side, SenderYields(a) PROVE sPC'[s] = sPC[s] \/ sPC'[o] = sPC[o]
  BY <1>2 DEF SenderYields, senderVars
<1>3. ASSUME NEW a \in Side, SenderMayWrite(a) PROVE sPC'[s] = sPC[s] \/ sPC'[o] = sPC[o]
  BY <1>3 DEF SenderMayWrite, senderVars
<1>4. ASSUME NEW a \in Side, SenderLocks(a) PROVE sPC'[s] = sPC[s] \/ sPC'[o] = sPC[o]
  BY <1>4 DEF SenderLocks, Lock, senderVars
<1>5. ASSUME NEW a \in Side, WritePacket(a) PROVE sPC'[s] = sPC[s] \/ sPC'[o] = sPC[o]
  <2>1. sPC' = sPC \/ sPC' = [sPC EXCEPT ![a] = "wait"]
    BY <1>5 DEF WritePacket
  <2>2. QED
    BY <2>1
<1>6. ASSUME NEW a \in Side, SenderFails(a) PROVE sPC'[s] = sPC[s] \/ sPC'[o] = sPC[o]
  <2>1. sPC' = sPC \/ sPC' = [sPC EXCEPT ![a] = "failed"]
    BY <1>6 DEF SenderFails, Stop
  <2>2. QED
    BY <2>1
<1>7. ASSUME NEW a \in Side, ReceiverMayRead(a) PROVE sPC'[s] = sPC[s] \/ sPC'[o] = sPC[o]
  BY <1>7 DEF ReceiverMayRead, senderVars
<1>8. ASSUME NEW a \in Side, ReceiverLocks(a) PROVE sPC'[s] = sPC[s] \/ sPC'[o] = sPC[o]
  BY <1>8 DEF ReceiverLocks, Lock, senderVars
<1>9. ASSUME NEW a \in Side, ReadPacket(a) PROVE sPC'[s] = sPC[s] \/ sPC'[o] = sPC[o]
  BY <1>9 DEF ReadPacket, Read, Stop, Unlock, senderVars
<1>10. ASSUME NEW a \in Side, ReceiverFails(a) PROVE sPC'[s] = sPC[s] \/ sPC'[o] = sPC[o]
  BY <1>10 DEF ReceiverFails, Stop, Unlock, senderVars
<1>11. ASSUME NEW a \in Side, ProcessMessage(a) PROVE sPC'[s] = sPC[s] \/ sPC'[o] = sPC[o]
  BY <1>11 DEF ProcessMessage, senderVars
<1>12. ASSUME NEW a \in Side, StopSender(a) PROVE sPC'[s] = sPC[s] \/ sPC'[o] = sPC[o]
  BY <1>12 DEF StopSender, senderVars
<1>13. ASSUME NEW a \in Side, StopReceiver(a) PROVE sPC'[s] = sPC[s] \/ sPC'[o] = sPC[o]
  BY <1>13 DEF StopReceiver, Disconnect, senderVars
<1>14. ASSUME NEW a \in Side, Crash(a) PROVE sPC'[s] = sPC[s] \/ sPC'[o] = sPC[o]
  BY <1>14 DEF Crash, senderVars
<1>15. ASSUME NEW a \in Side, NEW n \in 1..MaxParts, PostMessage(a, n) PROVE sPC'[s] = sPC[s] \/ sPC'[o] = sPC[o]
  BY <1>15 DEF PostMessage, senderVars
<1>16. CASE Reconnect
  BY <1>16
<1>17. CASE UNCHANGED vars
  BY <1>17 DEF senderVars, vars
<1> QED
  BY <1>1, <1>2, <1>3, <1>4, <1>5, <1>6, <1>7, <1>8, <1>9, <1>10,
     <1>11, <1>12, <1>13, <1>14, <1>15, <1>16, <1>17
     DEF Next, SenderStep, ReceiverStep, ManagerStep

LEMMA TurnsStep ==
  ASSUME ServentInv, [Next]_vars, StandoffInv
  PROVE  TurnsInv'
<1>1. ASSUME NEW s \in Side, Bound(s)', Bound(Other(s))', ~Reconnect
      PROVE  \/ MutexLost(s)' \/ MutexLost(Other(s))'
             \/ Fresh(s)' \/ Fresh(Other(s))'
  <2>1. Other(s) \in Side /\ Other(Other(s)) = s
    BY Sides
  <2>2. CASE Bound(s) /\ Bound(Other(s))
    BY <1>1, <2>1, <2>2, LostStep, FreshStep DEF StandoffInv, TurnsInv
  <2>3. CASE ~Bound(s) /\ Bound(Other(s))
    BY <1>1, <2>1, <2>3, Decides
  <2>4. CASE Bound(s) /\ ~Bound(Other(s))
    BY <1>1, <2>1, <2>4, Decides
  <2>5. CASE ~Bound(s) /\ ~Bound(Other(s))
    <3>1. \A a \in Side : a = s \/ a = Other(s)
      BY Sides
    <3>2. sPC[s] \notin {"write", "writing"} /\ sPC[Other(s)] \notin {"write", "writing"}
      BY <2>5 DEF Bound
    <3>3. sPC'[s] \in {"write", "writing"} /\ sPC'[Other(s)] \in {"write", "writing"}
      BY <1>1 DEF Bound
    <3>4. Other(s) # s /\ Types
      BY Sides DEF ServentInv
    <3>5. sPC'[s] = sPC[s] \/ sPC'[Other(s)] = sPC[Other(s)]
      BY <3>2, <3>4, <2>1, <1>1, OneSender
    <3>6. QED
      BY <3>2, <3>3, <3>5
  <2>6. QED
    BY <2>2, <2>3, <2>4, <2>5
<1>2. CASE Reconnect
  BY <1>2 DEF Reconnect, TurnsInv, Bound
<1>3. QED
  BY <1>1, <1>2 DEF TurnsInv

LEMMA StandoffInit == Init => StandoffInv
  BY DEF Init, StandoffInv, LockInv, TurnsInv, Bound

LEMMA Standoff ==
  ASSUME ServentInv, StandoffInv
  PROVE  NoStandoff
<1> SUFFICES ASSUME \A s \in Side : sPC[s] = "writing" /\ Len(pipe[s]) = Room
             PROVE  FALSE
  BY DEF NoStandoff
<1>1. PICK a \in Side : Other(a) \in Side
  BY Sides, ServentAssumption
<1>2. ASSUME NEW s \in Side PROVE ~MutexLost(s) /\ Bound(s)
  BY DEF StandoffInv, LockInv, MutexLost, Bound
<1>3. ASSUME NEW s \in Side PROVE ~Fresh(s)
  <2>1. sPC[s] = "writing" /\ WriteFrag(s) = part[s] /\ Len(pipe[s]) = Room
    BY DEF WriteFrag
  <2>2. sent[s] + 1 \in 1..Len(posted[s]) /\ part[s] < Len(posted[s][sent[s] + 1])
    BY <2>1, InHand DEF ServentInv, WriterInv
  <2>3. Len(posted[s][sent[s] + 1]) \in 1..MaxParts
    BY <2>2 DEF ServentInv, PostedInv
  <2>4. part[s] \in Nat /\ MaxParts \in Nat /\ Room \in Nat /\ Room >= MaxParts
    BY ServentAssumption DEF ServentInv, Types
  <2>5. part[s] < Room
    BY <2>2, <2>3, <2>4
  <2>6. QED
    BY <2>1, <2>4, <2>5 DEF Fresh
<1>4. QED
  BY <1>1, <1>2, <1>3 DEF StandoffInv, TurnsInv

\* The two processes never wait for each other with both pipes full, each sender
\* holding the mutex that its own receiver needs: looking for something to read before
\* a message is written is enough, however late the write follows (SenderThread::Work).
THEOREM StandoffCorrect == Spec => []NoStandoff
<1>1. ServentInv /\ StandoffInv /\ [Next]_vars => StandoffInv'
  BY LockStep, TurnsStep DEF StandoffInv
<1>2. QED
  BY <1>1, StandoffInit, Standoff, Invariant, PTL DEF Spec

=============================================================================
