----------------------------- MODULE Tftp_proofs -----------------------------
(***************************************************************************)
(* Theorems about Tftp, for every value of its constants.                   *)
(***************************************************************************)
EXTENDS Tftp, TLAPS

USE DEF Transfers

\* The block counter wraps inside its type.
LEMMA IncType ==
  \A b \in Blocks : Inc(b) \in Blocks
  BY XferAssumption DEF Blocks, Inc

\* What is read is a chunk, of the file asked for or none.
LEMMA ReadType ==
  \A t \in 0 .. MaxTransfers, p \in Nat : tftp_file_read(t, p) \in Chunks
  BY PortAssumption DEF tftp_file_read, Chunks, Empty

LEMMA SizeType == \A c : Size(c) \in {0, 1}
  BY DEF Size

LEMMA EmptyType == Empty \in Chunks
  BY PortAssumption DEF Chunks, Empty

\* A datagram the server may put in flight for a session.
LEMMA SendFileType ==
  ASSUME NEW s \in Sessions, NEW resend \in BOOLEAN, NEW fails \in BOOLEAN
  PROVE  SendFile(s, resend, fails) \in Sessions
  <1> DEFINE pos == IF resend THEN s.pos ELSE s.pos + Size(s.last)
             chunk == ReadChunk(s, pos, fails)
  <1>1. pos \in Nat
    BY SizeType DEF Sessions
  <1>2. chunk \in Chunks
    BY <1>1, ReadType, EmptyType DEF ReadChunk, Sessions
  <1>3. s.off + Size(chunk) \in Nat
    BY SizeType DEF Sessions
  <1> HIDE DEF pos, chunk
  <1>4. SendFile(s, resend, fails) =
          [s EXCEPT !.pos = pos, !.last = chunk,
                    !.off = IF Positional THEN @ ELSE @ + Size(chunk)]
    BY DEF SendFile, pos, chunk
  <1> QED
    BY <1>1, <1>2, <1>3, <1>4 DEF Sessions

\* What the two ends put in flight are packets.
LEMMA PacketType ==
  ASSUME NEW a \in Addrs, NEW b \in Addrs, NEW k \in Blocks, NEW c \in Chunks
  PROVE  /\ Data(k, c, a, b) \in Packets
         /\ Ack(k, a, b) \in Packets
         /\ Error(a, b) \in Packets
  BY EmptyType, XferAssumption DEF Data, Ack, Error, Packets, Blocks

LEMMA RequestType ==
  ASSUME NEW o, NEW t \in Transfers
  PROVE  RequestOf(o, t) \in Packets
  BY XferAssumption, PortAssumption
  DEF RequestOf, Request, Socket, Packets, Blocks, Chunks, Addrs, ServerAddr,
      ClientAddr

LEMMA AddrType ==
  /\ ServerAddr \in Addrs /\ NoAddr \in Addrs
  /\ \A n \in Nat : ClientAddr(n) \in Addrs /\ SessionAddr(n) \in Addrs
  BY DEF ServerAddr, NoAddr, ClientAddr, SessionAddr, Addrs

LEMMA SocketType == \A t \in Nat : Socket(t) \in Addrs
  BY AddrType DEF Socket

\* Writing a chunk keeps a file a function from positions to chunks.
LEMMA WriteType ==
  ASSUME NEW file, NEW p \in Nat, NEW c \in Chunks,
         \A i \in DOMAIN file : i \in Nat /\ file[i] \in Chunks
  PROVE  \A i \in DOMAIN tftp_file_write(file, p, c) :
           i \in Nat /\ tftp_file_write(file, p, c)[i] \in Chunks
  BY DEF tftp_file_write

LEMMA ReceiveType ==
  ASSUME NEW m \in net, NEW out, Receive(m, out), net \subseteq Packets,
         out \subseteq Packets
  PROVE  net' \subseteq Packets
  BY DEF Receive

LEMMA NoSessionType == NoSession \in Sessions
  BY EmptyType, AddrType, PortAssumption, XferAssumption, ServerAssumption
  DEF NoSession, Sessions, Blocks

LEMMA InitType == Init => TypeOK
  <1> SUFFICES ASSUME Init PROVE TypeOK
    OBVIOUS
  <1>1. OldFile = [i \in 1 .. OldBlocks |-> <<0, i>>] /\ OldBlocks \in Nat
    BY PortAssumption DEF OldFile
  <1>2. \A i \in DOMAIN OldFile : i \in Nat /\ OldFile[i] \in Chunks
    BY <1>1, PortAssumption DEF Chunks
  <1>3. 0 \in Blocks /\ 0 \in 0 .. MaxTransfers /\ 0 \in 0 .. MaxLoss
        /\ 0 \in 0 .. MaxRetry /\ 1 \in 1 .. MaxSocks + 1
    BY XferAssumption, PortAssumption, ServerAssumption DEF Blocks
  <1> QED
    BY <1>2, <1>3, NoSessionType, AddrType
    DEF Init, PortInit, XferInit, ClientInit, ServerInit, Outcomes, Waiting,
      TypeOK, FilesType, NetType, ClientType, ServerType

-----------------------------------------------------------------------------
\* Every action of the client keeps the types.

LEMMA StartTypes ==
  ASSUME TypeOK, NEW o \in {"pull", "push"}, ClientStart(o), UNCHANGED svars
  PROVE  TypeOK'
  <1>1. cur + 1 \in Transfers /\ cur' = cur + 1
    BY PortAssumption DEF ClientStart, TypeOK, ClientType
  <1>2. RequestOf(o, cur + 1) \in Packets
    BY <1>1, RequestType
  <1>3. FilesType' /\ ServerType'
    BY DEF ClientStart, TypeOK, FilesType, ServerType, svars
  <1>4. NetType'
    BY <1>2 DEF ClientStart, Send, TypeOK, NetType
  <1>5. block' \in Blocks /\ sender' \in Addrs
    BY AddrType, XferAssumption DEF ClientStart, TypeOK, ClientType, Blocks
  <1>6. /\ cpc' \in {"idle", "request", "data", "done"} /\ err' \in {"OK", "ERR"}
        /\ outcome' \in [Transfers -> Outcomes]
    BY <1>1 DEF ClientStart, TypeOK, ClientType, Outcomes
  <1>7. retry' \in 0 .. MaxRetry /\ fsize' \in Nat /\ op' \in {"pull", "push"}
    BY XferAssumption DEF ClientStart, TypeOK, ClientType
  <1>8. ClientType'
    BY <1>1, <1>5, <1>6, <1>7, PortAssumption DEF TypeOK, ClientType, Waiting
  <1> QED
    BY <1>3, <1>4, <1>8 DEF TypeOK

LEMMA UnansweredType ==
  ASSUME TypeOK, Waiting
  PROVE  Unanswered \in Packets /\ Error(Me, sender) \in Packets
  <1>1. cur \in Transfers /\ Me \in Addrs
    BY SocketType, PortAssumption DEF TypeOK, ClientType, Me
  <1>2. tftp_file_read(cur, fsize) \in Chunks
    BY ReadType DEF TypeOK, ClientType
  <1> QED
    BY <1>1, <1>2, PacketType, RequestType DEF Unanswered, TypeOK, ClientType

LEMMA ExitType ==
  ASSUME TypeOK, NEW o \in Outcomes, NEW e \in {"OK", "ERR"}, Exit(o, e)
  PROVE  /\ cpc' = "done" /\ err' \in {"OK", "ERR"}
         /\ outcome' \in [Transfers -> Outcomes]
  BY DEF Exit, TypeOK, ClientType

LEMMA TimeoutTypes ==
  ASSUME TypeOK, ClientTimeout, UNCHANGED svars
  PROVE  TypeOK'
  <1>1. FilesType' /\ ServerType'
    BY DEF ClientTimeout, TypeOK, FilesType, ServerType, svars
  <1>2. NetType'
    BY UnansweredType DEF ClientTimeout, Send, TypeOK, NetType
  <1>3. /\ cpc' \in {"idle", "request", "data", "done"} /\ err' \in {"OK", "ERR"}
        /\ outcome' \in [Transfers -> Outcomes]
    BY ExitType DEF ClientTimeout, TypeOK, ClientType, Outcomes
  <1>4. retry' \in 0 .. MaxRetry
    BY XferAssumption DEF ClientTimeout, OneLess, TypeOK, ClientType
  <1>5. ClientType'
    BY <1>3, <1>4 DEF ClientTimeout, TypeOK, ClientType, Waiting
  <1> QED
    BY <1>1, <1>2, <1>5 DEF TypeOK

LEMMA SelectErrorTypes ==
  ASSUME TypeOK, ClientSelectError, UNCHANGED svars
  PROVE  TypeOK'
  <1>1. FilesType' /\ ServerType' /\ NetType'
    BY DEF ClientSelectError, TypeOK, FilesType, ServerType, NetType, svars
  <1>2. ClientType'
    BY ExitType, XferAssumption
    DEF ClientSelectError, TypeOK, ClientType, Outcomes, Waiting
  <1> QED
    BY <1>1, <1>2 DEF TypeOK

LEMMA ClientReplyType ==
  ASSUME TypeOK, NEW m \in net
  PROVE  /\ m \in Packets /\ m.from \in Addrs /\ m.block \in Blocks
         /\ m.chunk \in Chunks /\ Me \in Addrs
         /\ Error(Me, m.from) \in Packets /\ Error(Me, sender) \in Packets
         /\ Ack(m.block, Me, m.from) \in Packets
         /\ \A b \in Blocks, p \in Nat :
              Data(b, tftp_file_read(cur, p), Me, m.from) \in Packets
  <1>1. /\ m \in Packets /\ m.from \in Addrs /\ m.block \in Blocks
        /\ m.chunk \in Chunks
    BY DEF TypeOK, NetType, Packets
  <1>2. Me \in Addrs /\ sender \in Addrs
    BY SocketType, PortAssumption DEF TypeOK, ClientType, Me
  <1>3. \A p \in Nat : tftp_file_read(cur, p) \in Chunks
    BY ReadType DEF TypeOK, ClientType
  <1> QED
    BY <1>1, <1>2, <1>3, PacketType, EmptyType

LEMMA PullTypes ==
  ASSUME TypeOK, UNCHANGED svars, NEW m \in net,
         PullOpenFails(m) \/ PullRejects(m) \/ PullWriteFails(m)
  PROVE  TypeOK'
  <1>1. FilesType' /\ ServerType'
    BY DEF PullOpenFails, PullRejects, PullWriteFails, TypeOK, FilesType,
           ServerType, svars
  <1>2. NetType'
    BY ClientReplyType, ReceiveType
    DEF PullOpenFails, PullRejects, PullWriteFails, TypeOK, NetType, Send
  <1>3. ClientType'
    BY ExitType, ClientReplyType
    DEF PullOpenFails, PullRejects, PullWriteFails, TypeOK, ClientType,
        Outcomes, Waiting
  <1> QED
    BY <1>1, <1>2, <1>3 DEF TypeOK

LEMMA StoreTypes ==
  ASSUME TypeOK, UNCHANGED svars, NEW m \in net, PullStores(m)
  PROVE  TypeOK'
  <1>1. FilesType'
    <2>1. cur \in Transfers /\ fsize \in Nat /\ m.chunk \in Chunks
      BY ClientReplyType DEF PullStores, TypeOK, ClientType
    <2>2. \A i \in DOMAIN tftp_file_write(dst[cur], fsize, m.chunk) :
            /\ i \in Nat
            /\ tftp_file_write(dst[cur], fsize, m.chunk)[i] \in Chunks
      BY <2>1, WriteType DEF TypeOK, FilesType
    <2> QED
      BY <2>1, <2>2 DEF PullStores, TypeOK, FilesType
  <1>2. NetType' /\ ServerType'
    BY ClientReplyType, ReceiveType
    DEF PullStores, TypeOK, NetType, ServerType, svars
  <1>3. fsize' \in Nat
    BY SizeType DEF PullStores, TypeOK, ClientType
  <1>4. ClientType'
    BY <1>3, ExitType, ClientReplyType, XferAssumption
    DEF PullStores, TypeOK, ClientType, Outcomes, Waiting
  <1> QED
    BY <1>1, <1>2, <1>4 DEF TypeOK

LEMMA PushBlockTypes ==
  ASSUME TypeOK, UNCHANGED svars, NEW m \in net, Waiting,
         NEW b \in Blocks, NEW p \in Nat, PushBlock(m, b, p)
  PROVE  TypeOK'
  <1>1. FilesType' /\ ServerType'
    BY DEF PushBlock, TypeOK, FilesType, ServerType, svars
  <1>2. NetType'
    BY ClientReplyType, ReceiveType DEF PushBlock, TypeOK, NetType
  <1>3. ClientType'
    BY ExitType, ClientReplyType, XferAssumption
    DEF PushBlock, TypeOK, ClientType, Outcomes, Waiting
  <1> QED
    BY <1>1, <1>2, <1>3 DEF TypeOK

LEMMA PushTypes ==
  ASSUME TypeOK, UNCHANGED svars, NEW m \in net,
         \/ PushGranted(m) \/ PushOpenFails(m)
         \/ PushAcked(m) \/ PushRejects(m)
  PROVE  TypeOK'
  <1>0. Inc(block) \in Blocks /\ fsize \in Nat
    BY IncType DEF TypeOK, ClientType
  <1>1. CASE PushGranted(m)
    BY <1>0, <1>1, PushBlockTypes DEF PushGranted, Waiting
  <1>2. CASE PushOpenFails(m)
    <2>1. FilesType' /\ ServerType'
      BY <1>2 DEF PushOpenFails, TypeOK, FilesType, ServerType, svars
    <2>2. NetType'
      BY <1>2, ClientReplyType, ReceiveType DEF PushOpenFails, TypeOK, NetType
    <2>3. ClientType'
      BY <1>0, <1>2, ExitType, ClientReplyType
      DEF PushOpenFails, TypeOK, ClientType, Outcomes, Waiting
    <2> QED
      BY <2>1, <2>2, <2>3 DEF TypeOK
  <1>3. CASE PushAcked(m)
    <2> DEFINE chunk == tftp_file_read(cur, fsize)
    <2>1. fsize + Size(chunk) \in Nat
      BY <1>0, SizeType
    <2>2. CASE ~IsShort(chunk)
      BY <1>0, <1>3, <2>1, <2>2, PushBlockTypes DEF PushAcked, Waiting
    <2>3. CASE IsShort(chunk)
      <3>1. FilesType' /\ ServerType'
        BY <1>3, <2>3 DEF PushAcked, TypeOK, FilesType, ServerType, svars
      <3>2. NetType'
        BY <1>3, <2>3, ReceiveType DEF PushAcked, TypeOK, NetType
      <3>3. ClientType'
        BY <1>0, <1>3, <2>1, <2>3, ExitType, ClientReplyType
        DEF PushAcked, TypeOK, ClientType, Outcomes, Waiting
      <3> QED
        BY <3>1, <3>2, <3>3 DEF TypeOK
    <2> QED
      BY <2>2, <2>3
  <1>4. CASE PushRejects(m)
    <2>1. FilesType' /\ ServerType'
      BY <1>4 DEF PushRejects, TypeOK, FilesType, ServerType, svars
    <2>2. NetType'
      BY <1>4, ReceiveType DEF PushRejects, TypeOK, NetType
    <2>3. ClientType'
      BY <1>4, ExitType, ClientReplyType
      DEF PushRejects, TypeOK, ClientType, Outcomes, Waiting
    <2> QED
      BY <2>1, <2>2, <2>3 DEF TypeOK
  <1> QED
    BY <1>1, <1>2, <1>3, <1>4

-----------------------------------------------------------------------------
\* Every action of the server keeps the types.

LEMMA ReplyPacketType ==
  ASSUME NEW s \in Sessions, NEW f
  PROVE  /\ ReplyPacket(s, f) \subseteq Packets
         /\ FilePacket(s, f) \subseteq Packets
         /\ AckPacket(s, f) \subseteq Packets
  <1>1. /\ s.block \in Blocks /\ s.last \in Chunks /\ s.peer \in Addrs
        /\ SessionAddr(s.sock) \in Addrs
    BY AddrType, ServerAssumption DEF Sessions
  <1> QED
    BY <1>1, PacketType DEF ReplyPacket, FilePacket, AckPacket

LEMMA NewSessionType ==
  ASSUME TypeOK, NEW m \in net, nextSock <= MaxSocks, NEW bad \in BOOLEAN
  PROVE  NewSession(m, bad) \in Sessions
  <1>1. m.from \in Addrs /\ m.chunk[1] \in 0 .. MaxTransfers
    BY DEF TypeOK, NetType, Packets, Chunks
  <1>2. 0 \in Blocks /\ 1 \in Blocks /\ MaxRetry \in 0 .. MaxRetry
    BY XferAssumption DEF Blocks
  <1> QED
    BY <1>1, <1>2, EmptyType, ServerAssumption
    DEF NewSession, Sessions, TypeOK, ServerType

LEMMA AfterSendType ==
  ASSUME NEW s \in Sessions, NEW f
  PROVE  AfterSend(s, f) \in Sessions
  BY NoSessionType DEF AfterSend

LEMMA MayFailType ==
  (\A k : MayFail(k) \subseteq BOOLEAN) /\ BadHandle \subseteq BOOLEAN
  BY DEF MayFail, BadHandle

LEMMA RequestTypes ==
  ASSUME TypeOK, UNCHANGED cvars, NEW m \in net, ServerRequest(m)
  PROVE  TypeOK'
  <1>1. FilesType' /\ ClientType'
    BY DEF ServerRequest, TypeOK, FilesType, ClientType, cvars, Waiting
  <1>2. nextSock' \in 1 .. MaxSocks + 1
    BY ServerAssumption DEF ServerRequest, TypeOK, ServerType
  <1>3. CASE RequestRefused(m)
    <2>1. SessionAddr(nextSock) \in Addrs /\ m.from \in Addrs
      BY AddrType, ServerAssumption DEF TypeOK, ServerType, NetType, Packets
    <2>2. Error(SessionAddr(nextSock), m.from) \in Packets
      BY <2>1, PacketType, EmptyType, XferAssumption DEF Error, Packets, Blocks
    <2>3. NetType'
      BY <1>3, <2>2, ReceiveType
      DEF RequestRefused, ServerRequest, TypeOK, NetType
    <2> QED
      BY <1>1, <1>2, <1>3, <2>3
      DEF RequestRefused, ServerRequest, TypeOK, ServerType
  <1>4. CASE RequestAccepted(m)
    <2>1. PICK i \in Slots \ Occupied, f \in SendFailures,
               bad \in BadHandle, fails \in MayFail("read") :
            LET n == NewSession(m, bad)
                s == IF m.type = "RRQ" THEN SendFile(n, FALSE, fails) ELSE n
            IN  /\ table' = [table EXCEPT ![i] = AfterSend(s, f)]
                /\ Receive(m, ReplyPacket(s, f))
      BY <1>4, Zenon DEF RequestAccepted
    <2> DEFINE n == NewSession(m, bad)
               s == IF m.type = "RRQ" THEN SendFile(n, FALSE, fails) ELSE n
    <2>2. s \in Sessions
      BY NewSessionType, SendFileType, MayFailType DEF ServerRequest
    <2> HIDE DEF s
    <2>3. NetType'
      BY <2>1, <2>2, ReplyPacketType, ReceiveType
      DEF s, ServerRequest, TypeOK, NetType
    <2>4. table' \in [Slots -> Sessions]
      BY <2>1, <2>2, AfterSendType DEF s, TypeOK, ServerType
    <2> QED
      BY <1>1, <1>2, <2>3, <2>4 DEF ServerRequest, TypeOK, ServerType
  <1> QED
    BY <1>3, <1>4 DEF ServerRequest

\* What a session looks like after a datagram m, and what it may answer.
LEMMA ReceivedType ==
  ASSUME TypeOK, NEW m \in net, NEW i \in Slots
  PROVE  /\ table[i] \in Sessions /\ Received(i, m) \in Sessions
         /\ m.block \in Blocks /\ m.chunk \in Chunks
         /\ Error(SessionAddr(table[i].sock), m.from) \in Packets
  <1>1. /\ m.from \in Addrs /\ m.block \in Blocks /\ m.chunk \in Chunks
        /\ table[i] \in Sessions
    BY DEF TypeOK, NetType, Packets, ServerType
  <1>2. SessionAddr(table[i].sock) \in Addrs
    BY <1>1, AddrType, ServerAssumption DEF Sessions
  <1>3. Received(i, m) \in Sessions
    BY <1>1 DEF Received, Sessions
  <1> QED
    BY <1>1, <1>2, <1>3, PacketType

\* A session that moves on by one block.
LEMMA AdvanceType ==
  ASSUME NEW s \in Sessions
  PROVE  /\ [s EXCEPT !.block = Inc(@), !.retry = MaxRetry] \in Sessions
         /\ \A b \in Blocks, n \in {0, 1} :
              [s EXCEPT !.block = b, !.pos = @ + n] \in Sessions
  <1>1. Inc(s.block) \in Blocks
    BY IncType DEF Sessions
  <1>2. MaxRetry \in 0 .. MaxRetry
    BY XferAssumption
  <1>3. [s EXCEPT !.block = Inc(@), !.retry = MaxRetry] \in Sessions
    BY <1>1, <1>2 DEF Sessions
  <1>4. ASSUME NEW b \in Blocks, NEW n \in {0, 1}
        PROVE  [s EXCEPT !.block = b, !.pos = @ + n] \in Sessions
    <2>1. s.pos + n \in Nat
      BY DEF Sessions
    <2> QED
      BY <2>1 DEF Sessions
  <1> QED
    BY <1>3, <1>4

LEMMA ReadAckedTypes ==
  ASSUME TypeOK, UNCHANGED cvars, NEW m \in net, NEW i \in Slots,
         ReadAcked(i, m)
  PROVE  TypeOK'
  <1>1. FilesType' /\ ClientType'
    BY DEF ReadAcked, TypeOK, FilesType, ClientType, cvars, Waiting
  <1>2. CASE IsShort(table[i].last)
    <2>1. NetType'
      BY <1>2, ReceiveType DEF ReadAcked, TypeOK, NetType
    <2>2. ServerType'
      BY <1>2, NoSessionType DEF ReadAcked, TypeOK, ServerType
    <2> QED
      BY <1>1, <2>1, <2>2 DEF TypeOK
  <1>3. CASE ~IsShort(table[i].last)
    <2> DEFINE r == [Received(i, m) EXCEPT !.block = Inc(@), !.retry = MaxRetry]
               s(fails) == SendFile(r, FALSE, fails)
    <2>1. PICK f \in SendFailures, fails \in MayFail("read") :
            /\ table' = [table EXCEPT ![i] = AfterSend(s(fails), f)]
            /\ Receive(m, FilePacket(s(fails), f))
      BY <1>3, Zenon DEF ReadAcked
    <2>2. r \in Sessions
      BY ReceivedType, AdvanceType
    <2>3. s(fails) \in Sessions
      BY <2>2, SendFileType, MayFailType
    <2> HIDE DEF s
    <2>4. NetType'
      BY <2>1, <2>3, ReplyPacketType, ReceiveType DEF ReadAcked, TypeOK, NetType
    <2>5. ServerType'
      BY <2>1, <2>3, AfterSendType DEF ReadAcked, TypeOK, ServerType
    <2> QED
      BY <1>1, <2>4, <2>5 DEF TypeOK
  <1> QED
    BY <1>2, <1>3

LEMMA DropTypes ==
  ASSUME TypeOK, UNCHANGED cvars, NEW m \in net, NEW i \in Slots,
         ReadBadAck(i, m) \/ WriteFails(i, m) \/ WriteBadData(i, m)
  PROVE  TypeOK'
  <1>1. FilesType' /\ ClientType'
    BY DEF ReadBadAck, WriteFails, WriteBadData, TypeOK, FilesType, ClientType,
           cvars, Waiting
  <1>2. NetType'
    BY ReceivedType, ReceiveType
    DEF ReadBadAck, WriteFails, WriteBadData, TypeOK, NetType
  <1>3. ServerType'
    BY NoSessionType
    DEF ReadBadAck, WriteFails, WriteBadData, TypeOK, ServerType
  <1> QED
    BY <1>1, <1>2, <1>3 DEF TypeOK

LEMMA WriteStoredTypes ==
  ASSUME TypeOK, UNCHANGED cvars, NEW m \in net, NEW i \in Slots,
         WriteStored(i, m)
  PROVE  TypeOK'
  <1> DEFINE r == Received(i, m)
             s == [r EXCEPT !.block = m.block, !.pos = @ + Size(m.chunk)]
  <1>0. /\ r \in Sessions /\ m.chunk \in Chunks /\ m.block \in Blocks
        /\ table[i].pos \in Nat
    BY ReceivedType DEF Sessions
  <1>1. s \in Sessions
    BY <1>0, SizeType, AdvanceType
  <1>2. /\ dst' = [dst EXCEPT ![s.file] =
                     tftp_file_write(@, table[i].pos, m.chunk)]
        /\ \E f \in SendFailures :
             /\ Receive(m, AckPacket(s, f))
             /\ table' = [table EXCEPT ![i] =
                  IF Destroyed(f) \/ IsShort(m.chunk) THEN NoSession ELSE s]
             /\ server' \in IF Destroyed(f) THEN {"up", "crashed"} ELSE {"up"}
        /\ UNCHANGED <<lost, nextSock>>
    BY DEF WriteStored
  <1> HIDE DEF r, s
  <1>3. FilesType'
    <2>1. ASSUME NEW t \in Transfers
          PROVE  \A k \in DOMAIN tftp_file_write(dst[t], table[i].pos, m.chunk) :
                   /\ k \in Nat
                   /\ tftp_file_write(dst[t], table[i].pos, m.chunk)[k] \in Chunks
      BY <1>0, WriteType DEF TypeOK, FilesType
    <2> QED
      BY <1>2, <2>1 DEF TypeOK, FilesType
  <1>4. NetType'
    BY <1>1, <1>2, ReplyPacketType, ReceiveType DEF TypeOK, NetType
  <1>5. ServerType'
    BY <1>1, <1>2, NoSessionType DEF TypeOK, ServerType
  <1>6. ClientType'
    BY DEF TypeOK, ClientType, cvars, Waiting
  <1> QED
    BY <1>3, <1>4, <1>5, <1>6 DEF TypeOK

LEMMA TimedOutType ==
  ASSUME NEW s \in Sessions, MayRetry(s), NEW fails \in BOOLEAN
  PROVE  TimedOut(s, fails) \in Sessions
  <1>1. [s EXCEPT !.retry = @ - 1] \in Sessions
    BY XferAssumption DEF Sessions, MayRetry
  <1> QED
    BY <1>1, SendFileType DEF TimedOut, OneLess

LEMMA ServerTimeoutTypes ==
  ASSUME TypeOK, UNCHANGED cvars, ServerTimeout
  PROVE  TypeOK'
  <1>1. FilesType' /\ ClientType'
    BY DEF ServerTimeout, TypeOK, FilesType, ClientType, cvars, Waiting
  <1> DEFINE retrying == {i \in Occupied : MayRetry(table[i])}
             s(fails) == [i \in retrying |-> TimedOut(table[i], fails[i])]
  <1>2. PICK f \in [Slots -> SendFailures], fails \in [Slots -> MayFail("read")] :
          /\ table' = [i \in Slots |-> IF i \in retrying
                                       THEN AfterSend(s(fails)[i], f[i])
                                       ELSE NoSession]
          /\ Send(UNION {ReplyPacket(s(fails)[i], f[i]) : i \in retrying})
    BY Zenon DEF ServerTimeout
  <1>3. \A i \in retrying : i \in Slots /\ s(fails)[i] \in Sessions
    BY TimedOutType, MayFailType DEF TypeOK, ServerType, Occupied
  <1> HIDE DEF retrying, s
  <1>4. NetType'
    BY <1>2, <1>3, ReplyPacketType DEF ServerTimeout, Send, TypeOK, NetType
  <1>5. ServerType'
    BY <1>2, <1>3, NoSessionType, AfterSendType
    DEF ServerTimeout, TypeOK, ServerType
  <1> QED
    BY <1>1, <1>4, <1>5 DEF TypeOK

LEMMA LifeTypes ==
  ASSUME TypeOK, UNCHANGED cvars, ServerExit \/ ServerStart
  PROVE  TypeOK'
  BY NoSessionType
  DEF ServerExit, ServerStart, TypeOK, FilesType, NetType, ClientType,
      ServerType, cvars, Waiting

LEMMA LossTypes ==
  ASSUME TypeOK, NetworkLoss
  PROVE  TypeOK'
  BY XferAssumption
  DEF NetworkLoss, Lose, TypeOK, FilesType, NetType, ClientType, ServerType,
      cvars, svars, Waiting

-----------------------------------------------------------------------------
LEMMA NextTypes == TypeOK /\ [Next]_vars => TypeOK'
  <1> SUFFICES ASSUME TypeOK, [Next]_vars PROVE TypeOK'
    OBVIOUS
  <1>1. CASE Start
    BY <1>1, StartTypes, ClientAssumption DEF Start
  <1>2. CASE ClientTimer
    BY <1>2, TimeoutTypes DEF ClientTimer
  <1>3. CASE ClientFault
    BY <1>3, SelectErrorTypes DEF ClientFault
  <1>4. CASE ClientInput
    BY <1>4, PullTypes, StoreTypes, PushTypes DEF ClientInput, ClientReceive
  <1>5. CASE ServerTimer
    BY <1>5, ServerTimeoutTypes DEF ServerTimer
  <1>6. CASE ServerAccept
    BY <1>6, RequestTypes DEF ServerAccept
  <1>7. CASE ServerInput
    BY <1>7, ReadAckedTypes, DropTypes, WriteStoredTypes
    DEF ServerInput, ServerData
  <1>8. CASE ServerLife
    BY <1>8, LifeTypes DEF ServerLife
  <1>9. CASE NetworkLoss
    BY <1>9, LossTypes
  <1>10. CASE UNCHANGED vars
    BY <1>10 DEF vars, cvars, svars, TypeOK, FilesType, NetType, ClientType,
                 ServerType, Waiting
  <1> QED
    BY <1>1, <1>2, <1>3, <1>4, <1>5, <1>6, <1>7, <1>8, <1>9, <1>10 DEF Next

(***************************************************************************)
(* The variables of client, server, network and files keep their types, for *)
(* every setting of the constants: the faulty backend, every fault and      *)
(* every bound included.                                                    *)
(***************************************************************************)
THEOREM TypeCorrect == Spec => []TypeOK
  BY InitType, NextTypes, PTL DEF Spec
=============================================================================
