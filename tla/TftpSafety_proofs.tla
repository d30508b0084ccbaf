-------------------------- MODULE TftpSafety_proofs --------------------------
(***************************************************************************)
(* The copies TFTP makes: in the SoundSetting of Tftp, IInv is an invariant *)
(* of Tftp, and with it the safety properties of the copies.                *)
(***************************************************************************)
EXTENDS Tftp_proofs

\* The numbers of blocks do not wrap in an OrderlySetting.
LEMMA Orderly == SoundSetting => OrderlySetting
  BY DEF SoundSetting

LEMMA IncIs ==
  ASSUME OrderlySetting, NEW b \in 0 .. FileLen
  PROVE  Inc(b) = b + 1
  <1>1. b + 1 \in 0 .. BlockMod - 1
    BY XferAssumption, PortAssumption DEF OrderlySetting, FileLen
  <1> QED
    BY <1>1, XferAssumption DEF Inc

LEMMA FileLenIs ==
  /\ FileLen \in Nat /\ FullBlocks \in Nat
  /\ FullBlocks <= FileLen /\ FileLen <= FullBlocks + 1
  BY PortAssumption DEF FileLen

\* A short chunk is the last there is; any other lies in the full blocks.
LEMMA ShortIsLast ==
  ASSUME NEW t \in Transfers, NEW p \in 0 .. FileLen
  PROVE  /\ IsShort(tftp_file_read(t, p)) => FileLen <= p + 1
         /\ ~IsShort(tftp_file_read(t, p)) =>
              p < FullBlocks /\ Size(tftp_file_read(t, p)) = 1
         /\ p < FileLen => tftp_file_read(t, p) = <<t, p + 1>>
         /\ p < FileLen => tftp_file_read(t, p) # Empty
         /\ p = FileLen => tftp_file_read(t, p) = Empty
  BY FileLenIs DEF IsShort, tftp_file_read, Size, Empty

LEMMA HoldsAll ==
  ASSUME NEW t \in Transfers, Prefixed(t), NEW b \in Nat, FileLen <= b, Holds(t, b)
  PROVE  dst[t] = SourceFile(t)
  <1>1. PICK n \in 0 .. FileLen : dst[t] = [i \in 1 .. n |-> <<t, i>>]
    BY DEF Prefixed
  <1>2. CASE FileLen = 0
    BY <1>1, <1>2 DEF SourceFile
  <1>3. CASE FileLen > 0
    <2>1. FileLen \in DOMAIN dst[t]
      BY <1>3, FileLenIs DEF Holds
    <2>2. n = FileLen
      BY <1>1, <2>1, FileLenIs
    <2> QED
      BY <1>1, <2>2 DEF SourceFile
  <1> QED
    BY <1>2, <1>3, FileLenIs

-----------------------------------------------------------------------------
\* What a step may do to the state a fact about a packet or session is about.

Grows == \A t \in Transfers, b \in Nat : Holds(t, b) => Holds(t, b)'
Keeps == \A n \in 1 .. MaxSocks, t \in Transfers : Belongs(n, t) => Belongs(n, t)'

(***************************************************************************)
(* Writing the next chunk of t where the file of t has at least the chunks  *)
(* before it: a prefix stays a prefix and nothing is lost.                  *)
(***************************************************************************)
LEMMA WriteExtends ==
  ASSUME FilesType, NEW t \in Transfers, Prefixed(t), NEW p \in 0 .. FileLen,
         Holds(t, p),
         dst' = [dst EXCEPT ![t] =
                   tftp_file_write(@, p, tftp_file_read(t, p))]
  PROVE  /\ Prefixed(t)' /\ Grows /\ Holds(t, p + 1)'
         /\ \A u \in Transfers : u # t => dst'[u] = dst[u]
         /\ \A u \in Transfers : dst[u] = SourceFile(u) => dst'[u] = SourceFile(u)
         /\ IsShort(tftp_file_read(t, p)) => dst'[t] = SourceFile(t)
         /\ \/ dst' = dst
            \/ \E n \in 0 .. FileLen - 1 :
                 /\ dst[t] = [i \in 1 .. n |-> <<t, i>>]
                 /\ dst' = [dst EXCEPT ![t] = [i \in 1 .. n + 1 |-> <<t, i>>]]
  <1>1. PICK n \in 0 .. FileLen : dst[t] = [i \in 1 .. n |-> <<t, i>>]
    BY DEF Prefixed
  <1>2. p <= n
    BY <1>1, FileLenIs DEF Holds
  <1> DEFINE k == IF p < FileLen /\ n = p THEN p + 1 ELSE n
  <1>3. /\ dst'[t] = [i \in 1 .. k |-> <<t, i>>]
        /\ k \in 0 .. FileLen /\ n <= k
    <2>1. CASE p = FileLen
      <3>1. n = p /\ k = n
        BY <1>2, <2>1, FileLenIs
      <3>2. dst'[t] = dst[t]
        BY <2>1, ShortIsLast, FileLenIs DEF tftp_file_write, FilesType
      <3> HIDE DEF k
      <3> QED
        BY <1>1, <3>1, <3>2
    <2>2. CASE p < FileLen
      <3>1. dst'[t] = [i \in (1 .. n) \cup {p + 1} |-> <<t, i>>]
        <4>1. dst'[t] = tftp_file_write(dst[t], p, tftp_file_read(t, p))
          BY DEF FilesType
        <4>2. tftp_file_read(t, p) = <<t, p + 1>> /\ tftp_file_read(t, p) # Empty
          BY <2>2, ShortIsLast
        <4> QED
          BY <1>1, <1>2, <2>2, <4>1, <4>2, FileLenIs DEF tftp_file_write
      <3>2. (1 .. n) \cup {p + 1} = 1 .. k
        BY <1>2, <2>2, FileLenIs
      <3>3. k \in 0 .. FileLen /\ n <= k
        BY <1>2, <2>2, FileLenIs
      <3> HIDE DEF k
      <3> QED
        BY <3>1, <3>2, <3>3
    <2> HIDE DEF k
    <2> QED
      BY <2>1, <2>2, FileLenIs
  <1>4. \A u \in Transfers : u # t => dst'[u] = dst[u]
    BY DEF FilesType
  <1> HIDE DEF k
  <1>5. Prefixed(t)'
    BY <1>3 DEF Prefixed, FileLen
  <1>6. Grows
    BY <1>1, <1>3, <1>4 DEF Grows, Holds
  <1>7. Holds(t, p + 1)'
    BY <1>2, <1>3, FileLenIs DEF Holds, k
  <1>8. ASSUME NEW u \in Transfers, dst[u] = SourceFile(u)
        PROVE  dst'[u] = SourceFile(u)
    <2>1. CASE u # t
      BY <1>4, <1>8, <2>1
    <2>2. CASE u = t
      <3>1. n = FileLen
        BY <1>1, <1>8, <2>2, FileLenIs DEF SourceFile
      <3>2. k = FileLen
        BY <1>3, <3>1, FileLenIs
      <3> QED
        BY <1>3, <2>2, <3>2 DEF SourceFile
    <2> QED
      BY <2>1, <2>2
  <1>9. ASSUME IsShort(tftp_file_read(t, p))
        PROVE  dst'[t] = SourceFile(t)
    <2>1. FileLen <= p + 1
      BY <1>9, ShortIsLast
    <2>2. k = FileLen
      BY <1>2, <1>3, <2>1, FileLenIs DEF k
    <2> QED
      BY <1>3, <2>2 DEF SourceFile
  <1>10. \/ dst' = dst
         \/ \E j \in 0 .. FileLen - 1 :
              /\ dst[t] = [i \in 1 .. j |-> <<t, i>>]
              /\ dst' = [dst EXCEPT ![t] = [i \in 1 .. j + 1 |-> <<t, i>>]]
    <2>1. dst' = [dst EXCEPT ![t] = dst'[t]]
      BY DEF FilesType
    <2>2. CASE k = n
      <3>1. dst'[t] = dst[t]
        BY <1>1, <1>3, <2>2
      <3> QED
        BY <2>1, <3>1 DEF FilesType
    <2>3. CASE k # n
      <3>1. n \in 0 .. FileLen - 1 /\ k = n + 1
        BY <1>3, <2>3, FileLenIs DEF k
      <3> QED
        BY <1>1, <1>3, <2>1, <3>1
    <2> QED
      BY <2>2, <2>3
  <1> QED
    BY <1>4, <1>5, <1>6, <1>7, <1>8, <1>9, <1>10

\* Every other file is as it was.
LEMMA PrefixStays ==
  ASSUME PrefixStored, NEW t \in Transfers, Prefixed(t)',
         \A u \in Transfers : u # t => dst'[u] = dst[u]
  PROVE  PrefixStored'
  BY DEF PrefixStored, Prefixed

LEMMA PrefixedIs == PrefixStored <=> \A t \in Transfers : Prefixed(t)
  BY DEF PrefixStored, Prefixed

-----------------------------------------------------------------------------
\* What is true of a packet or a session stays true of it.

LEMMA SlotsKeep ==
  ASSUME TypeOK, nextSock' \in {nextSock, nextSock + 1},
         \A i \in Slots : \/ table'[i].sock \in {0, nextSock}
                         \/ /\ table'[i].sock = table[i].sock
                            /\ table'[i].file = table[i].file
  PROVE  Keeps
  <1> SUFFICES ASSUME NEW n \in 1 .. MaxSocks, NEW t \in Transfers, Belongs(n, t)
               PROVE  Belongs(n, t)'
    BY DEF Keeps
  <1>1. n \in 1 .. nextSock - 1 /\ nextSock \in Nat
    BY ServerAssumption DEF Belongs, TypeOK, ServerType
  <1>2. n \in 1 .. nextSock' - 1
    <2>1. \A a, b, c \in Nat : c \in {b, b + 1} /\ a \in 1 .. b - 1 => a \in 1 .. c - 1
      OBVIOUS
    <2>2. n \in Nat /\ nextSock' \in Nat
      BY <1>1
    <2> QED
      BY <1>1, <2>1, <2>2
  <1>3. ASSUME NEW i \in Slots, table'[i].sock = n PROVE table'[i].file = t
    BY <1>1, <1>3 DEF Belongs
  <1> QED
    BY <1>2, <1>3 DEF Belongs, Slots

LEMMA PacketStays ==
  ASSUME Grows, Keeps, TypeOK, NEW m \in Packets, PacketOK(m)
  PROVE  PacketOK(m)'
  <1>1. m.block \in Nat
    BY XferAssumption DEF Packets, Blocks
  <1>2. ASSUME NEW t \in Transfers, Between(m, t) PROVE Between(m, t)'
    BY <1>2 DEF Between, Keeps
  <1>3. DataOK(m) => DataOK(m)'
    BY <1>2 DEF DataOK
  <1>4. AckOK(m) => AckOK(m)'
    BY <1>1, <1>2 DEF AckOK, Grows
  <1>5. RequestOK(m) => RequestOK(m)'
    BY DEF RequestOK
  <1> QED
    BY <1>3, <1>4, <1>5 DEF PacketOK

LEMMA SessionStays ==
  ASSUME Grows, Keeps, TypeOK, NEW s \in Sessions, SessionOK(s)
  PROVE  SessionOK(s)'
  <1>1. s.sock \in 1 .. MaxSocks
    BY ServerAssumption DEF SessionOK, Sessions, Belongs
  <1>2. Belongs(s.sock, s.file)'
    BY <1>1 DEF SessionOK, Keeps
  <1>3. s.w_r = "write" => Holds(s.file, s.pos)'
    BY FileLenIs DEF SessionOK, Grows
  <1> QED
    BY <1>2, <1>3 DEF SessionOK

(***************************************************************************)
(* The frame of every step: it is enough to look at the datagrams it sends, *)
(* the session it changes, the files and the client.                        *)
(***************************************************************************)
LEMMA StepKeeps ==
  ASSUME TypeOK, IInv, Grows, Keeps,
         \A m \in net' : m \in net \/ PacketOK(m)',
         \A i \in Slots : \/ table'[i] = table[i] \/ table'[i].sock = 0
                         \/ SessionOK(table[i])',
         PrefixStored', CompleteIsWhole', CallInv'
  PROVE  IInv'
  <1>1. PacketInv'
    <2> SUFFICES ASSUME NEW m \in net' PROVE PacketOK(m)'
      BY DEF PacketInv
    <2>1. CASE m \in net
      BY <2>1, PacketStays DEF IInv, PacketInv, TypeOK, NetType
    <2> QED
      BY <2>1
  <1>2. SessionInv'
    <2> SUFFICES ASSUME NEW i \in Slots, table'[i].sock # 0
                 PROVE  SessionOK(table[i])'
      BY DEF SessionInv, Occupied, Slots
    <2>1. CASE table'[i] = table[i]
      <3>1. SessionOK(table[i]) /\ table[i] \in Sessions
        BY <2>1 DEF IInv, SessionInv, Occupied, TypeOK, ServerType
      <3>2. \A s \in Sessions : SessionOK(s) => SessionOK(s)'
        BY SessionStays
      <3> QED
        BY <2>1, <3>1, <3>2 DEF SessionOK
    <2> QED
      BY <2>1
  <1> QED
    BY <1>1, <1>2 DEF IInv

LEMMA SameFiles == ASSUME UNCHANGED dst PROVE Grows
  BY DEF Grows, Holds

LEMMA SameServer == ASSUME TypeOK, UNCHANGED svars PROVE Keeps
  BY DEF Keeps, Belongs, svars

LEMMA SamePrefix ==
  ASSUME UNCHANGED dst, PrefixStored PROVE PrefixStored'
  BY DEF PrefixStored

LEMMA SameComplete ==
  ASSUME UNCHANGED <<dst, outcome>>, CompleteIsWhole PROVE CompleteIsWhole'
  BY DEF CompleteIsWhole, SourceFile

\* An exit other than a completion promises nothing about the file.
LEMMA ExitComplete ==
  ASSUME UNCHANGED dst, CompleteIsWhole, NEW o \in Outcomes \ {"complete"}, NEW e,
         Exit(o, e), TypeOK
  PROVE  CompleteIsWhole'
  BY DEF CompleteIsWhole, SourceFile, Exit, TypeOK, ClientType

-----------------------------------------------------------------------------
\* What the two ends may send.

\* The datagrams of transfer t between its socket and a session's of its own.
LEMMA GoodPackets ==
  ASSUME NEW t \in Transfers, NEW n \in 1 .. MaxSocks, Belongs(n, t)
  PROVE  /\ \A k \in 1 .. FileLen + 1 : \A c :
              c = tftp_file_read(t, k - 1) =>
                /\ PacketOK(Data(k, c, ClientAddr(t), SessionAddr(n)))
                /\ PacketOK(Data(k, c, SessionAddr(n), ClientAddr(t)))
         /\ \A b \in Nat :
              Holds(t, b) => /\ PacketOK(Ack(b, ClientAddr(t), SessionAddr(n)))
                             /\ PacketOK(Ack(b, SessionAddr(n), ClientAddr(t)))
  BY DEF PacketOK, DataOK, AckOK, Between, Data, Ack

LEMMA GoodErrors == \A a, b : PacketOK(Error(a, b))
  BY DEF PacketOK, Error

LEMMA GoodRequests ==
  ASSUME SoundSetting, NEW o \in Ops, NEW t \in Transfers
  PROVE  PacketOK(RequestOf(o, t))
  BY DEF OrderlySetting, SoundSetting, PacketOK, RequestOK, RequestOf, Request, Socket

-----------------------------------------------------------------------------
\* The client.

\* A datagram the waiting client receives is of its transfer.
LEMMA ClientMail ==
  ASSUME TypeOK, IInv, SoundSetting, NEW m \in net, Waiting, m.to = Me
  PROVE  /\ cur \in Transfers /\ Me = ClientAddr(cur)
         /\ m.type = "DATA" =>
              /\ m.block \in 1 .. FileLen + 1
              /\ m.chunk = tftp_file_read(cur, m.block - 1)
         /\ m.type = "ACK" => Holds(cur, m.block)
         /\ m.type \in {"DATA", "ACK"} =>
              \E n \in 1 .. MaxSocks : m.from = SessionAddr(n) /\ Belongs(n, cur)
  <1>1. cur \in Transfers /\ Me = ClientAddr(cur)
    BY PortAssumption DEF TypeOK, ClientType, Me, Socket, OrderlySetting, SoundSetting, Transfers
  <1>3. PacketOK(m)
    BY DEF IInv, PacketInv
  <1>4. ASSUME NEW t \in Transfers, Between(m, t)
        PROVE  /\ t = cur
               /\ \E n \in 1 .. MaxSocks :
                    m.from = SessionAddr(n) /\ Belongs(n, cur)
    <2>1. PICK n \in 1 .. MaxSocks :
            /\ Belongs(n, t)
            /\ \/ m.from = ClientAddr(t) /\ m.to = SessionAddr(n)
               \/ m.from = SessionAddr(n) /\ m.to = ClientAddr(t)
      BY <1>4 DEF Between
    <2>2. m.from = SessionAddr(n) /\ m.to = ClientAddr(t)
      BY <1>1, <2>1 DEF ClientAddr, SessionAddr
    <2>3. t = cur
      BY <1>1, <2>2 DEF ClientAddr
    <2> QED
      BY <2>1, <2>2, <2>3
  <1> QED
    BY <1>1, <1>3, <1>4 DEF PacketOK, DataOK, AckOK

\* The facts of a client's step that touches neither files nor server.
LEMMA QuietClient ==
  ASSUME TypeOK, IInv, UNCHANGED dst, UNCHANGED svars,
         \A m \in net' : m \in net \/ PacketOK(m),
         CompleteIsWhole', CallInv'
  PROVE  IInv'
  <1>1. Grows /\ Keeps /\ PrefixStored'
    BY SameFiles, SameServer, SamePrefix DEF IInv
  <1>2. \A m \in net' : m \in net \/ PacketOK(m)'
    BY DEF PacketOK, RequestOK, DataOK, AckOK, Between, Belongs, Holds, svars
  <1>3. \A i \in Slots : table'[i] = table[i]
    BY DEF svars
  <1> QED
    BY <1>1, <1>2, <1>3, StepKeeps

LEMMA StartKeeps ==
  ASSUME TypeOK, IInv, SoundSetting, NEW o \in Ops, ClientStart(o),
         UNCHANGED svars
  PROVE  IInv'
  <1>1. cur + 1 \in Transfers /\ cur' = cur + 1 /\ UNCHANGED dst
    BY PortAssumption DEF ClientStart, TypeOK, ClientType, Transfers
  <1>2. PacketOK(RequestOf(o, cur + 1))
    BY <1>1, GoodRequests
  <1>3. \A m \in net' : m \in net \/ PacketOK(m)
    BY <1>2 DEF ClientStart, Send
  <1>4. CompleteIsWhole'
    BY <1>1 DEF ClientStart, IInv, CompleteIsWhole, SourceFile, TypeOK, ClientType
  <1>5. CallInv'
    BY FileLenIs DEF ClientStart, CallInv, OrderlySetting, SoundSetting, Holds, Waiting
  <1> QED
    BY <1>1, <1>3, <1>4, <1>5, QuietClient

\* What a waiting client repeats is a good packet.
LEMMA UnansweredGood ==
  ASSUME TypeOK, IInv, SoundSetting, Waiting
  PROVE  PacketOK(Unanswered)
  <1>1. cur \in Transfers /\ Me = ClientAddr(cur)
    BY PortAssumption DEF TypeOK, ClientType, Me, Socket, OrderlySetting, SoundSetting, Transfers
  <1>2. CASE cpc = "request"
    BY <1>1, <1>2, GoodRequests DEF Unanswered, IInv, CallInv
  <1>3. CASE cpc = "data"
    <2>1. PICK n \in 1 .. MaxSocks : sender = SessionAddr(n) /\ Belongs(n, cur)
      BY <1>3 DEF IInv, CallInv
    <2>2. fsize \in 0 .. FullBlocks
      BY <1>3 DEF IInv, CallInv, Waiting
    <2>3. CASE op = "pull"
      <3>1. block \in Nat /\ Holds(cur, block)
        BY <1>3, <2>2, <2>3 DEF IInv, CallInv, Waiting
      <3>2. Unanswered = Ack(block, ClientAddr(cur), SessionAddr(n))
        BY <1>1, <1>3, <2>1, <2>3 DEF Unanswered
      <3> QED
        BY <1>1, <3>1, <3>2, <2>1, GoodPackets
    <2>4. CASE op = "push"
      <3>1. block \in 1 .. FileLen + 1 /\ block - 1 = fsize
        BY <1>3, <2>2, <2>4, FileLenIs DEF IInv, CallInv, Waiting
      <3>2. Unanswered = Data(block, tftp_file_read(cur, fsize),
                              ClientAddr(cur), SessionAddr(n))
        BY <1>1, <1>3, <2>1, <2>4 DEF Unanswered
      <3> QED
        BY <1>1, <3>1, <3>2, <2>1, GoodPackets
    <2> QED
      BY <2>3, <2>4 DEF TypeOK, ClientType
  <1> QED
    BY <1>2, <1>3 DEF Waiting

LEMMA TimeoutKeeps ==
  ASSUME TypeOK, IInv, SoundSetting, ClientTimeout, UNCHANGED svars
  PROVE  IInv'
  <1>1. PacketOK(Unanswered) /\ PacketOK(Error(Me, sender))
    BY UnansweredGood, GoodErrors DEF ClientTimeout
  <1>2. \A m \in net' : m \in net \/ PacketOK(m)
    BY <1>1 DEF ClientTimeout, Send
  <1>3. CompleteIsWhole'
    BY ExitComplete, SameComplete DEF ClientTimeout, IInv, Outcomes
  <1>4. CallInv'
    BY DEF ClientTimeout, IInv, CallInv, Waiting, Exit, Holds, Belongs, svars
  <1> QED
    BY <1>2, <1>3, <1>4, QuietClient DEF ClientTimeout

LEMMA SelectErrorKeeps ==
  ASSUME TypeOK, IInv, ClientSelectError, UNCHANGED svars
  PROVE  IInv'
  <1>1. CompleteIsWhole' /\ CallInv'
    BY ExitComplete DEF ClientSelectError, IInv, Outcomes, CallInv, Waiting, Exit
  <1>2. \A m \in net' : m \in net
    BY DEF ClientSelectError
  <1> QED
    BY <1>1, <1>2, QuietClient DEF ClientSelectError

LEMMA PullFailsKeeps ==
  ASSUME TypeOK, IInv, UNCHANGED svars, NEW m \in net,
         \/ PullOpenFails(m) \/ PullRejects(m) \/ PullWriteFails(m)
         \/ PushOpenFails(m) \/ PushRejects(m)
  PROVE  IInv'
  <1> USE DEF PullOpenFails, PullRejects, PullWriteFails, PushOpenFails, PushRejects
  <1>1. PacketOK(Error(Me, sender)) /\ PacketOK(Error(Me, m.from))
    BY GoodErrors
  <1>2. \A e \in net' : e \in net \/ PacketOK(e)
    BY <1>1 DEF Receive, Send
  <1>3. UNCHANGED dst /\ Exit("error", "ERR")
    OBVIOUS
  <1>4. CompleteIsWhole'
    BY <1>3, ExitComplete DEF IInv, Outcomes
  <1>5. CallInv'
    BY <1>3 DEF CallInv, Exit, Waiting
  <1> QED
    BY <1>2, <1>3, <1>4, <1>5, QuietClient

LEMMA PullStoresKeeps ==
  ASSUME TypeOK, IInv, SoundSetting, UNCHANGED svars, NEW m \in net,
         PullStores(m)
  PROVE  IInv'
  <1>1. /\ Waiting /\ m.to = Me /\ m.type = "DATA" /\ op = "pull"
        /\ m.block = Inc(block)
    BY DEF PullStores, tftp_read_data
  <1>2. PICK t \in Transfers, n \in 1 .. MaxSocks :
          /\ t = cur /\ Me = ClientAddr(t)
          /\ m.chunk = tftp_file_read(t, m.block - 1)
          /\ m.from = SessionAddr(n) /\ Belongs(n, t)
    BY <1>1, ClientMail
  <1>3. PICK p \in 0 .. FullBlocks : p = fsize /\ p = block /\ Holds(t, p)
    BY <1>1, <1>2 DEF IInv, CallInv
  <1>4. p \in 0 .. FileLen
    BY <1>3, FileLenIs
  <1>5. m.block = p + 1 /\ m.chunk = tftp_file_read(t, p)
    BY <1>1, <1>2, <1>3, <1>4, Orderly, IncIs, FileLenIs
  <1>6. dst' = [dst EXCEPT ![t] = tftp_file_write(@, p, tftp_file_read(t, p))]
    BY <1>2, <1>3, <1>5 DEF PullStores
  <1>7. /\ PrefixStored' /\ Grows /\ Holds(t, p + 1)'
        /\ \A u \in Transfers : dst[u] = SourceFile(u) => dst'[u] = SourceFile(u)
        /\ IsShort(m.chunk) => dst'[t] = SourceFile(t)
    BY <1>2, <1>3, <1>4, <1>5, <1>6, WriteExtends, PrefixedIs, PrefixStays, ZenonT(60) DEF IInv, TypeOK
  <1>8. Keeps
    BY SameServer
  <1>9. Belongs(n, t)'
    BY <1>2, <1>8 DEF Keeps
  <1>10. \A e \in net' : e \in net \/ PacketOK(e)'
    <2> DEFINE ack == Ack(p + 1, ClientAddr(t), SessionAddr(n))
    <2>1. PacketOK(ack)'
      <3>1. AckOK(ack)'
        BY <1>7, <1>9 DEF AckOK, Between, Ack
      <3> QED
        BY <3>1 DEF PacketOK, Ack
    <2>2. \A e \in net' : e \in net \/ e = ack
      BY <1>2, <1>5 DEF PullStores, Receive
    <2> HIDE DEF ack
    <2> QED
      BY <2>1, <2>2
  <1>11. CompleteIsWhole'
    BY <1>2, <1>7
    DEF PullStores, Exit, IInv, CompleteIsWhole, SourceFile, TypeOK, ClientType
  <1>12. CallInv'
    <2>1. CASE IsShort(m.chunk)
      BY <2>1 DEF PullStores, Exit, CallInv, Waiting
    <2>2. CASE ~IsShort(m.chunk)
      <3>1. p < FullBlocks /\ fsize' = p + 1
        BY <1>3, <1>4, <1>5, <2>2, ShortIsLast DEF PullStores
      <3>2. /\ cur' = t /\ op' = "pull" /\ cpc' = "data"
            /\ block' = p + 1 /\ sender' = SessionAddr(n)
        BY <1>1, <1>2, <1>5, <2>2 DEF PullStores
      <3>3. p + 1 \in 0 .. FullBlocks
        BY <3>1, FileLenIs
      <3> QED
        BY <1>1, <1>7, <1>9, <3>1, <3>2, <3>3 DEF IInv, CallInv, Holds, Belongs
    <2> QED
      BY <2>1, <2>2
  <1>13. \A i \in Slots : table'[i] = table[i]
    BY DEF svars
  <1> QED
    BY <1>7, <1>8, <1>10, <1>11, <1>12, <1>13, StepKeeps

\* The top of the block loop of tftp_client_push.
LEMMA PushBlockKeeps ==
  ASSUME TypeOK, IInv, SoundSetting, UNCHANGED svars, Waiting, op = "push",
         NEW m \in net, m.to = Me, m.type = "ACK",
         NEW p \in 0 .. FullBlocks, Holds(cur, p), PushBlock(m, p + 1, p)
  PROVE  IInv'
  <1>1. cur \in Transfers /\ Me = ClientAddr(cur)
    BY ClientMail
  <1>2. PICK n \in 1 .. MaxSocks : m.from = SessionAddr(n) /\ Belongs(n, cur)
    BY ClientMail
  <1>3. PacketOK(Data(p + 1, tftp_file_read(cur, p), Me, m.from))
    <2>1. p + 1 \in 1 .. FileLen + 1 /\ (p + 1) - 1 = p
      BY FileLenIs
    <2> QED
      BY <1>1, <1>2, <2>1, GoodPackets
  <1>4. \A e \in net' : e \in net \/ PacketOK(e)
    BY <1>3, GoodErrors DEF PushBlock, Receive
  <1>5. UNCHANGED dst /\ CompleteIsWhole'
    BY ExitComplete, SameComplete DEF PushBlock, IInv, Outcomes
  <1>6. CallInv'
    <2>1. UNCHANGED <<cur, op, table, nextSock>>
      BY DEF PushBlock, svars
    <2> QED
      BY <1>2, <2>1 DEF PushBlock, Exit, IInv, CallInv, Waiting, Belongs, Holds
  <1> QED
    BY <1>4, <1>5, <1>6, QuietClient

LEMMA PushGrantedKeeps ==
  ASSUME TypeOK, IInv, SoundSetting, UNCHANGED svars, NEW m \in net,
         PushGranted(m)
  PROVE  IInv'
  <1>1. /\ Waiting /\ op = "push" /\ m.to = Me /\ m.type = "ACK" /\ block = 0
    BY DEF PushGranted, tftp_wait_ack, Waiting, IInv, CallInv
  <1>2. PushBlock(m, 0 + 1, 0) /\ 0 \in 0 .. FullBlocks
    BY <1>1, Orderly, IncIs, FileLenIs DEF PushGranted
  <1>3. Holds(cur, 0)
    BY DEF Holds
  <1> QED
    BY <1>1, <1>2, <1>3, PushBlockKeeps

LEMMA PushAckedKeeps ==
  ASSUME TypeOK, IInv, SoundSetting, UNCHANGED svars, NEW m \in net,
         PushAcked(m)
  PROVE  IInv'
  <1> DEFINE chunk == tftp_file_read(cur, fsize)
  <1>1. /\ Waiting /\ op = "push" /\ cpc = "data" /\ m.to = Me
        /\ m.type = "ACK" /\ m.block = block
    BY DEF PushAcked, tftp_wait_ack, Waiting
  <1>2. /\ fsize \in 0 .. FullBlocks /\ fsize \in 0 .. FileLen
        /\ block = fsize + 1
    BY <1>1, FileLenIs DEF IInv, CallInv
  <1>3. cur \in Transfers /\ Holds(cur, fsize + 1)
    BY <1>1, <1>2, ClientMail
  <1>4. CASE IsShort(chunk)
    <2>1. FileLen <= fsize + 1 /\ fsize + 1 \in Nat
      BY <1>2, <1>3, <1>4, ShortIsLast
    <2>2. dst[cur] = SourceFile(cur)
      BY <1>3, <2>1, HoldsAll, PrefixedIs DEF IInv
    <2>3. /\ UNCHANGED dst /\ Exit("complete", err)
          /\ \A e \in net' : e \in net
      BY <1>4 DEF PushAcked, Receive
    <2>4. CompleteIsWhole'
      BY <1>3, <2>2, <2>3
      DEF Exit, IInv, CompleteIsWhole, SourceFile, TypeOK, ClientType
    <2>5. CallInv'
      BY <2>3 DEF Exit, CallInv, Waiting
    <2> QED
      BY <2>3, <2>4, <2>5, QuietClient
  <1>5. CASE ~IsShort(chunk)
    <2>1. fsize < FullBlocks /\ Size(chunk) = 1
      BY <1>2, <1>3, <1>5, ShortIsLast
    <2>2. Inc(block) = (fsize + 1) + 1
      BY <1>2, <2>1, Orderly, IncIs, FileLenIs
    <2>3. fsize + 1 \in 0 .. FullBlocks
      BY <1>2, <2>1, FileLenIs
    <2>4. PushBlock(m, (fsize + 1) + 1, fsize + 1)
      BY <1>5, <2>1, <2>2 DEF PushAcked
    <2> QED
      BY <1>1, <1>3, <2>3, <2>4, PushBlockKeeps
  <1> QED
    BY <1>4, <1>5

-----------------------------------------------------------------------------
\* The server.

\* In a SoundSetting with pulls no read fails unseen and no handle is bad.
LEMMA SoundFaults ==
  ASSUME SoundSetting, "pull" \in Ops
  PROVE  MayFail("read") = {FALSE} /\ BadHandle = {FALSE}
  BY DEF OrderlySetting, SoundSetting, MayFail, BadHandle

\* A datagram a session receives comes from the client of its transfer.
LEMMA SessionMail ==
  ASSUME TypeOK, IInv, NEW m \in net, NEW i \in Slots, Ready(i, m)
  PROVE  /\ table[i] \in Sessions /\ SessionOK(table[i])
         /\ table[i].sock \in 1 .. MaxSocks
         /\ m.type = "DATA" => /\ m.from = ClientAddr(table[i].file)
                               /\ m.block \in 1 .. FileLen + 1
                               /\ m.chunk = tftp_file_read(table[i].file, m.block - 1)
         /\ m.type = "ACK" => m.from = ClientAddr(table[i].file)
  <1>1. /\ table[i] \in Sessions /\ SessionOK(table[i])
        /\ table[i].sock \in 1 .. MaxSocks
    BY ServerAssumption
    DEF Ready, Occupied, IInv, SessionInv, TypeOK, ServerType, Sessions
  <1>2. PacketOK(m) /\ m.to = SessionAddr(table[i].sock)
    BY DEF IInv, PacketInv, Ready
  <1>3. ASSUME NEW t \in Transfers, Between(m, t)
        PROVE  t = table[i].file /\ m.from = ClientAddr(t)
    <2>1. PICK n \in 1 .. MaxSocks :
            /\ Belongs(n, t)
            /\ \/ m.from = ClientAddr(t) /\ m.to = SessionAddr(n)
               \/ m.from = SessionAddr(n) /\ m.to = ClientAddr(t)
      BY <1>3 DEF Between
    <2>2. m.from = ClientAddr(t) /\ n = table[i].sock
      BY <1>2, <2>1 DEF ClientAddr, SessionAddr
    <2> QED
      BY <2>1, <2>2 DEF Belongs
  <1> QED
    BY <1>1, <1>2, <1>3 DEF PacketOK, DataOK, AckOK

\* The facts of a server's step that leaves the files alone.
LEMMA QuietServer ==
  ASSUME TypeOK, IInv, UNCHANGED dst, UNCHANGED cvars, Keeps,
         \A m \in net' : m \in net \/ PacketOK(m)',
         \A i \in Slots : \/ table'[i] = table[i] \/ table'[i].sock = 0
                         \/ SessionOK(table[i])'
  PROVE  IInv'
  <1>1. Grows /\ PrefixStored' /\ CompleteIsWhole'
    BY SameFiles, SamePrefix, SameComplete DEF IInv, cvars
  <1>2. CallInv'
    BY DEF IInv, CallInv, Keeps, cvars, Waiting, Holds, TypeOK, ClientType, Transfers
  <1> QED
    BY <1>1, <1>2, StepKeeps

LEMMA DropKeeps ==
  ASSUME TypeOK, IInv, UNCHANGED cvars, NEW m \in net, NEW i \in Slots,
         ReadBadAck(i, m) \/ WriteFails(i, m) \/ WriteBadData(i, m)
  PROVE  IInv'
  <1>1. /\ table' = [table EXCEPT ![i] = NoSession]
        /\ UNCHANGED dst /\ UNCHANGED nextSock
    BY DEF ReadBadAck, WriteFails, WriteBadData
  <1>2. \A j \in Slots : table'[j] = table[j] \/ table'[j].sock = 0
    BY <1>1 DEF TypeOK, ServerType, NoSession
  <1>3. Keeps
    BY <1>1, <1>2, SlotsKeep
  <1>4. \A a, b : PacketOK(Error(a, b))'
    BY DEF PacketOK, Error
  <1>5. \A e \in net' : e \in net \/ PacketOK(e)'
    BY <1>4 DEF ReadBadAck, WriteFails, WriteBadData, Receive
  <1> QED
    BY <1>1, <1>2, <1>3, <1>5, QuietServer

LEMMA LifeKeeps ==
  ASSUME TypeOK, IInv, UNCHANGED cvars, ServerExit \/ ServerStart
  PROVE  IInv'
  <1>1. \A j \in Slots : table'[j] = table[j] \/ table'[j].sock = 0
    BY DEF ServerExit, ServerStart, NoSession
  <1>2. UNCHANGED <<dst, net, nextSock>>
    BY DEF ServerExit, ServerStart
  <1>3. Keeps
    BY <1>1, <1>2, SlotsKeep
  <1> QED
    BY <1>1, <1>2, <1>3, QuietServer

LEMMA LossKeeps ==
  ASSUME TypeOK, IInv, NetworkLoss
  PROVE  IInv'
  <1>1. /\ UNCHANGED dst /\ UNCHANGED svars /\ UNCHANGED cvars
        /\ \A m \in net' : m \in net
    BY DEF NetworkLoss, Lose
  <1>2. Keeps /\ \A i \in Slots : table'[i] = table[i]
    BY <1>1, SameServer DEF svars
  <1> QED
    BY <1>1, <1>2, QuietServer

\* The answers of a session that is where it should be after the step.
LEMMA SessionSends ==
  ASSUME TypeOK', NEW s, NEW f, SessionOK(s)', s.w_r \in {"read", "write"}
  PROVE  /\ s.w_r = "read" => \A e \in FilePacket(s, f) : PacketOK(e)'
         /\ s.w_r = "write" => \A e \in AckPacket(s, f) : PacketOK(e)'
         /\ \A e \in ReplyPacket(s, f) : PacketOK(e)'
  <1>1. /\ s.sock \in 1 .. MaxSocks /\ s.file \in Transfers
        /\ Belongs(s.sock, s.file)' /\ s.peer = ClientAddr(s.file)
    BY ServerAssumption DEF SessionOK, Belongs, TypeOK, ServerType
  <1>2. ASSUME s.w_r = "read", NEW e \in FilePacket(s, f) PROVE PacketOK(e)'
    <2>1. s.block \in 1 .. FileLen + 1 /\ s.last = tftp_file_read(s.file, s.block - 1)
      BY <1>2, FileLenIs DEF SessionOK
    <2>2. e = Data(s.block, s.last, SessionAddr(s.sock), ClientAddr(s.file))
      BY <1>1, <1>2 DEF FilePacket
    <2>3. e.type = "DATA"
      BY <2>2 DEF Data
    <2>4. DataOK(e)'
      BY <1>1, <2>1, <2>2 DEF DataOK, Between, Data
    <2> QED
      BY <2>3, <2>4 DEF PacketOK
  <1>3. ASSUME s.w_r = "write", NEW e \in AckPacket(s, f) PROVE PacketOK(e)'
    <2>1. Holds(s.file, s.block)'
      BY <1>3 DEF SessionOK
    <2>2. e = Ack(s.block, SessionAddr(s.sock), ClientAddr(s.file))
      BY <1>1, <1>3 DEF AckPacket
    <2>3. e.type = "ACK"
      BY <2>2 DEF Ack
    <2>4. AckOK(e)'
      BY <1>1, <2>1, <2>2 DEF AckOK, Between, Ack
    <2> QED
      BY <2>3, <2>4 DEF PacketOK
  <1> QED
    BY <1>2, <1>3 DEF ReplyPacket

\* Slot i holds session s after a send loop, or is free.
LEMMA SlotAfter ==
  ASSUME TypeOK, NEW i \in Slots, NEW s, NEW f,
         table' = [table EXCEPT ![i] = AfterSend(s, f)]
  PROVE  /\ table'[i] = s \/ table'[i].sock = 0
         /\ \A j \in Slots : j # i => table'[j] = table[j]
  BY DEF AfterSend, NoSession, TypeOK, ServerType

LEMMA ReadAckedKeeps ==
  ASSUME TypeOK, TypeOK', IInv, SoundSetting, UNCHANGED cvars, NEW m \in net,
         NEW i \in Slots, ReadAcked(i, m)
  PROVE  IInv'
  <1>1. PICK x : x = table[i]
    OBVIOUS
  <1>2. /\ x \in Sessions /\ SessionOK(x) /\ x.w_r = "read" /\ m.type = "ACK"
        /\ m.from = ClientAddr(x.file)
    BY <1>1, SessionMail DEF ReadAcked, tftp_wait_ack
  <1>3. UNCHANGED dst /\ UNCHANGED nextSock
    BY DEF ReadAcked
  <1>4. CASE IsShort(x.last)
    <2>1. \A j \in Slots : table'[j] = table[j] \/ table'[j].sock = 0
      BY <1>1, <1>4 DEF ReadAcked, TypeOK, ServerType, NoSession
    <2>2. \A e \in net' : e \in net
      BY <1>1, <1>4 DEF ReadAcked, Receive
    <2>3. Keeps
      BY <1>3, <2>1, SlotsKeep
    <2> QED
      BY <1>3, <2>1, <2>2, <2>3, QuietServer
  <1>5. CASE ~IsShort(x.last)
    <2>1. PICK r, s, f :
            /\ r = [[x EXCEPT !.peer = m.from]
                      EXCEPT !.block = Inc(@), !.retry = MaxRetry]
            /\ s = SendFile(r, FALSE, FALSE)
            /\ table' = [table EXCEPT ![i] = AfterSend(s, f)]
            /\ Receive(m, FilePacket(s, f))
      <3>1. "pull" \in Ops
        BY <1>2 DEF SessionOK
      <3> QED
        BY <1>1, <1>5, <3>1, SoundFaults DEF ReadAcked, Received
    <2>2. PICK p \in 0 .. FileLen :
            /\ p = x.pos /\ x.block = p + 1
            /\ x.last = tftp_file_read(x.file, p) /\ x.file \in Transfers
          /\ "pull" \in Ops
            /\ x.peer = ClientAddr(x.file) /\ ~x.bad
      BY <1>2 DEF SessionOK
    <2>3. /\ p < FullBlocks /\ Size(x.last) = 1
          /\ p + 1 \in 0 .. FileLen /\ Inc(p + 1) = p + 2
      BY <1>5, <2>2, ShortIsLast, Orderly, IncIs, FileLenIs
    <2>4. /\ r \in Sessions /\ ~r.bad /\ r.pos = p /\ r.last = x.last
          /\ r.block = p + 2 /\ r.w_r = "read" /\ r.file = x.file
          /\ r.sock = x.sock /\ r.peer = x.peer
      <3>1. Inc(x.block) \in Blocks /\ MaxRetry \in 0 .. MaxRetry /\ m.from \in Addrs
        BY <1>2, IncType, XferAssumption DEF Sessions, TypeOK, NetType, Packets
      <3>2. r \in Sessions
        BY <1>2, <2>1, <3>1 DEF Sessions
      <3> QED
        BY <1>2, <2>1, <2>2, <2>3, <3>2 DEF Sessions
    <2>5. /\ s.sock = x.sock /\ s.file = x.file /\ s.peer = x.peer
          /\ s.w_r = "read" /\ ~s.bad /\ s.block = p + 2
          /\ s.pos = p + 1 /\ s.last = tftp_file_read(x.file, p + 1)
      <3>1. r.pos + Size(r.last) = p + 1
        BY <2>3, <2>4
      <3> QED
        BY <2>1, <2>2, <2>4, <3>1 DEF SendFile, ReadChunk, OrderlySetting, SoundSetting, Sessions
    <2>6. \A j \in Slots : \/ table'[j].sock \in {0, nextSock}
                           \/ /\ table'[j].sock = table[j].sock
                              /\ table'[j].file = table[j].file
      <3>1. table'[i].sock = 0 \/ table'[i] = s
        BY <2>1, SlotAfter
      <3>2. \A j \in Slots : j # i => table'[j] = table[j]
        BY <2>1, SlotAfter
      <3> QED
        BY <1>1, <2>5, <3>1, <3>2
    <2>7. Keeps
      BY <1>3, <2>6, SlotsKeep
    <2>8. SessionOK(s)'
      <3>1. Belongs(x.sock, x.file)'
        <4>1. x.sock \in 1 .. MaxSocks /\ Belongs(x.sock, x.file)
          BY <1>1, <1>2, SessionMail DEF ReadAcked, SessionOK
        <4> QED
          BY <2>2, <2>7, <4>1 DEF Keeps
      <3> QED
        BY <2>2, <2>3, <2>5, <3>1 DEF SessionOK
    <2>9. \A e \in net' : e \in net \/ PacketOK(e)'
      BY <2>1, <2>5, <2>8, SessionSends DEF Receive
    <2>10. \A j \in Slots : \/ table'[j] = table[j] \/ table'[j].sock = 0
                            \/ SessionOK(table[j])'
      <3>1. table'[i] = s => SessionOK(table[i])'
        BY <2>8 DEF SessionOK
      <3> QED
        BY <2>1, <3>1, SlotAfter
    <2> QED
      BY <1>3, <2>7, <2>9, <2>10, QuietServer
  <1> QED
    BY <1>4, <1>5

\* No session uses the socket the server creates next.
LEMMA NextSockIsNew ==
  ASSUME TypeOK, IInv, NEW i \in Slots
  PROVE  table[i].sock # nextSock
  <1>1. CASE table[i].sock = 0
    BY <1>1 DEF TypeOK, ServerType
  <1>2. CASE table[i].sock # 0
    <2>1. PICK x : x = table[i].sock
      OBVIOUS
    <2>2. x \in 1 .. nextSock - 1 /\ nextSock \in Nat
      BY <1>2, <2>1, ServerAssumption
      DEF IInv, SessionInv, Occupied, SessionOK, Belongs, TypeOK, ServerType
    <2> QED
      BY <2>1, <2>2
  <1> QED
    BY <1>1, <1>2

LEMMA RefusedKeeps ==
  ASSUME TypeOK, IInv, UNCHANGED cvars, UNCHANGED dst, NEW m \in net,
         nextSock' = nextSock + 1, RequestRefused(m)
  PROVE  IInv'
  <1>1. \A a, b : PacketOK(Error(a, b))'
    BY DEF PacketOK, Error
  <1>2. \A e \in net' : e \in net \/ PacketOK(e)'
    BY <1>1 DEF RequestRefused, Receive
  <1>3. \A j \in Slots : table'[j] = table[j]
    BY DEF RequestRefused
  <1>4. Keeps
    BY <1>3, SlotsKeep
  <1> QED
    BY <1>2, <1>3, <1>4, QuietServer

LEMMA AcceptedKeeps ==
  ASSUME TypeOK, TypeOK', IInv, SoundSetting, UNCHANGED cvars, UNCHANGED dst,
         NEW m \in net, m.type \in {"RRQ", "WRQ"}, nextSock' = nextSock + 1,
         RequestAccepted(m)
  PROVE  IInv'
  <1>1. PICK t \in Transfers : /\ t = m.chunk[1] /\ m.from = ClientAddr(t)
                               /\ (m.type = "RRQ" => "pull" \in Ops)
    BY DEF IInv, PacketInv, PacketOK, RequestOK
  <1>slot. PICK i \in Slots, bad \in BadHandle, fails \in MayFail("read") :
          \E f, n, s :
            /\ n = NewSession(m, bad)
            /\ s = IF m.type = "RRQ" THEN SendFile(n, FALSE, fails) ELSE n
            /\ table' = [table EXCEPT ![i] = AfterSend(s, f)]
            /\ Receive(m, ReplyPacket(s, f))
    BY DEF RequestAccepted
  <1>2. PICK f, n, s :
          /\ i \in Slots /\ bad \in BadHandle /\ fails \in MayFail("read")
          /\ n = NewSession(m, bad)
          /\ s = IF m.type = "RRQ" THEN SendFile(n, FALSE, fails) ELSE n
          /\ table' = [table EXCEPT ![i] = AfterSend(s, f)]
          /\ Receive(m, ReplyPacket(s, f))
    BY <1>slot
  <1>3. PICK k \in Nat : k = nextSock /\ k > 0 /\ k' = k
    BY ServerAssumption DEF TypeOK, ServerType
  <1>4. /\ s.sock = k /\ s.file = t /\ s.peer = ClientAddr(t)
        /\ s.w_r \in {"read", "write"}
        /\ s.w_r = "read" => /\ "pull" \in Ops /\ ~s.bad
                             /\ s.block = 1 /\ s.pos = 0
                             /\ s.last = tftp_file_read(t, 0)
        /\ s.w_r = "write" => s.block = 0 /\ s.pos = 0
    \* The session starts before the first chunk.
    <2>1. m.type = "RRQ" => "pull" \in Ops
      BY <1>1
    <2>2. /\ s.sock = nextSock /\ s.file = m.chunk[1] /\ s.peer = m.from
          /\ s.w_r = IF m.type = "RRQ" THEN "read" ELSE "write"
          /\ s.w_r = "read" => /\ "pull" \in Ops /\ ~s.bad
                               /\ s.block = 1 /\ s.pos = 0
                               /\ s.last = tftp_file_read(s.file, 0)
          /\ s.w_r = "write" => s.block = 0 /\ s.pos = 0
      <3>1. 0 + Size(Empty) = 0
        BY DEF Size
      <3>2. CASE m.type = "RRQ"
        BY <1>2, <2>1, <3>1, <3>2, SoundFaults
        DEF NewSession, SendFile, ReadChunk, OrderlySetting, SoundSetting
      <3>3. CASE m.type = "WRQ"
        BY <1>2, <3>3 DEF NewSession
      <3> QED
        BY <3>2, <3>3
    <2> QED
      BY <1>1, <1>3, <2>2
  <1>5. /\ table'[i] = s \/ table'[i].sock = 0
        /\ \A j \in Slots : j # i => table'[j] = table[j]
    BY <1>2, SlotAfter
  <1>6. Keeps
    <2>1. \A j \in Slots : \/ table'[j].sock \in {0, nextSock}
                           \/ /\ table'[j].sock = table[j].sock
                              /\ table'[j].file = table[j].file
      BY <1>3, <1>4, <1>5
    <2> QED
      BY <2>1, SlotsKeep
  <1>7. Belongs(k, t)'
    <2>1. \A j \in Slots : table'[j].sock = k => table'[j].file = t
      BY <1>3, <1>4, <1>5, NextSockIsNew
    <2>2. k \in 1 .. nextSock' - 1
      BY <1>3
    <2> QED
      BY <2>1, <2>2 DEF Belongs, Slots
  <1>8. SessionOK(s)'
    <2>1. s.w_r = "write" => Holds(t, 0)'
      BY DEF Holds
    <2> QED
      BY <1>4, <1>7, <2>1, FileLenIs DEF SessionOK
  <1>9. \A e \in net' : e \in net \/ PacketOK(e)'
    BY <1>2, <1>4, <1>8, SessionSends DEF Receive
  <1>10. \A j \in Slots : \/ table'[j] = table[j] \/ table'[j].sock = 0
                          \/ SessionOK(table[j])'
    <2>1. table'[i] = s => SessionOK(table[i])'
      BY <1>8 DEF SessionOK
    <2> QED
      BY <1>5, <2>1
  <1> QED
    BY <1>6, <1>9, <1>10, QuietServer

LEMMA RequestKeeps ==
  ASSUME TypeOK, TypeOK', IInv, SoundSetting, UNCHANGED cvars, NEW m \in net,
         ServerRequest(m)
  PROVE  IInv'
  BY RefusedKeeps, AcceptedKeeps DEF ServerRequest

-----------------------------------------------------------------------------
LEMMA WriteStoredKeeps ==
  ASSUME TypeOK, TypeOK', IInv, SoundSetting, UNCHANGED cvars, NEW m \in net,
         NEW i \in Slots, WriteStored(i, m)
  PROVE  IInv'
  <1>1. PICK x : x = table[i]
    OBVIOUS
  <1>2. /\ x \in Sessions /\ SessionOK(x) /\ x.w_r = "write" /\ m.type = "DATA"
        /\ m.from = ClientAddr(x.file) /\ m.block = Inc(x.block)
        /\ m.chunk = tftp_file_read(x.file, m.block - 1)
    BY <1>1, SessionMail DEF WriteStored, tftp_read_data
  <1>3. PICK t \in Transfers, p \in 0 .. FullBlocks :
          /\ t = x.file /\ p = x.pos /\ x.block = p /\ Holds(t, p)
          /\ x.peer = ClientAddr(t)
    BY <1>2 DEF SessionOK
  <1>4. PICK c : c = tftp_file_read(t, p)
    OBVIOUS
  <1>5. p \in 0 .. FileLen /\ m.block = p + 1 /\ m.chunk = c
    BY <1>2, <1>3, <1>4, Orderly, IncIs, FileLenIs
  <1>6. PICK s, f :
          /\ s = [[x EXCEPT !.peer = m.from]
                    EXCEPT !.block = m.block, !.pos = @ + Size(m.chunk)]
          /\ dst' = [dst EXCEPT ![s.file] = tftp_file_write(@, x.pos, m.chunk)]
          /\ Receive(m, AckPacket(s, f))
          /\ table' = [table EXCEPT ![i] =
               IF Destroyed(f) \/ IsShort(m.chunk) THEN NoSession ELSE s]
    BY <1>1 DEF WriteStored, Received
  <1>7. /\ s.sock = x.sock /\ s.file = t /\ s.peer = ClientAddr(t)
        /\ s.w_r = "write" /\ s.block = p + 1 /\ s.pos = p + Size(c)
    BY <1>2, <1>3, <1>5, <1>6 DEF Sessions
  <1>8. dst' = [dst EXCEPT ![t] = tftp_file_write(@, p, c)]
    BY <1>3, <1>5, <1>6, <1>7
  <1>9. /\ PrefixStored' /\ Grows /\ Holds(t, p + 1)'
        /\ \A u \in Transfers : dst[u] = SourceFile(u) => dst'[u] = SourceFile(u)
    BY <1>3, <1>4, <1>5, <1>8, WriteExtends, PrefixedIs, PrefixStays DEF IInv, TypeOK
  <1>10. /\ table'[i] = s \/ table'[i].sock = 0
         /\ IsShort(c) => table'[i].sock = 0
         /\ \A j \in Slots : j # i => table'[j] = table[j]
    BY <1>5, <1>6 DEF NoSession, TypeOK, ServerType
  <1>11. Keeps
    <2>1. \A j \in Slots : \/ table'[j].sock \in {0, nextSock}
                           \/ /\ table'[j].sock = table[j].sock
                              /\ table'[j].file = table[j].file
      BY <1>1, <1>3, <1>7, <1>10
    <2>2. UNCHANGED nextSock
      BY DEF WriteStored
    <2> QED
      BY <2>1, <2>2, SlotsKeep
  <1>12. Belongs(x.sock, t)' /\ x.sock \in 1 .. MaxSocks
    <2>1. x.sock \in 1 .. MaxSocks /\ Belongs(x.sock, t)
      BY <1>1, <1>2, <1>3, SessionMail DEF WriteStored, SessionOK
    <2> QED
      BY <1>11, <2>1 DEF Keeps
  <1>13. \A e \in net' : e \in net \/ PacketOK(e)'
    <2>1. PICK ack : ack = Ack(p + 1, SessionAddr(x.sock), ClientAddr(t))
      OBVIOUS
    <2>2. ack.type = "ACK" /\ AckOK(ack)'
      BY <1>9, <1>12, <2>1 DEF AckOK, Between, Ack
    <2>3. PacketOK(ack)'
      BY <2>2 DEF PacketOK
    <2>4. \A e \in net' : e \in net \/ e = ack
      BY <1>6, <1>7, <2>1 DEF Receive, AckPacket
    <2> QED
      BY <2>3, <2>4
  <1>14. \A j \in Slots : \/ table'[j] = table[j] \/ table'[j].sock = 0
                          \/ SessionOK(table[j])'
    <2>1. ASSUME ~IsShort(c) PROVE SessionOK(s)'
      <3>1. p < FullBlocks /\ Size(c) = 1
        BY <1>4, <1>5, <2>1, ShortIsLast
      <3>2. p + 1 \in 0 .. FullBlocks
        BY <3>1, FileLenIs
      <3> QED
        BY <1>7, <1>9, <1>12, <3>1, <3>2 DEF SessionOK
    <2>2. ASSUME ~IsShort(c), table'[i] = s PROVE SessionOK(table[i])'
      BY <2>1, <2>2 DEF SessionOK
    <2> QED
      BY <1>10, <2>2
  <1>15. CompleteIsWhole'
    BY <1>9 DEF IInv, CompleteIsWhole, SourceFile, cvars
  <1>16. CallInv'
    BY <1>9, <1>11
    DEF IInv, CallInv, Grows, Keeps, cvars, Waiting, TypeOK, ClientType, Transfers
  <1> QED
    BY <1>9, <1>11, <1>13, <1>14, <1>15, <1>16, StepKeeps

(***************************************************************************)
(* A timeout: every session that retries resends the chunk it is at, the    *)
(* others are gone.                                                         *)
(***************************************************************************)
LEMMA TimedOutIs ==
  ASSUME SoundSetting, NEW x \in Sessions, SessionOK(x),
         NEW fails \in MayFail("read"), NEW s, s = TimedOut(x, fails)
  PROVE  /\ s.sock = x.sock /\ s.file = x.file /\ s.peer = x.peer
         /\ s.w_r = x.w_r /\ s.block = x.block /\ s.pos = x.pos
         /\ s.w_r = "read" => ~s.bad /\ s.last = x.last
  BY SoundFaults, ZenonT(60)
  DEF TimedOut, OneLess, SendFile, ReadChunk, OrderlySetting, SoundSetting, Sessions, SessionOK

LEMMA ServerTimeoutKeeps ==
  ASSUME TypeOK, TypeOK', IInv, SoundSetting, UNCHANGED cvars, ServerTimeout
  PROVE  IInv'
  <1>1. PICK x : x = table
    OBVIOUS
  <1> DEFINE retrying == {i \in Occupied : MayRetry(table[i])}
  <1>2. PICK f \in [Slots -> SendFailures], fails \in [Slots -> MayFail("read")] :
          LET s == [i \in retrying |-> TimedOut(table[i], fails[i])]
          IN  /\ table' = [i \in Slots |-> IF i \in retrying
                                           THEN AfterSend(s[i], f[i])
                                           ELSE NoSession]
              /\ Send(UNION {ReplyPacket(s[i], f[i]) : i \in retrying})
    BY DEF ServerTimeout
  <1>3. PICK r : r = retrying
    OBVIOUS
  <1> DEFINE s == [i \in r |-> TimedOut(x[i], fails[i])]
  <1>4. r \subseteq Slots /\ r \subseteq Occupied
    BY <1>3 DEF Occupied
  <1>5. \A i \in r : s[i] = TimedOut(table[i], fails[i])
    BY <1>1, <1>4
  <1>6. /\ \A i \in Slots : table'[i] = IF i \in r THEN AfterSend(s[i], f[i])
                                       ELSE NoSession
        /\ \A e \in net' : e \in net \/ \E i \in r : e \in ReplyPacket(s[i], f[i])
    BY <1>2, <1>3, <1>4, <1>5 DEF Send
  <1>7. \A i \in r : s[i] = TimedOut(x[i], fails[i]) /\ fails[i] \in MayFail("read")
    BY <1>4
  <1> HIDE DEF retrying, s
  <1>8. UNCHANGED dst /\ UNCHANGED nextSock
    BY DEF ServerTimeout
  <1>9. ASSUME NEW i \in r
        PROVE  /\ x[i] \in Sessions /\ SessionOK(x[i])
               /\ s[i].sock = x[i].sock /\ s[i].file = x[i].file
               /\ s[i].peer = x[i].peer
               /\ s[i].w_r = x[i].w_r /\ s[i].block = x[i].block
               /\ s[i].pos = x[i].pos
               /\ s[i].w_r = "read" => ~s[i].bad /\ s[i].last = x[i].last
    <2>1. x[i] \in Sessions /\ SessionOK(x[i])
      BY <1>1, <1>4, <1>9 DEF IInv, SessionInv, Occupied, TypeOK, ServerType
    <2>2. s[i] = TimedOut(x[i], fails[i]) /\ fails[i] \in MayFail("read")
      BY <1>7, <1>9
    <2> QED
      BY <2>1, <2>2, TimedOutIs
  <1>10. ASSUME NEW i \in Slots
        PROVE  \/ i \in r /\ table'[i] = s[i]
               \/ table'[i].sock = 0
    BY <1>6 DEF AfterSend, NoSession
  <1>11. Keeps
    <2>1. \A j \in Slots : \/ table'[j].sock \in {0, nextSock}
                           \/ /\ table'[j].sock = table[j].sock
                              /\ table'[j].file = table[j].file
      BY <1>1, <1>9, <1>10
    <2> QED
      BY <1>8, <2>1, SlotsKeep
  <1>12. Grows
    BY <1>8, SameFiles
  <1>13. ASSUME NEW i \in r
        PROVE  SessionOK(s[i])' /\ s[i].w_r \in {"read", "write"}
    <2>1. PICK y \in Sessions : y = x[i] /\ SessionOK(y)
      BY <1>9
    <2>2. SessionOK(y)'
      BY <1>11, <1>12, <2>1, SessionStays
    <2>3. PICK z : z = s[i]
      OBVIOUS
    <2>4. /\ z.sock = y.sock /\ z.file = y.file /\ z.peer = y.peer
          /\ z.w_r = y.w_r /\ z.block = y.block /\ z.pos = y.pos
          /\ z.w_r = "read" => ~z.bad /\ z.last = y.last
      BY <1>9, <2>1, <2>3
    <2>5. SessionOK(z)'
      BY <2>2, <2>4 DEF SessionOK
    <2>6. z.w_r \in {"read", "write"}
      BY <2>1, <2>4 DEF Sessions
    <2> QED
      BY <2>3, <2>5, <2>6 DEF SessionOK
  <1>14. ASSUME NEW e \in net', e \notin net PROVE PacketOK(e)'
    <2>1. PICK i \in r : e \in ReplyPacket(s[i], f[i])
      BY <1>6, <1>14
    <2>2. PICK z : z = s[i]
      OBVIOUS
    <2>3. SessionOK(z)' /\ z.w_r \in {"read", "write"}
      BY <1>13, <2>2 DEF SessionOK
    <2>4. PICK g : g = f[i]
      OBVIOUS
    <2> QED
      BY <2>1, <2>2, <2>3, <2>4, SessionSends
  <1>15. \A j \in Slots : \/ table'[j] = table[j] \/ table'[j].sock = 0
                          \/ SessionOK(table[j])'
    <2> SUFFICES ASSUME NEW j \in Slots, j \in r, table'[j] = s[j]
                 PROVE  SessionOK(table[j])'
      BY <1>10
    <2>1. SessionOK(s[j])'
      BY <1>13
    <2> QED
      BY <2>1 DEF SessionOK
  <1> QED
    BY <1>8, <1>11, <1>14, <1>15, QuietServer

-----------------------------------------------------------------------------
LEMMA InitInv == ASSUME SoundSetting, Init PROVE IInv
  <1>1. net = {} /\ ~Waiting /\ Occupied = {}
    BY DEF Init, XferInit, ClientInit, ServerInit, Waiting, Occupied, NoSession
  <1>2. \A t \in Transfers : outcome[t] = "none"
    BY DEF Init, ClientInit
  <1>3. PrefixStored
    <2>1. \A t \in Transfers : dst[t] = [i \in 1 .. 0 |-> <<t, i>>]
      BY DEF Init, PortInit, OldFile, OrderlySetting, SoundSetting
    <2>2. 0 \in 0 .. FileLen
      BY FileLenIs
    <2> QED
      BY <2>1, <2>2 DEF PrefixStored
  <1> QED
    BY <1>1, <1>2, <1>3
    DEF IInv, PacketInv, SessionInv, CallInv, CompleteIsWhole

LEMMA NextInv ==
  ASSUME SoundSetting, TypeOK, IInv, [Next]_vars
  PROVE  IInv'
  <1>0. TypeOK'
    BY NextTypes
  <1>1. CASE Start
    BY <1>1, StartKeeps DEF Start
  <1>2. CASE ClientTimer
    BY <1>2, TimeoutKeeps DEF ClientTimer
  <1>3. CASE ClientFault
    BY <1>3, SelectErrorKeeps DEF ClientFault
  <1>4. CASE ClientInput
    <2>1. PICK m \in net : ClientReceive(m) /\ UNCHANGED svars
      BY <1>4 DEF ClientInput
    <2> QED
      BY <2>1, PullFailsKeeps, PullStoresKeeps, PushGrantedKeeps, PushAckedKeeps
      DEF ClientReceive
  <1>5. CASE ServerTimer
    BY <1>0, <1>5, ServerTimeoutKeeps DEF ServerTimer
  <1>6. CASE ServerAccept
    BY <1>0, <1>6, RequestKeeps DEF ServerAccept
  <1>7. CASE ServerInput
    <2>1. PICK m \in net, i \in Slots : ServerData(i, m) /\ UNCHANGED cvars
      BY <1>7 DEF ServerInput
    <2> QED
      BY <1>0, <2>1, ReadAckedKeeps, WriteStoredKeeps, DropKeeps DEF ServerData
  <1>8. CASE ServerLife
    BY <1>8, LifeKeeps DEF ServerLife
  <1>9. CASE NetworkLoss
    BY <1>9, LossKeeps
  <1>10. CASE UNCHANGED vars
    <2>1. UNCHANGED dst /\ UNCHANGED svars /\ UNCHANGED cvars /\ UNCHANGED net
      BY <1>10 DEF vars
    <2>2. Keeps /\ \A i \in Slots : table'[i] = table[i]
      BY <2>1, SameServer DEF svars
    <2> QED
      BY <2>1, <2>2, QuietServer
  <1> QED
    BY <1>1, <1>2, <1>3, <1>4, <1>5, <1>6, <1>7, <1>8, <1>9, <1>10 DEF Next

(***************************************************************************)
(* In a SoundSetting, for any number and length of files, of slots, of      *)
(* retries and of lost, late and repeated datagrams, IInv always holds.     *)
(***************************************************************************)
THEOREM Invariance == SoundSetting => (Spec => []IInv)
  <1> SUFFICES ASSUME SoundSetting PROVE Spec => []IInv
    OBVIOUS
  <1>1. Init => IInv
    BY InitInv
  <1>2. TypeOK /\ IInv /\ [Next]_vars => IInv'
    BY NextInv
  <1> QED
    BY <1>1, <1>2, TypeCorrect, PTL DEF Spec

\* A destination is always a prefix of its source.
THEOREM PrefixAlways == SoundSetting => (Spec => []PrefixStored)
  <1>1. IInv => PrefixStored
    BY DEF IInv
  <1> QED
    BY <1>1, Invariance, PTL

(***************************************************************************)
(* A transfer that left by its last block, or by the acknowledgement of it, *)
(* has copied the whole file, and the copy stays whole (tftp_client_pull,   *)
(* tftp_client_push).                                                       *)
(***************************************************************************)
THEOREM CompleteAlways == SoundSetting => (Spec => []CompleteIsWhole)
  <1>1. IInv => CompleteIsWhole
    BY DEF IInv
  <1> QED
    BY <1>1, Invariance, PTL

(***************************************************************************)
(* An acknowledged block is in the file of the side that acknowledges it.   *)
(***************************************************************************)
THEOREM AckedAlways == SoundSetting => (Spec => []AckedIsStored)
  <1>1. ASSUME IInv PROVE AckedIsStored
    <2> SUFFICES ASSUME NEW m \in net, m.type = "ACK",
                        NEW i \in 1 .. m.block, i <= FileLen
                 PROVE  /\ i \in DOMAIN dst[FileOf(m)]
                        /\ dst[FileOf(m)][i] = <<FileOf(m), i>>
      BY DEF AckedIsStored
    <2>1. PICK t \in Transfers : Between(m, t) /\ Holds(t, m.block)
      BY <1>1 DEF IInv, PacketInv, PacketOK, AckOK
    <2>2. FileOf(m) = t
      BY <2>1 DEF Between, ClientAddr, SessionAddr, FileOf
    <2>3. i \in DOMAIN dst[t]
      BY <2>1 DEF Holds
    <2>4. PICK n \in 0 .. FileLen : dst[t] = [j \in 1 .. n |-> <<t, j>>]
      BY <1>1 DEF IInv, PrefixStored
    <2> QED
      BY <2>2, <2>3, <2>4
  <1> QED
    BY <1>1, Invariance, PTL

-----------------------------------------------------------------------------
(***************************************************************************)
(* What a socket sends.  A session's number in a block does not tell the    *)
(* file: a socket that is closed belongs to nobody.  But all the data its   *)
(* session ever sent went to the client of one transfer.                    *)
(***************************************************************************)
FromSession(m, k) == m.type = "DATA" /\ m.from = SessionAddr(k)

OneReader ==
  \A k \in 1 .. MaxSocks : \A m, n \in net :
    FromSession(m, k) /\ FromSession(n, k) => m.to = n.to

\* The client to whom the data of session socket k may go in this step, where
\* a is the client whose request is granted.
Reader(k, a) ==
  IF k = nextSock THEN {a}
  ELSE {ClientAddr(table[i].file) : i \in {j \in Occupied : table[j].sock = k}}

\* What a step adds to the data in flight.
Adds(a) ==
  \A m \in net' : \A k \in 1 .. MaxSocks :
    FromSession(m, k) => m \in net \/ m.to \in Reader(k, a)

LEMMA ReaderIsOne ==
  ASSUME TypeOK, IInv, NEW k \in 1 .. MaxSocks, NEW a, NEW b \in Reader(k, a)
  PROVE  /\ \A c \in Reader(k, a) : c = b
         /\ \A m \in net : FromSession(m, k) => m.to = b
  <1>1. ASSUME NEW m \in net, FromSession(m, k)
        PROVE  \E t \in Transfers : Belongs(k, t) /\ m.to = ClientAddr(t)
    <2>1. PICK t \in Transfers : Between(m, t)
      BY <1>1 DEF IInv, PacketInv, PacketOK, DataOK, FromSession
    <2>2. PICK n \in 1 .. MaxSocks :
            /\ Belongs(n, t)
            /\ \/ m.from = ClientAddr(t) /\ m.to = SessionAddr(n)
               \/ m.from = SessionAddr(n) /\ m.to = ClientAddr(t)
      BY <2>1 DEF Between
    <2>3. n = k /\ m.to = ClientAddr(t)
      BY <1>1, <2>2 DEF FromSession, ClientAddr, SessionAddr
    <2> QED
      BY <2>2, <2>3
  <1>2. CASE k = nextSock
    <2>1. \A t : ~Belongs(k, t)
      BY <1>2, ServerAssumption DEF Belongs, TypeOK, ServerType
    <2> QED
      BY <1>1, <1>2, <2>1 DEF Reader
  <1>3. CASE k # nextSock
    <2>1. PICK i \in Occupied : table[i].sock = k /\ b = ClientAddr(table[i].file)
      BY <1>3 DEF Reader
    <2>2. \A t : Belongs(k, t) => table[i].file = t
      BY <2>1 DEF Belongs, Occupied
    <2>3. \A j \in Occupied : table[j].sock = k => Belongs(k, table[j].file)
      BY DEF IInv, SessionInv, SessionOK
    <2> QED
      BY <1>1, <1>3, <2>1, <2>2, <2>3 DEF Reader
  <1> QED
    BY <1>2, <1>3

LEMMA AddsKeep ==
  ASSUME TypeOK, IInv, OneReader, NEW a, Adds(a)
  PROVE  OneReader'
  <1> SUFFICES ASSUME NEW k \in 1 .. MaxSocks, NEW m \in net', NEW n \in net',
                      FromSession(m, k), FromSession(n, k)
               PROVE  m.to = n.to
    BY DEF OneReader, FromSession
  <1>1. m \in net \/ m.to \in Reader(k, a)
    BY DEF Adds
  <1>2. n \in net \/ n.to \in Reader(k, a)
    BY DEF Adds
  <1>3. CASE m \in net /\ n \in net
    BY <1>3 DEF OneReader
  <1>4. CASE m.to \in Reader(k, a)
    BY <1>2, <1>4, ReaderIsOne
  <1>5. CASE n.to \in Reader(k, a)
    BY <1>1, <1>5, ReaderIsOne
  <1> QED
    BY <1>1, <1>2, <1>3, <1>4, <1>5

\* A step that sends no data from a session's socket.
LEMMA NoDataAdds ==
  ASSUME NEW a, \A m \in net' : m \in net \/ m.type # "DATA" \/ m.from[1] = "client"
  PROVE  Adds(a)
  BY DEF Adds, FromSession, SessionAddr

LEMMA ClientAdds ==
  ASSUME NEW a, Start \/ ClientTimer \/ ClientFault \/ ClientInput \/ NetworkLoss \/ UNCHANGED vars
  PROVE  Adds(a)
  <1>0. \A t : Socket(t)[1] = "client" /\ Me[1] = "client"
    BY DEF Socket, Me, ClientAddr
  <1>1. /\ \A o, t : RequestOf(o, t).type # "DATA"
        /\ \A x, y : Error(x, y).type # "DATA" /\ \A b : Ack(b, x, y).type # "DATA"
        /\ \A b, c, y : Data(b, c, Me, y).from[1] = "client"
    BY <1>0 DEF RequestOf, Request, Error, Ack, Data
  <1>2. Unanswered.type # "DATA" \/ Unanswered.from[1] = "client"
    BY <1>1 DEF Unanswered
  <1>3. CASE Start
    <2>1. \A m \in net' : m \in net \/ m.type # "DATA"
      BY <1>1, <1>3 DEF Start, ClientStart, Send
    <2> QED
      BY <2>1, NoDataAdds
  <1>4. CASE ClientTimer
    <2>1. \A m \in net' : m \in net \/ m = Unanswered \/ m.type # "DATA"
      BY <1>1, <1>4 DEF ClientTimer, ClientTimeout, Send
    <2> QED
      BY <1>2, <2>1, NoDataAdds
  <1>5. CASE ClientInput
    <2>1. PICK m \in net : ClientReceive(m)
      BY <1>5 DEF ClientInput
    <2>2. ASSUME NEW b, NEW p, PushBlock(m, b, p), NEW e \in net'
          PROVE  e \in net \/ e.type # "DATA" \/ e.from[1] = "client"
      BY <1>1, <2>2 DEF PushBlock, Receive
    <2>3. CASE PullOpenFails(m) \/ PullRejects(m) \/ PullWriteFails(m) \/ PullStores(m)
      <3>1. \A e \in net' : e \in net \/ e.type # "DATA"
        BY <1>1, <2>3 DEF PullOpenFails, PullRejects, PullWriteFails, PullStores, Send, Receive
      <3> QED
        BY <3>1, NoDataAdds
    <2>4. CASE PushOpenFails(m) \/ PushRejects(m)
      <3>1. \A e \in net' : e \in net \/ e.type # "DATA"
        BY <1>1, <2>4 DEF PushOpenFails, PushRejects, Receive
      <3> QED
        BY <3>1, NoDataAdds
    <2>5. CASE PushGranted(m)
      BY <2>2, <2>5, NoDataAdds DEF PushGranted
    <2>6. CASE PushAcked(m)
      <3>1. \A e \in net' : e \in net \/ e.type # "DATA" \/ e.from[1] = "client"
        BY <2>2, <2>6 DEF PushAcked, Receive
      <3> QED
        BY <3>1, NoDataAdds
    <2> QED
      BY <2>1, <2>3, <2>4, <2>5, <2>6 DEF ClientReceive
  <1>6. CASE ClientFault \/ NetworkLoss \/ UNCHANGED vars
    <2>1. \A m \in net' : m \in net
      BY <1>6 DEF ClientFault, ClientSelectError, NetworkLoss, Lose, vars
    <2> QED
      BY <2>1, NoDataAdds
  <1> QED
    BY <1>3, <1>4, <1>5, <1>6

\* Data of a session of the table goes to its reader.
LEMMA SessionAdds ==
  ASSUME TypeOK, IInv, NEW i \in Occupied, NEW s, NEW f, NEW a,
         s.sock = table[i].sock, s.peer = ClientAddr(table[i].file),
         NEW m, m \in FilePacket(s, f) \cup AckPacket(s, f),
         NEW k \in 1 .. MaxSocks, FromSession(m, k)
  PROVE  m.to \in Reader(k, a)
  <1>1. m = Data(s.block, s.last, SessionAddr(s.sock), s.peer)
    BY DEF FilePacket, AckPacket, FromSession, Ack
  <1>2. k = table[i].sock /\ m.to = ClientAddr(table[i].file)
    BY <1>1 DEF FromSession, Data, SessionAddr
  <1>3. k # nextSock
    BY <1>2, NextSockIsNew DEF Occupied
  <1> QED
    BY <1>2, <1>3 DEF Reader

LEMMA ServerInputAdds ==
  ASSUME TypeOK, IInv, NEW a, NEW m \in net, NEW i \in Slots, ServerData(i, m)
  PROVE  Adds(a)
  <1>1. CASE ReadAcked(i, m)
    <2>1. /\ i \in Occupied /\ m.from = ClientAddr(table[i].file) /\ table[i] \in Sessions
      BY <1>1, SessionMail DEF ReadAcked, Ready, tftp_wait_ack
    <2>2. CASE IsShort(table[i].last)
      <3>1. \A e \in net' : e \in net
        BY <1>1, <2>2 DEF ReadAcked, Receive
      <3> QED
        BY <3>1, NoDataAdds
    <2>3. CASE ~IsShort(table[i].last)
      <3>1. PICK r, s, f, fails :
              /\ r = [Received(i, m) EXCEPT !.block = Inc(@), !.retry = MaxRetry]
              /\ s = SendFile(r, FALSE, fails)
              /\ Receive(m, FilePacket(s, f))
        BY <1>1, <2>3 DEF ReadAcked
      <3>2. s.sock = table[i].sock /\ s.peer = ClientAddr(table[i].file)
        BY <2>1, <3>1 DEF Received, SendFile, Sessions
      <3>3. \A e \in net' : e \in net \/ e \in FilePacket(s, f)
        BY <3>1 DEF Receive
      <3> QED
        BY <2>1, <3>2, <3>3, SessionAdds DEF Adds
    <2> QED
      BY <2>2, <2>3
  <1>2. CASE WriteStored(i, m)
    <2>1. \A e \in net' : e \in net \/ e.type = "ACK"
      BY <1>2 DEF WriteStored, Receive, AckPacket, Ack
    <2> QED
      BY <2>1, NoDataAdds
  <1>3. CASE ReadBadAck(i, m) \/ WriteFails(i, m) \/ WriteBadData(i, m)
    <2>1. \A e \in net' : e \in net \/ e.type = "ERROR"
      BY <1>3 DEF ReadBadAck, WriteFails, WriteBadData, Receive, Error
    <2> QED
      BY <2>1, NoDataAdds
  <1> QED
    BY <1>1, <1>2, <1>3 DEF ServerData

LEMMA ServerTimeoutAdds ==
  ASSUME SoundSetting, TypeOK, IInv, NEW a, ServerTimeout
  PROVE  Adds(a)
  <1> DEFINE retrying == {i \in Occupied : MayRetry(table[i])}
  <1>1. PICK f \in [Slots -> SendFailures], fails \in [Slots -> MayFail("read")] :
          Send(UNION {ReplyPacket([j \in retrying |-> TimedOut(table[j], fails[j])][i], f[i])
                        : i \in retrying})
    BY DEF ServerTimeout
  <1>2. \A e \in net' : e \in net \/ \E i \in retrying :
          e \in ReplyPacket(TimedOut(table[i], fails[i]), f[i])
    BY <1>1 DEF Send
  <1> HIDE DEF retrying
  <1>3. ASSUME NEW e \in net', e \notin net, NEW k \in 1 .. MaxSocks, FromSession(e, k)
        PROVE  e.to \in Reader(k, a)
    <2>1. PICK i \in retrying : e \in ReplyPacket(TimedOut(table[i], fails[i]), f[i])
      BY <1>2, <1>3
    <2>2. PICK s, x : s = TimedOut(x, fails[i]) /\ x = table[i]
      OBVIOUS
    <2>3. i \in Occupied /\ i \in Slots /\ fails[i] \in MayFail("read")
      BY <2>1 DEF retrying, Occupied
    <2>4. x \in Sessions /\ SessionOK(x)
      BY <2>2, <2>3 DEF IInv, SessionInv, TypeOK, ServerType
    <2>5. s.sock = x.sock /\ s.peer = ClientAddr(x.file)
      BY <2>2, <2>3, <2>4, TimedOutIs DEF SessionOK
    <2>6. e \in FilePacket(s, f[i]) \cup AckPacket(s, f[i])
      BY <2>1, <2>2 DEF ReplyPacket
    <2> QED
      BY <1>3, <2>2, <2>3, <2>5, <2>6, SessionAdds
  <1> QED
    BY <1>3 DEF Adds

LEMMA AcceptAdds ==
  ASSUME TypeOK, NEW m \in net, ServerRequest(m)
  PROVE  Adds(m.from)
  <1>1. CASE RequestRefused(m)
    <2>1. \A e \in net' : e \in net \/ e.type = "ERROR"
      BY <1>1 DEF RequestRefused, Receive, Error
    <2> QED
      BY <2>1, NoDataAdds
  <1>2. CASE RequestAccepted(m)
    <2>1. PICK n, s, f, bad, fails :
            /\ n = NewSession(m, bad)
            /\ s = IF m.type = "RRQ" THEN SendFile(n, FALSE, fails) ELSE n
            /\ Receive(m, ReplyPacket(s, f))
      BY <1>2 DEF RequestAccepted
    <2>2. s.sock = nextSock /\ s.peer = m.from
      BY <2>1 DEF NewSession, SendFile
    <2>3. \A e \in net' : e \in net \/ e.type = "ACK"
                          \/ (e.from = SessionAddr(nextSock) /\ e.to = m.from)
      <3>1. \A e \in ReplyPacket(s, f) :
              e.type = "ACK" \/ (e.from = SessionAddr(s.sock) /\ e.to = s.peer)
        BY DEF ReplyPacket, FilePacket, AckPacket, Data, Ack
      <3>2. \A e \in net' : e \in net \/ e \in ReplyPacket(s, f)
        BY <2>1 DEF Receive
      <3> QED
        BY <2>2, <3>1, <3>2
    <2> QED
      BY <2>3 DEF Adds, FromSession, Reader, SessionAddr
  <1> QED
    BY <1>1, <1>2 DEF ServerRequest

LEMMA ReaderStep ==
  ASSUME SoundSetting, TypeOK, IInv, OneReader, [Next]_vars
  PROVE  OneReader'
  <1>1. ASSUME NEW m \in net, ServerRequest(m) PROVE OneReader'
    BY <1>1, AcceptAdds, AddsKeep
  <1>2. CASE ServerTimer
    BY <1>2, ServerTimeoutAdds, AddsKeep DEF ServerTimer
  <1>3. CASE ServerInput
    BY <1>3, ServerInputAdds, AddsKeep DEF ServerInput
  <1>4. CASE ServerLife
    <2>1. net' = net
      BY <1>4 DEF ServerLife, ServerExit, ServerStart
    <2> QED
      BY <2>1, NoDataAdds, AddsKeep
  <1> QED
    BY <1>1, <1>2, <1>3, <1>4, ClientAdds, AddsKeep DEF Next, ServerAccept

(***************************************************************************)
(* Two blocks of one number from one socket carry one chunk, whoever sends   *)
(* them again, and whether or not the session is still there.               *)
(***************************************************************************)
THEOREM ResendsAlways == SoundSetting => (Spec => []ResendsSameChunk)
  <1> SUFFICES ASSUME SoundSetting PROVE Spec => []ResendsSameChunk
    OBVIOUS
  <1>1. Init => OneReader
    BY DEF Init, XferInit, OneReader
  <1>2. TypeOK /\ IInv /\ OneReader /\ [Next]_vars => OneReader'
    BY ReaderStep
  <1>3. ASSUME IInv, OneReader PROVE ResendsSameChunk
    <2> SUFFICES ASSUME NEW m \in net, NEW n \in net, m.type = "DATA", n.type = "DATA",
                        m.from = n.from, m.block = n.block
                 PROVE  m.chunk = n.chunk
      BY DEF ResendsSameChunk
    <2>1. PICK t \in Transfers : Between(m, t) /\ m.chunk = tftp_file_read(t, m.block - 1)
      BY <1>3 DEF IInv, PacketInv, PacketOK, DataOK
    <2>2. PICK u \in Transfers : Between(n, u) /\ n.chunk = tftp_file_read(u, n.block - 1)
      BY <1>3 DEF IInv, PacketInv, PacketOK, DataOK
    <2>3. \/ m.from = ClientAddr(t)
          \/ \E k \in 1 .. MaxSocks : m.from = SessionAddr(k) /\ m.to = ClientAddr(t)
      BY <2>1 DEF Between
    <2>4. \/ n.from = ClientAddr(u)
          \/ \E k \in 1 .. MaxSocks : n.from = SessionAddr(k) /\ n.to = ClientAddr(u)
      BY <2>2 DEF Between
    <2>5. CASE m.from = ClientAddr(t)
      <3>1. n.from = ClientAddr(u)
        BY <2>4, <2>5 DEF ClientAddr, SessionAddr
      <3>2. ClientAddr(t) = ClientAddr(u)
        BY <2>5, <3>1
      <3>3. ClientAddr(t)[2] = t /\ ClientAddr(u)[2] = u
        BY DEF ClientAddr
      <3> QED
        BY <2>1, <2>2, <3>2, <3>3
    <2>6. ASSUME NEW k \in 1 .. MaxSocks, m.from = SessionAddr(k), m.to = ClientAddr(t)
          PROVE  m.chunk = n.chunk
      <3>1. n.to = ClientAddr(u)
        BY <2>4, <2>6 DEF ClientAddr, SessionAddr
      <3>2. m.to = n.to
        BY <1>3, <2>6 DEF OneReader, FromSession
      <3> QED
        BY <2>1, <2>2, <2>6, <3>1, <3>2 DEF ClientAddr
    <2> QED
      BY <2>3, <2>5, <2>6
  <1> QED
    BY <1>1, <1>2, <1>3, TypeCorrect, Invariance, PTL DEF Spec

-----------------------------------------------------------------------------
(***************************************************************************)
(* Tftp implements FileCopy: in a SoundSetting every step of client, server *)
(* and network is a step of FileCopy, or changes neither a copy nor what    *)
(* the caller has been told.                                                *)
(***************************************************************************)
seen == <<dst, cur, Told>>

\* The client is idle before its first call only.
IdleBefore == cpc = "idle" => cur = 0

PrefixOf(t, n) == [i \in 1 .. n |-> <<t, i>>]

\* What a step may do to the destinations: nothing, or add one chunk to one.
Stored(t) ==
  \E n \in 0 .. FileLen - 1 :
    /\ dst[t] = PrefixOf(t, n)
    /\ dst' = [dst EXCEPT ![t] = PrefixOf(t, n + 1)]

LEMMA PrefixIs ==
  ASSUME NEW t \in Transfers, NEW n \in 0 .. FileLen
  PROVE  Copy!Prefix(t, n) = PrefixOf(t, n)
  BY FileLenIs DEF Copy!Prefix, PrefixOf, SourceFile

LEMMA StoredIs ==
  ASSUME NEW t \in Transfers, Stored(t)
  PROVE  Copy!Store(t)
  <1>1. PICK n \in 0 .. FileLen - 1 :
          /\ dst[t] = PrefixOf(t, n)
          /\ dst' = [dst EXCEPT ![t] = PrefixOf(t, n + 1)]
    BY DEF Stored
  <1>2. n \in 0 .. FileLen /\ n + 1 \in 0 .. FileLen
    BY FileLenIs
  <1> QED
    BY <1>1, <1>2, PrefixIs DEF Copy!Store

\* While a call runs its caller has been told nothing.
LEMMA NothingTold == Waiting => Told = Copy!NotYet
  BY DEF Waiting, Told, Copy!NotYet

LEMMA QuietSteps ==
  ASSUME UNCHANGED dst, UNCHANGED cur, UNCHANGED Told
  PROVE  [Copy!Next]_seen
  BY DEF seen

LEMMA StoreSteps ==
  ASSUME UNCHANGED cur, UNCHANGED Told, NEW t \in Transfers, dst' = dst \/ Stored(t)
  PROVE  [Copy!Next]_seen
  BY StoredIs DEF Copy!Next, seen

\* A step that ends the call tells of no more chunks than the copy holds.
LEMMA ReturnSteps ==
  ASSUME TypeOK, TypeOK', Waiting, UNCHANGED cur, cpc' = "done",
         dst' = dst \/ Stored(cur), PrefixStored',
         fsize' \in 0 .. FileLen, Holds(cur, fsize)'
  PROVE  [Copy!Next]_seen
  <1>1. PICK t \in Transfers : t = cur /\ t # 0
    BY PortAssumption DEF TypeOK, ClientType, Transfers
  <1>2. Told = Copy!NotYet
    BY NothingTold
  <1>3. /\ Told' = [size |-> fsize', err |-> err'] /\ err' \in {"OK", "ERR"}
    BY DEF Told, TypeOK, ClientType
  <1>4. Told' \in Copy!Answers /\ Told'.size = fsize'
    BY <1>3 DEF Copy!Answers
  <1>5. PICK n \in 0 .. FileLen : dst'[t] = PrefixOf(t, n)
    BY <1>1 DEF PrefixStored, PrefixOf, FileLen
  <1>6. n \in fsize' .. FileLen
    <2>1. CASE fsize' = 0
      BY <2>1, FileLenIs
    <2>2. CASE fsize' # 0
      <3>1. fsize' \in 1 .. fsize' /\ fsize' <= FileLen
        BY <2>2, FileLenIs
      <3>2. \A i \in 1 .. fsize' : i <= FileLen => i \in DOMAIN dst'[t]
        BY <1>1 DEF Holds, FileLen
      <3>3. fsize' \in DOMAIN PrefixOf(t, n)
        BY <1>5, <3>1, <3>2
      <3> QED
        BY <3>1, <3>3, FileLenIs DEF PrefixOf
    <2> QED
      BY <2>1, <2>2
  <1>7. dst'[cur] = Copy!Prefix(cur, n)
    BY <1>1, <1>5, PrefixIs
  <1>8. dst' = dst \/ Copy!Store(cur)
    BY <1>1, StoredIs
  <1>9. \E k \in Told'.size .. FileLen : dst'[cur] = Copy!Prefix(cur, k)
    BY <1>4, <1>6, <1>7
  <1> QED
    BY <1>1, <1>2, <1>4, <1>8, <1>9 DEF Copy!Next, Copy!Return

-----------------------------------------------------------------------------
LEMMA IdleInit == Init => IdleBefore
  BY DEF Init, ClientInit, IdleBefore

LEMMA IdleNext == IdleBefore /\ [Next]_vars => IdleBefore'
  <1> SUFFICES ASSUME IdleBefore, [Next]_vars PROVE IdleBefore'
    OBVIOUS
  <1>1. CASE Start \/ ClientTimer \/ ClientFault
    BY <1>1 DEF Start, ClientStart, ClientTimer, ClientFault, ClientTimeout,
                ClientSelectError, Exit, IdleBefore, Waiting
  <1>2. CASE ClientInput
    BY <1>2
    DEF ClientInput, ClientReceive, PullOpenFails, PullRejects, PullWriteFails,
        PullStores, PushGranted, PushOpenFails, PushAcked, PushRejects,
        PushBlock, Exit, IdleBefore
  <1>3. CASE \/ ServerTimer \/ ServerAccept \/ ServerInput \/ ServerLife
             \/ NetworkLoss \/ UNCHANGED vars
    BY <1>3
    DEF ServerTimer, ServerAccept, ServerInput, ServerLife, NetworkLoss, vars,
        cvars, IdleBefore
  <1> QED
    BY <1>1, <1>2, <1>3 DEF Next

-----------------------------------------------------------------------------
\* A pull accepts the chunk its own file has at the place it has reached.
LEMMA PulledChunk ==
  ASSUME TypeOK, IInv, SoundSetting, NEW m \in net, PullStores(m)
  PROVE  /\ cur \in Transfers /\ fsize \in 0 .. FileLen
         /\ m.chunk = tftp_file_read(cur, fsize)
  <1>1. /\ Waiting /\ m.to = Me /\ m.type = "DATA" /\ op = "pull"
        /\ m.block = Inc(block)
    BY DEF PullStores, tftp_read_data
  <1>2. cur \in Transfers /\ m.chunk = tftp_file_read(cur, m.block - 1)
    BY <1>1, ClientMail
  <1>3. fsize \in 0 .. FileLen /\ fsize = block
    BY <1>1, FileLenIs DEF IInv, CallInv
  <1> QED
    BY <1>1, <1>2, <1>3, Orderly, IncIs

\* The two steps that write a file store the next chunk of one, or nothing.
LEMMA PullStoresNext ==
  ASSUME TypeOK, IInv, SoundSetting, NEW m \in net, PullStores(m)
  PROVE  dst' = dst \/ Stored(cur)
  <1>1. PICK t \in Transfers, p \in 0 .. FileLen :
          t = cur /\ p = fsize /\ m.chunk = tftp_file_read(t, p)
    BY PulledChunk
  <1>2. Holds(t, p)
    BY <1>1 DEF PullStores, IInv, CallInv
  <1>3. dst' = [dst EXCEPT ![t] = tftp_file_write(@, p, tftp_file_read(t, p))]
    BY <1>1 DEF PullStores
  <1> QED
    BY <1>1, <1>2, <1>3, WriteExtends, PrefixedIs DEF IInv, TypeOK, Stored, PrefixOf

LEMMA WriteStoredNext ==
  ASSUME TypeOK, IInv, SoundSetting, NEW m \in net, NEW i \in Slots,
         WriteStored(i, m)
  PROVE  \E t \in Transfers : dst' = dst \/ Stored(t)
  <1>1. PICK x : x = table[i]
    OBVIOUS
  <1>2. /\ x \in Sessions /\ SessionOK(x) /\ x.w_r = "write" /\ m.type = "DATA"
        /\ m.block = Inc(x.block)
        /\ m.chunk = tftp_file_read(x.file, m.block - 1)
    BY <1>1, SessionMail DEF WriteStored, tftp_read_data
  <1>3. PICK t \in Transfers, p \in 0 .. FileLen :
          t = x.file /\ p = x.pos /\ x.block = p /\ Holds(t, p)
    BY <1>2, FileLenIs DEF SessionOK
  <1>4. m.chunk = tftp_file_read(t, p)
    BY <1>2, <1>3, Orderly, IncIs
  <1>5. PICK s :
          /\ s = [[x EXCEPT !.peer = m.from]
                    EXCEPT !.block = m.block, !.pos = @ + Size(m.chunk)]
          /\ dst' = [dst EXCEPT ![s.file] = tftp_file_write(@, x.pos, m.chunk)]
    BY <1>1 DEF WriteStored, Received
  <1>6. s.file = x.file
    BY <1>2, <1>5 DEF Sessions
  <1>7. dst' = [dst EXCEPT ![t] = tftp_file_write(@, p, tftp_file_read(t, p))]
    BY <1>3, <1>4, <1>5, <1>6
  <1> QED
    BY <1>3, <1>7, WriteExtends, PrefixedIs DEF IInv, TypeOK, Stored, PrefixOf

\* An exit of the client that leaves the files and the count alone.
LEMMA ExitSteps ==
  ASSUME TypeOK, TypeOK', IInv, IInv', Waiting, UNCHANGED dst, UNCHANGED cur,
         cpc' = "done", fsize' = fsize
  PROVE  [Copy!Next]_seen
  <1>1. fsize' \in 0 .. FileLen /\ Holds(cur, fsize)'
    BY FileLenIs DEF IInv, CallInv, Holds, FileLen
  <1> QED
    BY <1>1, ReturnSteps DEF IInv

\* An exit of the client with the whole file.
LEMMA CompletionSteps ==
  ASSUME TypeOK, TypeOK', IInv', Waiting, UNCHANGED cur,
         dst' = dst \/ Stored(cur), fsize' \in 0 .. FileLen,
         NEW e, Exit("complete", e)
  PROVE  [Copy!Next]_seen
  <1>1. PICK t \in Transfers : t = cur
    BY PortAssumption DEF TypeOK, ClientType, Transfers
  <1>2. outcome'[t] = "complete" /\ cpc' = "done"
    BY <1>1 DEF Exit, TypeOK, ClientType
  <1>3. dst'[t] = SourceFile(t)
    BY <1>2 DEF IInv, CompleteIsWhole, SourceFile, FileLen
  <1>4. Holds(cur, fsize)'
    BY <1>1, <1>3, FileLenIs DEF Holds, SourceFile, FileLen
  <1> QED
    BY <1>2, <1>4, ReturnSteps DEF IInv

LEMMA PushBlockSteps ==
  ASSUME TypeOK, TypeOK', IInv', Waiting, NEW m, NEW b,
         NEW p \in 0 .. FullBlocks, PushBlock(m, b, p), Holds(cur, p)
  PROVE  [Copy!Next]_seen
  <1>1. UNCHANGED dst /\ UNCHANGED cur /\ fsize' = p
    BY DEF PushBlock
  <1>2. CASE cpc' = "data"
    BY <1>1, <1>2, QuietSteps DEF Waiting, Told
  <1>3. CASE cpc' = "done"
    <2>1. p \in 0 .. FileLen /\ Holds(cur, fsize)'
      BY <1>1, FileLenIs DEF Holds, FileLen
    <2> QED
      BY <1>1, <1>3, <2>1, ReturnSteps DEF IInv
  <1> QED
    BY <1>2, <1>3 DEF PushBlock, Exit

\* The size of a call that is through is the length of the file.
LEMMA LastSize ==
  ASSUME TypeOK, IInv, Waiting
  PROVE  fsize + Size(tftp_file_read(cur, fsize)) \in 0 .. FileLen
  <1>1. fsize \in 0 .. FullBlocks
    BY DEF IInv, CallInv
  <1>2. CASE fsize < FileLen
    BY <1>1, <1>2, FileLenIs DEF Size, tftp_file_read, Empty
  <1>3. CASE ~(fsize < FileLen)
    BY <1>1, <1>3, FileLenIs DEF Size, tftp_file_read, Empty
  <1> QED
    BY <1>2, <1>3

LEMMA ClientInputSteps ==
  ASSUME TypeOK, TypeOK', IInv, IInv', SoundSetting, NEW m \in net,
         ClientReceive(m)
  PROVE  [Copy!Next]_seen
  <1>1. CASE \/ PullOpenFails(m) \/ PullRejects(m) \/ PullWriteFails(m)
             \/ PushOpenFails(m) \/ PushRejects(m)
    BY <1>1, ExitSteps
    DEF PullOpenFails, PullRejects, PullWriteFails, PushOpenFails, PushRejects,
        Exit, Waiting
  <1>2. CASE PullStores(m)
    <2>1. dst' = dst \/ Stored(cur)
      BY <1>2, PullStoresNext
    <2>2. /\ Waiting /\ cur \in Transfers /\ UNCHANGED cur
          /\ m.type = "DATA" /\ m.block = Inc(block) /\ op = "pull"
      BY <1>2, PortAssumption
      DEF PullStores, tftp_read_data, TypeOK, ClientType, Transfers
    <2>3. CASE IsShort(m.chunk)
      <3>1. m.chunk = tftp_file_read(cur, fsize)
        BY <1>2, <2>2, PulledChunk
      <3>2. fsize' \in 0 .. FileLen
        BY <1>2, <2>2, <3>1, LastSize DEF PullStores
      <3> QED
        BY <1>2, <2>1, <2>2, <2>3, <3>2, CompletionSteps DEF PullStores
    <2>4. CASE ~IsShort(m.chunk)
      BY <1>2, <2>1, <2>2, <2>4, StoreSteps DEF PullStores, Waiting, Told
    <2> QED
      BY <2>3, <2>4
  <1>3. CASE PushGranted(m)
    <2>1. PushBlock(m, Inc(block), 0) /\ Waiting /\ 0 \in 0 .. FullBlocks
      BY <1>3, FileLenIs DEF PushGranted, Waiting
    <2>2. Holds(cur, 0)
      BY DEF Holds
    <2> QED
      BY <2>1, <2>2, PushBlockSteps
  <1>4. CASE PushAcked(m)
    <2>1. /\ Waiting /\ op = "push" /\ cpc = "data" /\ m.to = Me
          /\ m.type = "ACK" /\ m.block = block
      BY <1>4 DEF PushAcked, tftp_wait_ack, Waiting
    <2>2. fsize \in 0 .. FullBlocks /\ fsize \in 0 .. FileLen /\ block = fsize + 1
      BY <2>1, FileLenIs DEF IInv, CallInv
    <2>3. cur \in Transfers /\ Holds(cur, fsize + 1)
      BY <2>1, <2>2, ClientMail
    <2>4. CASE IsShort(tftp_file_read(cur, fsize))
      <3>1. /\ UNCHANGED dst /\ UNCHANGED cur /\ Exit("complete", err)
            /\ fsize' = fsize + Size(tftp_file_read(cur, fsize))
        BY <1>4, <2>4 DEF PushAcked
      <3> QED
        BY <2>1, <3>1, LastSize, CompletionSteps
    <2>5. CASE ~IsShort(tftp_file_read(cur, fsize))
      <3>1. fsize < FullBlocks /\ Size(tftp_file_read(cur, fsize)) = 1
        BY <2>2, <2>3, <2>5, ShortIsLast
      <3>2. fsize + 1 \in 0 .. FullBlocks
        BY <2>2, <3>1, FileLenIs
      <3>3. PushBlock(m, Inc(block), fsize + 1)
        BY <1>4, <2>5, <3>1 DEF PushAcked
      <3> QED
        BY <2>1, <2>3, <3>2, <3>3, PushBlockSteps
    <2> QED
      BY <2>4, <2>5
  <1> QED
    BY <1>1, <1>2, <1>3, <1>4 DEF ClientReceive

\* The call of a client that is idle, or has returned.
LEMMA StartSteps ==
  ASSUME TypeOK, IdleBefore, Start
  PROVE  [Copy!Next]_seen
  <1>1. /\ cur + 1 \in Transfers /\ cur' = cur + 1 /\ UNCHANGED dst
        /\ fsize' = 0 /\ cpc \in {"idle", "done"}
    BY PortAssumption DEF Start, ClientStart, TypeOK, ClientType, Transfers, Waiting
  <1>2. (cpc' = "done" /\ err' = "ERR") \/ cpc' = "request"
    BY DEF Start, ClientStart
  <1>3. Told' \in {Copy!NotYet, [size |-> 0, err |-> "ERR"]}
    BY <1>1, <1>2 DEF Told, Copy!NotYet
  <1>4. cur = 0 \/ Told # Copy!NotYet
    <2>1. CASE cpc = "idle"
      BY <2>1 DEF IdleBefore
    <2>2. CASE cpc = "done"
      <3>1. Told.size = fsize /\ Copy!NotYet.size = -1 /\ fsize \in Nat
        BY <2>2 DEF Told, Copy!NotYet, TypeOK, ClientType
      <3> QED
        BY <3>1
    <2> QED
      BY <1>1, <2>1, <2>2
  <1> QED
    BY <1>1, <1>3, <1>4 DEF Copy!Next, Copy!Call

LEMMA Steps ==
  ASSUME TypeOK, TypeOK', IInv, IInv', IdleBefore, SoundSetting, [Next]_vars
  PROVE  [Copy!Next]_seen
  <1>1. CASE Start
    BY <1>1, StartSteps
  <1>2. CASE ClientTimer \/ ClientFault
    <2>1. UNCHANGED dst /\ UNCHANGED cur /\ UNCHANGED fsize /\ Waiting
      BY <1>2 DEF ClientTimer, ClientFault, ClientTimeout, ClientSelectError
    <2>2. CASE UNCHANGED cpc
      BY <2>1, <2>2, QuietSteps DEF Waiting, Told
    <2>3. CASE cpc' = "done"
      BY <2>1, <2>3, ExitSteps
    <2> QED
      BY <1>2, <2>2, <2>3
      DEF ClientTimer, ClientFault, ClientTimeout, ClientSelectError, Exit
  <1>3. CASE ClientInput
    BY <1>3, ClientInputSteps DEF ClientInput
  <1>4. CASE ServerInput
    <2>1. UNCHANGED cur /\ UNCHANGED Told
      BY <1>4 DEF ServerInput, cvars, Told
    <2>2. PICK m \in net, i \in Slots : ServerData(i, m)
      BY <1>4 DEF ServerInput
    <2>3. CASE WriteStored(i, m)
      BY <2>1, <2>3, WriteStoredNext, StoreSteps
    <2>4. CASE ~WriteStored(i, m)
      BY <2>1, <2>2, <2>4, QuietSteps
      DEF ServerData, ReadAcked, ReadBadAck, WriteFails, WriteBadData
    <2> QED
      BY <2>3, <2>4
  <1>5. CASE \/ ServerTimer \/ ServerAccept \/ ServerLife
             \/ NetworkLoss \/ UNCHANGED vars
    BY <1>5, QuietSteps
    DEF ServerTimer, ServerTimeout, ServerAccept, ServerRequest, ServerLife,
        ServerExit, ServerStart, NetworkLoss, Lose, vars, cvars, Told
  <1> QED
    BY <1>1, <1>2, <1>3, <1>4, <1>5 DEF Next

LEMMA Starts == ASSUME SoundSetting, Init PROVE Copy!Init
  <1>1. OldFile = [i \in 1 .. 0 |-> <<0, i>>]
    BY DEF OldFile, OrderlySetting, SoundSetting
  <1>2. \A t \in Transfers : Copy!Prefix(t, 0) = OldFile
    BY <1>1 DEF Copy!Prefix
  <1> QED
    BY <1>2 DEF Init, PortInit, ClientInit, Copy!Init, Copy!NotYet, Told

(***************************************************************************)
(* Client, server and network keep the promise of FileCopy: each file is    *)
(* copied front to back, and the size a call of the client returns, however *)
(* it ends, is covered by the copy, for all lengths, slots, retries, faults *)
(* and losses of a SoundSetting.                                            *)
(***************************************************************************)
THEOREM PromiseKept == SoundSetting => (Spec => KeepsPromise)
  <1> SUFFICES ASSUME SoundSetting PROVE Spec => KeepsPromise
    OBVIOUS
  <1>1. Init => Copy!Init
    BY Starts
  <1>2. TypeOK /\ TypeOK' /\ IInv /\ IInv' /\ IdleBefore /\ [Next]_vars
          => [Copy!Next]_<<dst, cur, Told>>
    BY Steps DEF seen
  <1>3. Spec => []IInv
    BY Invariance
  <1> QED
    BY <1>1, <1>2, <1>3, TypeCorrect, IdleInit, IdleNext, PTL
    DEF Spec, KeepsPromise, Copy!Spec
=============================================================================
