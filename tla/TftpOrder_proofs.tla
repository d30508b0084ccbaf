-------------------------- MODULE TftpOrder_proofs --------------------------
(***************************************************************************)
(* What is left of the copies with any backend and any fault, the           *)
(* repository's own backend included: in an OrderlySetting of Tftp,         *)
(* OrderInv is an invariant, files keep the order of their sources, and     *)
(* pushes are not disturbed by pulls.                                       *)
(***************************************************************************)
EXTENDS TftpSafety_proofs

LEMMA Begun ==
  ASSUME TypeOK
  PROVE  cur \in Nat /\ \A t \in 1 .. cur : t \in Transfers
  BY PortAssumption DEF TypeOK, ClientType, Transfers

\* What is sent for a chunk is that chunk, a later one of the file, or none.
LEMMA FromReaderIs ==
  ASSUME NEW t \in Transfers, NEW b \in Nat, NEW c, FromReader(t, b, c), c # Empty
  PROVE  /\ c = <<t, c[2]>> /\ c[2] \in b .. FileLen
         /\ Positional => c[2] = b
  BY FileLenIs DEF FromReader

(***************************************************************************)
(* A read of the server: of the chunk at its block's place, with a backend  *)
(* that honours pos; otherwise of one it has not read yet.  A failed read   *)
(* is an empty chunk.                                                       *)
(***************************************************************************)
LEMMA SendFileIs ==
  ASSUME NEW x \in Sessions, x.w_r = "read", x.file \in Transfers,
         x.block \in 1 .. FileLen + 1,
         NEW resend \in BOOLEAN, NEW fails \in BOOLEAN, NEW pos \in Nat,
         pos = IF resend THEN x.pos ELSE x.pos + Size(x.last),
         Positional => x.block = pos + 1,
         ~Positional => x.off \in x.block - 1 .. FileLen,
         NEW s, s = SendFile(x, resend, fails)
  PROVE  /\ s.sock = x.sock /\ s.file = x.file /\ s.peer = x.peer
         /\ s.w_r = "read" /\ s.block = x.block
         /\ FromReader(s.file, s.block, s.last)
         /\ IF Positional THEN s.block = s.pos + 1
            ELSE /\ s.off \in s.block - 1 .. FileLen /\ s.last[2] <= s.off
                 /\ x.off <= s.off
                 /\ s.last = Empty \/ s.last[2] > x.off
  <1> DEFINE chunk == ReadChunk(x, pos, fails)
  <1>1. /\ s.sock = x.sock /\ s.file = x.file /\ s.peer = x.peer
        /\ s.w_r = "read" /\ s.block = x.block /\ s.pos = pos /\ s.last = chunk
        /\ s.off = IF Positional THEN x.off ELSE x.off + Size(chunk)
    BY DEF SendFile, Sessions
  <1>2. CASE chunk = Empty
    <2>1. Size(chunk) = 0 /\ Empty[2] = 0
      BY <1>2 DEF Size, Empty
    <2>2. x.off \in Nat
      BY DEF Sessions
    <2>3. CASE Positional
      BY <1>1, <1>2, <2>3 DEF FromReader
    <2>4. CASE ~Positional
      <3>1. s.off = x.off
        BY <1>1, <2>1, <2>2, <2>4
      <3> HIDE DEF chunk
      <3> QED
        BY <1>1, <1>2, <2>1, <2>2, <2>4, <3>1, FileLenIs DEF FromReader
    <2> QED
      BY <2>3, <2>4
  <1>3. CASE chunk # Empty
    <2> DEFINE p == IF Positional THEN pos ELSE x.off
    <2>1. p \in Nat /\ p < FileLen /\ chunk = <<x.file, p + 1>>
      BY <1>3, FileLenIs DEF ReadChunk, tftp_file_read, Sessions
    <2>2. Size(chunk) = 1 /\ chunk[2] = p + 1
      BY <1>3, <2>1 DEF Size
    <2>3. x.block - 1 <= p /\ (Positional => x.block = p + 1)
      BY FileLenIs
    <2>4. p + 1 \in x.block .. FileLen
      BY <2>1, <2>3, FileLenIs
    <2>5. FromReader(s.file, s.block, s.last)
      BY <1>1, <2>1, <2>3, <2>4 DEF FromReader
    <2>6. CASE Positional
      BY <1>1, <2>5, <2>6
    <2>7. CASE ~Positional
      <3>1. p = x.off /\ s.off = p + 1
        BY <1>1, <2>2, <2>7
      <3> HIDE DEF p, chunk
      <3>2. s.last[2] = p + 1 /\ p + 1 \in s.block .. FileLen /\ x.off = p
        BY <1>1, <2>2, <2>4, <3>1
      <3> QED
        BY <1>1, <2>1, <2>5, <2>7, <3>1, <3>2, FileLenIs
    <2> QED
      BY <2>6, <2>7
  <1> QED
    BY <1>2, <1>3

\* The same of the chunk after an acknowledged one.
LEMMA SendNextIs ==
  ASSUME NEW x \in Sessions, x.w_r = "read", x.file \in Transfers,
         x.block \in 1 .. FileLen + 1, NEW fails \in BOOLEAN, NEW pos \in Nat,
         pos = x.pos + Size(x.last),
         Positional => x.block = pos + 1,
         ~Positional => x.off \in x.block - 1 .. FileLen,
         NEW s, s = SendFile(x, FALSE, fails)
  PROVE  /\ s.sock = x.sock /\ s.file = x.file /\ s.peer = x.peer
         /\ s.w_r = "read" /\ s.block = x.block
         /\ FromReader(s.file, s.block, s.last)
         /\ IF Positional THEN s.block = s.pos + 1
            ELSE /\ s.off \in s.block - 1 .. FileLen /\ s.last[2] <= s.off
                 /\ x.off <= s.off
                 /\ s.last = Empty \/ s.last[2] > x.off
  <1>1. FALSE \in BOOLEAN /\ pos = IF FALSE THEN x.pos ELSE x.pos + Size(x.last)
    OBVIOUS
  <1> QED
    BY <1>1, SendFileIs

\* A prefix of the source is in order.
LEMMA PrefixInOrder ==
  ASSUME NEW t, NEW n \in 0 .. FileLen, NEW d, d = [i \in 1 .. n |-> <<t, i>>]
  PROVE  /\ DOMAIN d = 1 .. n
         /\ \A i \in 1 .. n : d[i] \in {t} \X (i .. FileLen)
         /\ \A i, j \in 1 .. n : i < j => d[i][2] < d[j][2]
  <1>1. \A i \in 1 .. n : i \in i .. FileLen
    BY FileLenIs
  <1> QED
    BY <1>1

\* Chunk c, none or one from behind the last one at q, goes to the end of t.
Appends(t, p, q, c) ==
  /\ DOMAIN dst[t] = 1 .. p /\ q = IF p = 0 THEN 0 ELSE dst[t][p][2]
  /\ FromReader(t, p + 1, c) /\ (c = Empty \/ c[2] > q)
  /\ dst' = [dst EXCEPT ![t] = tftp_file_write(@, p, c)]

LEMMA AppendKeeps ==
  ASSUME FilesType, InOrder, NEW t \in Transfers, NEW p \in Nat, NEW q \in Nat, NEW c,
         Appends(t, p, q, c)
  PROVE  /\ InOrder' /\ Grows
         /\ \A u \in Transfers : u # t => dst'[u] = dst[u]
         /\ c = Empty => dst' = dst
         /\ c # Empty => DOMAIN dst'[t] = 1 .. p + 1 /\ dst'[t][p + 1] = c
         /\ \A i \in DOMAIN dst[t] : i \in DOMAIN dst'[t] /\ dst'[t][i] = dst[t][i]
  <1> USE DEF Appends
  <1>1. PICK n \in 0 .. FileLen :
          /\ DOMAIN dst[t] = 1 .. n
          /\ \A i \in 1 .. n : dst[t][i] \in {t} \X (i .. FileLen)
          /\ \A i, j \in 1 .. n : i < j => dst[t][i][2] < dst[t][j][2]
    BY DEF InOrder
  <1>2. n = p
    BY <1>1, FileLenIs
  <1>3. \A u \in Transfers : u # t => dst'[u] = dst[u]
    BY DEF FilesType
  <1>4. CASE c = Empty
    <2>1. dst' = dst
      BY <1>4 DEF FilesType, tftp_file_write
    <2> QED
      BY <1>4, <2>1 DEF InOrder, Grows, Holds, FileLen
  <1>5. CASE c # Empty
    <2>1. c = <<t, c[2]>> /\ c[2] \in p + 1 .. FileLen
      <3>1. FromReader(t, p + 1, c) /\ p + 1 \in Nat
        OBVIOUS
      <3> HIDE DEF Appends
      <3> QED
        BY <1>5, <3>1, FromReaderIs
    <2>2. dst'[t] = [i \in (1 .. p) \cup {p + 1} |-> IF i = p + 1 THEN c ELSE dst[t][i]]
      BY <1>5 DEF FilesType, tftp_file_write
    <2>3. (1 .. p) \cup {p + 1} = 1 .. p + 1
      OBVIOUS
    <2>4. /\ DOMAIN dst'[t] = 1 .. p + 1 /\ dst'[t][p + 1] = c
          /\ \A i \in 1 .. p : dst'[t][i] = dst[t][i]
      <3>1. dst'[t] = [i \in 1 .. p + 1 |-> IF i = p + 1 THEN c ELSE dst[t][i]]
        BY <2>2, <2>3
      <3>2. p + 1 \in 1 .. p + 1 /\ \A i \in 1 .. p : i \in 1 .. p + 1 /\ i # p + 1
        OBVIOUS
      <3> QED
        BY <3>1, <3>2
    <2>5. p + 1 \in 0 .. FileLen
      BY <2>1, FileLenIs
    <2>6. \A i \in 1 .. p + 1 : dst'[t][i] \in {t} \X (i .. FileLen)
      <3>1. c \in {t} \X (p + 1 .. FileLen)
        BY <2>1
      <3>2. \A i \in 1 .. p + 1 : i \in 1 .. p \/ i = p + 1
        OBVIOUS
      <3> QED
        BY <1>1, <1>2, <2>4, <3>1, <3>2
    <2>7. ASSUME NEW i \in 1 .. p + 1, NEW j \in 1 .. p + 1, i < j
          PROVE  dst'[t][i][2] < dst'[t][j][2]
      <3>1. CASE j \in 1 .. p
        <4>1. i \in 1 .. p
          BY <2>7, <3>1
        <4> QED
          BY <1>1, <1>2, <2>4, <2>7, <3>1, <4>1
      <3>2. CASE j = p + 1
        <4>1. i \in 1 .. p /\ p \in 1 .. p /\ q = dst[t][p][2]
          BY <2>7, <3>2
        <4>2. dst[t][i][2] \in Nat /\ dst[t][i][2] <= q
          BY <1>1, <1>2, <4>1, FileLenIs
        <4>3. c[2] \in Nat /\ q < c[2]
          BY <1>5, <2>1
        <4> QED
          BY <2>4, <3>2, <4>1, <4>2, <4>3
      <3> QED
        BY <3>1, <3>2
    <2>8. InOrder'
      <3> SUFFICES ASSUME NEW u \in Transfers
                   PROVE  \E k \in 0 .. FileLen :
                            /\ DOMAIN dst'[u] = 1 .. k
                            /\ \A i \in 1 .. k : dst'[u][i] \in {u} \X (i .. FileLen)
                            /\ \A i, j \in 1 .. k :
                                 i < j => dst'[u][i][2] < dst'[u][j][2]
        BY DEF InOrder, FileLen
      <3>1. CASE u = t
        BY <2>4, <2>5, <2>6, <2>7, <3>1
      <3>2. CASE u # t
        BY <1>3, <3>2 DEF InOrder
      <3> QED
        BY <3>1, <3>2
    <2>9. Grows
      BY <1>3, <2>4 DEF Grows, Holds
    <2> QED
      BY <1>3, <1>5, <2>4, <2>8, <2>9
  <1> QED
    BY <1>3, <1>4, <1>5

-----------------------------------------------------------------------------
\* Transfers that have begun stay so, and what is known of a push stays true.
PushesStay ==
  \A t \in 1 .. cur : t \in 1 .. cur' /\ (Pushed(t) => Pushed(t)')

LEMMA BetweenStays ==
  ASSUME Keeps, NEW m, NEW t \in Transfers, Between(m, t)
  PROVE  Between(m, t)'
  BY DEF Between, Keeps

LEMMA OrderPacketStays ==
  ASSUME TypeOK, Grows, Keeps, PushesStay, NEW m \in Packets, OrderPacket(m)
  PROVE  OrderPacket(m)'
  <1>1. m.block \in Nat
    BY XferAssumption DEF Packets, Blocks
  <1>2. OrderRequest(m) => OrderRequest(m)'
    BY DEF OrderRequest, PushesStay
  <1>3. ASSUME OrderData(m) PROVE OrderData(m)'
    <2>1. PICK t \in 1 .. cur :
            /\ Between(m, t) /\ m.block \in 1 .. FileLen + 1
            /\ m.from = ClientAddr(t) =>
                 Pushed(t) /\ m.chunk = tftp_file_read(t, m.block - 1)
            /\ m.to = ClientAddr(t) => FromReader(t, m.block, m.chunk)
      BY <1>3 DEF OrderData
    <2>2. t \in 1 .. cur' /\ Between(m, t)' /\ (Pushed(t) => Pushed(t)')
      BY <2>1, Begun, BetweenStays DEF PushesStay
    <2> QED
      BY <2>1, <2>2 DEF OrderData
  <1>4. ASSUME OrderAck(m) PROVE OrderAck(m)'
    <2>1. PICK t \in 1 .. cur :
            Between(m, t) /\ (m.to = ClientAddr(t) => Holds(t, m.block))
      BY <1>4 DEF OrderAck
    <2>2. t \in 1 .. cur' /\ Between(m, t)' /\ (Holds(t, m.block) => Holds(t, m.block)')
      BY <1>1, <2>1, Begun, BetweenStays DEF PushesStay, Grows
    <2> QED
      BY <2>1, <2>2 DEF OrderAck
  <1> QED
    BY <1>2, <1>3, <1>4 DEF OrderPacket

LEMMA OrderSessionStays ==
  ASSUME TypeOK, Grows, Keeps, PushesStay, NEW s \in Sessions, OrderSession(s)
  PROVE  OrderSession(s)'
  <1>1. s.sock \in 1 .. MaxSocks /\ s.file \in Transfers
    BY ServerAssumption, Begun DEF OrderSession, Sessions, Belongs
  <1>2. Belongs(s.sock, s.file)' /\ s.file \in 1 .. cur'
    BY <1>1 DEF OrderSession, Keeps, PushesStay
  <1>3. s.w_r = "write" => Holds(s.file, s.pos)' /\ Pushed(s.file)'
    BY <1>1, FileLenIs DEF OrderSession, Grows, PushesStay
  <1> QED
    BY <1>2, <1>3 DEF OrderSession

(***************************************************************************)
(* The frame of every step for datagrams and sessions: it is enough to look *)
(* at those it adds.                                                        *)
(***************************************************************************)
LEMMA OrderKeeps ==
  ASSUME TypeOK, OrderInv, Grows, Keeps, PushesStay,
         \A m \in net' : m \in net \/ OrderPacket(m)',
         \A i \in Slots : \/ table'[i] = table[i] \/ table'[i].sock = 0
                         \/ OrderSession(table[i])',
         \A i, j \in Slots :
           table'[i].sock = table'[j].sock /\ table'[i].sock # 0 => i = j
  PROVE  OrderPackets' /\ OrderSessions'
  <1>1. OrderPackets'
    <2> SUFFICES ASSUME NEW m \in net' PROVE OrderPacket(m)'
      BY DEF OrderPackets
    <2>1. CASE m \in net
      BY <2>1, OrderPacketStays DEF OrderInv, OrderPackets, TypeOK, NetType
    <2> QED
      BY <2>1
  <1>2. ASSUME NEW i \in Slots, table'[i].sock # 0 PROVE OrderSession(table[i])'
    <2>1. CASE table'[i] = table[i]
      <3>1. OrderSession(table[i]) /\ table[i] \in Sessions
        BY <1>2, <2>1 DEF OrderInv, OrderSessions, Occupied, TypeOK, ServerType
      <3>2. \A s \in Sessions : OrderSession(s) => OrderSession(s)'
        BY OrderSessionStays
      <3> QED
        BY <2>1, <3>1, <3>2 DEF OrderSession
    <2> QED
      BY <1>2, <2>1
  <1> QED
    BY <1>1, <1>2 DEF OrderSessions, Occupied, Slots

\* The facts about files that a step which stores nothing leaves alone.
LEMMA OrderFiles ==
  ASSUME OrderInv, UNCHANGED dst
  PROVE  /\ Grows /\ InOrder' /\ (Positional => PrefixStored')
         /\ \A t \in Transfers : Prefixed(t) => Prefixed(t)'
  <1>1. Grows
    BY SameFiles
  <1> QED
    BY <1>1 DEF OrderInv, InOrder, PrefixStored, Prefixed, FileLen

\* A session's socket is not the client's, nor nobody's.
LEMMA AddrsDiffer ==
  /\ \A a, b : SessionAddr(a) # ClientAddr(b) /\ SessionAddr(a) # NoAddr
  /\ \A a, b : SessionAddr(a) = SessionAddr(b) => a = b
  /\ \A a, b : ClientAddr(a) = ClientAddr(b) => a = b
  <1>1. \A a : /\ SessionAddr(a)[1] = "session" /\ SessionAddr(a)[2] = a
              /\ ClientAddr(a)[1] = "client" /\ ClientAddr(a)[2] = a
    BY DEF SessionAddr, ClientAddr
  <1>2. NoAddr[1] = "none"
    BY DEF NoAddr
  <1> QED
    BY <1>1, <1>2

\* The two ends of a datagram of transfer t.
LEMMA Ends ==
  ASSUME NEW m, NEW t, Between(m, t)
  PROVE  /\ \/ m.from = ClientAddr(t) /\ m.to # ClientAddr(t)
            \/ m.to = ClientAddr(t) /\ m.from # ClientAddr(t)
         /\ \A u : m.from = ClientAddr(u) => t = u /\ m.to # NoAddr
         /\ \A u : m.to = ClientAddr(u) => t = u
         /\ \A u : m.from = ClientAddr(u) \/ m.to = ClientAddr(u) =>
              \E n \in 1 .. MaxSocks :
                /\ Belongs(n, u)
                /\ m.from = ClientAddr(u) => m.to = SessionAddr(n)
                /\ m.to = ClientAddr(u) => m.from = SessionAddr(n)
  BY AddrsDiffer DEF Between

-----------------------------------------------------------------------------
\* The client.

\* The sockets of an OrderlySetting.
LEMMA MeIs ==
  ASSUME OrderlySetting
  PROVE  Me = ClientAddr(cur) /\ \A t : Socket(t) = ClientAddr(t)
  BY DEF OrderlySetting, Me, Socket

LEMMA OneSlotEach ==
  ASSUME OrderInv, UNCHANGED svars
  PROVE  \A i, j \in Slots :
           table'[i].sock = table'[j].sock /\ table'[i].sock # 0 => i = j
  BY DEF OrderInv, OrderSessions, Occupied, svars

\* The facts of a client's step within a call that touches no file.
LEMMA OrderClient ==
  ASSUME TypeOK, OrderInv, UNCHANGED dst, UNCHANGED svars, UNCHANGED cur, UNCHANGED op,
         \A m \in net' : m \in net \/ (OrderPacket(m) /\ m.from[1] # "session"),
         \A t \in Transfers : t # cur => outcome'[t] = outcome[t],
         OrderPull', OrderPush', OrderSender', PushedIsWhole'
  PROVE  OrderInv'
  <1>1. Grows /\ InOrder' /\ (Positional => PrefixStored')
    BY OrderFiles
  <1>2. Keeps
    BY SameServer
  <1>3. PushesStay
    BY Begun, OrderFiles DEF PushesStay, Pushed
  <1>4. \A m \in net' : m \in net \/ OrderPacket(m)'
    <2>1. \A t : (Prefixed(t) <=> Prefixed(t)') /\ (Pushed(t) <=> Pushed(t)')
      BY DEF Prefixed, Pushed, FileLen
    <2>2. \A t : \A m : (Between(m, t) <=> Between(m, t)')
      BY DEF Between, Belongs, svars
    <2>3. \A t, b : Holds(t, b) <=> Holds(t, b)'
      BY DEF Holds
    <2> QED
      BY <2>1, <2>2, <2>3 DEF OrderPacket, OrderRequest, OrderData, OrderAck
  <1>5. OrderPackets' /\ OrderSessions'
    <2>1. \A i \in Slots : table'[i] = table[i]
      BY DEF svars
    <2> QED
      BY <1>1, <1>2, <1>3, <1>4, <2>1, OneSlotEach, OrderKeeps
  <1>6. ReadSoFar'
    <2>1. \A n : SessionAddr(n)[1] = "session"
      BY DEF SessionAddr
    <2>2. table' = table
      BY DEF svars
    <2> QED
      BY <2>1, <2>2 DEF OrderInv, ReadSoFar, Occupied
  <1>7. NotBegun'
    BY Begun DEF OrderInv, NotBegun
  <1> QED
    BY <1>1, <1>5, <1>6, <1>7 DEF OrderInv

\* A call that ends without success promises nothing about its file.
LEMMA OrderExit ==
  ASSUME TypeOK, OrderInv, Waiting,
         UNCHANGED dst, UNCHANGED svars, UNCHANGED cur, UNCHANGED op,
         \A m \in net' : m \in net \/ (OrderPacket(m) /\ m.from[1] # "session"),
         NEW o \in Outcomes \ {"complete"}, NEW e, Exit(o, e)
  PROVE  OrderInv'
  <1>1. /\ \A t \in Transfers : t # cur => outcome'[t] = outcome[t]
        /\ cur \in Transfers => outcome'[cur] # "complete"
        /\ cpc' = "done"
    BY DEF Exit, TypeOK, ClientType
  <1>2. cur \in Transfers
    BY PortAssumption DEF TypeOK, ClientType, Transfers
  <1>3. OrderPull' /\ OrderSender'
    BY <1>1 DEF OrderPull, OrderSender, Waiting
  <1>4. OrderPush'
    BY <1>1, <1>2, OrderFiles DEF OrderInv, OrderPush, Waiting
  <1>5. PushedIsWhole'
    BY <1>1, <1>2 DEF PushedIsWhole
  <1> QED
    BY <1>1, <1>3, <1>4, <1>5, OrderClient

LEMMA OrderErrors == \A a, b : OrderPacket(Error(a, b)) /\ Error(a, b).from = a
  BY DEF OrderPacket, Error

LEMMA OrderStart ==
  ASSUME TypeOK, OrderInv, OrderlySetting, NEW o \in Ops, ClientStart(o), UNCHANGED svars
  PROVE  OrderInv'
  <1>1. /\ cur + 1 \in Transfers /\ cur' = cur + 1 /\ op' = o /\ UNCHANGED dst
        /\ fsize' = 0 /\ block' = 0 /\ sender' = NoAddr /\ cpc' \in {"done", "request"}
        /\ outcome' = [outcome EXCEPT ![cur + 1] = outcome'[cur + 1]]
        /\ outcome'[cur + 1] \in {"error", outcome[cur + 1]}
        /\ \A m \in net' : m \in net \/ m = RequestOf(o, cur + 1)
    <2>1. cur + 1 \in Transfers
      BY PortAssumption DEF ClientStart, TypeOK, ClientType, Transfers
    <2>2. /\ cur' = cur + 1 /\ op' = o /\ UNCHANGED dst /\ fsize' = 0
          /\ block' = 0 /\ sender' = NoAddr /\ cpc' \in {"done", "request"}
          /\ \A m \in net' : m \in net \/ m = RequestOf(o, cur + 1)
      BY DEF OrderlySetting, ClientStart, Send
    <2>3. PICK r \in {"error", outcome[cur + 1]} :
            outcome' = [outcome EXCEPT ![cur + 1] = r]
      BY DEF ClientStart
    <2>4. outcome'[cur + 1] = r
      BY <2>1, <2>3 DEF TypeOK, ClientType
    <2> QED
      BY <2>1, <2>2, <2>3, <2>4
  <1>t. PICK t : t = cur + 1
    OBVIOUS
  <1>2. /\ dst[t] = OldFile /\ outcome[t] = "none"
        /\ OldFile = [i \in 1 .. 0 |-> <<0, i>>]
    BY <1>t, <1>1, Begun DEF OrderInv, NotBegun, OldFile, OrderlySetting
  <1>3. Prefixed(t)' /\ DOMAIN dst'[t] = 1 .. 0
    <2>1. dst'[t] = [i \in 1 .. 0 |-> <<t, i>>]
      <3>1. [i \in 1 .. 0 |-> <<0, i>>] = [i \in 1 .. 0 |-> <<t, i>>]
        OBVIOUS
      <3> QED
        BY <1>1, <1>2, <3>1
    <2>2. 0 \in 0 .. FileLen /\ FileLen' = FileLen
      BY FileLenIs DEF FileLen
    <2> QED
      BY <2>1, <2>2 DEF Prefixed
  <1>4. Grows /\ InOrder' /\ (Positional => PrefixStored')
    BY <1>1, OrderFiles
  <1>5. Keeps
    BY SameServer
  <1>6. PushesStay
    BY <1>1, Begun, OrderFiles DEF PushesStay, Pushed
  <1>7. RequestOf(o, t).type = (IF o = "pull" THEN "RRQ" ELSE "WRQ")
        /\ RequestOf(o, t).from = ClientAddr(t) /\ RequestOf(o, t).chunk[1] = t
    BY MeIs DEF RequestOf, Request
  <1>8. OrderPacket(RequestOf(o, t))'
    <2>1. t \in 1 .. cur'
      BY <1>t, <1>1, Begun
    <2>2. o \in {"pull", "push"}
      BY ClientAssumption
    <2>3. o = "push" => Pushed(t)'
      BY <1>1, <1>3 DEF Pushed
    <2> QED
      BY <1>7, <2>1, <2>2, <2>3 DEF OrderPacket, OrderRequest
  <1>9. OrderPackets' /\ OrderSessions'
    <2>1. \A i \in Slots : table'[i] = table[i]
      BY DEF svars
    <2> QED
      BY <1>t, <1>1, <1>4, <1>5, <1>6, <1>8, <2>1, OneSlotEach, OrderKeeps
  <1>10. ReadSoFar'
    <2>1. table' = table /\ RequestOf(o, t).type # "DATA"
      BY <1>7 DEF svars
    <2> QED
      BY <1>t, <1>1, <2>1 DEF OrderInv, ReadSoFar, Occupied
  <1>11. OrderPull'
    <2> SUFFICES ASSUME o = "pull", cpc' = "request" PROVE OrderPull'
      BY <1>1 DEF OrderPull, Waiting
    <2>1. Me' = ClientAddr(t)
      BY <1>t, <1>1 DEF OrderlySetting, Me, Socket
    <2>2. ASSUME NEW m \in net, m.type \in {"ACK", "DATA"}
          PROVE  m.from # ClientAddr(t) /\ m.to # ClientAddr(t)
      <3>1. PICK u \in 1 .. cur : Between(m, u)
        BY <2>2 DEF OrderInv, OrderPackets, OrderPacket, OrderData, OrderAck
      <3>2. u # t
        BY <1>t, Begun
      <3> QED
        BY <3>1, <3>2, Ends
    <2>3. \A m \in net' : PullMail(m)'
      BY <1>t, <1>1, <1>7, <2>1, <2>2 DEF PullMail
    <2>4. \A i \in Occupied' : PullSession(table[i])'
      <3>1. \A i \in Occupied : table[i].file # t
        BY <1>t, Begun DEF OrderInv, OrderSessions, OrderSession
      <3>2. table' = table /\ cur' = t
        BY <1>t, <1>1 DEF svars
      <3> QED
        BY <3>1, <3>2 DEF PullSession, Occupied
    <2>5. Reached' = 0 /\ 0 \in 0 .. FullBlocks /\ DOMAIN dst'[cur'] = 1 .. 0
      BY <1>t, <1>1, <1>3, FileLenIs DEF Reached
    <2> QED
      BY <1>1, <2>3, <2>4, <2>5, FileLenIs DEF OrderPull
  <1>12. OrderPush'
    BY <1>t, <1>1, <1>3, FileLenIs DEF OrderPush, Waiting
  <1>13. OrderSender'
    BY <1>1 DEF OrderSender
  <1>14. NotBegun'
    <2>1. ASSUME NEW u \in Transfers, u > cur' PROVE u > cur /\ u # cur + 1
      BY <1>1, <2>1, Begun DEF Transfers
    <2> QED
      BY <1>1, <2>1 DEF OrderInv, NotBegun, OldFile, TypeOK, ClientType
  <1>15. PushedIsWhole'
    BY <1>t, <1>1, <1>2 DEF PushedIsWhole
  <1> QED
    BY <1>4, <1>9, <1>10, <1>11, <1>12, <1>13, <1>14, <1>15 DEF OrderInv

\* The client's number is a transfer's while it waits, and it is a push or a pull.
LEMMA CallIs ==
  ASSUME TypeOK, Waiting
  PROVE  cur \in 1 .. cur /\ cur \in Transfers /\ cur # 0 /\ op \in {"pull", "push"}
  BY PortAssumption DEF TypeOK, ClientType, Transfers

\* A block of the client is a good packet.
LEMMA ClientBlock ==
  ASSUME TypeOK, OrderInv, OrderlySetting, Waiting, op = "push",
         NEW n \in 1 .. MaxSocks, Belongs(n, cur), NEW p \in 0 .. FullBlocks
  PROVE  OrderPacket(Data(p + 1, tftp_file_read(cur, p), Me, SessionAddr(n)))
  <1>1. Pushed(cur)
    BY CallIs DEF OrderInv, OrderPush, Pushed
  <1>2. PICK m : m = Data(p + 1, tftp_file_read(cur, p), ClientAddr(cur), SessionAddr(n))
    OBVIOUS
  <1>3. /\ m.type = "DATA" /\ m.from = ClientAddr(cur) /\ m.to = SessionAddr(n)
        /\ m.block = p + 1 /\ m.chunk = tftp_file_read(cur, p)
    BY <1>2 DEF Data
  <1>4. p + 1 \in 1 .. FileLen + 1 /\ (p + 1) - 1 = p
    BY FileLenIs
  <1>5. Between(m, cur) /\ m.to # ClientAddr(cur)
    BY <1>3, AddrsDiffer DEF Between
  <1>6. OrderData(m)
    BY <1>1, <1>3, <1>4, <1>5, CallIs DEF OrderData
  <1> QED
    BY <1>2, <1>3, <1>6, MeIs DEF OrderPacket

\* What a waiting client repeats.
LEMMA UnansweredOrderly ==
  ASSUME TypeOK, OrderInv, OrderlySetting, Waiting
  PROVE  /\ OrderPacket(Unanswered) /\ Unanswered.from[1] = "client"
         /\ op = "pull" => PullMail(Unanswered)
  <1>1. Me = ClientAddr(cur) /\ Me[1] = "client" /\ Socket(cur) = Me
    BY MeIs DEF ClientAddr
  <1>2. CASE cpc = "request"
    <2>1. Unanswered = RequestOf(op, cur)
      BY <1>2 DEF Unanswered
    <2>2. /\ Unanswered.type = (IF op = "pull" THEN "RRQ" ELSE "WRQ")
          /\ Unanswered.from = ClientAddr(cur) /\ Unanswered.chunk[1] = cur
      BY <1>1, <2>1 DEF RequestOf, Request
    <2>3. op = "push" => Pushed(cur)
      BY CallIs DEF OrderInv, OrderPush, Pushed
    <2> QED
      BY <1>1, <2>2, <2>3, CallIs DEF OrderPacket, OrderRequest, PullMail
  <1>3. CASE cpc = "data"
    <2>1. PICK n \in 1 .. MaxSocks : sender = SessionAddr(n) /\ Belongs(n, cur)
      BY <1>3 DEF OrderInv, OrderSender
    <2>2. CASE op = "pull"
      <3>1. PICK m : m = Unanswered
        OBVIOUS
      <3>2. /\ m.type = "ACK" /\ m.from = ClientAddr(cur) /\ m.to = SessionAddr(n)
            /\ m.block = block
        BY <1>1, <1>3, <2>1, <2>2, <3>1 DEF Unanswered, Ack
      <3>3. OrderAck(m)
        BY <2>1, <3>2, AddrsDiffer, CallIs DEF OrderAck, Between
      <3>4. PullMail(m)
        BY <2>1, <2>2, <3>2, FileLenIs DEF PullMail, OrderInv, OrderPull
      <3> QED
        BY <1>1, <3>1, <3>2, <3>3, <3>4 DEF OrderPacket
    <2>3. CASE op = "push"
      <3>1. fsize \in 0 .. FullBlocks /\ block = fsize + 1
        BY <1>3, <2>3, CallIs DEF OrderInv, OrderPush
      <3>2. Unanswered = Data(fsize + 1, tftp_file_read(cur, fsize), Me, SessionAddr(n))
        BY <1>3, <2>1, <2>3, <3>1 DEF Unanswered
      <3> QED
        BY <1>1, <2>1, <2>3, <3>1, <3>2, ClientBlock DEF Data
    <2> QED
      BY <2>2, <2>3, CallIs
  <1> QED
    BY <1>2, <1>3 DEF Waiting

LEMMA OrderTimeout ==
  ASSUME TypeOK, OrderInv, OrderlySetting, ClientTimeout, UNCHANGED svars
  PROVE  OrderInv'
  <1>1. Waiting /\ UNCHANGED <<dst, cur, op, block, sender, fsize>>
    BY DEF ClientTimeout
  <1>2. /\ OrderPacket(Unanswered) /\ Unanswered.from[1] = "client"
        /\ OrderPacket(Error(Me, sender)) /\ Error(Me, sender).from[1] = "client"
    BY <1>1, UnansweredOrderly, OrderErrors, MeIs DEF ClientAddr
  <1>3. \A m \in net' : m \in net \/ m = Unanswered \/ m = Error(Me, sender)
    BY DEF ClientTimeout, Send
  <1>4. \A m \in net' : m \in net \/ (OrderPacket(m) /\ m.from[1] # "session")
    BY <1>2, <1>3
  <1>5. CASE UNCHANGED <<cpc, outcome, err>>
    <2>1. OrderPull'
      <3> SUFFICES ASSUME op = "pull" PROVE OrderPull'
        BY <1>1 DEF OrderPull
      <3>1. /\ PullMail(Unanswered) /\ PullMail(Error(Me, sender))
            /\ \A m \in net : PullMail(m)
        BY <1>1, UnansweredOrderly DEF OrderInv, OrderPull, PullMail, Error
      <3>2. \A m \in net' : PullMail(m)'
        BY <1>1, <1>3, <3>1 DEF PullMail, Me, Reached
      <3>3. \A i \in Occupied' : PullSession(table[i])'
        BY <1>1 DEF OrderInv, OrderPull, PullSession, Reached, Occupied, svars
      <3> QED
        BY <1>1, <1>5, <3>2, <3>3 DEF OrderInv, OrderPull, Reached, Waiting
    <2>2. OrderPush'
      BY <1>1, <1>5 DEF OrderInv, OrderPush, Prefixed, FileLen, Waiting
    <2>3. OrderSender'
      BY <1>1, <1>5 DEF OrderInv, OrderSender, Belongs, svars
    <2>4. PushedIsWhole'
      BY <1>1, <1>5 DEF OrderInv, PushedIsWhole, SourceFile
    <2> QED
      BY <1>1, <1>4, <1>5, <2>1, <2>2, <2>3, <2>4, OrderClient
  <1>6. CASE Exit("error", "ERR") \/ Exit("timeout", err)
    BY <1>1, <1>4, <1>6, OrderExit DEF Outcomes
  <1> QED
    BY <1>5, <1>6 DEF ClientTimeout

LEMMA OrderSelectError ==
  ASSUME TypeOK, OrderInv, ClientSelectError, UNCHANGED svars
  PROVE  OrderInv'
  BY OrderExit DEF ClientSelectError, Outcomes

LEMMA OrderFails ==
  ASSUME TypeOK, OrderInv, OrderlySetting, UNCHANGED svars, NEW m \in net,
         \/ PullOpenFails(m) \/ PullRejects(m) \/ PullWriteFails(m)
         \/ PushOpenFails(m) \/ PushRejects(m)
  PROVE  OrderInv'
  <1> USE DEF PullOpenFails, PullRejects, PullWriteFails, PushOpenFails, PushRejects
  <1>1. \A a : OrderPacket(Error(Me, a)) /\ Error(Me, a).from[1] = "client"
    BY OrderErrors, MeIs DEF ClientAddr
  <1>2. \A e \in net' : e \in net \/ (OrderPacket(e) /\ e.from[1] # "session")
    BY <1>1 DEF Receive, Send
  <1>3. Waiting /\ UNCHANGED <<dst, cur, op>> /\ Exit("error", "ERR")
    BY DEF Waiting
  <1> QED
    BY <1>2, <1>3, OrderExit DEF Outcomes

(***************************************************************************)
(* A datagram the waiting client receives is of its transfer.  In a pull it *)
(* carries a chunk behind all that are stored, or none.                     *)
(***************************************************************************)
LEMMA OrderClientMail ==
  ASSUME TypeOK, OrderInv, OrderlySetting, NEW m \in net, Waiting, m.to = Me,
         m.type \in {"DATA", "ACK"}
  PROVE  /\ \E n \in 1 .. MaxSocks : m.from = SessionAddr(n) /\ Belongs(n, cur)
         /\ m.type = "ACK" => Holds(cur, m.block)
         /\ m.type = "DATA" => FromReader(cur, m.block, m.chunk)
         /\ m.type = "DATA" /\ op = "pull" /\ m.block = fsize + 1 =>
              /\ m.chunk = Empty \/ m.chunk[2] > Reached
              /\ cpc = "data" => m.from = sender
  <1>1. PICK t \in 1 .. cur :
          /\ Between(m, t)
          /\ m.type = "ACK" => (m.to = ClientAddr(t) => Holds(t, m.block))
          /\ m.type = "DATA" =>
               (m.to = ClientAddr(t) => FromReader(t, m.block, m.chunk))
    BY DEF OrderInv, OrderPackets, OrderPacket, OrderData, OrderAck
  <1>2. m.to = ClientAddr(t) /\ t = cur
    BY <1>1, MeIs, Ends
  <1>3. \E n \in 1 .. MaxSocks : m.from = SessionAddr(n) /\ Belongs(n, cur)
    BY <1>1, <1>2, Ends
  <1>4. ASSUME m.type = "DATA", op = "pull", m.block = fsize + 1
        PROVE  /\ m.chunk = Empty \/ m.chunk[2] > Reached
               /\ cpc = "data" => m.from = sender
    <2>1. /\ PullMail(m) /\ fsize \in Nat
          /\ IF cpc = "request" THEN fsize = 0 /\ sender = NoAddr ELSE fsize > 0
      BY <1>4, FileLenIs DEF OrderInv, OrderPull
    <2>2. CASE m.from = sender
      BY <1>4, <2>1, <2>2 DEF PullMail
    <2>3. CASE m.from # sender
      <3>1. fsize = 0 /\ m.block = 1
        BY <1>4, <2>1, <2>3 DEF PullMail
      <3>2. m.chunk # Empty => m.chunk[2] \in 1 .. FileLen
        BY <1>1, <1>2, <1>4, <3>1, FromReaderIs, Begun
      <3> QED
        BY <2>1, <3>1, <3>2, FileLenIs DEF Reached, Waiting
    <2> QED
      BY <2>2, <2>3
  <1> QED
    BY <1>1, <1>2, <1>3, <1>4

LEMMA OrderPullStores ==
  ASSUME TypeOK, OrderInv, OrderlySetting, UNCHANGED svars, NEW m \in net,
         PullStores(m)
  PROVE  OrderInv'
  <1>1. /\ Waiting /\ m.to = Me /\ m.type = "DATA" /\ op = "pull"
        /\ m.block = Inc(block)
    BY DEF PullStores, tftp_read_data
  <1>2. PICK t \in Transfers : t = cur /\ t \in 1 .. cur /\ Me = ClientAddr(t)
    BY <1>1, CallIs, MeIs
  <1>3. PICK p \in 0 .. FullBlocks :
          p = fsize /\ p = block /\ DOMAIN dst[t] = 1 .. p
    BY <1>1, <1>2 DEF OrderInv, OrderPull
  <1>4. m.block = p + 1 /\ p \in Nat /\ p \in 0 .. FileLen
    BY <1>1, <1>3, IncIs, FileLenIs
  <1>5. PICK q \in Nat : q = Reached
    <2>1. CASE p = 0
      BY <1>3, <2>1 DEF Reached
    <2>2. CASE p # 0
      <3>1. p \in DOMAIN dst[t] /\ Reached = dst[t][p][2]
        BY <1>2, <1>3, <2>2, FileLenIs DEF Reached
      <3> QED
        BY <1>2, <3>1 DEF TypeOK, FilesType, Chunks
    <2> QED
      BY <2>1, <2>2
  <1>6. PICK c : c = m.chunk
    OBVIOUS
  <1>7. PICK n \in 1 .. MaxSocks : m.from = SessionAddr(n) /\ Belongs(n, t)
    BY <1>1, <1>2, OrderClientMail
  <1>8. /\ FromReader(t, p + 1, c) /\ (c = Empty \/ c[2] > q)
        /\ cpc = "data" => SessionAddr(n) = sender
    BY <1>1, <1>2, <1>3, <1>4, <1>5, <1>6, <1>7, OrderClientMail
  <1>9. dst' = [dst EXCEPT ![t] = tftp_file_write(@, p, c)]
    BY <1>2, <1>3, <1>6 DEF PullStores
  <1>10. q = IF p = 0 THEN 0 ELSE dst[t][p][2]
    BY <1>2, <1>3, <1>5 DEF Reached
  <1>11. /\ InOrder' /\ Grows
         /\ \A u \in Transfers : u # t => dst'[u] = dst[u]
         /\ c = Empty => dst' = dst
         /\ c # Empty => DOMAIN dst'[t] = 1 .. p + 1 /\ dst'[t][p + 1] = c
    <2>1. FilesType /\ InOrder
      BY DEF TypeOK, OrderInv
    <2>2. Appends(t, p, q, c) /\ p \in Nat
      BY <1>3, <1>4, <1>8, <1>9, <1>10 DEF Appends
    <2> QED
      BY <2>1, <2>2, AppendKeeps
  <1>12. Keeps
    BY SameServer
  <1>13. UNCHANGED <<cur, op>>
    BY DEF PullStores
  <1>14. PushesStay
    <2> SUFFICES ASSUME NEW u \in 1 .. cur, Pushed(u) PROVE Pushed(u)'
      BY <1>13 DEF PushesStay
    <2>1. u # t /\ u \in Transfers
      BY <1>1, <1>2, Begun DEF Pushed
    <2> QED
      BY <1>11, <1>13, <2>1 DEF Pushed, Prefixed, FileLen
  <1>15. PICK ack : ack = Ack(p + 1, ClientAddr(t), SessionAddr(n))
    OBVIOUS
  <1>16. /\ ack.type = "ACK" /\ ack.from = ClientAddr(t) /\ ack.to = SessionAddr(n)
         /\ ack.block = p + 1
         /\ \A e \in net' : e \in net \/ e = ack
    BY <1>2, <1>4, <1>7, <1>15 DEF PullStores, Receive, Ack
  <1>17. OrderPacket(ack)'
    <2>1. Belongs(n, t)'
      BY <1>7, <1>12 DEF Keeps
    <2>2. Between(ack, t)'
      BY <1>16, <2>1 DEF Between
    <2> QED
      BY <1>2, <1>13, <1>16, <2>2, AddrsDiffer DEF OrderPacket, OrderAck
  <1>18. OrderPackets' /\ OrderSessions'
    <2>1. \A i \in Slots : table'[i] = table[i]
      BY DEF svars
    <2> QED
      BY <1>11, <1>12, <1>14, <1>16, <1>17, <2>1, OneSlotEach, OrderKeeps
  <1>19. ReadSoFar'
    <2>1. table' = table
      BY DEF svars
    <2> QED
      BY <1>16, <2>1 DEF OrderInv, ReadSoFar, Occupied
  <1>20. NotBegun'
    <2> SUFFICES ASSUME NEW u \in Transfers, u > cur
                 PROVE  dst'[u] = OldFile /\ outcome'[u] = "none"
      BY <1>13 DEF NotBegun, OldFile
    <2>1. u # t /\ dst[u] = OldFile /\ outcome[u] = "none"
      BY <1>2, Begun DEF OrderInv, NotBegun
    <2> QED
      BY <1>2, <1>11, <2>1 DEF PullStores, Exit, TypeOK, ClientType
  <1>21. OrderPush' /\ PushedIsWhole'
    BY <1>1, <1>13 DEF OrderPush, PushedIsWhole
  <1>22. OrderPull' /\ OrderSender'
    <2>1. CASE IsShort(m.chunk)
      BY <2>1 DEF PullStores, Exit, OrderPull, OrderSender, Waiting
    <2>2. CASE ~IsShort(m.chunk)
      <3>1. c # Empty /\ c[2] <= FullBlocks /\ c[2] \in p + 1 .. FileLen
        <4>1. c # Empty /\ ~(c[2] > FullBlocks)
          BY <1>6, <2>2 DEF IsShort
        <4> QED
          BY <1>4, <1>8, <4>1, FromReaderIs, FileLenIs
      <3>2. /\ fsize' = p + 1 /\ block' = p + 1 /\ sender' = SessionAddr(n)
            /\ cpc' = "data"
        BY <1>3, <1>4, <1>6, <1>7, <2>2, <3>1 DEF PullStores, Size
      <3>3. Reached' = c[2] /\ Me' = ClientAddr(t)
        BY <1>2, <1>4, <1>11, <1>13, <3>1, <3>2 DEF Reached, Me
      <3>4. \A e \in net' : PullMail(e)'
        <4> SUFFICES ASSUME NEW e \in net PROVE PullMail(e)'
          BY <1>4, <1>16, <3>2, <3>3 DEF PullMail
        <4>1. PullMail(e)
          BY <1>1 DEF OrderInv, OrderPull
        <4>2. ASSUME e.type = "ACK", e.from = Me
              PROVE  e.to = SessionAddr(n) /\ e.block <= p + 1
          <5>1. e.to = sender /\ e.block <= p /\ e.block \in Nat
            BY <1>3, <4>1, <4>2, XferAssumption
            DEF PullMail, TypeOK, NetType, Packets, Blocks
          <5>2. cpc # "request"
            <6>1. PICK u \in 1 .. cur : Between(e, u)
              BY <4>2 DEF OrderInv, OrderPackets, OrderPacket, OrderAck
            <6>2. e.to # NoAddr
              BY <1>2, <4>2, <6>1, Ends
            <6> QED
              BY <1>1, <5>1, <6>2 DEF OrderInv, OrderPull
          <5> QED
            BY <1>1, <1>4, <1>8, <5>1, <5>2 DEF Waiting
        <4>3. ASSUME e.type = "DATA", e.to = Me
              PROVE  /\ e.block <= p + 1
                     /\ e.from # SessionAddr(n) => e.block = 1
          <5>1. /\ e.from = sender => e.block <= p + 1
                /\ e.from # sender => e.block = 1
            BY <1>3, <4>1, <4>3 DEF PullMail
          <5>2. cpc = "request" => e.from # sender
            <6>1. \E k \in 1 .. MaxSocks : e.from = SessionAddr(k)
              BY <1>1, <4>3, OrderClientMail
            <6> QED
              BY <1>1, <6>1, AddrsDiffer DEF OrderInv, OrderPull
          <5> QED
            BY <1>1, <1>4, <1>8, <5>1, <5>2 DEF Waiting
        <4>4. e.block \in Nat
          BY XferAssumption DEF TypeOK, NetType, Packets, Blocks
        <4> QED
          BY <1>2, <1>4, <3>2, <3>3, <4>2, <4>3, <4>4 DEF PullMail
      <3>5. \A i \in Occupied' : PullSession(table[i])'
        <4>0. table' = table /\ Occupied' = Occupied
          BY DEF svars, Occupied
        <4> SUFFICES ASSUME NEW i \in Occupied, table[i].file = t
                     PROVE  IF SessionAddr(table[i].sock) = SessionAddr(n)
                            THEN /\ table[i].block <= p + 2
                                 /\ ~Positional => c[2] <= table[i].off
                            ELSE table[i].block = 1
          BY <1>2, <1>4, <1>13, <3>2, <3>3, <4>0 DEF PullSession
        <4>1. PullSession(table[i])
          BY <1>1 DEF OrderInv, OrderPull
        <4>2. /\ SessionAddr(table[i].sock) = sender => table[i].block <= p + 1
              /\ SessionAddr(table[i].sock) # sender => table[i].block = 1
          BY <1>2, <1>3, <4>1 DEF PullSession
        <4>3. cpc = "request" => SessionAddr(table[i].sock) # sender
          BY <1>1, AddrsDiffer DEF OrderInv, OrderPull
        <4>4. cpc = "data" => SessionAddr(n) = sender
          BY <1>8
        <4>5. SessionAddr(table[i].sock) = SessionAddr(n) /\ ~Positional =>
                c[2] <= table[i].off
          BY <1>1, <1>6, <1>7 DEF OrderInv, ReadSoFar
        <4>6. table[i].block \in Nat
          BY XferAssumption DEF TypeOK, ServerType, Occupied, Sessions, Blocks
        <4> QED
          BY <1>1, <1>4, <4>2, <4>3, <4>4, <4>5, <4>6 DEF Waiting
      <3>6. p + 1 \in 0 .. FullBlocks
        BY <1>4, <3>1, FileLenIs
      <3>7. DOMAIN dst'[cur'] = 1 .. p + 1
        BY <1>2, <1>11, <1>13, <3>1
      <3>8. OrderPull'
        BY <1>4, <3>1, <3>2, <3>3, <3>4, <3>5, <3>6, <3>7, FileLenIs DEF OrderPull
      <3>9. OrderSender'
        BY <1>2, <1>7, <1>12, <1>13, <3>2 DEF OrderSender, Keeps
      <3> QED
        BY <3>8, <3>9
    <2> QED
      BY <2>1, <2>2
  <1>23. Positional => PrefixStored'
    <2> SUFFICES ASSUME Positional, c # Empty PROVE PrefixStored'
      BY <1>11 DEF OrderInv, PrefixStored, FileLen
    <2>1. c = <<t, p + 1>> /\ p + 1 \in 0 .. FileLen
      BY <1>4, <1>8, FromReaderIs, FileLenIs
    <2>2. c = tftp_file_read(t, p)
      BY <1>4, <2>1, FileLenIs DEF tftp_file_read
    <2>3. Holds(t, p)
      BY <1>3 DEF Holds
    <2>4. PrefixStored /\ Prefixed(t)
      BY PrefixedIs DEF OrderInv
    <2>5. Prefixed(t)'
      BY <1>4, <1>9, <2>2, <2>3, <2>4, WriteExtends DEF TypeOK
    <2> QED
      BY <1>11, <2>4, <2>5, PrefixStays
  <1> QED
    BY <1>11, <1>18, <1>19, <1>20, <1>21, <1>22, <1>23 DEF OrderInv

\* The top of the block loop of tftp_client_push.
LEMMA OrderPushBlock ==
  ASSUME TypeOK, OrderInv, OrderlySetting, UNCHANGED svars, Waiting, op = "push",
         NEW m \in net, m.to = Me, m.type = "ACK",
         NEW p \in 0 .. FullBlocks, PushBlock(m, p + 1, p)
  PROVE  OrderInv'
  <1>1. PICK n \in 1 .. MaxSocks : m.from = SessionAddr(n) /\ Belongs(n, cur)
    BY OrderClientMail
  <1>2. PICK d : d = Data(p + 1, tftp_file_read(cur, p), Me, SessionAddr(n))
    OBVIOUS
  <1>3. OrderPacket(d) /\ d.from[1] # "session"
    BY <1>1, <1>2, ClientBlock, MeIs DEF Data, ClientAddr
  <1>4. \A a : OrderPacket(Error(Me, a)) /\ Error(Me, a).from[1] # "session"
    BY OrderErrors, MeIs DEF ClientAddr
  <1>5. \A e \in net' : e \in net \/ (OrderPacket(e) /\ e.from[1] # "session")
    BY <1>1, <1>2, <1>3, <1>4 DEF PushBlock, Receive
  <1>6. UNCHANGED <<dst, cur, op>> /\ sender' = SessionAddr(n) /\ block' = p + 1
        /\ fsize' = p
    BY <1>1 DEF PushBlock
  <1>7. CASE cpc' = "data" /\ UNCHANGED <<outcome, err>>
    <2>1. OrderPull' /\ OrderPush'
      BY <1>6, <1>7 DEF OrderInv, OrderPull, OrderPush, Prefixed, FileLen
    <2>2. OrderSender' /\ PushedIsWhole'
      BY <1>1, <1>6, <1>7
      DEF OrderInv, OrderSender, PushedIsWhole, SourceFile, Belongs, svars
    <2> QED
      BY <1>5, <1>6, <1>7, <2>1, <2>2, OrderClient
  <1>8. CASE Exit("error", "ERR")
    BY <1>5, <1>6, <1>8, OrderExit DEF Outcomes
  <1> QED
    BY <1>7, <1>8 DEF PushBlock

LEMMA OrderPushGranted ==
  ASSUME TypeOK, OrderInv, OrderlySetting, UNCHANGED svars, NEW m \in net,
         PushGranted(m)
  PROVE  OrderInv'
  <1>1. Waiting /\ op = "push" /\ cpc = "request" /\ m.to = Me /\ m.type = "ACK"
    BY DEF PushGranted, tftp_wait_ack, Waiting
  <1>2. block = 0
    BY <1>1, CallIs DEF OrderInv, OrderPush
  <1>3. PushBlock(m, 0 + 1, 0) /\ 0 \in 0 .. FullBlocks
    BY <1>2, IncIs, FileLenIs DEF PushGranted
  <1> QED
    BY <1>1, <1>3, OrderPushBlock

LEMMA OrderPushAcked ==
  ASSUME TypeOK, OrderInv, OrderlySetting, UNCHANGED svars, NEW m \in net,
         PushAcked(m)
  PROVE  OrderInv'
  <1> DEFINE chunk == tftp_file_read(cur, fsize)
  <1>1. /\ Waiting /\ op = "push" /\ cpc = "data" /\ m.to = Me
        /\ m.type = "ACK" /\ m.block = block
    BY DEF PushAcked, tftp_wait_ack, Waiting
  <1>2. cur \in Transfers /\ Prefixed(cur)
    BY <1>1, CallIs DEF OrderInv, OrderPush
  <1>3. /\ fsize \in 0 .. FullBlocks /\ fsize \in 0 .. FileLen
        /\ block = fsize + 1
    BY <1>1, CallIs, FileLenIs DEF OrderInv, OrderPush
  <1>4. CASE IsShort(chunk)
    <2>1. FileLen <= fsize + 1 /\ fsize + 1 \in Nat /\ Holds(cur, fsize + 1)
      BY <1>1, <1>2, <1>3, <1>4, ShortIsLast, OrderClientMail
    <2>2. dst[cur] = SourceFile(cur)
      BY <1>2, <2>1, HoldsAll
    <2>3. /\ UNCHANGED <<dst, cur, op>> /\ Exit("complete", err)
          /\ \A e \in net' : e \in net
      BY <1>4 DEF PushAcked, Receive
    <2>4. OrderPull' /\ OrderPush' /\ OrderSender'
      BY <1>2, <2>3
      DEF Exit, OrderPull, OrderPush, OrderSender, Waiting, Prefixed, FileLen
    <2>5. PushedIsWhole'
      BY <2>2, <2>3 DEF PushedIsWhole, SourceFile
    <2>6. \A t \in Transfers : t # cur => outcome'[t] = outcome[t]
      BY <2>3 DEF Exit, TypeOK, ClientType
    <2> QED
      BY <2>3, <2>4, <2>5, <2>6, OrderClient
  <1>5. CASE ~IsShort(chunk)
    <2>1. fsize < FullBlocks /\ Size(chunk) = 1
      BY <1>2, <1>3, <1>5, ShortIsLast
    <2>2. Inc(block) = (fsize + 1) + 1
      BY <1>3, <2>1, IncIs, FileLenIs
    <2>3. fsize + 1 \in 0 .. FullBlocks
      BY <1>3, <2>1, FileLenIs
    <2>4. PushBlock(m, (fsize + 1) + 1, fsize + 1)
      BY <1>5, <2>1, <2>2 DEF PushAcked
    <2> QED
      BY <1>1, <2>3, <2>4, OrderPushBlock
  <1> QED
    BY <1>4, <1>5

-----------------------------------------------------------------------------
\* The server.

\* What a session sends is of its transfer, and goes to its client.
LEMMA OrderSends ==
  ASSUME TypeOK', NEW x, NEW f, OrderSession(x)', x.w_r \in {"read", "write"},
         NEW e \in ReplyPacket(x, f)
  PROVE  /\ OrderPacket(e)'
         /\ e.from = SessionAddr(x.sock) /\ e.to = ClientAddr(x.file)
         /\ e.type = "ACK" \/ /\ e.type = "DATA" /\ x.w_r = "read"
                              /\ e.block = x.block /\ e.chunk = x.last
  <1>1. /\ x.sock \in 1 .. MaxSocks /\ x.file \in 1 .. cur'
        /\ Belongs(x.sock, x.file)' /\ x.peer = ClientAddr(x.file)
    BY ServerAssumption DEF OrderSession, Belongs, TypeOK, ServerType
  <1>2. CASE x.w_r = "read"
    <2>1. e = Data(x.block, x.last, SessionAddr(x.sock), ClientAddr(x.file))
      BY <1>1, <1>2 DEF ReplyPacket, FilePacket
    <2>2. /\ e.type = "DATA" /\ e.from = SessionAddr(x.sock) /\ e.block = x.block
          /\ e.to = ClientAddr(x.file) /\ e.chunk = x.last
      BY <2>1 DEF Data
    <2>3. Between(e, x.file)' /\ e.from # ClientAddr(x.file)
      BY <1>1, <2>2, AddrsDiffer DEF Between
    <2>4. OrderData(e)'
      BY <1>1, <1>2, <2>2, <2>3 DEF OrderData, OrderSession
    <2> QED
      BY <1>2, <2>2, <2>4 DEF OrderPacket
  <1>3. CASE x.w_r = "write"
    <2>1. e = Ack(x.block, SessionAddr(x.sock), ClientAddr(x.file))
      BY <1>1, <1>3 DEF ReplyPacket, AckPacket
    <2>2. /\ e.type = "ACK" /\ e.from = SessionAddr(x.sock) /\ e.block = x.block
          /\ e.to = ClientAddr(x.file)
      BY <2>1 DEF Ack
    <2>3. Between(e, x.file)'
      BY <1>1, <2>2 DEF Between
    <2>4. OrderAck(e)'
      BY <1>1, <1>3, <2>2, <2>3 DEF OrderAck, OrderSession
    <2> QED
      BY <2>2, <2>4 DEF OrderPacket
  <1> QED
    BY <1>2, <1>3

\* What session x, after its step, must be to the mail and to the waiting pull.
Fits(x) ==
  /\ ~Positional => \A m \in net :
       m.type = "DATA" /\ m.from = SessionAddr(x.sock) => m.chunk[2] <= x.off
  /\ Waiting /\ op = "pull" /\ x.file = cur =>
       /\ PullSession(x)
       /\ x.w_r = "read" /\ SessionAddr(x.sock) = sender /\ x.block = fsize + 1 =>
            x.last = Empty \/ x.last[2] > Reached

(***************************************************************************)
(* The frame of a server's step that stores nothing: the sessions of slots  *)
(* r become s, or are freed, and may send; others may be freed.             *)
(***************************************************************************)
LEMMA OrderServer ==
  ASSUME TypeOK, TypeOK', OrderInv, OrderlySetting, UNCHANGED dst, UNCHANGED cvars, Keeps,
         NEW r \in SUBSET Slots, NEW s,
         \A i \in r : OrderSession(s[i])' /\ s[i].w_r \in {"read", "write"} /\ Fits(s[i]),
         \A i \in Slots : \/ table'[i].sock = 0
                         \/ table'[i] = IF i \in r THEN s[i] ELSE table[i],
         \A i \in r : \A j \in Slots :
           i # j => table'[j].sock = 0 \/ table'[j].sock # s[i].sock,
         \A e \in net' : \/ e \in net \/ e.type = "ERROR"
                        \/ \E i \in r : \E f : e \in ReplyPacket(s[i], f)
  PROVE  OrderInv'
  <1>1. /\ UNCHANGED <<cpc, cur, op, block, sender, fsize, outcome>>
        /\ Grows /\ InOrder' /\ (Positional => PrefixStored')
        /\ Me' = Me /\ Reached' = Reached
    BY OrderFiles DEF cvars, Me, Reached
  <1>2. PushesStay
    BY <1>1, Begun, OrderFiles DEF PushesStay, Pushed
  <1>3. ASSUME NEW e \in net', e \notin net, e.type # "ERROR"
        PROVE  \E i \in r :
                 /\ OrderPacket(e)'
                 /\ e.from = SessionAddr(s[i].sock) /\ e.to = ClientAddr(s[i].file)
                 /\ e.type = "ACK" \/ /\ e.type = "DATA" /\ s[i].w_r = "read"
                                      /\ e.block = s[i].block /\ e.chunk = s[i].last
    <2>1. PICK i \in r : \E f : e \in ReplyPacket(s[i], f)
      BY <1>3
    <2>2. PICK f, x : x = s[i] /\ e \in ReplyPacket(x, f)
      BY <2>1
    <2>3. OrderSession(x)' /\ x.w_r \in {"read", "write"}
      BY <2>2 DEF OrderSession
    <2> QED
      BY <2>2, <2>3, OrderSends
  <1>4. \A i, j \in Slots :
          table'[i].sock = table'[j].sock /\ table'[i].sock # 0 => i = j
    BY DEF OrderInv, OrderSessions, Occupied
  <1>5. OrderPackets' /\ OrderSessions'
    <2>1. ASSUME NEW e \in net' PROVE e \in net \/ OrderPacket(e)'
      BY <1>3 DEF OrderPacket
    <2>2. ASSUME NEW i \in Slots
          PROVE  \/ table'[i] = table[i] \/ table'[i].sock = 0 \/ OrderSession(table[i])'
      <3>1. table'[i] = s[i] /\ i \in r => OrderSession(table[i])'
        BY DEF OrderSession
      <3> QED
        BY <3>1
    <2> QED
      BY <1>1, <1>2, <1>4, <2>1, <2>2, OrderKeeps
  <1>6. ReadSoFar'
    <2> SUFFICES ASSUME ~Positional, NEW i \in Slots, table'[i].sock # 0, NEW e \in net',
                        e.type = "DATA", e.from = SessionAddr(table'[i].sock)
                 PROVE  e.chunk[2] <= table'[i].off
      BY DEF ReadSoFar, Occupied, Slots
    <2>1. CASE e \in net
      BY <2>1 DEF Fits, OrderInv, ReadSoFar, Occupied
    <2>2. CASE e \notin net
      <3>1. PICK j \in r : /\ e.from = SessionAddr(s[j].sock) /\ e.chunk = s[j].last
                           /\ s[j].w_r = "read"
        BY <1>3, <2>2
      <3>2. i = j
        <4>1. table'[i].sock = s[j].sock
          BY <3>1, AddrsDiffer
        <4> QED
          BY <4>1
      <3>3. s[j].last[2] <= s[j].off
        BY <3>1 DEF OrderSession
      <3>4. table'[i] = s[i]
        BY <3>2
      <3> QED
        BY <3>1, <3>2, <3>3, <3>4
    <2> QED
      BY <2>1, <2>2
  <1>7. OrderPull'
    <2> SUFFICES ASSUME Waiting, op = "pull"
                 PROVE  /\ \A m \in net' : PullMail(m)'
                        /\ \A i \in Occupied' : PullSession(table[i])'
      BY <1>1 DEF OrderInv, OrderPull, Waiting
    <2>1. ASSUME NEW m \in net' PROVE PullMail(m)'
      <3>1. CASE m \in net
        BY <1>1, <3>1 DEF OrderInv, OrderPull, PullMail
      <3>2. CASE m.type = "ERROR"
        BY <3>2 DEF PullMail
      <3>3. CASE m \notin net /\ m.type # "ERROR"
        <4>1. PICK i \in r :
                /\ m.from = SessionAddr(s[i].sock) /\ m.to = ClientAddr(s[i].file)
                /\ m.type = "ACK" \/ /\ m.type = "DATA" /\ s[i].w_r = "read"
                                     /\ m.block = s[i].block /\ m.chunk = s[i].last
          BY <1>3, <3>3
        <4>2. m.from # Me
          BY <4>1, MeIs, AddrsDiffer
        <4>3. ASSUME m.type = "DATA", m.to = Me PROVE s[i].file = cur
          BY <4>1, <4>3, MeIs, AddrsDiffer
        <4>4. ASSUME m.type = "DATA", m.to = Me
              PROVE  IF m.from = sender
                     THEN /\ m.block <= fsize + 1
                          /\ m.block = fsize + 1 => m.chunk = Empty \/ m.chunk[2] > Reached
                     ELSE m.block = 1
          BY <4>1, <4>3, <4>4 DEF Fits, PullSession
        <4>5. PullMail(m)
          BY <4>2, <4>4 DEF PullMail
        <4> QED
          BY <1>1, <4>5 DEF PullMail
      <3> QED
        BY <3>1, <3>2, <3>3
    <2>2. ASSUME NEW i \in Slots, table'[i].sock # 0 PROVE PullSession(table[i])'
      <3>1. CASE i \in r
        <4>1. table'[i] = s[i] /\ (s[i].file = cur => PullSession(s[i]))
          BY <2>2, <3>1 DEF Fits
        <4> QED
          BY <1>1, <4>1 DEF PullSession
      <3>2. CASE i \notin r
        <4>1. table'[i] = table[i] /\ PullSession(table[i])
          BY <2>2, <3>2 DEF OrderInv, OrderPull, Occupied
        <4> QED
          BY <1>1, <4>1 DEF PullSession
      <3> QED
        BY <3>1, <3>2
    <2> QED
      BY <2>1, <2>2 DEF Occupied, Slots
  <1>8. OrderPush'
    BY <1>1 DEF OrderInv, OrderPush, Prefixed, FileLen, Waiting
  <1>9. OrderSender'
    <2> SUFFICES ASSUME cpc = "data" PROVE OrderSender'
      BY <1>1 DEF OrderSender
    <2>1. PICK t \in Transfers : t = cur
      BY CallIs DEF Waiting
    <2>2. PICK n \in 1 .. MaxSocks : sender = SessionAddr(n) /\ Belongs(n, t)
      BY <2>1 DEF OrderInv, OrderSender
    <2>3. Belongs(n, t)'
      BY <2>2 DEF Keeps
    <2> QED
      BY <1>1, <2>1, <2>2, <2>3 DEF OrderSender
  <1>10. NotBegun' /\ PushedIsWhole'
    BY <1>1 DEF OrderInv, NotBegun, PushedIsWhole, SourceFile, OldFile
  <1> QED
    BY <1>1, <1>5, <1>6, <1>7, <1>8, <1>9, <1>10 DEF OrderInv

\* A step of the server that frees slots, and sends errors at most.
LEMMA OrderFrees ==
  ASSUME TypeOK, TypeOK', OrderInv, OrderlySetting, UNCHANGED dst, UNCHANGED cvars,
         nextSock' \in {nextSock, nextSock + 1},
         \A i \in Slots : table'[i].sock = 0 \/ table'[i] = table[i],
         \A e \in net' : e \in net \/ e.type = "ERROR"
  PROVE  OrderInv'
  <1>1. Keeps
    BY SlotsKeep
  <1>2. PICK r \in SUBSET Slots : r = {}
    OBVIOUS
  <1> QED
    BY <1>1, <1>2, OrderServer

LEMMA OrderDrop ==
  ASSUME TypeOK, TypeOK', OrderInv, OrderlySetting, UNCHANGED cvars, NEW m \in net,
         NEW i \in Slots, ReadBadAck(i, m) \/ WriteFails(i, m) \/ WriteBadData(i, m)
  PROVE  OrderInv'
  <1>1. /\ table' = [table EXCEPT ![i] = NoSession]
        /\ UNCHANGED dst /\ UNCHANGED nextSock
        /\ \A e \in net' : e \in net \/ \E a, b : e = Error(a, b)
    BY DEF ReadBadAck, WriteFails, WriteBadData, Receive
  <1>2. \A j \in Slots : table'[j].sock = 0 \/ table'[j] = table[j]
    BY <1>1 DEF TypeOK, ServerType, NoSession
  <1>3. \A e \in net' : e \in net \/ e.type = "ERROR"
    BY <1>1 DEF Error
  <1> QED
    BY <1>1, <1>2, <1>3, OrderFrees

LEMMA OrderLife ==
  ASSUME TypeOK, TypeOK', OrderInv, OrderlySetting, UNCHANGED cvars,
         ServerExit \/ ServerStart
  PROVE  OrderInv'
  BY OrderFrees DEF ServerExit, ServerStart, NoSession

LEMMA OrderLoss ==
  ASSUME TypeOK, TypeOK', OrderInv, OrderlySetting, NetworkLoss
  PROVE  OrderInv'
  BY OrderFrees DEF NetworkLoss, Lose, svars

LEMMA OrderRefused ==
  ASSUME TypeOK, TypeOK', OrderInv, OrderlySetting, UNCHANGED cvars, UNCHANGED dst,
         NEW m \in net, nextSock' = nextSock + 1, RequestRefused(m)
  PROVE  OrderInv'
  <1>1. \A e \in net' : e \in net \/ e = Error(SessionAddr(nextSock), m.from)
    BY DEF RequestRefused, Receive
  <1>2. \A e \in net' : e \in net \/ e.type = "ERROR"
    BY <1>1 DEF Error
  <1>3. UNCHANGED table
    BY DEF RequestRefused
  <1> QED
    BY <1>2, <1>3, OrderFrees

\* A datagram a session receives comes from the client of its transfer.
LEMMA OrderSessionMail ==
  ASSUME TypeOK, OrderInv, NEW m \in net, NEW i \in Slots, Ready(i, m),
         m.type \in {"DATA", "ACK"}
  PROVE  /\ table[i] \in Sessions /\ OrderSession(table[i])
         /\ table[i].sock \in 1 .. MaxSocks /\ table[i].file \in Transfers
         /\ m.from = ClientAddr(table[i].file) /\ m.to = SessionAddr(table[i].sock)
         /\ m.type = "DATA" => /\ m.block \in 1 .. FileLen + 1
                               /\ Pushed(table[i].file)
                               /\ m.chunk = tftp_file_read(table[i].file, m.block - 1)
  <1>1. PICK x : x = table[i]
    OBVIOUS
  <1>2. /\ x \in Sessions /\ OrderSession(x)
        /\ x.sock \in 1 .. MaxSocks /\ x.file \in Transfers
    BY <1>1, ServerAssumption, Begun
    DEF Ready, Occupied, OrderInv, OrderSessions, OrderSession, TypeOK, ServerType,
        Sessions
  <1>3. PICK t \in 1 .. cur :
          /\ Between(m, t)
          /\ m.type = "DATA" =>
               /\ m.block \in 1 .. FileLen + 1
               /\ m.from = ClientAddr(t) =>
                    Pushed(t) /\ m.chunk = tftp_file_read(t, m.block - 1)
    BY DEF OrderInv, OrderPackets, OrderPacket, OrderData, OrderAck
  <1>4. m.to = SessionAddr(x.sock)
    BY <1>1 DEF Ready
  <1>5. m.from = ClientAddr(t) /\ Belongs(x.sock, t)
    BY <1>3, <1>4, AddrsDiffer DEF Between
  <1>6. t = x.file
    BY <1>1, <1>5 DEF Belongs
  <1> QED
    BY <1>1, <1>2, <1>3, <1>4, <1>5, <1>6

\* With a backend that honours pos, a pull is where its file ends.
LEMMA ReachedIs ==
  ASSUME TypeOK, OrderInv, Waiting, op = "pull"
  PROVE  Reached \in Nat /\ fsize \in Nat /\ (Positional => Reached = fsize)
  <1>1. fsize \in 0 .. FullBlocks /\ DOMAIN dst[cur] = 1 .. fsize /\ cur \in Transfers
    BY CallIs DEF OrderInv, OrderPull
  <1>2. CASE fsize = 0
    BY <1>2 DEF Reached
  <1>3. CASE fsize # 0
    <2>1. fsize \in Nat /\ fsize \in DOMAIN dst[cur] /\ Reached = dst[cur][fsize][2]
      BY <1>1, <1>3, FileLenIs DEF Reached
    <2>2. Reached \in Nat
      BY <1>1, <2>1 DEF TypeOK, FilesType, Chunks
    <2>3. ASSUME Positional PROVE Reached = fsize
      <3>1. PICK n \in 0 .. FileLen : dst[cur] = [i \in 1 .. n |-> <<cur, i>>]
        BY <1>1, <2>3 DEF OrderInv, PrefixStored
      <3> QED
        BY <2>1, <3>1
    <2> QED
      BY <2>1, <2>2, <2>3
  <1> QED
    BY <1>2, <1>3

\* A reader that has read once more fits, if its block does.
LEMMA ReaderFits ==
  ASSUME TypeOK, OrderInv, NEW i \in Occupied, NEW x \in Sessions, x = table[i],
         NEW s, s.sock = x.sock, s.file = x.file, x.w_r = "read",
         s.block \in Nat, s.off \in Nat, s.last = Empty \/ s.last[2] \in Nat,
         Positional => s.last = Empty \/ s.last[2] = s.block,
         ~Positional => x.off <= s.off /\ (s.last = Empty \/ s.last[2] > x.off),
         Waiting /\ op = "pull" /\ x.file = cur =>
           IF SessionAddr(x.sock) = sender THEN s.block <= fsize + 1 ELSE s.block = 1,
         SessionAddr(x.sock) = sender /\ Waiting /\ op = "pull" /\ x.file = cur =>
           (~Positional => Reached <= x.off)
  PROVE  Fits(s)
  <1>1. x.off \in Nat
    BY DEF Sessions
  <1>2. ~Positional => \A m \in net :
          m.type = "DATA" /\ m.from = SessionAddr(s.sock) => m.chunk[2] <= s.off
    <2> SUFFICES ASSUME ~Positional, NEW m \in net, m.type = "DATA",
                        m.from = SessionAddr(x.sock)
                 PROVE  m.chunk[2] <= s.off
      OBVIOUS
    <2>1. m.chunk[2] <= x.off
      BY DEF OrderInv, ReadSoFar
    <2>2. m.chunk[2] \in Nat
      BY DEF TypeOK, NetType, Packets, Chunks
    <2> QED
      BY <1>1, <2>1, <2>2
  <1>3. ASSUME Waiting, op = "pull", s.file = cur
        PROVE  /\ PullSession(s)
               /\ s.w_r = "read" /\ SessionAddr(s.sock) = sender /\ s.block = fsize + 1 =>
                    s.last = Empty \/ s.last[2] > Reached
    <2>1. Reached \in Nat /\ fsize \in Nat /\ (Positional => Reached = fsize)
      BY <1>3, ReachedIs
    <2>2. PullSession(s)
      BY <1>1, <1>3, <2>1 DEF PullSession
    <2> QED
      BY <1>1, <1>3, <2>1, <2>2
  <1> QED
    BY <1>2, <1>3 DEF Fits

\* What PullSession says of a reader of the current pull.
LEMMA PullSessionIs ==
  ASSUME OrderInv, Waiting, op = "pull", NEW i \in Occupied, table[i].file = cur
  PROVE  IF SessionAddr(table[i].sock) = sender
         THEN table[i].block <= fsize + 1 /\ (~Positional => Reached <= table[i].off)
         ELSE table[i].block = 1
  BY DEF OrderInv, OrderPull, PullSession

(***************************************************************************)
(* A reader that has its ACK reads on.  In a waiting pull it is the sender, *)
(* and comes to the block after the last one stored, at most.               *)
(***************************************************************************)
LEMMA OrderReadAcked ==
  ASSUME TypeOK, TypeOK', OrderInv, OrderlySetting, UNCHANGED cvars, NEW m \in net,
         NEW i \in Slots, ReadAcked(i, m)
  PROVE  OrderInv'
  <1>1. PICK x : x = table[i]
    OBVIOUS
  <1>2. /\ x \in Sessions /\ OrderSession(x) /\ x.w_r = "read" /\ m.type = "ACK"
        /\ x.sock \in 1 .. MaxSocks /\ x.file \in Transfers /\ x.file \in 1 .. cur
        /\ m.from = ClientAddr(x.file) /\ m.to = SessionAddr(x.sock)
        /\ m.block = x.block /\ i \in Occupied
    BY <1>1, OrderSessionMail DEF ReadAcked, tftp_wait_ack, Ready, OrderSession
  <1>3. UNCHANGED dst /\ UNCHANGED nextSock /\ UNCHANGED cur
    BY DEF ReadAcked, cvars
  <1>4. CASE IsShort(x.last)
    <2>1. \A j \in Slots : table'[j].sock = 0 \/ table'[j] = table[j]
      BY <1>1, <1>4 DEF ReadAcked, TypeOK, ServerType, NoSession
    <2>2. \A e \in net' : e \in net
      BY <1>1, <1>4 DEF ReadAcked, Receive
    <2> QED
      BY <1>3, <2>1, <2>2, OrderFrees
  <1>5. CASE ~IsShort(x.last)
    <2>read. PICK fails \in BOOLEAN :
            \E r, s, f :
              /\ r = [[x EXCEPT !.peer = m.from]
                        EXCEPT !.block = Inc(@), !.retry = MaxRetry]
              /\ s = SendFile(r, FALSE, fails)
              /\ table' = [table EXCEPT ![i] = AfterSend(s, f)]
              /\ Receive(m, FilePacket(s, f))
      BY <1>1, <1>5, MayFailType DEF ReadAcked, Received
    <2>1. PICK r, s, f :
            /\ r = [[x EXCEPT !.peer = m.from]
                      EXCEPT !.block = Inc(@), !.retry = MaxRetry]
            /\ s = SendFile(r, FALSE, fails)
            /\ table' = [table EXCEPT ![i] = AfterSend(s, f)]
            /\ Receive(m, FilePacket(s, f))
      BY <2>read
    <2>2. PICK b \in 1 .. FileLen + 1 :
            /\ b = x.block /\ FromReader(x.file, b, x.last)
            /\ IF Positional THEN b = x.pos + 1
               ELSE x.off \in b - 1 .. FileLen /\ x.last[2] <= x.off
      BY <1>2 DEF OrderSession
    <2>3. /\ x.last # Empty /\ x.last[2] \in b .. FileLen /\ x.last[2] <= FullBlocks
          /\ Size(x.last) = 1
      <3>1. x.last # Empty /\ ~(x.last[2] > FullBlocks)
        BY <1>5 DEF IsShort
      <3>2. x.last[2] \in b .. FileLen
        BY <1>2, <2>2, <3>1, FromReaderIs, FileLenIs
      <3> QED
        BY <2>2, <3>1, <3>2, FileLenIs DEF Size
    <2>4. b \in 0 .. FileLen /\ Inc(b) = b + 1 /\ b + 1 \in 1 .. FileLen + 1
      BY <2>2, <2>3, IncIs, FileLenIs
    <2>5. /\ r \in Sessions /\ r.pos = x.pos /\ r.last = x.last /\ r.off = x.off
          /\ r.block = b + 1 /\ r.w_r = "read" /\ r.file = x.file
          /\ r.sock = x.sock /\ r.peer = ClientAddr(x.file)
      <3>1. Inc(x.block) \in Blocks /\ MaxRetry \in 0 .. MaxRetry /\ m.from \in Addrs
        BY <1>2, IncType, XferAssumption DEF Sessions, TypeOK, NetType, Packets
      <3>2. r \in Sessions
        BY <1>2, <2>1, <3>1 DEF Sessions
      <3> QED
        BY <1>2, <2>1, <2>2, <2>4, <3>2 DEF Sessions
    <2>6. PICK pos \in Nat : pos = x.pos + 1
      BY <1>2 DEF Sessions
    <2>7. x.pos \in Nat /\ x.off \in Nat
      BY <1>2 DEF Sessions
    <2>8. /\ s.sock = x.sock /\ s.file = x.file /\ s.peer = ClientAddr(x.file)
          /\ s.w_r = "read" /\ s.block = b + 1
          /\ FromReader(x.file, b + 1, s.last)
          /\ IF Positional THEN s.block = s.pos + 1
             ELSE /\ s.off \in s.block - 1 .. FileLen /\ s.last[2] <= s.off
                  /\ x.off <= s.off
                  /\ s.last = Empty \/ s.last[2] > x.off
      <3>1. r.pos + Size(r.last) = pos
        BY <2>3, <2>5, <2>6
      <3>2. Positional => r.block = pos + 1
        BY <2>2, <2>5, <2>6, <2>7
      <3>3. ~Positional => r.off \in r.block - 1 .. FileLen
        BY <2>2, <2>3, <2>5, <2>7, FileLenIs
      <3>4. r.block \in 1 .. FileLen + 1 /\ r.file \in Transfers
        BY <1>2, <2>4, <2>5
      <3>5. /\ r \in Sessions /\ r.w_r = "read" /\ s = SendFile(r, FALSE, fails)
            /\ pos = r.pos + Size(r.last)
        BY <2>1, <2>5, <3>1
      <3>6. /\ s.sock = r.sock /\ s.file = r.file /\ s.peer = r.peer
            /\ s.w_r = "read" /\ s.block = r.block
            /\ FromReader(s.file, s.block, s.last)
            /\ IF Positional THEN s.block = s.pos + 1
               ELSE /\ s.off \in s.block - 1 .. FileLen /\ s.last[2] <= s.off
                    /\ r.off <= s.off
                    /\ s.last = Empty \/ s.last[2] > r.off
        BY <3>2, <3>3, <3>4, <3>5, SendNextIs
      <3> QED
        BY <2>5, <3>6
    <2>9. /\ table'[i] = s \/ table'[i].sock = 0
          /\ \A j \in Slots : j # i => table'[j] = table[j]
      BY <2>1, SlotAfter
    <2>10. Keeps
      <3>1. \A j \in Slots : \/ table'[j].sock \in {0, nextSock}
                             \/ /\ table'[j].sock = table[j].sock
                                /\ table'[j].file = table[j].file
        BY <1>1, <2>8, <2>9
      <3> QED
        BY <1>3, <3>1, SlotsKeep
    <2>11. OrderSession(s)'
      <3>1. Belongs(x.sock, x.file)'
        BY <1>2, <2>10 DEF Keeps, OrderSession
      <3> QED
        BY <1>2, <1>3, <2>4, <2>8, <3>1 DEF OrderSession, FileLen
    <2>12. Fits(s)
      <3>1. /\ s.last = Empty \/ s.last[2] \in Nat
            /\ Positional => s.last = Empty \/ s.last[2] = s.block
        <4>1. s.last # Empty => /\ s.last[2] \in b + 1 .. FileLen
                                /\ Positional => s.last[2] = b + 1
          BY <1>2, <2>4, <2>8, FromReaderIs
        <4> QED
          BY <2>4, <2>8, <4>1
      <3>2. ASSUME Waiting, op = "pull", x.file = cur
            PROVE  /\ SessionAddr(x.sock) = sender /\ b <= fsize /\ fsize \in Nat
                   /\ ~Positional => Reached <= x.off
        <4>1. PullMail(m) /\ fsize \in Nat
          BY <3>2, FileLenIs DEF OrderInv, OrderPull
        <4>2. SessionAddr(x.sock) = sender /\ b <= fsize
          BY <1>2, <2>2, <3>2, <4>1, MeIs DEF PullMail
        <4> QED
          BY <1>1, <1>2, <3>2, <4>1, <4>2, PullSessionIs
      <3>3. s.block \in Nat /\ (~Positional => s.off \in Nat)
        BY <2>4, <2>8, FileLenIs
      <3>4. Positional => s.off \in Nat
        BY <2>1, <2>5, <2>7 DEF SendFile, Sessions
      <3> QED
        BY <1>1, <1>2, <2>2, <2>8, <3>1, <3>2, <3>3, <3>4, ReaderFits
    <2>13. PICK one, g : one = {i} /\ g = [j \in one |-> s]
      OBVIOUS
    <2>14. \A j \in one : g[j] = s /\ j = i
      BY <2>13
    <2>15. \A e \in net' : e \in net \/ \E j \in one : \E h : e \in ReplyPacket(g[j], h)
      <3>1. \A e \in net' : e \in net \/ e \in ReplyPacket(s, f)
        BY <2>1, <2>8 DEF Receive, ReplyPacket
      <3> QED
        BY <2>13, <2>14, <3>1
    <2>16. \A j \in one :
             OrderSession(g[j])' /\ g[j].w_r \in {"read", "write"} /\ Fits(g[j])
      <3>1. \A y : y = s => OrderSession(y)' /\ y.w_r \in {"read", "write"} /\ Fits(y)
        BY <2>8, <2>11, <2>12
      <3> QED
        BY <2>11, <2>12, <2>8, <2>14, <3>1 DEF OrderSession
    <2>17. \A j \in Slots : \/ table'[j].sock = 0
                            \/ table'[j] = IF j \in one THEN g[j] ELSE table[j]
      BY <2>9, <2>13, <2>14
    <2>18. \A j \in one : \A k \in Slots :
             j # k => table'[k].sock = 0 \/ table'[k].sock # g[j].sock
      BY <1>1, <1>2, <2>8, <2>9, <2>14 DEF OrderInv, OrderSessions, Occupied
    <2> QED
      <3>1. one \in SUBSET Slots /\ UNCHANGED dst /\ UNCHANGED cvars
        BY <1>3, <2>13
      <3> QED
        BY <2>10, <2>15, <2>16, <2>17, <2>18, <3>1, OrderServer
  <1> QED
    BY <1>4, <1>5

\* Nothing is known yet of the socket the server creates next.
LEMMA OrderSockIsNew ==
  ASSUME TypeOK, OrderInv
  PROVE  /\ \A i \in Slots : table[i].sock # nextSock
         /\ \A m \in net : m.type = "DATA" => m.from # SessionAddr(nextSock)
         /\ Waiting /\ op = "pull" => sender # SessionAddr(nextSock)
  <1>1. PICK k \in Nat : k = nextSock /\ k > 0
    BY ServerAssumption DEF TypeOK, ServerType
  <1>2. \A n \in 1 .. MaxSocks, t \in Transfers : Belongs(n, t) => n # k
    BY <1>1 DEF Belongs
  <1>3. ASSUME NEW i \in Slots PROVE table[i].sock # k
    <2>1. CASE table[i].sock = 0
      BY <1>1, <2>1
    <2>2. CASE table[i].sock # 0
      <3>1. PICK x \in Sessions : x = table[i] /\ OrderSession(x)
        BY <2>2 DEF OrderInv, OrderSessions, Occupied, TypeOK, ServerType
      <3>2. x.sock \in 1 .. MaxSocks /\ Belongs(x.sock, x.file) /\ x.file \in Transfers
        BY <2>2, <3>1, ServerAssumption, Begun DEF OrderSession, Sessions
      <3> QED
        BY <1>2, <3>1, <3>2
    <2> QED
      BY <2>1, <2>2
  <1>4. ASSUME NEW m \in net, m.type = "DATA" PROVE m.from # SessionAddr(k)
    <2>1. PICK t \in 1 .. cur : Between(m, t)
      BY <1>4 DEF OrderInv, OrderPackets, OrderPacket, OrderData
    <2> QED
      BY <1>2, <2>1, Begun, AddrsDiffer DEF Between
  <1>5. ASSUME Waiting, op = "pull" PROVE sender # SessionAddr(k)
    <2>1. CASE cpc = "request"
      BY <1>5, <2>1, AddrsDiffer DEF OrderInv, OrderPull
    <2>2. CASE cpc = "data"
      BY <1>2, <1>5, <2>2, CallIs, AddrsDiffer DEF OrderInv, OrderSender
    <2> QED
      BY <1>5, <2>1, <2>2 DEF Waiting
  <1> QED
    BY <1>1, <1>3, <1>4, <1>5

\* A new session sends its first block, from a socket nothing has come from.
LEMMA OrderAccepted ==
  ASSUME TypeOK, TypeOK', OrderInv, OrderlySetting, UNCHANGED cvars, UNCHANGED dst,
         NEW m \in net, m.type \in {"RRQ", "WRQ"}, nextSock <= MaxSocks,
         nextSock' = nextSock + 1, RequestAccepted(m)
  PROVE  OrderInv'
  <1>1. PICK t \in 1 .. cur :
          /\ t = m.chunk[1] /\ m.from = ClientAddr(t) /\ t \in Transfers
          /\ m.type = "WRQ" => Pushed(t)
    BY Begun DEF OrderInv, OrderPackets, OrderPacket, OrderRequest
  <1>slot. PICK i \in Slots, bad \in BOOLEAN, fails \in BOOLEAN :
          \E f, n, s :
            /\ n = NewSession(m, bad)
            /\ s = IF m.type = "RRQ" THEN SendFile(n, FALSE, fails) ELSE n
            /\ table' = [table EXCEPT ![i] = AfterSend(s, f)]
            /\ Receive(m, ReplyPacket(s, f))
    BY MayFailType DEF RequestAccepted
  <1>2. PICK f, n, s :
          /\ n = NewSession(m, bad)
          /\ s = IF m.type = "RRQ" THEN SendFile(n, FALSE, fails) ELSE n
          /\ table' = [table EXCEPT ![i] = AfterSend(s, f)]
          /\ Receive(m, ReplyPacket(s, f))
    BY <1>slot
  <1>3. PICK k \in Nat : k = nextSock /\ k > 0
    BY ServerAssumption DEF TypeOK, ServerType
  <1>4. /\ n \in Sessions /\ n.sock = k /\ n.file = t /\ n.peer = ClientAddr(t)
        /\ n.pos = 0 /\ n.off = 0 /\ n.last = Empty
        /\ n.w_r = IF m.type = "RRQ" THEN "read" ELSE "write"
        /\ n.block = IF m.type = "RRQ" THEN 1 ELSE 0
    BY <1>1, <1>2, <1>3, NewSessionType DEF NewSession
  <1>5. /\ s.sock = k /\ s.file = t /\ s.peer = ClientAddr(t)
        /\ s.w_r = IF m.type = "RRQ" THEN "read" ELSE "write"
        /\ s.w_r = "read" =>
             /\ s.block = 1 /\ FromReader(t, 1, s.last)
             /\ IF Positional THEN s.block = s.pos + 1
                ELSE s.off \in s.block - 1 .. FileLen /\ s.last[2] <= s.off
        /\ s.w_r = "write" => s.block = 0 /\ s.pos = 0
    <2>1. CASE m.type = "RRQ"
      <3>1. /\ n.w_r = "read" /\ n.block = 1 /\ n.file \in Transfers
            /\ s = SendFile(n, FALSE, fails) /\ n.block \in 1 .. FileLen + 1
        BY <1>1, <1>2, <1>4, <2>1, FileLenIs
      <3>2. PICK x \in Sessions, resend \in BOOLEAN, pos \in Nat :
              /\ x = n /\ ~resend
              /\ pos = IF resend THEN x.pos ELSE x.pos + Size(x.last)
              /\ Positional => x.block = pos + 1
              /\ ~Positional => x.off \in x.block - 1 .. FileLen
              /\ x.w_r = "read" /\ x.file \in Transfers /\ x.block \in 1 .. FileLen + 1
              /\ s = SendFile(x, resend, fails)
        <4>1. 0 + Size(Empty) = 0
          BY DEF Size
        <4>2. 0 = IF FALSE THEN n.pos ELSE n.pos + Size(n.last)
          BY <1>4, <4>1
        <4>3. n.block = 0 + 1 /\ n.off \in n.block - 1 .. FileLen
          BY <1>4, <3>1, FileLenIs
        <4>4. FALSE \in BOOLEAN /\ 0 \in Nat /\ ~FALSE /\ n \in Sessions
          BY <1>4
        <4> QED
          BY <3>1, <4>2, <4>3, <4>4, Zenon
      <3>3. /\ s.sock = x.sock /\ s.file = x.file /\ s.peer = x.peer
            /\ s.w_r = "read" /\ s.block = x.block
            /\ FromReader(s.file, s.block, s.last)
            /\ IF Positional THEN s.block = s.pos + 1
               ELSE /\ s.off \in s.block - 1 .. FileLen /\ s.last[2] <= s.off
                    /\ x.off <= s.off
                    /\ s.last = Empty \/ s.last[2] > x.off
        BY <3>2, SendFileIs
      <3>4. /\ s.sock = n.sock /\ s.file = n.file /\ s.peer = n.peer
            /\ s.w_r = "read" /\ s.block = n.block
            /\ FromReader(s.file, s.block, s.last)
            /\ IF Positional THEN s.block = s.pos + 1
               ELSE s.off \in s.block - 1 .. FileLen /\ s.last[2] <= s.off
        BY <3>2, <3>3
      <3> QED
        BY <1>4, <2>1, <3>1, <3>4
    <2>2. CASE m.type = "WRQ"
      BY <1>2, <1>4, <2>2
    <2> QED
      BY <2>1, <2>2
  <1>6. /\ table'[i] = s \/ table'[i].sock = 0
        /\ \A j \in Slots : j # i => table'[j] = table[j]
    BY <1>2, SlotAfter
  <1>7. Keeps
    <2>1. \A j \in Slots : \/ table'[j].sock \in {0, nextSock}
                           \/ /\ table'[j].sock = table[j].sock
                              /\ table'[j].file = table[j].file
      BY <1>3, <1>5, <1>6
    <2> QED
      BY <2>1, SlotsKeep
  <1>8. Belongs(k, t)'
    <2>1. \A j \in Slots : table'[j].sock = k => table'[j].file = t
      BY <1>3, <1>5, <1>6, OrderSockIsNew
    <2>2. k \in 1 .. nextSock' - 1
      BY <1>3
    <2> QED
      BY <2>1, <2>2 DEF Belongs, Slots
  <1>9. cur' = cur /\ op' = op /\ (Prefixed(t) => Prefixed(t)')
    BY <1>1, OrderFiles DEF cvars
  <1>10. OrderSession(s)'
    <2>1. s.w_r = "write" => Holds(t, 0)' /\ Pushed(t)'
      BY <1>1, <1>5, <1>9 DEF Holds, Pushed
    <2>2. 1 \in 1 .. FileLen' + 1 /\ FileLen' = FileLen /\ 0 \in 0 .. FullBlocks
      BY FileLenIs DEF FileLen
    <2> QED
      BY <1>5, <1>8, <1>9, <2>1, <2>2 DEF OrderSession, FromReader
  <1>11. Fits(s)
    <2>1. SessionAddr(s.sock) = SessionAddr(nextSock)
      BY <1>3, <1>5
    <2>2. Waiting /\ op = "pull" /\ s.file = cur => s.w_r = "read" /\ s.block = 1
      BY <1>1, <1>5 DEF Pushed
    <2> QED
      BY <2>1, <2>2, OrderSockIsNew DEF Fits, PullSession
  <1>12. PICK one, g : one = {i} /\ g = [j \in one |-> s]
    OBVIOUS
  <1>13. \A j \in one : g[j] = s /\ j = i
    BY <1>12
  <1>14. \A e \in net' : e \in net \/ \E j \in one : \E h : e \in ReplyPacket(g[j], h)
    <2>1. \A e \in net' : e \in net \/ e \in ReplyPacket(s, f)
      BY <1>2 DEF Receive
    <2> QED
      BY <1>12, <1>13, <2>1
  <1>15. \A j \in one :
           OrderSession(g[j])' /\ g[j].w_r \in {"read", "write"} /\ Fits(g[j])
    BY <1>5, <1>10, <1>11, <1>13 DEF OrderSession
  <1>16. \A j \in Slots : \/ table'[j].sock = 0
                          \/ table'[j] = IF j \in one THEN g[j] ELSE table[j]
    BY <1>6, <1>12, <1>13
  <1>17. \A j \in one : \A h \in Slots :
           j # h => table'[h].sock = 0 \/ table'[h].sock # g[j].sock
    BY <1>3, <1>5, <1>6, <1>13, OrderSockIsNew
  <1>18. one \in SUBSET Slots
    BY <1>12
  <1> QED
    BY <1>7, <1>14, <1>15, <1>16, <1>17, <1>18, OrderServer

LEMMA OrderRequestStep ==
  ASSUME TypeOK, TypeOK', OrderInv, OrderlySetting, UNCHANGED cvars, NEW m \in net,
         ServerRequest(m)
  PROVE  OrderInv'
  BY OrderRefused, OrderAccepted DEF ServerRequest

\* A retry: a writer is as it was, a reader has read again for the same block.
LEMMA OrderTimedOut ==
  ASSUME TypeOK, NEW x \in Sessions, OrderSession(x), MayRetry(x), NEW fails \in BOOLEAN,
         NEW s, s = TimedOut(x, fails)
  PROVE  /\ s.sock = x.sock /\ s.file = x.file /\ s.peer = x.peer
         /\ s.w_r = x.w_r /\ s.block = x.block
         /\ x.w_r = "write" => s.pos = x.pos /\ s.off = x.off
         /\ x.w_r = "read" =>
              /\ FromReader(s.file, s.block, s.last) /\ s.off \in Nat
              /\ IF Positional THEN s.block = s.pos + 1
                 ELSE /\ s.off \in s.block - 1 .. FileLen /\ s.last[2] <= s.off
                      /\ x.off <= s.off
                      /\ s.last = Empty \/ s.last[2] > x.off
  <1>1. PICK y : y = [x EXCEPT !.retry = OneLess(@)]
    OBVIOUS
  <1>2. /\ y \in Sessions /\ y.sock = x.sock /\ y.file = x.file /\ y.peer = x.peer
        /\ y.w_r = x.w_r /\ y.block = x.block /\ y.pos = x.pos /\ y.off = x.off
    <2>1. OneLess(x.retry) \in 0 .. MaxRetry
      BY XferAssumption DEF Sessions, MayRetry, OneLess
    <2> QED
      BY <1>1, <2>1 DEF Sessions
  <1>3. CASE x.w_r = "write"
    BY <1>1, <1>2, <1>3 DEF TimedOut
  <1>4. CASE x.w_r = "read"
    <2>1. s = SendFile(y, TRUE, fails)
      BY <1>1, <1>4 DEF TimedOut
    <2>2. PICK resend \in BOOLEAN : resend
      OBVIOUS
    <2>3. PICK pos \in Nat : pos = y.pos
      BY <1>2 DEF Sessions
    <2>4. /\ s = SendFile(y, resend, fails)
          /\ pos = IF resend THEN y.pos ELSE y.pos + Size(y.last)
      BY <2>1, <2>2, <2>3
    <2>5. /\ y.w_r = "read" /\ y.file \in Transfers /\ y.block \in 1 .. FileLen + 1
          /\ Positional => y.block = pos + 1
          /\ ~Positional => y.off \in y.block - 1 .. FileLen
      BY <1>2, <1>4, <2>3, Begun DEF OrderSession
    <2>6. /\ s.sock = y.sock /\ s.file = y.file /\ s.peer = y.peer
          /\ s.w_r = "read" /\ s.block = y.block
          /\ FromReader(s.file, s.block, s.last)
          /\ IF Positional THEN s.block = s.pos + 1
             ELSE /\ s.off \in s.block - 1 .. FileLen /\ s.last[2] <= s.off
                  /\ y.off <= s.off
                  /\ s.last = Empty \/ s.last[2] > y.off
      BY <1>2, <2>4, <2>5, SendFileIs
    <2>7. s \in Sessions
      BY <1>2, <2>4, SendFileType
    <2>8. s.off \in Nat
      BY <2>7 DEF Sessions
    <2> QED
      BY <1>2, <1>4, <2>6, <2>8
  <1> QED
    BY <1>3, <1>4 DEF Sessions

\* What a retrying session is to the invariant.
LEMMA OrderRetries ==
  ASSUME TypeOK, TypeOK', OrderInv, UNCHANGED dst, UNCHANGED cvars, Keeps,
         NEW i \in Occupied, MayRetry(table[i]), NEW fails \in BOOLEAN,
         NEW s, s = TimedOut(table[i], fails)
  PROVE  /\ s.sock = table[i].sock /\ s.file = table[i].file
         /\ OrderSession(s)' /\ s.w_r \in {"read", "write"} /\ Fits(s)
  <1>1. PICK x \in Sessions : x = table[i] /\ OrderSession(x)
    BY DEF OrderInv, OrderSessions, Occupied, TypeOK, ServerType
  <1>2. /\ s.sock = x.sock /\ s.file = x.file /\ s.peer = x.peer
        /\ s.w_r = x.w_r /\ s.block = x.block
        /\ x.w_r = "write" => s.pos = x.pos /\ s.off = x.off
        /\ x.w_r = "read" =>
             /\ FromReader(s.file, s.block, s.last) /\ s.off \in Nat
             /\ IF Positional THEN s.block = s.pos + 1
                ELSE /\ s.off \in s.block - 1 .. FileLen /\ s.last[2] <= s.off
                     /\ x.off <= s.off
                     /\ s.last = Empty \/ s.last[2] > x.off
    BY <1>1, OrderTimedOut
  <1>3. UNCHANGED <<cpc, cur, op, block, sender, fsize, outcome>>
    BY DEF cvars
  <1>4. Grows /\ PushesStay
    BY <1>3, Begun, OrderFiles DEF PushesStay, Pushed
  <1>5. OrderSession(x)'
    BY <1>1, <1>4, OrderSessionStays
  <1>6. OrderSession(s)'
    BY <1>2, <1>5 DEF OrderSession, FromReader, FileLen
  <1>7. x.w_r \in {"read", "write"} /\ x.block \in Nat /\ x.file \in Transfers
    BY <1>1, XferAssumption, Begun DEF Sessions, Blocks, OrderSession
  <1>8. CASE x.w_r = "read"
    <2>1. s.last # Empty => /\ s.last[2] \in s.block .. FileLen
                            /\ Positional => s.last[2] = s.block
      BY <1>2, <1>7, <1>8, FromReaderIs
    <2>2. /\ s.last = Empty \/ s.last[2] \in Nat
          /\ Positional => s.last = Empty \/ s.last[2] = s.block
      BY <1>2, <1>7, <2>1
    <2>3. Waiting /\ op = "pull" /\ x.file = cur =>
            /\ IF SessionAddr(x.sock) = sender THEN s.block <= fsize + 1 ELSE s.block = 1
            /\ SessionAddr(x.sock) = sender => (~Positional => Reached <= x.off)
      BY <1>1, <1>2, PullSessionIs
    <2>4. /\ s.block \in Nat /\ s.off \in Nat
          /\ ~Positional => x.off <= s.off /\ (s.last = Empty \/ s.last[2] > x.off)
      BY <1>2, <1>7, <1>8
    <2>5. Fits(s)
      BY <1>1, <1>2, <1>8, <2>2, <2>3, <2>4, ReaderFits
    <2> QED
      BY <1>1, <1>2, <1>6, <1>7, <2>5
  <1>9. CASE x.w_r = "write"
    <2>1. ~(op = "pull" /\ s.file = cur)
      BY <1>1, <1>2, <1>9 DEF OrderSession, Pushed
    <2>2. ~Positional => \A m \in net :
            m.type = "DATA" /\ m.from = SessionAddr(s.sock) => m.chunk[2] <= s.off
      BY <1>1, <1>2, <1>9 DEF OrderInv, ReadSoFar
    <2>3. Fits(s)
      BY <2>1, <2>2 DEF Fits
    <2> QED
      BY <1>1, <1>2, <1>6, <1>7, <2>3
  <1> QED
    BY <1>7, <1>8, <1>9

LEMMA OrderServerTimeout ==
  ASSUME TypeOK, TypeOK', OrderInv, OrderlySetting, UNCHANGED cvars, ServerTimeout
  PROVE  OrderInv'
  <1> DEFINE retrying == {i \in Occupied : MayRetry(table[i])}
  <1>1. PICK f \in [Slots -> SendFailures], fails \in [Slots -> MayFail("read")] :
          LET s == [i \in retrying |-> TimedOut(table[i], fails[i])]
          IN  /\ table' = [i \in Slots |-> IF i \in retrying
                                           THEN AfterSend(s[i], f[i])
                                           ELSE NoSession]
              /\ Send(UNION {ReplyPacket(s[i], f[i]) : i \in retrying})
    BY DEF ServerTimeout
  <1>2. PICK r : r = retrying
    OBVIOUS
  <1>3. PICK s : s = [i \in r |-> TimedOut(table[i], fails[i])]
    OBVIOUS
  <1>4. r \subseteq Slots /\ \A i \in r : i \in Occupied /\ MayRetry(table[i])
    BY <1>2 DEF Occupied
  <1>5. /\ \A i \in Slots : table'[i] = IF i \in r THEN AfterSend(s[i], f[i])
                                       ELSE NoSession
        /\ \A e \in net' : e \in net \/ \E i \in r : e \in ReplyPacket(s[i], f[i])
    BY <1>1, <1>2, <1>3, <1>4 DEF Send
  <1>6. \A i \in r : s[i] = TimedOut(table[i], fails[i]) /\ fails[i] \in BOOLEAN
    BY <1>3, <1>4, MayFailType
  <1> HIDE DEF retrying
  <1>7. UNCHANGED dst /\ UNCHANGED nextSock
    BY DEF ServerTimeout
  <1>8. \A i \in Slots : table'[i].sock = 0 \/ (i \in r /\ table'[i] = s[i])
    BY <1>5 DEF AfterSend, NoSession
  <1>9. ASSUME NEW i \in r
        PROVE  s[i].sock = table[i].sock /\ s[i].file = table[i].file
    <2>1. PICK x \in Sessions : x = table[i] /\ OrderSession(x) /\ MayRetry(x)
      BY <1>4 DEF OrderInv, OrderSessions, Occupied, TypeOK, ServerType
    <2>2. PICK fail \in BOOLEAN : fail = fails[i]
      BY <1>6
    <2>3. PICK z : z = s[i] /\ z = TimedOut(x, fail)
      BY <1>6, <2>1, <2>2
    <2>4. z.sock = x.sock /\ z.file = x.file
      BY <2>1, <2>3, OrderTimedOut
    <2> QED
      BY <2>1, <2>3, <2>4
  <1>10. Keeps
    <2>1. \A j \in Slots : \/ table'[j].sock \in {0, nextSock}
                           \/ /\ table'[j].sock = table[j].sock
                              /\ table'[j].file = table[j].file
      BY <1>8, <1>9
    <2> QED
      BY <1>7, <2>1, SlotsKeep
  <1>11. ASSUME NEW i \in r
         PROVE  OrderSession(s[i])' /\ s[i].w_r \in {"read", "write"} /\ Fits(s[i])
    <2>1. i \in Occupied /\ MayRetry(table[i])
      BY <1>4
    <2>2. PICK fail \in BOOLEAN : fail = fails[i]
      BY <1>6
    <2>3. PICK z : z = s[i] /\ z = TimedOut(table[i], fail)
      BY <1>6, <2>2
    <2>4. OrderSession(z)' /\ z.w_r \in {"read", "write"} /\ Fits(z)
      BY <1>7, <1>10, <2>1, <2>3, OrderRetries
    <2> QED
      BY <2>3, <2>4 DEF OrderSession
  <1>12. \A i \in Slots : \/ table'[i].sock = 0
                          \/ table'[i] = IF i \in r THEN s[i] ELSE table[i]
    BY <1>8
  <1>13. \A i \in r : \A j \in Slots :
           i # j => table'[j].sock = 0 \/ table'[j].sock # s[i].sock
    <2> SUFFICES ASSUME NEW i \in r, NEW j \in Slots, i # j, table'[j].sock # 0
                 PROVE  table'[j].sock # s[i].sock
      OBVIOUS
    <2>1. j \in r /\ table'[j].sock = table[j].sock /\ s[i].sock = table[i].sock
      BY <1>8, <1>9
    <2>2. table[i].sock # table[j].sock
      BY <1>4, <2>1 DEF OrderInv, OrderSessions
    <2> QED
      BY <2>1, <2>2
  <1>14. \A e \in net' : e \in net \/ \E i \in r : \E g : e \in ReplyPacket(s[i], g)
    BY <1>5
  <1> QED
    BY <1>4, <1>7, <1>10, <1>11, <1>12, <1>13, <1>14, OrderServer

-----------------------------------------------------------------------------
(***************************************************************************)
(* A block stored by the server.  Its transfer is a push, so no pull that   *)
(* is waiting is concerned.                                                 *)
(***************************************************************************)
LEMMA OrderStored ==
  ASSUME TypeOK, OrderInv, OrderlySetting, NEW m \in net, NEW i \in Slots,
         WriteStored(i, m)
  PROVE  \E t \in 1 .. cur, p \in 0 .. FullBlocks :
           /\ t \in Transfers /\ t = table[i].file /\ p = table[i].pos
           /\ Pushed(t) /\ Holds(t, p) /\ p \in 0 .. FileLen
           /\ m.block = p + 1 /\ m.chunk = tftp_file_read(t, p)
           /\ m.from = ClientAddr(t)
           /\ dst' = [dst EXCEPT ![t] = tftp_file_write(@, p, tftp_file_read(t, p))]
  <1>1. PICK x : x = table[i]
    OBVIOUS
  <1>2. /\ x \in Sessions /\ OrderSession(x) /\ x.w_r = "write" /\ m.type = "DATA"
        /\ m.from = ClientAddr(x.file) /\ m.block = Inc(x.block) /\ x.file \in Transfers
        /\ m.chunk = tftp_file_read(x.file, m.block - 1) /\ m.block \in Nat
    BY <1>1, OrderSessionMail DEF WriteStored, tftp_read_data
  <1>3. PICK t \in 1 .. cur, p \in 0 .. FullBlocks :
          /\ t = x.file /\ p = x.pos /\ x.block = p /\ Holds(t, p) /\ Pushed(t)
    BY <1>2 DEF OrderSession
  <1>4. p \in 0 .. FileLen /\ m.block = p + 1 /\ m.chunk = tftp_file_read(t, p)
    BY <1>2, <1>3, IncIs, FileLenIs
  <1>5. dst' = [dst EXCEPT ![x.file] = tftp_file_write(@, x.pos, m.chunk)]
    BY <1>1, <1>2 DEF WriteStored, Received, Sessions
  <1> QED
    BY <1>1, <1>2, <1>3, <1>4, <1>5

LEMMA OrderWriteStored ==
  ASSUME TypeOK, TypeOK', OrderInv, OrderlySetting, UNCHANGED cvars, NEW m \in net,
         NEW i \in Slots, WriteStored(i, m)
  PROVE  OrderInv'
  <1>1. PICK x : x = table[i]
    OBVIOUS
  <1>2. /\ x \in Sessions /\ OrderSession(x) /\ x.w_r = "write"
        /\ x.sock \in 1 .. MaxSocks /\ i \in Occupied
    BY <1>1, OrderSessionMail DEF WriteStored, tftp_read_data, Ready
  <1>stored. PICK t \in 1 .. cur, p \in 0 .. FullBlocks :
          /\ t \in Transfers /\ t = x.file /\ p = x.pos
          /\ Pushed(t) /\ Holds(t, p) /\ p \in 0 .. FileLen
          /\ m.block = p + 1 /\ m.chunk = tftp_file_read(t, p) /\ m.from = ClientAddr(t)
          /\ dst' = [dst EXCEPT ![t] = tftp_file_write(@, p, tftp_file_read(t, p))]
    BY <1>1, OrderStored
  <1>3. PICK c :
          /\ t \in Transfers /\ t = x.file /\ p = x.pos /\ c = tftp_file_read(t, p)
          /\ Pushed(t) /\ Holds(t, p) /\ p \in 0 .. FileLen
          /\ m.block = p + 1 /\ m.chunk = c /\ m.from = ClientAddr(t)
          /\ dst' = [dst EXCEPT ![t] = tftp_file_write(@, p, c)]
    BY <1>stored
  <1>4. PICK s, f :
          /\ s = [[x EXCEPT !.peer = m.from]
                    EXCEPT !.block = m.block, !.pos = @ + Size(m.chunk)]
          /\ Receive(m, AckPacket(s, f))
          /\ table' = [table EXCEPT ![i] =
               IF Destroyed(f) \/ IsShort(m.chunk) THEN NoSession ELSE s]
    BY <1>1 DEF WriteStored, Received
  <1>5. /\ s.sock = x.sock /\ s.file = t /\ s.peer = ClientAddr(t) /\ s.off = x.off
        /\ s.w_r = "write" /\ s.block = p + 1 /\ s.pos = p + Size(c)
    BY <1>2, <1>3, <1>4 DEF Sessions
  <1>6. /\ Prefixed(t)' /\ Grows /\ Holds(t, p + 1)'
        /\ \A u \in Transfers : u # t => dst'[u] = dst[u]
        /\ \A u \in Transfers : dst[u] = SourceFile(u) => dst'[u] = SourceFile(u)
    BY <1>3, WriteExtends DEF TypeOK, Pushed
  <1>7. /\ table'[i] = s \/ table'[i].sock = 0
        /\ IsShort(c) => table'[i].sock = 0
        /\ \A j \in Slots : j # i => table'[j] = table[j]
    BY <1>3, <1>4 DEF NoSession, TypeOK, ServerType
  <1>8. Keeps
    <2>1. \A j \in Slots : \/ table'[j].sock \in {0, nextSock}
                           \/ /\ table'[j].sock = table[j].sock
                              /\ table'[j].file = table[j].file
      BY <1>1, <1>3, <1>5, <1>7
    <2>2. UNCHANGED nextSock
      BY DEF WriteStored
    <2> QED
      BY <2>1, <2>2, SlotsKeep
  <1>9. UNCHANGED <<cpc, cur, op, block, sender, fsize, outcome>>
        /\ FileLen' = FileLen
    BY DEF cvars, FileLen
  <1>10. \A u \in Transfers : Pushed(u) => Pushed(u)'
    <2> SUFFICES ASSUME NEW u \in Transfers, Pushed(u) PROVE Prefixed(u)'
      BY <1>9 DEF Pushed
    <2> QED
      BY <1>6, <1>9 DEF Pushed, Prefixed
  <1>11. PushesStay
    BY <1>9, <1>10, Begun DEF PushesStay
  <1>12. Belongs(x.sock, t)'
    BY <1>2, <1>3, <1>8 DEF Keeps, OrderSession
  <1>13. PICK ack : ack = Ack(p + 1, SessionAddr(x.sock), ClientAddr(t))
    OBVIOUS
  <1>14. /\ ack.type = "ACK" /\ ack.from = SessionAddr(x.sock) /\ ack.to = ClientAddr(t)
         /\ ack.block = p + 1
         /\ \A e \in net' : e \in net \/ e = ack
    BY <1>4, <1>5, <1>13 DEF Receive, AckPacket, Ack
  <1>15. OrderPacket(ack)'
    <2>1. Between(ack, t)'
      BY <1>2, <1>12, <1>14 DEF Between
    <2> QED
      BY <1>3, <1>6, <1>9, <1>14, <2>1 DEF OrderPacket, OrderAck
  <1>16. ASSUME ~IsShort(c) PROVE OrderSession(s)'
    <2>1. p < FullBlocks /\ Size(c) = 1
      BY <1>3, <1>16, ShortIsLast
    <2>2. p + 1 \in 0 .. FullBlocks
      BY <2>1, FileLenIs
    <2>3. Pushed(t)'
      BY <1>3, <1>10
    <2> QED
      BY <1>3, <1>5, <1>6, <1>9, <1>12, <2>1, <2>2, <2>3 DEF OrderSession
  <1>17. OrderPackets' /\ OrderSessions'
    <2>1. \A j \in Slots : \/ table'[j] = table[j] \/ table'[j].sock = 0
                           \/ OrderSession(table[j])'
      <3>1. ~IsShort(c) /\ table'[i] = s => OrderSession(table[i])'
        BY <1>16 DEF OrderSession
      <3> QED
        BY <1>7, <3>1
    <2>2. \A j, k \in Slots :
            table'[j].sock = table'[k].sock /\ table'[j].sock # 0 => j = k
      <3>1. \A j \in Slots : table'[j].sock \in {0, table[j].sock}
        BY <1>1, <1>5, <1>7
      <3> QED
        BY <3>1 DEF OrderInv, OrderSessions, Occupied
    <2> QED
      BY <1>6, <1>8, <1>11, <1>14, <1>15, <2>1, <2>2, OrderKeeps
  <1>18. ReadSoFar'
    <2> SUFFICES ASSUME ~Positional, NEW j \in Slots, table'[j].sock # 0, NEW e \in net',
                        e.type = "DATA", e.from = SessionAddr(table'[j].sock)
                 PROVE  e.chunk[2] <= table'[j].off
      BY DEF ReadSoFar, Occupied, Slots
    <2>1. e \in net
      BY <1>14
    <2>2. table'[j].sock = table[j].sock /\ table'[j].off = table[j].off
      BY <1>1, <1>5, <1>7
    <2> QED
      BY <2>1, <2>2 DEF OrderInv, ReadSoFar, Occupied
  <1>19. OrderPull'
    <2> SUFFICES ASSUME Waiting, op = "pull" PROVE OrderPull'
      BY <1>9 DEF OrderPull, Waiting
    <2>1. t # cur /\ cur \in Transfers
      BY <1>3, CallIs DEF Pushed
    <2>2. dst'[cur] = dst[cur] /\ Reached' = Reached /\ Me' = Me
      BY <1>6, <1>9, <2>1 DEF Reached, Me
    <2>3. \A e \in net' : PullMail(e)'
      <3>1. ack.from # Me
        BY <1>14, MeIs, AddrsDiffer
      <3>2. \A e \in net' : PullMail(e)
        BY <1>14, <3>1 DEF OrderInv, OrderPull, PullMail
      <3> QED
        BY <1>9, <2>2, <3>2 DEF PullMail
    <2>4. ASSUME NEW j \in Slots, table'[j].sock # 0 PROVE PullSession(table[j])'
      <3>1. CASE j = i
        <4>1. table'[j].file = t
          BY <1>5, <1>7, <2>4, <3>1
        <4> QED
          BY <1>9, <2>1, <4>1 DEF PullSession
      <3>2. CASE j # i
        <4>1. table'[j] = table[j] /\ PullSession(table[j])
          BY <1>7, <2>4, <3>2 DEF OrderInv, OrderPull, Occupied
        <4> QED
          BY <1>9, <2>2, <4>1 DEF PullSession
      <3> QED
        BY <3>1, <3>2
    <2>5. \A j \in Occupied' : PullSession(table[j])'
      BY <2>4 DEF Occupied, Slots
    <2> QED
      BY <1>9, <2>2, <2>3, <2>5 DEF OrderInv, OrderPull
  <1>20. OrderPush'
    <2> SUFFICES ASSUME op = "push", cur > 0 PROVE OrderPush'
      BY <1>9 DEF OrderPush
    <2>1. cur \in Transfers
      BY PortAssumption DEF TypeOK, ClientType, Transfers
    <2>2. Prefixed(cur)'
      <3>1. Pushed(cur)
        BY DEF OrderInv, OrderPush, Pushed
      <3> QED
        BY <1>6, <1>9, <2>1, <3>1 DEF Pushed, Prefixed
    <2> QED
      BY <1>9, <2>2 DEF OrderInv, OrderPush, Prefixed, Waiting
  <1>21. OrderSender'
    <2> SUFFICES ASSUME cpc = "data" PROVE OrderSender'
      BY <1>9 DEF OrderSender
    <2>1. PICK n \in 1 .. MaxSocks : sender = SessionAddr(n) /\ Belongs(n, cur)
      BY DEF OrderInv, OrderSender
    <2>2. Belongs(n, cur)'
      <3>1. PICK u \in Transfers : u = cur
        BY CallIs DEF Waiting
      <3>2. Belongs(n, u)'
        BY <1>8, <2>1, <3>1 DEF Keeps
      <3> QED
        BY <1>9, <3>1, <3>2 DEF Belongs
    <2> QED
      BY <1>9, <2>1, <2>2 DEF OrderSender, Belongs
  <1>22. NotBegun'
    <2> SUFFICES ASSUME NEW u \in Transfers, u > cur
                 PROVE  dst'[u] = OldFile /\ outcome'[u] = "none"
      BY <1>9 DEF NotBegun, OldFile
    <2>1. u # t
      BY Begun
    <2> QED
      BY <1>6, <1>9, <2>1 DEF OrderInv, NotBegun
  <1>23. PushedIsWhole'
    <2> SUFFICES ASSUME op = "push", cur # 0, outcome[cur] = "complete"
                 PROVE  dst'[cur] = SourceFile(cur)
      BY <1>9 DEF PushedIsWhole, SourceFile
    <2>1. cur \in Transfers
      BY PortAssumption DEF TypeOK, ClientType, Transfers
    <2> QED
      BY <1>6, <2>1 DEF OrderInv, PushedIsWhole
  <1>24. InOrder'
    <2> SUFFICES ASSUME NEW u \in Transfers
                 PROVE  \E n \in 0 .. FileLen :
                          /\ DOMAIN dst'[u] = 1 .. n
                          /\ \A h \in 1 .. n : dst'[u][h] \in {u} \X (h .. FileLen)
                          /\ \A h, j \in 1 .. n : h < j => dst'[u][h][2] < dst'[u][j][2]
      BY <1>9 DEF InOrder
    <2>1. CASE u = t
      <3>1. PICK n \in 0 .. FileLen : dst'[t] = [h \in 1 .. n |-> <<t, h>>]
        BY <1>6, <1>9 DEF Prefixed
      <3>2. PICK d : d = dst'[t]
        OBVIOUS
      <3>3. /\ DOMAIN d = 1 .. n
            /\ \A h \in 1 .. n : d[h] \in {t} \X (h .. FileLen)
            /\ \A h, j \in 1 .. n : h < j => d[h][2] < d[j][2]
        BY <3>1, <3>2, PrefixInOrder
      <3> QED
        BY <2>1, <3>2, <3>3
    <2>2. CASE u # t
      BY <1>6, <2>2 DEF OrderInv, InOrder
    <2> QED
      BY <2>1, <2>2
  <1>25. Positional => PrefixStored'
    BY <1>3, <1>6, PrefixStays DEF OrderInv
  <1> QED
    BY <1>17, <1>18, <1>19, <1>20, <1>21, <1>22, <1>23, <1>24, <1>25 DEF OrderInv

-----------------------------------------------------------------------------
LEMMA OrderInit == ASSUME OrderlySetting, Init PROVE OrderInv
  <1>1. /\ net = {} /\ ~Waiting /\ cpc # "data" /\ Occupied = {}
        /\ op = "pull" /\ cur = 0
    BY DEF Init, XferInit, ClientInit, ServerInit, Waiting, Occupied, NoSession
  <1>2. \A t \in Transfers : dst[t] = OldFile /\ outcome[t] = "none"
    BY DEF Init, PortInit, ClientInit
  <1>3. \A t \in Transfers : dst[t] = [i \in 1 .. 0 |-> <<t, i>>]
    BY <1>2 DEF OldFile, OrderlySetting
  <1>4. 0 \in 0 .. FileLen
    BY FileLenIs
  <1>5. PrefixStored
    BY <1>3, <1>4 DEF PrefixStored
  <1>6. InOrder
    BY <1>3, <1>4 DEF InOrder
  <1>7. OrderPackets /\ OrderSessions /\ ReadSoFar
    BY <1>1 DEF OrderPackets, OrderSessions, ReadSoFar
  <1>8. OrderPull /\ OrderPush /\ OrderSender /\ NotBegun /\ PushedIsWhole
    BY <1>1, <1>2 DEF OrderPull, OrderPush, OrderSender, NotBegun, PushedIsWhole
  <1> QED
    BY <1>5, <1>6, <1>7, <1>8 DEF OrderInv

LEMMA OrderNext ==
  ASSUME OrderlySetting, TypeOK, OrderInv, [Next]_vars
  PROVE  OrderInv'
  <1>0. TypeOK'
    BY NextTypes
  <1>1. CASE Start
    BY <1>1, OrderStart DEF Start
  <1>2. CASE ClientTimer
    BY <1>2, OrderTimeout DEF ClientTimer
  <1>3. CASE ClientFault
    BY <1>3, OrderSelectError DEF ClientFault
  <1>4. CASE ClientInput
    <2>1. PICK m \in net : ClientReceive(m) /\ UNCHANGED svars
      BY <1>4 DEF ClientInput
    <2> QED
      BY <2>1, OrderFails, OrderPullStores, OrderPushGranted, OrderPushAcked
      DEF ClientReceive
  <1>5. CASE ServerTimer
    BY <1>0, <1>5, OrderServerTimeout DEF ServerTimer
  <1>6. CASE ServerAccept
    BY <1>0, <1>6, OrderRequestStep DEF ServerAccept
  <1>7. CASE ServerInput
    <2>1. PICK m \in net, i \in Slots : ServerData(i, m) /\ UNCHANGED cvars
      BY <1>7 DEF ServerInput
    <2> QED
      BY <1>0, <2>1, OrderReadAcked, OrderWriteStored, OrderDrop DEF ServerData
  <1>8. CASE ServerLife
    BY <1>0, <1>8, OrderLife DEF ServerLife
  <1>9. CASE NetworkLoss
    BY <1>0, <1>9, OrderLoss
  <1>10. CASE UNCHANGED vars
    BY <1>0, <1>10, OrderFrees DEF vars, svars
  <1> QED
    BY <1>1, <1>2, <1>3, <1>4, <1>5, <1>6, <1>7, <1>8, <1>9, <1>10 DEF Next

(***************************************************************************)
(* With any backend and any fault, for any number and length of files, of   *)
(* slots, of retries and of lost, late and repeated datagrams, OrderInv     *)
(* always holds: who acknowledges which block of a pull, how far its        *)
(* session may be ahead, and what a push can meet.                          *)
(***************************************************************************)
THEOREM OrderInvariance == OrderlySetting => (Spec => []OrderInv)
  <1> SUFFICES ASSUME OrderlySetting PROVE Spec => []OrderInv
    OBVIOUS
  <1>1. Init => OrderInv
    BY OrderInit
  <1>2. TypeOK /\ OrderInv /\ [Next]_vars => OrderInv'
    BY OrderNext
  <1> QED
    BY <1>1, <1>2, TypeCorrect, PTL DEF Spec

(***************************************************************************)
(* A copy has no hole and holds chunks of its own source in their order     *)
(* there, none twice: also with the repository's backend, whose read takes  *)
(* the next chunk for a resend and whose failed reads end a file early.     *)
(***************************************************************************)
THEOREM InOrderAlways == OrderlySetting => (Spec => []InOrder)
  <1>1. OrderInv => InOrder
    BY DEF OrderInv
  <1> QED
    BY <1>1, OrderInvariance, PTL

(***************************************************************************)
(* A push that leaves by its last acknowledgement has copied the whole      *)
(* file, whatever the backend does to the pulls before it                   *)
(* (tftp_client_push).                                                      *)
(***************************************************************************)
THEOREM PushesWhole == OrderlySetting => (Spec => []PushedIsWhole)
  <1>1. OrderInv => PushedIsWhole
    BY DEF OrderInv
  <1> QED
    BY <1>1, OrderInvariance, PTL

(***************************************************************************)
(* With a backend that honours the position it is given, a destination is a *)
(* prefix of its source even when opens and reads fail unseen.              *)
(***************************************************************************)
THEOREM PrefixWithFaults ==
  OrderlySetting /\ Positional => (Spec => []PrefixStored)
  <1> SUFFICES ASSUME OrderlySetting, Positional PROVE Spec => []PrefixStored
    OBVIOUS
  <1>1. OrderInv => PrefixStored
    BY DEF OrderInv
  <1> QED
    BY <1>1, OrderInvariance, PTL

-----------------------------------------------------------------------------
\* What a pull stores goes behind what it has.
LEMMA PullAppends ==
  ASSUME TypeOK, OrderInv, OrderlySetting, NEW m \in net, PullStores(m)
  PROVE  \E t \in Transfers, p \in Nat, q \in Nat : Appends(t, p, q, m.chunk)
  <1>1. /\ Waiting /\ m.to = Me /\ m.type = "DATA" /\ op = "pull"
        /\ m.block = Inc(block)
    BY DEF PullStores, tftp_read_data
  <1>2. PICK t \in Transfers : t = cur
    BY <1>1, CallIs
  <1>3. PICK p \in 0 .. FullBlocks :
          p = fsize /\ p = block /\ DOMAIN dst[t] = 1 .. p
    BY <1>1, <1>2 DEF OrderInv, OrderPull
  <1>4. m.block = p + 1 /\ p \in Nat
    BY <1>1, <1>3, IncIs, FileLenIs
  <1>5. PICK q \in Nat : q = Reached
    BY <1>1, ReachedIs
  <1>6. FromReader(t, p + 1, m.chunk) /\ (m.chunk = Empty \/ m.chunk[2] > q)
    BY <1>1, <1>2, <1>3, <1>4, <1>5, OrderClientMail
  <1>7. dst' = [dst EXCEPT ![t] = tftp_file_write(@, p, m.chunk)]
    BY <1>2, <1>3 DEF PullStores
  <1>8. q = IF p = 0 THEN 0 ELSE dst[t][p][2]
    BY <1>2, <1>3, <1>5 DEF Reached
  <1>9. Appends(t, p, q, m.chunk)
    BY <1>3, <1>6, <1>7, <1>8 DEF Appends
  <1> QED
    BY <1>4, <1>9

\* A step keeps every chunk that is stored.
LEMMA NothingLost ==
  ASSUME TypeOK, OrderInv, OrderlySetting, [Next]_vars
  PROVE  \/ dst' = dst
         \/ \A t \in Transfers : \A i \in DOMAIN dst[t] :
              i \in DOMAIN dst'[t] /\ dst'[t][i] = dst[t][i]
  <1>1. CASE \E m \in net : PullStores(m)
    <2>1. PICK m \in net : PullStores(m)
      BY <1>1
    <2>2. PICK t \in Transfers, p \in Nat, q \in Nat : Appends(t, p, q, m.chunk)
      BY <2>1, PullAppends
    <2>3. FilesType /\ InOrder
      BY DEF TypeOK, OrderInv
    <2>4. /\ \A u \in Transfers : u # t => dst'[u] = dst[u]
          /\ \A i \in DOMAIN dst[t] : i \in DOMAIN dst'[t] /\ dst'[t][i] = dst[t][i]
      BY <2>2, <2>3, AppendKeeps
    <2> QED
      BY <2>4
  <1>2. CASE \E m \in net, i \in Slots : WriteStored(i, m)
    <2>1. PICK m \in net, j \in Slots : WriteStored(j, m)
      BY <1>2
    <2>2. PICK t \in Transfers, p \in 0 .. FileLen :
            /\ Prefixed(t) /\ Holds(t, p)
            /\ dst' = [dst EXCEPT ![t] = tftp_file_write(@, p, tftp_file_read(t, p))]
      BY <2>1, OrderStored DEF Pushed
    <2>3. \/ dst' = dst
          \/ \E n \in 0 .. FileLen - 1 :
               /\ dst[t] = [i \in 1 .. n |-> <<t, i>>]
               /\ dst' = [dst EXCEPT ![t] = [i \in 1 .. n + 1 |-> <<t, i>>]]
      BY <2>2, WriteExtends DEF TypeOK
    <2> SUFFICES ASSUME NEW n \in 0 .. FileLen - 1,
                        dst[t] = [i \in 1 .. n |-> <<t, i>>],
                        dst' = [dst EXCEPT ![t] = [i \in 1 .. n + 1 |-> <<t, i>>]]
                 PROVE  \A u \in Transfers : \A i \in DOMAIN dst[u] :
                          i \in DOMAIN dst'[u] /\ dst'[u][i] = dst[u][i]
      BY <2>3
    <2>4. dst'[t] = [i \in 1 .. n + 1 |-> <<t, i>>]
          /\ \A u \in Transfers : u # t => dst'[u] = dst[u]
      BY DEF TypeOK, FilesType
    <2>5. \A i \in 1 .. n : i \in 1 .. n + 1
      BY FileLenIs
    <2> QED
      BY <2>4, <2>5
  <1>3. CASE /\ ~\E m \in net : PullStores(m)
             /\ ~\E m \in net, i \in Slots : WriteStored(i, m)
    <2>1. CASE Start \/ ClientTimer \/ ClientFault
      BY <2>1 DEF Start, ClientStart, ClientTimer, ClientTimeout, ClientFault,
                  ClientSelectError
    <2>2. CASE ClientInput
      BY <1>3, <2>2
      DEF ClientInput, ClientReceive, PullOpenFails, PullRejects, PullWriteFails,
          PushGranted, PushOpenFails, PushAcked, PushRejects, PushBlock
    <2>3. CASE ServerTimer \/ ServerAccept \/ ServerLife \/ NetworkLoss \/ UNCHANGED vars
      BY <2>3
      DEF ServerTimer, ServerTimeout, ServerAccept, ServerRequest, ServerLife,
          ServerExit, ServerStart, NetworkLoss, Lose, vars
    <2>4. CASE ServerInput
      BY <1>3, <2>4
      DEF ServerInput, ServerData, ReadAcked, ReadBadAck, WriteFails, WriteBadData
    <2> QED
      BY <2>1, <2>2, <2>3, <2>4 DEF Next
  <1> QED
    BY <1>1, <1>2, <1>3

(***************************************************************************)
(* Chunks once stored stay stored, whatever the backend and the faults: no  *)
(* late or repeated datagram makes either side rewrite a file.              *)
(***************************************************************************)
THEOREM StoredAnyBackend == OrderlySetting => (Spec => KeepsStored)
  <1> SUFFICES ASSUME OrderlySetting PROVE Spec => KeepsStored
    OBVIOUS
  <1>1. TypeOK /\ OrderInv /\ [Next]_vars =>
          [\A t \in Transfers : \A i \in DOMAIN dst[t] :
             i \in DOMAIN dst'[t] /\ dst'[t][i] = dst[t][i]]_dst
    BY NothingLost
  <1> QED
    BY <1>1, TypeCorrect, OrderInvariance, PTL DEF Spec, KeepsStored
=============================================================================
