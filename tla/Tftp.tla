-------------------------------- MODULE Tftp --------------------------------
(***************************************************************************)
(* A TFTP client and a TFTP server of the package joined by the network.    *)
(***************************************************************************)
EXTENDS TftpClient, TftpServer

CONSTANTS Prompt,   \* do datagrams arrive well within the 5 s of a select?
          Stops     \* may the server be stopped and started again?

ASSUME TftpAssumption == Prompt \in BOOLEAN /\ Stops \in BOOLEAN

vars == <<dst, net, lost, cvars, svars>>

Init == PortInit /\ XferInit /\ ClientInit /\ ServerInit

\* A datagram some open socket will receive.
Deliverable(m) ==
  \/ Waiting /\ m.to = Me
  \/ server = "up" /\ m.to = ServerAddr
  \/ server = "up" /\ \E i \in Occupied : m.to = SessionAddr(table[i].sock)

TimersMayFire == Prompt => ~\E m \in net : Deliverable(m)

Start == \E o \in Ops : ClientStart(o) /\ UNCHANGED svars
ClientTimer == TimersMayFire /\ ClientTimeout /\ UNCHANGED svars
ClientFault == ClientSelectError /\ UNCHANGED svars
ClientInput == \E m \in net : ClientReceive(m) /\ UNCHANGED svars

ServerTimer == TimersMayFire /\ ServerTimeout /\ UNCHANGED cvars
ServerAccept == \E m \in net : ServerRequest(m) /\ UNCHANGED cvars
ServerInput == \E m \in net, i \in Slots : ServerData(i, m) /\ UNCHANGED cvars
ServerLife == Stops /\ (ServerExit \/ ServerStart) /\ UNCHANGED cvars

NetworkLoss == Lose /\ UNCHANGED <<cvars, svars>>

Next == \/ Start \/ ClientTimer \/ ClientFault \/ ClientInput
        \/ ServerTimer \/ ServerAccept \/ ServerInput \/ ServerLife
        \/ NetworkLoss

Spec == Init /\ [][Next]_vars

(***************************************************************************)
(* Both threads run: a select that may return does return, with a datagram  *)
(* or with a timeout.  Nothing is assumed of the network, of the user who   *)
(* calls the client, or of a stop of the server.                            *)
(***************************************************************************)
FairSpec == /\ Spec
            /\ WF_vars(ClientTimer \/ ClientInput)
            /\ WF_vars(ServerTimer \/ ServerAccept \/ ServerInput)

-----------------------------------------------------------------------------
FilesType ==
  /\ dst = [t \in Transfers |-> dst[t]]
  /\ \A t \in Transfers : \A i \in DOMAIN dst[t] :
       i \in Nat /\ dst[t][i] \in Chunks

NetType == net \subseteq Packets /\ lost \in 0 .. MaxLoss

ClientType ==
  /\ cpc \in {"idle", "request", "data", "done"}
  /\ cur \in 0 .. MaxTransfers
  /\ Waiting => cur > 0
  /\ op \in {"pull", "push"} /\ block \in Blocks /\ sender \in Addrs
  /\ retry \in 0 .. MaxRetry /\ fsize \in Nat /\ err \in {"OK", "ERR"}
  /\ outcome \in [Transfers -> Outcomes]

ServerType ==
  /\ server \in {"up", "down", "crashed"}
  /\ table \in [Slots -> Sessions]
  /\ nextSock \in 1 .. MaxSocks + 1

\* The variables of every module have their types.
TypeOK == FilesType /\ NetType /\ ClientType /\ ServerType

(***************************************************************************)
(* Whatever is lost, delayed, reordered or repeated, and however many        *)
(* sessions write it, a destination is at every moment a prefix of its      *)
(* source: chunks are stored in order, none twice, none of another file     *)
(* (tftp_client_pull, EVENT_DATA of tftp_server_transf_handle).             *)
(***************************************************************************)
PrefixStored ==
  \A t \in Transfers : \E n \in 0 .. FileLen :
    dst[t] = [i \in 1 .. n |-> <<t, i>>]

(***************************************************************************)
(* A transfer that took the exit of a completed reception or of the last    *)
(* acknowledged block has copied the whole file, and no later retransmitted *)
(* request, session or stop of the server damages the copy.                 *)
(***************************************************************************)
CompleteIsWhole ==
  \A t \in Transfers : outcome[t] = "complete" => dst[t] = SourceFile(t)

(***************************************************************************)
(* Whatever the backend does with the position it is given, and whatever    *)
(* reads and opens fail unseen: a copy has no hole, and holds chunks of its *)
(* own source, in their order there and none twice.                         *)
(***************************************************************************)
InOrder ==
  \A t \in Transfers : \E n \in 0 .. FileLen :
    /\ DOMAIN dst[t] = 1 .. n
    /\ \A i \in 1 .. n : dst[t][i] \in {t} \X (i .. FileLen)
    /\ \A i, j \in 1 .. n : i < j => dst[t][i][2] < dst[t][j][2]

(***************************************************************************)
(* A push that leaves by the acknowledgement of its last block (which the   *)
(* value it returns does not tell) has copied the whole file, also when the *)
(* backend spoils the pulls before it, and no late session of its own, nor  *)
(* of another transfer, damages the copy.                                   *)
(***************************************************************************)
PushedIsWhole ==
  op = "push" /\ cur # 0 /\ outcome[cur] = "complete" => dst[cur] = SourceFile(cur)

(***************************************************************************)
(* A side acknowledges a block only once that block is in the file it       *)
(* writes: an ACK of block b in flight means the b first chunks are stored, *)
(* and an ACK beyond the full blocks that the copy is whole.                *)
(***************************************************************************)
FileOf(m) == IF m.from[1] = "client" THEN m.from[2] ELSE m.to[2]

AckedIsStored ==
  \A m \in net : m.type = "ACK" =>
    \A i \in 1 .. m.block : i <= FileLen =>
      /\ i \in DOMAIN dst[FileOf(m)]
      /\ dst[FileOf(m)][i] = <<FileOf(m), i>>

(***************************************************************************)
(* Two blocks of the same number from the same socket carry the same chunk: *)
(* what a timeout sends is what was sent before ("resend file").            *)
(***************************************************************************)
ResendsSameChunk ==
  \A m, n \in net :
    m.type = "DATA" /\ n.type = "DATA" /\ m.from = n.from /\ m.block = n.block
      => m.chunk = n.chunk

\* Chunks once stored stay stored: no step shortens or rewrites a file.
KeepsStored ==
  [][\A t \in Transfers : \A i \in DOMAIN dst[t] :
       i \in DOMAIN dst'[t] /\ dst'[t][i] = dst[t][i]]_dst

\* What the last call has returned to its caller, once it has.
Told == IF cpc = "done" THEN [size |-> fsize, err |-> err]
                        ELSE [size |-> -1, err |-> "none"]

Copy == INSTANCE FileCopy WITH Files <- Transfers, Length <- FileLen,
                               Source <- [t \in Transfers |-> SourceFile(t)],
                               copy <- dst, call <- cur, told <- Told

(***************************************************************************)
(* Client, server and network together keep the promise of FileCopy: files  *)
(* grow front to back, and the size tftp_client_pull or tftp_client_push    *)
(* returns, with whatever client->err, is never more than the copy holds:   *)
(* who is told the whole length has the whole file.                         *)
(***************************************************************************)
KeepsPromise == Copy!Spec

(***************************************************************************)
(* Without loss, and with answers well within 5 s, every call completes: no *)
(* retry, timer or end of session gets in its way.                          *)
(***************************************************************************)
PromptCompletes == Waiting ~> cur # 0 /\ outcome[cur] = "complete"

(***************************************************************************)
(* Every call of the client returns, whatever the network does: at most     *)
(* MaxRetry timeouts pass without an answer.                                *)
(***************************************************************************)
ClientReturns == Waiting ~> cpc = "done"

(***************************************************************************)
(* Every session of the server ends: the slot of a client that stopped      *)
(* answering is free again after the retries.                               *)
(***************************************************************************)
SlotsAreFreed == \A i \in Slots : (i \in Occupied) ~> (i \notin Occupied)

-----------------------------------------------------------------------------
(***************************************************************************)
(* The inductive invariant behind PrefixStored, CompleteIsWhole and         *)
(* AckedIsStored.  It holds when a client object serves one call, the       *)
(* destinations are new, no file has so many blocks that their numbers wrap *)
(* and, if files are pulled, the server's backend is the one it expects:    *)
(* it honours pos, a failed open is NULL and no read fails.                 *)
(***************************************************************************)
OrderlySetting == ~ReuseClient /\ OldBlocks = 0 /\ FileLen + 1 < BlockMod

SoundSetting ==
  /\ OrderlySetting
  /\ "pull" \in Ops => Positional /\ ~OpenFailureUnseen /\ "read" \notin Faults

\* The first b chunks of the copy of t are there, or all there are.
Holds(t, b) == \A i \in 1 .. b : i <= FileLen => i \in DOMAIN dst[t]

\* Socket n was created for transfer t, and for no other.
Belongs(n, t) ==
  /\ n \in 1 .. nextSock - 1
  /\ \A i \in Slots : table[i].sock = n => table[i].file = t

\* m travels between the socket of transfer t and a session's that is t's.
Between(m, t) ==
  \E n \in 1 .. MaxSocks :
    /\ Belongs(n, t)
    /\ \/ m.from = ClientAddr(t) /\ m.to = SessionAddr(n)
       \/ m.from = SessionAddr(n) /\ m.to = ClientAddr(t)

RequestOK(m) ==
  /\ m.chunk[1] \in Transfers /\ m.from = ClientAddr(m.chunk[1])
  /\ m.type = "RRQ" => "pull" \in Ops

DataOK(m) ==
  \E t \in Transfers :
    /\ Between(m, t)
    /\ m.block \in 1 .. FileLen + 1
    /\ m.chunk = tftp_file_read(t, m.block - 1)

AckOK(m) == \E t \in Transfers : Between(m, t) /\ Holds(t, m.block)

PacketOK(m) ==
  /\ m.type \in {"RRQ", "WRQ"} => RequestOK(m)
  /\ m.type = "DATA" => DataOK(m)
  /\ m.type = "ACK" => AckOK(m)

PacketInv == \A m \in net : PacketOK(m)

\* A reader has sent the chunk at pos; a writer has stored the pos first.
SessionOK(s) ==
  /\ s.file \in Transfers /\ Belongs(s.sock, s.file)
  /\ s.peer = ClientAddr(s.file)
  /\ s.w_r = "read" => /\ "pull" \in Ops /\ ~s.bad
                       /\ s.pos \in 0 .. FileLen /\ s.block = s.pos + 1
                       /\ s.last = tftp_file_read(s.file, s.pos)
  /\ s.w_r = "write" => /\ s.pos \in 0 .. FullBlocks /\ s.block = s.pos
                        /\ Holds(s.file, s.pos)

SessionInv == \A i \in Occupied : SessionOK(table[i])

CallInv ==
  Waiting =>
    /\ op \in Ops /\ fsize \in 0 .. FullBlocks /\ Holds(cur, fsize)
    /\ op = "pull" => block = fsize
    /\ op = "push" => block = IF cpc = "request" THEN 0 ELSE fsize + 1
    /\ cpc = "data" => \E n \in 1 .. MaxSocks :
                         sender = SessionAddr(n) /\ Belongs(n, cur)

IInv == PacketInv /\ SessionInv /\ CallInv /\ PrefixStored /\ CompleteIsWhole

-----------------------------------------------------------------------------
(***************************************************************************)
(* The inductive invariant behind InOrder and PushedIsWhole, for every      *)
(* backend and every fault.  A pull is no longer in step with its session:  *)
(* a resend may take the next chunk, or none, so a block is known only to   *)
(* carry a later chunk than the blocks before it.                           *)
(***************************************************************************)
Prefixed(t) == \E n \in 0 .. FileLen : dst[t] = [i \in 1 .. n |-> <<t, i>>]

\* Transfer t is a push: nothing but its own chunks in place gets to its file.
Pushed(t) == (t = cur => op = "push") /\ Prefixed(t)

\* What a reader of t may send as block b.
FromReader(t, b, c) ==
  c = Empty \/ \E k \in b .. FileLen : c = <<t, k>> /\ (Positional => k = b)

OrderRequest(m) ==
  /\ m.chunk[1] \in 1 .. cur /\ m.from = ClientAddr(m.chunk[1])
  /\ m.type = "WRQ" => Pushed(m.chunk[1])

OrderData(m) ==
  \E t \in 1 .. cur :
    /\ Between(m, t)
    /\ m.block \in 1 .. FileLen + 1
    /\ m.from = ClientAddr(t) =>
         Pushed(t) /\ m.chunk = tftp_file_read(t, m.block - 1)
    /\ m.to = ClientAddr(t) => FromReader(t, m.block, m.chunk)

OrderAck(m) ==
  \E t \in 1 .. cur : Between(m, t) /\ (m.to = ClientAddr(t) => Holds(t, m.block))

OrderPacket(m) ==
  /\ m.type \in {"RRQ", "WRQ"} => OrderRequest(m)
  /\ m.type = "DATA" => OrderData(m)
  /\ m.type = "ACK" => OrderAck(m)

OrderPackets == \A m \in net : OrderPacket(m)

\* A reader has read at least the chunks its blocks stand for.
OrderSession(s) ==
  /\ s.file \in 1 .. cur /\ Belongs(s.sock, s.file)
  /\ s.peer = ClientAddr(s.file)
  /\ s.w_r = "read" =>
       /\ s.block \in 1 .. FileLen + 1 /\ FromReader(s.file, s.block, s.last)
       /\ IF Positional THEN s.block = s.pos + 1
          ELSE s.off \in s.block - 1 .. FileLen /\ s.last[2] <= s.off
  /\ s.w_r = "write" => /\ s.pos \in 0 .. FullBlocks /\ s.block = s.pos
                        /\ Holds(s.file, s.pos) /\ Pushed(s.file)

OrderSessions ==
  /\ \A i \in Occupied : OrderSession(table[i])
  /\ \A i, j \in Occupied : table[i].sock = table[j].sock => i = j

\* A session has read past every chunk it has sent.
ReadSoFar ==
  ~Positional => \A i \in Occupied, m \in net :
    m.type = "DATA" /\ m.from = SessionAddr(table[i].sock) =>
      m.chunk[2] <= table[i].off

\* The place in the source of the last chunk the current pull has stored.
Reached == IF fsize = 0 THEN 0 ELSE dst[cur][fsize][2]

(***************************************************************************)
(* A pull acknowledges the blocks of one session only, its sender: what the *)
(* others send is a first block, and the sender is at most one block ahead. *)
(***************************************************************************)
PullMail(m) ==
  /\ m.type = "ACK" /\ m.from = Me => m.to = sender /\ m.block <= fsize
  /\ m.type = "DATA" /\ m.to = Me =>
       IF m.from = sender
       THEN /\ m.block <= fsize + 1
            /\ m.block = fsize + 1 => m.chunk = Empty \/ m.chunk[2] > Reached
       ELSE m.block = 1

PullSession(s) ==
  s.file = cur =>
    IF SessionAddr(s.sock) = sender
    THEN s.block <= fsize + 1 /\ (~Positional => Reached <= s.off)
    ELSE s.block = 1

OrderPull ==
  Waiting /\ op = "pull" =>
    /\ block = fsize /\ fsize \in 0 .. FullBlocks
    /\ DOMAIN dst[cur] = 1 .. fsize /\ Reached <= FullBlocks
    /\ IF cpc = "request" THEN fsize = 0 /\ sender = NoAddr ELSE fsize > 0
    /\ \A m \in net : PullMail(m)
    /\ \A i \in Occupied : PullSession(table[i])

OrderPush ==
  op = "push" /\ cur > 0 =>
    /\ Prefixed(cur)
    /\ Waiting => /\ fsize \in 0 .. FullBlocks
                  /\ block = IF cpc = "request" THEN 0 ELSE fsize + 1

OrderSender ==
  cpc = "data" => \E n \in 1 .. MaxSocks : sender = SessionAddr(n) /\ Belongs(n, cur)

NotBegun == \A t \in Transfers : t > cur => dst[t] = OldFile /\ outcome[t] = "none"

OrderInv ==
  /\ OrderPackets /\ OrderSessions
  /\ ReadSoFar /\ OrderPull /\ OrderPush /\ OrderSender /\ NotBegun
  /\ InOrder /\ PushedIsWhole /\ (Positional => PrefixStored)
=============================================================================
