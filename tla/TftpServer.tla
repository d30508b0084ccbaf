----------------------------- MODULE TftpServer -----------------------------
(***************************************************************************)
(* The TFTP server, tftp_server.c: one thread, a table of ConnectMax        *)
(* sessions, a socket of its own for each.  A step is the handling of one   *)
(* ready socket, or of one timeout of select; nothing but the server's      *)
(* thread touches its state in between.                                     *)
(***************************************************************************)
EXTENDS TftpXfer

CONSTANTS ConnectMax,    \* TFTP_SERVER_CONNECT_MAX
          MaxSocks,      \* bound on the session sockets ever created
          IsWrite,       \* server->is_write
          SendFailures   \* how many sends in a row may fail in a retry loop

ASSUME ServerAssumption ==
  /\ ConnectMax \in Nat \ {0}
  /\ MaxSocks \in Nat
  /\ IsWrite \in BOOLEAN
  /\ SendFailures \subseteq 0 .. MaxRetry + 1

Slots == 1 .. ConnectMax

VARIABLES server,    \* "up", "down", or "crashed" on a NULL dereference
          table,     \* client_table
          nextSock   \* number of the next session socket

svars == <<server, table, nextSock>>

\* struct tftp_client_xfer, with the block, the sender and the socket of its
\* xfer, the offset of its fd, and bad when that fd is the handle -1 of a failed open.
\* sock = 0 stands for xfer == NULL.
Sessions == [sock : 0 .. MaxSocks, peer : Addrs, file : 0 .. MaxTransfers,
             w_r : {"read", "write"}, bad : BOOLEAN, block : Blocks, retry : 0 .. MaxRetry,
             pos : Nat, off : Nat, last : Chunks]

NoSession == [sock |-> 0, peer |-> NoAddr, file |-> 0, w_r |-> "read",
              bad |-> FALSE, block |-> 0, retry |-> 0, pos |-> 0, off |-> 0, last |-> Empty]

\* Mutant of NewSession: the counter of a writer starts at 1 too.
NewSessionAtOne(m, bad) ==
  [sock |-> nextSock, peer |-> m.from, file |-> m.chunk[1],
   w_r |-> IF m.type = "RRQ" THEN "read" ELSE "write", bad |-> bad,
   block |-> 1, retry |-> MaxRetry, pos |-> 0, off |-> 0, last |-> Empty]

\* What tftp_server_request_handle puts in the table for a request.
NewSession(m, bad) ==
  [sock |-> nextSock, peer |-> m.from, file |-> m.chunk[1],
   w_r |-> IF m.type = "RRQ" THEN "read" ELSE "write", bad |-> bad,
   block |-> IF m.type = "RRQ" THEN 1 ELSE 0,
   retry |-> MaxRetry, pos |-> 0, off |-> 0, last |-> Empty]

ServerInit ==
  server = "up" /\ table = [i \in Slots |-> NoSession] /\ nextSock = 1

Occupied == {i \in Slots : table[i].sock # 0}

-----------------------------------------------------------------------------
(***************************************************************************)
(* tftp_server_send_file and tftp_server_send_ack.  Each tries to send up   *)
(* to MaxRetry + 1 times and counts down in the test of the loop; f is the  *)
(* number of failed attempts.  The counter is 0 after the loop exactly when *)
(* the last attempt succeeds, and that is when the session is destroyed;    *)
(* when every attempt fails it is -1 and the session stays.                 *)
(***************************************************************************)
Sent(f) == f <= MaxRetry

Destroyed(f) == f = MaxRetry

\* The chunk a read at pos returns; a read error becomes an empty block.
ReadChunk(s, pos, fails) ==
  IF fails \/ s.bad THEN Empty
           ELSE tftp_file_read(s.file, IF Positional THEN pos ELSE s.off)

\* Mutant of SendFile: a resend takes the next chunk.
SendNext(s, resend, fails) ==
  LET pos == s.pos + Size(s.last)
      chunk == ReadChunk(s, pos, fails)
  IN  [s EXCEPT !.pos = pos, !.last = chunk,
                !.off = IF Positional THEN @ ELSE @ + Size(chunk)]

\* The session that has sent its chunk, were it not destroyed.
SendFile(s, resend, fails) ==
  LET pos == IF resend THEN s.pos ELSE s.pos + Size(s.last)
      chunk == ReadChunk(s, pos, fails)
  IN  [s EXCEPT !.pos = pos, !.last = chunk,
                !.off = IF Positional THEN @ ELSE @ + Size(chunk)]

AfterSend(s, f) == IF Destroyed(f) THEN NoSession ELSE s

FilePacket(s, f) ==
  IF Sent(f) THEN {Data(s.block, s.last, SessionAddr(s.sock), s.peer)} ELSE {}

AckPacket(s, f) ==
  IF Sent(f) THEN {Ack(s.block, SessionAddr(s.sock), s.peer)} ELSE {}

\* What EVENT_CONNECT sends, and EVENT_TIMEOUT repeats.
ReplyPacket(s, f) ==
  IF s.w_r = "read" THEN FilePacket(s, f) ELSE AckPacket(s, f)

-----------------------------------------------------------------------------
\* tftp_server_request_handle, and EVENT_CONNECT for a session it accepts.

RequestRefused(m) ==
  /\ \/ m.type = "WRQ" /\ ~IsWrite
     \/ OpenFailureSeen \/ "mem" \in Faults
     \/ Occupied = Slots
  /\ Receive(m, {Error(SessionAddr(nextSock), m.from)})
  /\ UNCHANGED table

RequestAccepted(m) ==
  /\ m.type = "WRQ" => IsWrite
  /\ \E i \in Slots \ Occupied, f \in SendFailures,
        bad \in BadHandle, fails \in MayFail("read") :
       LET n == NewSession(m, bad)
           s == IF m.type = "RRQ" THEN SendFile(n, FALSE, fails) ELSE n
       IN  /\ \A j \in Slots \ Occupied : i <= j
           /\ table' = [table EXCEPT ![i] = AfterSend(s, f)]
           /\ Receive(m, ReplyPacket(s, f))

ServerRequest(m) ==
  /\ server = "up" /\ m.to = ServerAddr /\ m.type \in {"RRQ", "WRQ"}
  /\ nextSock <= MaxSocks
  /\ nextSock' = nextSock + 1
  /\ RequestRefused(m) \/ RequestAccepted(m)
  /\ UNCHANGED <<dst, lost, server>>

-----------------------------------------------------------------------------
\* EVENT_DATA on slot i: the session after recvfrom is s.

Ready(i, m) == /\ server = "up" /\ i \in Occupied
               /\ m.to = SessionAddr(table[i].sock)

Received(i, m) == [table[i] EXCEPT !.peer = m.from]

\* A reader's ACK is the expected one: the next chunk, or the end.
ReadAcked(i, m) ==
  /\ Ready(i, m) /\ table[i].w_r = "read"
  /\ tftp_wait_ack(table[i].block, m)
  /\ IF IsShort(table[i].last)
     THEN /\ table' = [table EXCEPT ![i] = NoSession]
          /\ Receive(m, {})
     ELSE \E f \in SendFailures, fails \in MayFail("read") :
            LET r == [Received(i, m) EXCEPT !.block = Inc(@), !.retry = MaxRetry]
                s == SendFile(r, FALSE, fails)
            IN  /\ table' = [table EXCEPT ![i] = AfterSend(s, f)]
                /\ Receive(m, FilePacket(s, f))
  /\ UNCHANGED <<dst, lost, server, nextSock>>

ReadBadAck(i, m) ==
  /\ Ready(i, m) /\ table[i].w_r = "read"
  /\ ~tftp_wait_ack(table[i].block, m)
  /\ table' = [table EXCEPT ![i] = NoSession]
  /\ Receive(m, {Error(SessionAddr(table[i].sock), m.from)})
  /\ UNCHANGED <<dst, lost, server, nextSock>>

\* A writer's DATA is the expected one.  After an ACK that destroyed the
\* session client->xfer is NULL and the code reads client->xfer->blksize:
\* the program stops, or goes on with a value read near address 0.
WriteStored(i, m) ==
  /\ Ready(i, m) /\ table[i].w_r = "write"
  /\ tftp_read_data(table[i].block, m) /\ ~table[i].bad
  /\ LET r == Received(i, m)
         s == [r EXCEPT !.block = m.block, !.pos = @ + Size(m.chunk)]
     IN  /\ dst' = [dst EXCEPT ![s.file] =
                      tftp_file_write(@, table[i].pos, m.chunk)]
         /\ \E f \in SendFailures :
              /\ Receive(m, AckPacket(s, f))
              /\ table' = [table EXCEPT ![i] =
                   IF Destroyed(f) \/ IsShort(m.chunk) THEN NoSession ELSE s]
              /\ server' \in IF Destroyed(f) THEN {"up", "crashed"} ELSE {"up"}
  /\ UNCHANGED <<lost, nextSock>>

WriteFails(i, m) ==
  /\ Ready(i, m) /\ table[i].w_r = "write"
  /\ tftp_read_data(table[i].block, m)
  /\ "write" \in Faults \/ table[i].bad
  /\ table' = [table EXCEPT ![i] = NoSession]
  /\ Receive(m, {Error(SessionAddr(table[i].sock), m.from)})
  /\ UNCHANGED <<dst, lost, server, nextSock>>

WriteBadData(i, m) ==
  /\ Ready(i, m) /\ table[i].w_r = "write"
  /\ ~tftp_read_data(table[i].block, m)
  /\ table' = [table EXCEPT ![i] = NoSession]
  /\ Receive(m, {})
  /\ UNCHANGED <<dst, lost, server, nextSock>>

ServerData(i, m) == \/ ReadAcked(i, m) \/ ReadBadAck(i, m)
                    \/ WriteStored(i, m) \/ WriteFails(i, m) \/ WriteBadData(i, m)

-----------------------------------------------------------------------------
\* EVENT_TIMEOUT, for every session in the table: select returned 0.

\* Mutants: a session that never runs out of retries.
AlwaysRetries(s) == TRUE
TimedOutFree(s, fails) == IF s.w_r = "read" THEN SendFile(s, TRUE, fails) ELSE s

MayRetry(s) == s.retry > 0

\* The session after its timeout, before a send loop destroys it.
TimedOut(s, fails) ==
  LET r == [s EXCEPT !.retry = OneLess(@)]
  IN  IF s.w_r = "read" THEN SendFile(r, TRUE, fails) ELSE r

ServerTimeout ==
  /\ server = "up" /\ Occupied # {}
  /\ \E f \in [Slots -> SendFailures], fails \in [Slots -> MayFail("read")] :
       LET retrying == {i \in Occupied : MayRetry(table[i])}
           s == [i \in retrying |-> TimedOut(table[i], fails[i])]
       IN  /\ table' = [i \in Slots |-> IF i \in retrying THEN AfterSend(s[i], f[i])
                                        ELSE NoSession]
           /\ Send(UNION {ReplyPacket(s[i], f[i]) : i \in retrying})
  /\ UNCHANGED <<dst, lost, server, nextSock>>

\* select fails, or the loop sees is_stop: every session is destroyed.
ServerExit ==
  /\ server = "up"
  /\ server' = "down"
  /\ table' = [i \in Slots |-> NoSession]
  /\ UNCHANGED <<dst, net, lost, nextSock>>

\* A new server is created with an empty table.
ServerStart ==
  /\ server = "down"
  /\ server' = "up"
  /\ UNCHANGED <<dst, net, lost, table, nextSock>>
=============================================================================
