------------------------------ MODULE TftpXfer ------------------------------
(***************************************************************************)
(* The transport both ends of the TFTP package share, tftp_xfer.c, and the  *)
(* UDP network under it.                                                    *)
(*                                                                         *)
(* net holds the datagrams in flight.  They arrive in any order, after any  *)
(* delay, or never; a datagram may arrive twice when TRUE \in Duplication.  *)
(* Lose removes one for good: it matters where Prompt lets a timer fire     *)
(* only when nothing is in flight.                                          *)
(***************************************************************************)
EXTENDS TftpPort

CONSTANTS BlockMod,      \* 65536 in the code: the block counter is uint16_t
          MaxRetry,      \* TFTP_MAX_RETRY
          Duplication,   \* may a received datagram stay in flight?
          MaxLoss        \* bound on the datagrams Lose removes

ASSUME XferAssumption ==
  /\ BlockMod \in Nat \ {0, 1}
  /\ MaxRetry \in Nat \ {0}
  /\ Duplication \subseteq BOOLEAN
  /\ MaxLoss \in Nat

ServerAddr == <<"server", 0>>       \* the well-known port
ClientAddr(n) == <<"client", n>>    \* the socket of a tftp_client object
SessionAddr(n) == <<"session", n>>  \* the socket tftp_recv_request creates
NoAddr == <<"none", 0>>             \* sender before the first recvfrom

Addrs == {"server", "client", "session", "none"} \X Nat

Blocks == 0 .. BlockMod - 1

Packets == [type : {"RRQ", "WRQ", "DATA", "ACK", "ERROR"},
            from : Addrs, to : Addrs, block : Blocks, chunk : Chunks]

VARIABLES net, lost

XferInit == net = {} /\ lost = 0

Inc(block) == (block + 1) % BlockMod

\* tftp_send_request names the file; it always goes to the well-known port.
Request(cmd, t, from) ==
  [type |-> cmd, from |-> from, to |-> ServerAddr, block |-> 0,
   chunk |-> <<t, 0>>]

\* tftp_write_data
Data(block, chunk, from, to) ==
  [type |-> "DATA", from |-> from, to |-> to, block |-> block,
   chunk |-> chunk]

\* tftp_resp_ack
Ack(block, from, to) ==
  [type |-> "ACK", from |-> from, to |-> to, block |-> block,
   chunk |-> Empty]

\* tftp_transfer_err
Error(from, to) ==
  [type |-> "ERROR", from |-> from, to |-> to, block |-> 0, chunk |-> Empty]

\* Mutants: the block number is not compared.
AnyAck(block, m) == m.type = "ACK"
AnyData(block, m) == m.type = "DATA"

\* tftp_wait_ack: the datagram is an ACK of this very block.
tftp_wait_ack(block, m) == m.type = "ACK" /\ m.block = block

\* tftp_read_data: the datagram is the DATA after this block.
tftp_read_data(block, m) == m.type = "DATA" /\ m.block = Inc(block)

\* Mutant of OneLess: the timeout is not counted.
SameAgain(n) == n

\* max_retry--
OneLess(n) == n - 1

Send(out) == net' = net \cup out

\* recvfrom m, then send the datagrams of out.
Receive(m, out) ==
  \E again \in Duplication : net' = (IF again THEN net ELSE net \ {m}) \cup out

Lose == /\ lost < MaxLoss
        /\ \E m \in net : net' = net \ {m}
        /\ lost' = lost + 1
        /\ UNCHANGED dst
=============================================================================
