----------------------------- MODULE TftpClient -----------------------------
(***************************************************************************)
(* The TFTP client, tftp_client.c: tftp_client_push and tftp_client_pull.   *)
(*                                                                         *)
(* Both are a loop around select; a step of the model is what the client's  *)
(* thread does from the return of one select to the call of the next.       *)
(***************************************************************************)
EXTENDS TftpXfer

CONSTANTS Ops,          \* the calls the user makes: "pull", "push" or both
          ReuseClient   \* are all transfers calls on one tftp_client object?

ASSUME ClientAssumption ==
  /\ Ops \subseteq {"pull", "push"}
  /\ ReuseClient \in BOOLEAN

VARIABLES cpc,      \* "idle", "request" or "data" (in select), "done"
          cur,      \* number of the current transfer
          op,       \* "pull" or "push"
          block,    \* _private->block
          sender,   \* _private->sender, overwritten by every recvfrom
          retry,    \* max_retry, the local variable
          fsize,    \* file_size
          err,      \* client->err: "OK" or "ERR"
          outcome   \* per transfer: the exit the call took

cvars == <<cpc, cur, op, block, sender, retry, fsize, err, outcome>>

Outcomes == {"none", "complete", "timeout", "error"}

ClientInit ==
  /\ cpc = "idle" /\ cur = 0 /\ op = "pull"
  /\ block = 0 /\ sender = NoAddr /\ retry = 0 /\ fsize = 0 /\ err = "OK"
  /\ outcome = [t \in Transfers |-> "none"]

Waiting == cpc \in {"request", "data"}

Socket(t) == ClientAddr(IF ReuseClient THEN 1 ELSE t)

Me == Socket(cur)

RequestOf(o, t) == Request(IF o = "pull" THEN "RRQ" ELSE "WRQ", t, Socket(t))

Exit(o, e) ==
  /\ cpc' = "done"
  /\ outcome' = [outcome EXCEPT ![cur] = o]
  /\ err' = e

\* A call: the state it starts from, and the first request it sends.
ClientStart(o) ==
  /\ ~Waiting /\ cur < MaxTransfers
  /\ cur' = cur + 1 /\ op' = o /\ fsize' = 0
  /\ IF ReuseClient THEN UNCHANGED <<block, sender>>
                    ELSE block' = 0 /\ sender' = NoAddr
  /\ \E fails \in MayFail("send") :
       /\ cpc' = IF fails THEN "done" ELSE "request"
       /\ retry' = IF fails THEN 0 ELSE MaxRetry
       /\ err' = IF fails THEN "ERR" ELSE "OK"
       /\ outcome' = [outcome EXCEPT ![cur + 1] = IF fails THEN "error" ELSE @]
       /\ Send(IF fails THEN {} ELSE {RequestOf(o, cur + 1)})
  /\ UNCHANGED <<dst, lost>>

\* What the waiting client repeats when its 5 s are over.
Unanswered ==
  CASE cpc = "request" -> RequestOf(op, cur)
    [] cpc = "data" /\ op = "pull" -> Ack(block, Me, sender)
    [] OTHER -> Data(block, tftp_file_read(cur, fsize), Me, sender)

\* select returns 0.  The last timeout leaves err as it is.
ClientTimeout ==
  /\ Waiting
  /\ \/ /\ retry > 1 /\ retry' = OneLess(retry)
        /\ Send({Unanswered})
        /\ UNCHANGED <<cpc, outcome, err>>
     \/ /\ retry > 1 /\ retry' = 0
        /\ "send" \in Faults /\ ~(cpc = "data" /\ op = "pull")
        /\ Exit("error", "ERR")
        /\ Send(IF cpc = "data" THEN {Error(Me, sender)} ELSE {})
     \/ /\ retry = 1 /\ retry' = 0
        /\ Exit("timeout", err)
        /\ UNCHANGED net
  /\ UNCHANGED <<dst, lost, cur, op, block, sender, fsize>>

\* select returns an error.
ClientSelectError ==
  /\ Waiting /\ "select" \in Faults
  /\ Exit("error", "ERR")
  /\ retry' = 0
  /\ UNCHANGED <<dst, net, lost, cur, op, block, sender, fsize>>

-----------------------------------------------------------------------------
\* tftp_client_pull, a datagram is ready.

\* The local file is opened, and the packet allocated, before the first
\* datagram is read from the socket: the sender is not known yet.
PullOpenFails(m) ==
  /\ cpc = "request" /\ op = "pull" /\ m.to = Me
  /\ \/ OpenFailureSeen /\ UNCHANGED net
     \/ "mem" \in Faults /\ Send({Error(Me, sender)})
  /\ Exit("error", "ERR")
  /\ UNCHANGED <<dst, lost, cur, op, block, sender, retry, fsize>>

PullRejects(m) ==
  /\ Waiting /\ op = "pull" /\ m.to = Me
  /\ ~tftp_read_data(block, m)
  /\ sender' = m.from
  /\ Exit("error", "ERR")
  /\ Receive(m, {})
  /\ UNCHANGED <<dst, lost, cur, op, block, retry, fsize>>

PullWriteFails(m) ==
  /\ Waiting /\ op = "pull" /\ m.to = Me
  /\ tftp_read_data(block, m)
  /\ "write" \in Faults \/ (cpc = "request" /\ OpenFailureUnseen)
  /\ sender' = m.from
  /\ block' = m.block
  /\ Exit("error", "ERR")
  /\ Receive(m, {Error(Me, m.from)})
  /\ UNCHANGED <<dst, lost, cur, op, retry, fsize>>

PullStores(m) ==
  /\ Waiting /\ op = "pull" /\ m.to = Me
  /\ tftp_read_data(block, m)
  /\ sender' = m.from
  /\ block' = m.block
  /\ dst' = [dst EXCEPT ![cur] = tftp_file_write(@, fsize, m.chunk)]
  /\ fsize' = fsize + Size(m.chunk)
  /\ Receive(m, {Ack(m.block, Me, m.from)})
  /\ IF IsShort(m.chunk)
     THEN Exit("complete", err) /\ UNCHANGED retry
     ELSE cpc' = "data" /\ retry' = MaxRetry /\ UNCHANGED <<outcome, err>>
  /\ UNCHANGED <<lost, cur, op>>

-----------------------------------------------------------------------------
\* tftp_client_push, a datagram is ready.

\* The top of the block loop: read at position p, send as block b.
PushBlock(m, b, p) ==
  /\ sender' = m.from /\ block' = b /\ fsize' = p
  /\ \/ /\ Receive(m, {Data(b, tftp_file_read(cur, p), Me, m.from)})
        /\ cpc' = "data" /\ retry' = MaxRetry
        /\ UNCHANGED <<outcome, err>>
     \/ /\ "read" \in Faults \/ (cpc = "request" /\ OpenFailureUnseen)
        /\ Exit("error", "ERR") /\ retry' = 0
        /\ Receive(m, {})
     \/ /\ "send" \in Faults
        /\ Exit("error", "ERR") /\ retry' = 0
        /\ Receive(m, {Error(Me, m.from)})
  /\ UNCHANGED <<dst, lost, cur, op>>

PushGranted(m) ==
  /\ cpc = "request" /\ op = "push" /\ m.to = Me
  /\ tftp_wait_ack(block, m)
  /\ PushBlock(m, Inc(block), 0)

PushOpenFails(m) ==
  /\ cpc = "request" /\ op = "push" /\ m.to = Me
  /\ tftp_wait_ack(block, m)
  /\ sender' = m.from /\ block' = Inc(block)
  /\ Exit("error", "ERR")
  /\ \/ OpenFailureSeen /\ Receive(m, {})
     \/ "mem" \in Faults /\ Receive(m, {Error(Me, m.from)})
  /\ UNCHANGED <<dst, lost, cur, op, retry, fsize>>

PushAcked(m) ==
  /\ cpc = "data" /\ op = "push" /\ m.to = Me
  /\ tftp_wait_ack(block, m)
  /\ LET chunk == tftp_file_read(cur, fsize) IN
     IF IsShort(chunk)
     THEN /\ sender' = m.from /\ block' = Inc(block)
          /\ fsize' = fsize + Size(chunk)
          /\ Exit("complete", err)
          /\ Receive(m, {})
          /\ UNCHANGED <<dst, lost, cur, op, retry>>
     ELSE PushBlock(m, Inc(block), fsize + Size(chunk))

PushRejects(m) ==
  /\ Waiting /\ op = "push" /\ m.to = Me
  /\ ~tftp_wait_ack(block, m)
  /\ sender' = m.from
  /\ Exit("error", "ERR")
  /\ Receive(m, {})
  /\ UNCHANGED <<dst, lost, cur, op, block, retry, fsize>>

ClientReceive(m) ==
  \/ PullOpenFails(m) \/ PullRejects(m) \/ PullWriteFails(m) \/ PullStores(m)
  \/ PushGranted(m) \/ PushOpenFails(m) \/ PushAcked(m) \/ PushRejects(m)
=============================================================================
