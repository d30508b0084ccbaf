------------------------------- MODULE Telnet -------------------------------
(***************************************************************************)
(* The telnet server of net_apps/telent/telnet.c: its thread, the te_send   *)
(* thread, the shell that reads the console and prints on it, and the       *)
(* clients, one after the other.                                            *)
(***************************************************************************)
EXTENDS TelnetStream, FiniteSets

CONSTANTS Streams,    \* what each client may send, one after the other
          RecvLen, Chunk, RxSize, TxSize

ASSUME SizesAssumption ==
  /\ RecvLen \in Nat \ {0} /\ Chunk \in Nat \ {0}
  /\ RxSize \in Nat /\ TxSize \in Nat
  /\ Streams \in Seq(SUBSET Seq(Bytes))

Drainers == {"server", "sender"}

VARIABLES
  conn, open, wire,    \* connections so far, client_fd, what is yet to arrive
  spc, buf, state,     \* the server thread, recv_buf, the protocol state
  console, echo, saved,     \* the console device, finsh's echo, its saved mode
  tx, lock,            \* the transmit ring and the holder of its mutex
  dpc, hand,           \* send_to_client: where it is, and its tx_buffer
  sendNotice, readNotice,   \* the two semaphores
  rx, pc               \* the receive ring, the shell

\* History: what was put into tx, what went out, what was sent on no
\* connection, what the shell read, the bytes of this connection, the text and
\* the options of those before it, whether a ring was full, whether a CR and
\* its NUL came apart, the doubled IACs stored, the shell's own echo mode.
VARIABLES log, out, lost, got, seen, earlier, due, full, split, escaped, mode

server == <<conn, open, wire, spc, buf, state, console, echo, saved>>
ring == <<tx, lock, dpc, hand, sendNotice>>
reader == <<rx, pc, readNotice, got>>
session == <<seen, earlier, due, split, escaped, mode>>
sent == <<log, out, lost>>
vars == <<server, ring, reader, session, sent, full>>

Init ==
  /\ conn = 0 /\ open = FALSE /\ wire = <<>>
  /\ spc = "accept" /\ buf = <<>> /\ state = "NORMAL"
  /\ console = "uart" /\ echo \in BOOLEAN /\ saved = FALSE /\ mode = echo
  /\ tx = <<>> /\ lock = "none"
  /\ dpc = [d \in Drainers |-> "off"] /\ hand = [d \in Drainers |-> <<>>]
  /\ sendNotice = 0 /\ readNotice = 0
  /\ rx = <<>> /\ pc = "idle"
  /\ log = <<>> /\ out = {} /\ lost = {} /\ got = <<>>
  /\ seen = <<>> /\ earlier = <<>> /\ due = <<>>
  /\ full = FALSE /\ split = FALSE /\ escaped = 0

-----------------------------------------------------------------------------
(***************************************************************************)
(* The transmit ring.                                                       *)
(***************************************************************************)
Elements(s) == {s[i] : i \in DOMAIN s}

Fits(n) == IF TxSize - Len(tx) < n THEN TxSize - Len(tx) ELSE n

\* The bytes that fit are put, in one critical section of the mutex.  A byte
\* in the ring is named by its place in the log.
Put(bytes) ==
  LET n == Fits(Len(bytes)) IN
  /\ lock = "none"
  /\ tx' = tx \o [i \in 1 .. n |-> Len(log) + i]
  /\ log' = log \o SubSeq(bytes, 1, n)
  /\ full' = (full \/ n < Len(bytes))

\* Mutant of Take: the ring is copied from without its mutex.
TakeUnlocked(d) ==
  /\ dpc[d] = "take"
  /\ lock' = d
  /\ hand' = [hand EXCEPT ![d] = SubSeq(tx, 1, IF Chunk < Len(tx) THEN Chunk ELSE Len(tx))]
  /\ dpc' = [dpc EXCEPT ![d] = "advance"]
  /\ UNCHANGED <<server, tx, sendNotice, reader, session, sent, full>>

\* send_to_client takes the mutex and copies a piece of the ring...
Take(d) ==
  /\ dpc[d] = "take" /\ lock = "none"
  /\ lock' = d
  /\ hand' = [hand EXCEPT ![d] = SubSeq(tx, 1, IF Chunk < Len(tx) THEN Chunk ELSE Len(tx))]
  /\ dpc' = [dpc EXCEPT ![d] = "advance"]
  /\ UNCHANGED <<server, tx, sendNotice, reader, session, sent, full>>

\* ... moves the read index and gives the mutex back; an empty ring ends it...
Advance(d) ==
  /\ dpc[d] = "advance"
  /\ tx' = SubSeq(tx, Len(hand[d]) + 1, Len(tx))
  /\ lock' = "none"
  /\ dpc' = [dpc EXCEPT ![d] = IF hand[d] = <<>> THEN "off" ELSE "send"]
  /\ UNCHANGED <<server, hand, sendNotice, reader, session, sent, full>>

\* ... and sends the piece without the mutex, on whatever client_fd is then.
Send(d) ==
  /\ dpc[d] = "send"
  /\ IF open THEN out' = out \cup Elements(hand[d]) /\ UNCHANGED lost
     ELSE lost' = lost \cup Elements(hand[d]) /\ UNCHANGED out
  /\ hand' = [hand EXCEPT ![d] = <<>>]
  /\ dpc' = [dpc EXCEPT ![d] = "take"]
  /\ UNCHANGED <<server, tx, lock, sendNotice, reader, session, log, full>>

SenderWakes ==
  /\ dpc["sender"] = "off" /\ sendNotice > 0
  /\ sendNotice' = sendNotice - 1
  /\ dpc' = [dpc EXCEPT !["sender"] = "take"]
  /\ UNCHANGED <<server, tx, lock, hand, reader, session, sent, full>>

-----------------------------------------------------------------------------
(***************************************************************************)
(* The shell reads its console and prints.                                  *)
(***************************************************************************)
ReadBegins ==
  /\ pc = "idle" /\ console = "telnet"
  /\ pc' = "wait"
  /\ UNCHANGED <<server, ring, rx, readNotice, got, session, sent, full>>

\* Mutant of ReadWakes: the shell does not wait for a notice.
ReadAnyway ==
  /\ pc = "wait" /\ console = "uart"
  /\ readNotice' = readNotice - 1
  /\ pc' = "taken"
  /\ UNCHANGED <<server, ring, rx, got, session, sent, full>>

ReadWakes ==
  /\ pc = "wait" /\ readNotice > 0
  /\ readNotice' = readNotice - 1
  /\ pc' = "taken"
  /\ UNCHANGED <<server, ring, rx, got, session, sent, full>>

\* An empty ring gives the shell a byte 0, which it drops.  For any other byte
\* it may print something, on the console device of this moment.
ReadGets ==
  /\ pc = "taken"
  /\ IF rx = <<>> THEN UNCHANGED <<rx, got>>
     ELSE rx' = Tail(rx) /\ got' = Append(got, Head(rx))
  /\ \E prints \in BOOLEAN :
       /\ prints => rx # <<>> /\ console = "telnet"
       /\ pc' = IF prints THEN "put" ELSE "idle"
  /\ UNCHANGED <<server, ring, readNotice, session, sent, full>>

WritePuts ==
  /\ pc = "put"
  /\ Put(<<"text">>)
  /\ pc' = "notify"
  /\ UNCHANGED <<server, lock, dpc, hand, sendNotice, rx, readNotice, got, session, out, lost>>

\* Mutant of WriteNotifies: the te_send thread is not told.
WriteForgets ==
  /\ pc = "notify"
  /\ pc' = "idle"
  /\ UNCHANGED <<server, ring, rx, readNotice, got, session, sent, full>>

WriteNotifies ==
  /\ pc = "notify"
  /\ sendNotice' = sendNotice + 1
  /\ pc' = "idle"
  /\ UNCHANGED <<server, tx, lock, dpc, hand, rx, readNotice, got, session, sent, full>>

-----------------------------------------------------------------------------
(***************************************************************************)
(* The server thread.                                                       *)
(***************************************************************************)
Idle == dpc["server"] = "off"

Drains(p) == dpc' = [dpc EXCEPT !["server"] = IF p THEN "take" ELSE @]

Accept ==
  /\ spc = "accept" /\ conn < Len(Streams)
  /\ conn' = conn + 1 /\ open' = TRUE /\ wire' \in Streams[conn + 1]
  /\ console' = "telnet"
  /\ spc' = "hello"
  /\ seen' = <<>>
  /\ earlier' = earlier \o Parse(seen).text
  /\ due' = due \o Parse(seen).answers \o <<<<"WILL", "ECHO">>>>
  /\ UNCHANGED <<buf, state, echo, saved, ring, reader, split, escaped, mode, sent, full>>

Hello ==
  /\ spc = "hello"
  /\ state' = "NORMAL"
  /\ saved' = echo
  /\ Put(<<"IAC", "WILL", "ECHO">>) /\ Drains(TRUE)
  /\ spc' = "banner"
  /\ UNCHANGED <<conn, open, wire, buf, console, echo, lock, hand, sendNotice, reader,
                 session, out, lost>>

Banner ==
  /\ spc = "banner" /\ Idle
  /\ Put(<<"text">>)
  /\ spc' = "notify"
  /\ UNCHANGED <<conn, open, wire, buf, state, console, echo, saved, lock, dpc, hand,
                 sendNotice, reader, session, out, lost>>

BannerNotifies ==
  /\ spc = "notify"
  /\ sendNotice' = sendNotice + 1
  /\ Drains(TRUE)
  /\ spc' = "recv"
  /\ UNCHANGED <<conn, open, wire, buf, state, console, echo, saved, tx, lock, hand, reader,
                 session, sent, full>>

Recv ==
  /\ spc = "recv" /\ Idle
  /\ \E n \in 1 .. RecvLen :
       /\ n <= Len(wire)
       /\ buf' = SubSeq(wire, 1, n)
       /\ wire' = SubSeq(wire, n + 1, Len(wire))
       /\ seen' = seen \o SubSeq(wire, 1, n)
       /\ split' = (split \/ (seen # <<>> /\ seen[Len(seen)] = "CR" /\ wire[1] = "NUL"))
  /\ spc' = "rx"
  /\ UNCHANGED <<conn, open, state, console, echo, saved, ring, reader, earlier, due,
                 escaped, mode, sent, full>>

\* Mutant of Store: a doubled IAC wakes the shell, and text does not.
StoreQuietly(b) ==
  /\ IF Stored(state, b) /\ Len(rx) < RxSize THEN rx' = Append(rx, b) ELSE UNCHANGED rx
  /\ readNotice' = readNotice + (IF Stored(state, b) /\ ~Noticed(state, b) THEN 1 ELSE 0)
  /\ escaped' = escaped + (IF Stored(state, b) /\ ~Noticed(state, b) THEN 1 ELSE 0)

Store(b) ==
  /\ IF Stored(state, b) /\ Len(rx) < RxSize THEN rx' = Append(rx, b) ELSE UNCHANGED rx
  /\ readNotice' = readNotice + (IF Noticed(state, b) THEN 1 ELSE 0)
  /\ escaped' = escaped + (IF Stored(state, b) /\ ~Noticed(state, b) THEN 1 ELSE 0)

\* One round of the loop of process_rx; behind the last one the ring is drained.
Byte ==
  LET b == Head(buf) IN
  /\ spc = "rx" /\ Idle
  /\ state' = AfterByte(state, b)
  /\ echo' = EchoAfter(state, b, echo)
  /\ Store(b)
  /\ IF Answered(state) THEN Put(<<"IAC">> \o Answer(state, b))
     ELSE /\ UNCHANGED <<tx, log>>
          /\ full' = (full \/ (Stored(state, b) /\ Len(rx) = RxSize))
  /\ Drains(Answered(state) \/ Len(buf) = 1)
  /\ buf' = Rest(state, buf)
  /\ spc' = IF Len(buf) = 1 THEN "recv" ELSE "rx"
  /\ UNCHANGED <<conn, open, wire, console, saved, lock, hand, sendNotice, pc, got,
                 seen, earlier, due, split, mode, out, lost>>

\* recv reports the end or an error, which also loses what was on its way.
End ==
  /\ spc = "recv" /\ Idle
  /\ console' = "uart"
  /\ spc' = "wake"
  /\ UNCHANGED <<conn, open, wire, buf, state, echo, saved, ring, reader, session,
                 sent, full>>

\* Mutant of CloseWakes: the shell is left where it waits.
CloseLeaves ==
  /\ spc = "wake"
  /\ spc' = "close"
  /\ UNCHANGED <<conn, open, wire, buf, state, console, echo, saved, ring, reader,
                 session, sent, full>>

CloseWakes ==
  /\ spc = "wake"
  /\ readNotice' = readNotice + 1
  /\ spc' = "close"
  /\ UNCHANGED <<conn, open, wire, buf, state, console, echo, saved, ring, rx, pc, got,
                 session, sent, full>>

\* Mutant of Close: the echo mode the client asked for stays.
CloseKeepsEcho ==
  /\ spc = "close"
  /\ open' = FALSE
  /\ wire' = <<>>
  /\ spc' = "accept"
  /\ UNCHANGED <<conn, buf, state, console, echo, saved, ring, reader, session, sent, full>>

Close ==
  /\ spc = "close"
  /\ open' = FALSE
  /\ wire' = <<>>
  /\ echo' = saved
  /\ spc' = "accept"
  /\ UNCHANGED <<conn, buf, state, console, saved, ring, reader, session, sent, full>>

-----------------------------------------------------------------------------
Drain(d) == Take(d) \/ Advance(d) \/ Send(d)

Shell == ReadBegins \/ ReadWakes \/ ReadGets \/ WritePuts \/ WriteNotifies

Server ==
  \/ Accept \/ Hello \/ Banner \/ BannerNotifies
  \/ Recv \/ Byte \/ End \/ CloseWakes \/ Close

Sender == SenderWakes \/ Drain("sender")

Next == Server \/ Drain("server") \/ Sender \/ Shell

Spec == Init /\ [][Next]_vars

\* The threads run; no client has to send, and none has to go.
FairSpec ==
  /\ Spec
  /\ WF_vars(SenderWakes)
  /\ \A d \in Drainers : SF_vars(Take(d)) /\ WF_vars(Advance(d) \/ Send(d))
  /\ WF_vars(ReadWakes) /\ WF_vars(ReadGets)
  /\ SF_vars(Hello) /\ SF_vars(Banner) /\ SF_vars(Byte)
  /\ WF_vars(BannerNotifies) /\ WF_vars(CloseWakes) /\ WF_vars(Close)
  /\ SF_vars(WritePuts) /\ WF_vars(WriteNotifies)

-----------------------------------------------------------------------------
(***************************************************************************)
(* Properties.                                                              *)
(***************************************************************************)
TypeOK ==
  /\ conn \in Nat /\ open \in BOOLEAN /\ wire \in Seq(Bytes)
  /\ spc \in {"accept", "hello", "banner", "notify", "recv", "rx", "wake", "close"}
  /\ buf \in Seq(Bytes) /\ state \in States
  /\ console \in {"uart", "telnet"} /\ echo \in BOOLEAN /\ saved \in BOOLEAN
  /\ mode \in BOOLEAN
  /\ tx \in Seq(Nat) /\ lock \in Drainers \cup {"none"}
  /\ dpc \in [Drainers -> {"off", "take", "advance", "send"}]
  /\ hand \in [Drainers -> Seq(Nat)]
  /\ sendNotice \in Nat /\ readNotice \in Nat /\ escaped \in Nat
  /\ rx \in Seq(Bytes) /\ pc \in {"idle", "wait", "taken", "put", "notify"}

InHand(d) == IF dpc[d] = "send" THEN Elements(hand[d]) ELSE {}

\* Every byte put into the transmit ring is in one place only, once: in the
\* ring, in the hand of one of the two threads that empty it, sent, or lost to
\* a connection that is gone (send_to_client's use of the mutex).
TxOnce ==
  LET places == <<Elements(tx), InHand("server"), InHand("sender"), out, lost>>
  IN /\ \A i, j \in 1 .. 5 : i # j => places[i] \cap places[j] = {}
     /\ UNION {places[i] : i \in 1 .. 5} = DOMAIN log
     /\ Cardinality(Elements(tx)) = Len(tx)

\* What the shell has read and what waits for it is the text of the streams,
\* however recv cut them, unless a CR came apart from its NUL.
RxDecoded ==
  buf = <<>> /\ ~full /\ ~split => got \o rx = earlier \o Parse(seen).text

\* The bytes of a sequence that are no text, in their order.
OptionsUpTo(s, p, i) ==
  IF i = 0 THEN <<>> ELSE IF s[i] = "text" THEN p[i - 1] ELSE Append(p[i - 1], s[i])

OptionsAmong(s) ==
  LET options[i \in 0 .. Len(s)] == OptionsUpTo(s, options, i) IN options

OptionsOf(s) == OptionsAmong(s)[Len(s)]

Flat(answers) ==
  [i \in 1 .. 3 * Len(answers) |->
     IF i % 3 = 1 THEN "IAC" ELSE answers[(i - 1) \div 3 + 1][IF i % 3 = 2 THEN 1 ELSE 2]]

\* The server answers the options the clients asked for, each once and in
\* their order, after its own WILL ECHO.
OptionsAnswered ==
  buf = <<>> /\ ~full /\ spc # "hello" =>
    OptionsOf(log) = Flat(due \o Parse(seen).answers)

\* No byte waits in the receive ring without a notice that makes the shell
\* read it, but for the doubled IACs, which are stored without one.
WakesReader ==
  Len(rx) <= readNotice + (IF pc = "taken" THEN 1 ELSE 0) + escaped

\* Between two connections the shell's echo mode is its own, whatever options
\* the client switched.
EchoRestored == spc = "accept" => echo = mode

\* What is printed leaves the ring although the server thread sits in recv.
AllSent == tx # <<>> ~> tx = <<>>

\* A shell that waits for a client that has gone gets its console back.
ReaderFreed == (pc = "wait" /\ console = "uart") ~> (pc # "wait" \/ console = "telnet")
=============================================================================
