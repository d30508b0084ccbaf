------------------------------ MODULE MCTelnet ------------------------------
(* Small instances of Telnet. *)
EXTENDS Telnet

\* A client that asks for the echo, then one that doubles an IAC or ends a line.
MixedStreams ==
  <<{<<"IAC", "DO", "ECHO">>}, {<<"IAC", "IAC">>, <<"CR", "NUL">>}>>

LineStreams == <<{<<"a", "CR", "NUL">>}>>

-----------------------------------------------------------------------------
\* One round of the loop of process_rx, with what it stored and answered so far.
Round(q) ==
  LET b == Head(q.buf)
  IN [buf |-> Rest(q.state, q.buf),
      state |-> AfterByte(q.state, b),
      text |-> q.text \o (IF Stored(q.state, b) THEN <<b>> ELSE <<>>),
      answers |-> q.answers \o
        (IF Answered(q.state) THEN <<Answer(q.state, b)>> ELSE <<>>)]

RoundAt(p, piece, after, i) ==
  IF i = 0 THEN [p EXCEPT !.buf = piece] ELSE Round(after[i - 1])

Rounds(p, piece) ==
  LET after[i \in 0 .. Len(piece)] == RoundAt(p, piece, after, i) IN after

\* What process_rx makes of a piece, from a state on.
Process(p, piece) == Rounds(p, piece)[Len(piece)]

Fresh == [buf |-> <<>>, state |-> "NORMAL", text |-> <<>>, answers |-> <<>>]

Apart(s, cut) == 0 < cut /\ cut < Len(s) /\ s[cut] = "CR" /\ s[cut + 1] = "NUL"

\* Every stream of up to four bytes, cut in two anywhere but between a CR and
\* its NUL, has the meaning Parse gives it (process_rx; asked once, before the
\* first connection).
ParsesEveryStream ==
  conn = 0 => \A n \in 0 .. 4 : \A s \in [1 .. n -> Bytes], cut \in 0 .. n :
    LET p == Process(Process(Fresh, SubSeq(s, 1, cut)), SubSeq(s, cut + 1, n))
    IN Apart(s, cut) \/ (p.text = Parse(s).text /\ p.answers = Parse(s).answers)
=============================================================================
