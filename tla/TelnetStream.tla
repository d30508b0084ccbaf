---------------------------- MODULE TelnetStream ----------------------------
(***************************************************************************)
(* What one byte of the client does in process_rx of telnet.c: the state of *)
(* the telnet protocol, and the byte, the answer and the echo mode it       *)
(* leads to.  A byte is named by what it is for the protocol.               *)
(***************************************************************************)
EXTENDS Integers, Sequences

Verbs == {"WILL", "WONT", "DO", "DONT"}

Options == {"ECHO", "SGA", "OTHER"}

Bytes == {"a", "CR", "NUL", "LF", "IAC"} \cup Verbs \cup Options

States == {"NORMAL", "IAC"} \cup Verbs

Known == {"ECHO", "SGA"}

\* A doubled IAC is stored like text, but nobody is notified of it.
Stored(state, b) ==
  \/ state = "NORMAL" /\ b \notin {"IAC", "CR"}
  \/ state = "IAC" /\ b = "IAC"

Noticed(state, b) == Stored(state, b) /\ state = "NORMAL"

AfterByte(state, b) ==
  CASE state = "NORMAL" -> IF b = "IAC" THEN "IAC" ELSE "NORMAL"
    [] state = "IAC" -> IF b \in Verbs THEN b ELSE "NORMAL"
    [] OTHER -> "NORMAL"

\* The answer to WILL and DO, as <<verb, option>>.
Answer(state, b) ==
  CASE state = "WILL" -> <<IF b \in Known THEN "DO" ELSE "DONT", b>>
    [] state = "DO" -> <<IF b \in Known THEN "WILL" ELSE "WONT", b>>

\* Mutant of Answered: DO gets no answer.
AnsweredWill(state) == state = "WILL"

Answered(state) == state \in {"WILL", "DO"}

EchoAfter(state, b, echo) ==
  IF b = "ECHO" /\ state \in {"WONT", "DO", "DONT"} THEN state = "DO" ELSE echo

\* Mutant of Rest: the NUL behind a CR stays.
RestKept(state, buf) == SubSeq(buf, 2, Len(buf))

(***************************************************************************)
(* What is left of the buffer: a CR makes a line feed of a NUL behind it.   *)
(* Behind the last byte of the buffer that is a byte recv will overwrite.   *)
(***************************************************************************)
Rest(state, buf) ==
  [i \in 1 .. Len(buf) - 1 |->
     IF i = 1 /\ state = "NORMAL" /\ buf[1] = "CR" /\ buf[2] = "NUL"
     THEN "LF" ELSE buf[i + 1]]

-----------------------------------------------------------------------------
(***************************************************************************)
(* The meaning of a whole stream, however it was cut into pieces: text and  *)
(* answers.  A stream may end within a sequence.                            *)
(***************************************************************************)
Nothing == [text |-> <<>>, answers |-> <<>>]

WithText(b, p) == [text |-> <<b>> \o p.text, answers |-> p.answers]

WithReply(v, o, p) ==
  LET agree == [WILL |-> "DO", DO |-> "WILL"]
      refuse == [WILL |-> "DONT", DO |-> "WONT"]
      verb == IF o \in {"ECHO", "SGA"} THEN agree[v] ELSE refuse[v]
  IN [text |-> p.text, answers |-> <<<<verb, o>>>> \o p.answers]

\* The meaning from place i on, where p gives the meaning from later places on.
MeaningAt(s, p, i) ==
  LET next == IF i < Len(s) THEN s[i + 1] ELSE "end"
  IN IF i > Len(s) THEN Nothing
     ELSE CASE s[i] = "IAC" /\ next = "IAC" -> WithText("IAC", p[i + 2])
            [] s[i] = "IAC" /\ next \in {"WILL", "DO"} ->
                 IF i + 2 > Len(s) THEN Nothing ELSE WithReply(next, s[i + 2], p[i + 3])
            [] s[i] = "IAC" /\ next \in {"WONT", "DONT"} -> p[i + 3]
            [] s[i] = "IAC" /\ next \notin Verbs \cup {"IAC"} -> p[i + 2]
            [] s[i] = "CR" /\ next = "NUL" -> WithText("LF", p[i + 2])
            [] s[i] = "CR" /\ next # "NUL" -> p[i + 1]
            [] OTHER -> WithText(s[i], p[i + 1])

Meanings(s) ==
  LET meaning[i \in 1 .. Len(s) + 3] == MeaningAt(s, meaning, i) IN meaning

Parse(s) == Meanings(s)[1]
=============================================================================
