---------------------------- MODULE Telnet_proofs ---------------------------
(***************************************************************************)
(* Proofs about the telnet server, for every stream of the clients and      *)
(* every size of the rings, of recv's buffer and of the pieces sent.        *)
(***************************************************************************)
EXTENDS MCTelnet, SequenceTheorems, FiniteSetTheorems, WellFoundedInduction, TLAPS

\* What may be in the transmit ring.
Text == Bytes \cup {"text"}

TypeInv ==
  /\ TypeOK
  /\ log \in Seq(Text)
  /\ Len(tx) <= TxSize
  /\ spc = "rx" => buf # <<>>

-----------------------------------------------------------------------------
(***************************************************************************)
(* The rings.                                                               *)
(***************************************************************************)
LEMMA Piece ==
  ASSUME NEW S, NEW s \in Seq(S), NEW m \in Nat \ {0}, NEW n \in 0 .. Len(s)
  PROVE  /\ SubSeq(s, m, n) \in Seq(S)
         /\ Len(SubSeq(s, m, n)) = IF m <= n THEN n - m + 1 ELSE 0
         /\ \A i \in 1 .. n - m + 1 : SubSeq(s, m, n)[i] = s[m + i - 1]
<1>1. \A i \in m .. n : s[i] \in S
  BY ElementOfSeq, LenProperties
<1> QED BY <1>1, SubSeqProperties, LenProperties

\* What Put adds: the numbers of the bytes that fit, in their order.
LEMMA PutAdds ==
  ASSUME TypeInv, NEW bytes \in Seq(Text), Put(bytes)
  PROVE  \E n \in 0 .. Len(bytes) :
           /\ log' \in Seq(Text) /\ Len(log') = Len(log) + n
           /\ tx' \in Seq(Nat) /\ Len(tx') = Len(tx) + n /\ Len(tx') <= TxSize
           /\ \A i \in 1 .. Len(tx') :
                tx'[i] = IF i <= Len(tx) THEN tx[i] ELSE Len(log) + (i - Len(tx))
<1>0. /\ tx \in Seq(Nat) /\ log \in Seq(Text) /\ Len(tx) \in Nat /\ Len(log) \in Nat
      /\ Len(bytes) \in Nat /\ Len(tx) <= TxSize
  BY LenProperties DEF TypeInv, TypeOK
<1>1. PICK n \in 0 .. Len(bytes) : n = Fits(Len(bytes))
  BY <1>0, SizesAssumption DEF Fits
<1> DEFINE new == [i \in 1 .. n |-> Len(log) + i]
<1>2. new \in Seq(Nat) /\ Len(new) = n /\ \A i \in 1 .. n : new[i] = Len(log) + i
  BY <1>0
<1>3. tx' = tx \o new /\ log' = log \o SubSeq(bytes, 1, n)
  BY <1>1 DEF Put
<1> HIDE DEF new
<1>4. SubSeq(bytes, 1, n) \in Seq(Text) /\ Len(SubSeq(bytes, 1, n)) = n
  BY <1>0, Piece
<1>5. log' \in Seq(Text) /\ Len(log') = Len(log) + n
  BY <1>0, <1>3, <1>4, ConcatProperties
<1>6. /\ tx \o new \in Seq(Nat) /\ Len(tx \o new) = Len(tx) + Len(new)
      /\ \A i \in 1 .. Len(tx) + Len(new) :
           (tx \o new)[i] = IF i <= Len(tx) THEN tx[i] ELSE new[i - Len(tx)]
  BY <1>0, <1>2, ConcatProperties
<1>7. ASSUME NEW i \in 1 .. Len(tx')
      PROVE  tx'[i] = IF i <= Len(tx) THEN tx[i] ELSE Len(log) + (i - Len(tx))
  <2>1. i \in Nat /\ 1 <= i /\ i <= Len(tx) + n
    BY <1>0, <1>2, <1>3, <1>6
  <2>2. CASE i <= Len(tx)
    BY <1>0, <1>2, <1>3, <1>6, <2>1, <2>2
  <2>3. CASE i > Len(tx)
    <3>1. i - Len(tx) \in 1 .. n
      BY <1>0, <2>1, <2>3
    <3>2. tx'[i] = new[i - Len(tx)]
      BY <1>0, <1>2, <1>3, <1>6, <2>1, <2>3
    <3> QED BY <1>0, <1>2, <2>3, <3>1, <3>2
  <2> QED BY <1>0, <2>1, <2>2, <2>3
<1>8. Len(tx') <= TxSize
  BY <1>0, <1>1, <1>2, <1>3, <1>6, SizesAssumption DEF Fits
<1> QED BY <1>2, <1>3, <1>5, <1>6, <1>7, <1>8

-----------------------------------------------------------------------------
(***************************************************************************)
(* Types.                                                                   *)
(***************************************************************************)
LEMMA AnswerType ==
  ASSUME NEW s \in States, NEW b \in Bytes, Answered(s)
  PROVE  <<"IAC">> \o Answer(s, b) \in Seq(Text)
<1>1. Answer(s, b) = <<Answer(s, b)[1], b>> /\ Answer(s, b)[1] \in {"DO", "DONT", "WILL", "WONT"}
  <2>1. CASE s = "WILL"
    BY <2>1 DEF Answer
  <2>2. CASE s = "DO"
    BY <2>2 DEF Answer
  <2> QED BY <2>1, <2>2 DEF Answered
<1>2. Answer(s, b)[1] \in Text /\ b \in Text /\ "IAC" \in Text
  BY <1>1 DEF Text, Bytes, Verbs
<1>3. Answer(s, b) \in Seq(Text)
  BY <1>1, <1>2, SMTT(40)
<1>4. <<"IAC">> \in Seq(Text)
  BY <1>2
<1> QED BY <1>3, <1>4, ConcatProperties

LEMMA RestType ==
  ASSUME NEW s \in States, NEW b \in Seq(Bytes), b # <<>>
  PROVE  Rest(s, b) \in Seq(Bytes) /\ (Len(b) # 1 => Rest(s, b) # <<>>)
<1> DEFINE n == Len(b) - 1
           e(i) == IF i = 1 /\ s = "NORMAL" /\ b[1] = "CR" /\ b[2] = "NUL" THEN "LF" ELSE b[i + 1]
<1>1. n \in Nat /\ Len(b) = n + 1
  BY EmptySeq
<1>2. \A i \in 1 .. n : e(i) \in Bytes
  <2> SUFFICES ASSUME NEW i \in 1 .. n PROVE e(i) \in Bytes
    OBVIOUS
  <2>1. b[i + 1] \in Bytes
    BY <1>1, ElementOfSeq
  <2> QED BY <2>1 DEF Bytes
<1>3. Rest(s, b) = [i \in 1 .. n |-> e(i)]
  BY DEF Rest
<1> HIDE DEF e
<1>4. Rest(s, b) \in [1 .. n -> Bytes] /\ Rest(s, b) \in Seq(Bytes)
  BY <1>1, <1>2, <1>3
<1>5. ASSUME n # 0, Rest(s, b) = <<>> PROVE FALSE
  <2>1. DOMAIN Rest(s, b) = 1 .. n
    BY <1>3
  <2>2. DOMAIN Rest(s, b) = {}
    BY <1>5
  <2> QED BY <1>1, <1>5, <2>1, <2>2
<1> QED BY <1>1, <1>4, <1>5

LEMMA DrainType ==
  ASSUME TypeInv, NEW d \in Drainers, Drain(d)
  PROVE  TypeInv'
<1> USE DEF TypeInv, TypeOK, server, reader, session, sent
<1>1. CASE Take(d)
  <2> DEFINE k == IF Chunk < Len(tx) THEN Chunk ELSE Len(tx)
  <2>1. k \in 0 .. Len(tx)
    BY SizesAssumption, LenProperties
  <2>2. SubSeq(tx, 1, k) \in Seq(Nat)
    BY <2>1, Piece
  <2>3. hand' = [hand EXCEPT ![d] = SubSeq(tx, 1, k)]
    BY <1>1 DEF Take
  <2> HIDE DEF k
  <2>4. hand' \in [Drainers -> Seq(Nat)] /\ dpc' \in [Drainers -> {"off", "take", "advance", "send"}]
    BY <1>1, <2>2, <2>3 DEF Take
  <2> QED BY <1>1, <2>4 DEF Take
<1>2. CASE Advance(d)
  <2>1. Len(hand[d]) + 1 \in Nat \ {0} /\ Len(tx) \in Nat
    BY LenProperties
  <2>2. tx' = SubSeq(tx, Len(hand[d]) + 1, Len(tx))
    BY <1>2 DEF Advance
  <2>3. tx' \in Seq(Nat) /\ Len(tx') <= Len(tx)
    BY <2>1, <2>2, Piece
  <2>4. Len(tx') <= TxSize
    BY <2>1, <2>3, SizesAssumption, LenProperties
  <2>5. dpc' \in [Drainers -> {"off", "take", "advance", "send"}]
    BY <1>2 DEF Advance
  <2> QED BY <1>2, <2>3, <2>4, <2>5, SMTT(40) DEF Advance
<1>3. CASE Send(d)
  <2>1. dpc' \in [Drainers -> {"off", "take", "advance", "send"}]
    BY <1>3 DEF Send
  <2>2. hand' \in [Drainers -> Seq(Nat)]
    BY <1>3 DEF Send
  <2> QED BY <1>3, <2>1, <2>2 DEF Send
<1> QED BY <1>1, <1>2, <1>3 DEF Drain

LEMMA ShellType ==
  ASSUME TypeInv, Shell \/ SenderWakes PROVE TypeInv'
<1> USE DEF TypeInv, TypeOK, server, ring, reader, session, sent
<1>1. CASE ReadBegins
  BY <1>1 DEF ReadBegins
<1>2. CASE ReadWakes
  BY <1>2 DEF ReadWakes
<1>3. CASE ReadGets
  <2>1. rx' \in Seq(Bytes)
    BY <1>3, HeadTailProperties, ZenonT(60) DEF ReadGets
  <2> QED BY <1>3, <2>1 DEF ReadGets
<1>4. CASE WritePuts
  <2>1. <<"text">> \in Seq(Text)
    BY DEF Text
  <2>2. log' \in Seq(Text) /\ tx' \in Seq(Nat) /\ Len(tx') <= TxSize
    BY <1>4, <2>1, PutAdds DEF WritePuts
  <2> QED BY <1>4, <2>2 DEF WritePuts
<1>5. CASE WriteNotifies
  BY <1>5 DEF WriteNotifies
<1>6. CASE SenderWakes
  BY <1>6 DEF SenderWakes, Drainers
<1> QED BY <1>1, <1>2, <1>3, <1>4, <1>5, <1>6 DEF Shell

LEMMA ByteType == ASSUME TypeInv, Byte PROVE TypeInv'
<1> USE DEF TypeInv, TypeOK
<1> DEFINE b == Head(buf)
<1>1. b \in Bytes /\ buf # <<>> /\ Len(buf) \in Nat
  BY HeadTailProperties, LenProperties DEF Byte
<1>2. state' \in States
  BY <1>1 DEF Byte, AfterByte, States
<1>3. echo' \in BOOLEAN
  BY DEF Byte, EchoAfter
<1>4. rx' \in Seq(Bytes) /\ readNotice' \in Nat /\ escaped' \in Nat
  <2>1. Append(rx, b) \in Seq(Bytes)
    BY <1>1
  <2>2. rx' \in {rx, Append(rx, b)}
    BY DEF Byte, Store
  <2>3. readNotice' \in {readNotice, readNotice + 1} /\ escaped' \in {escaped, escaped + 1}
    <3>1. Store(b)
      BY DEF Byte
    <3>2. readNotice \in Nat /\ escaped \in Nat
      OBVIOUS
    <3> HIDE DEF TypeInv, TypeOK, b
    <3>3. readNotice' \in {readNotice, readNotice + 1}
      BY <3>1, <3>2 DEF Store
    <3>4. escaped' \in {escaped, escaped + 1}
      BY <3>1, <3>2 DEF Store
    <3> QED BY <3>3, <3>4
  <2>4. rx \in Seq(Bytes) /\ readNotice \in Nat /\ escaped \in Nat
    OBVIOUS
  <2> HIDE DEF TypeInv, TypeOK, b
  <2>5. rx' \in Seq(Bytes)
    BY <2>1, <2>2, <2>4
  <2> QED BY <2>3, <2>4, <2>5
<1>5. log' \in Seq(Text) /\ tx' \in Seq(Nat) /\ Len(tx') <= TxSize
  BY <1>1, AnswerType, PutAdds DEF Byte
<1>6. buf' \in Seq(Bytes) /\ spc' \in {"recv", "rx"} /\ (spc' = "rx" => buf' # <<>>)
  BY <1>1, RestType DEF Byte
<1>7. dpc' \in [Drainers -> {"off", "take", "advance", "send"}]
  BY DEF Byte, Drains, Drainers
<1> QED BY <1>2, <1>3, <1>4, <1>5, <1>6, <1>7 DEF Byte

LEMMA ServerType == ASSUME TypeInv, Server PROVE TypeInv'
<1> USE DEF TypeInv, TypeOK, ring, reader, session, sent
<1>1. CASE Accept
  <2>1. wire' \in Seq(Bytes)
    <3>1. conn + 1 \in 1 .. Len(Streams)
      BY <1>1, SizesAssumption, LenProperties DEF Accept
    <3>2. Streams[conn + 1] \in SUBSET Seq(Bytes)
      BY <3>1, SizesAssumption, ElementOfSeq
    <3> QED BY <1>1, <3>2 DEF Accept
  <2> QED BY <1>1, <2>1 DEF Accept
<1>2. CASE Hello
  <2>1. <<"IAC", "WILL", "ECHO">> \in Seq(Text)
    BY DEF Text, Bytes, Verbs, Options
  <2>2. log' \in Seq(Text) /\ tx' \in Seq(Nat) /\ Len(tx') <= TxSize
    BY <1>2, <2>1, PutAdds DEF Hello
  <2>3. dpc' \in [Drainers -> {"off", "take", "advance", "send"}]
    BY <1>2 DEF Hello, Drains
  <2> QED BY <1>2, <2>2, <2>3 DEF Hello, States
<1>3. CASE Banner
  <2>1. <<"text">> \in Seq(Text)
    BY DEF Text
  <2>2. log' \in Seq(Text) /\ tx' \in Seq(Nat) /\ Len(tx') <= TxSize
    BY <1>3, <2>1, PutAdds DEF Banner
  <2> QED BY <1>3, <2>2 DEF Banner
<1>4. CASE BannerNotifies
  <2>1. dpc' \in [Drainers -> {"off", "take", "advance", "send"}]
    BY <1>4 DEF BannerNotifies, Drains
  <2> QED BY <1>4, <2>1 DEF BannerNotifies
<1>5. CASE Recv
  <2>1. PICK n \in 1 .. RecvLen :
          n <= Len(wire) /\ buf' = SubSeq(wire, 1, n) /\ wire' = SubSeq(wire, n + 1, Len(wire))
    BY <1>5 DEF Recv
  <2>2. Len(wire) \in Nat /\ n \in 0 .. Len(wire)
    BY <2>1, SizesAssumption, LenProperties
  <2>3. buf' \in Seq(Bytes) /\ Len(buf') = n /\ wire' \in Seq(Bytes)
    BY <2>1, <2>2, Piece
  <2>4. buf' # <<>>
    <3>1. Len(buf') >= 1
      BY <2>3, SizesAssumption
    <3> QED BY <3>1, EmptySeq
  <2> QED BY <1>5, <2>3, <2>4 DEF Recv
<1>6. CASE Byte
  BY <1>6, ByteType
<1>7. CASE End
  BY <1>7 DEF End
<1>8. CASE CloseWakes
  BY <1>8 DEF CloseWakes
<1>9. CASE Close
  <2>1. wire' \in Seq(Bytes)
    BY <1>9 DEF Close
  <2> QED BY <1>9, <2>1 DEF Close
<1> QED BY <1>1, <1>2, <1>3, <1>4, <1>5, <1>6, <1>7, <1>8, <1>9 DEF Server

LEMMA TypeInit == Init => TypeInv
<1> SUFFICES ASSUME Init PROVE TypeInv
  OBVIOUS
<1>1. wire \in Seq(Bytes) /\ buf \in Seq(Bytes) /\ rx \in Seq(Bytes) /\ log \in Seq(Text)
      /\ tx \in Seq(Nat) /\ Len(tx) <= TxSize
  BY SizesAssumption DEF Init
<1>2. hand \in [Drainers -> Seq(Nat)] /\ dpc \in [Drainers -> {"off", "take", "advance", "send"}]
  BY DEF Init
<1>3. state \in States
  BY DEF Init, States
<1> QED BY <1>1, <1>2, <1>3 DEF Init, TypeInv, TypeOK

LEMMA TypeStep == ASSUME TypeInv, [Next]_vars PROVE TypeInv'
<1>1. CASE UNCHANGED vars
  BY <1>1 DEF TypeInv, TypeOK, vars, server, ring, reader, session, sent
<1> QED BY <1>1, ServerType, ShellType, DrainType DEF Next, Sender, Drainers

\* The buffers of the server thread, the rings and the pieces in the threads'
\* hands hold what they are for.
THEOREM TypeCorrect == Spec => []TypeOK
<1>1. TypeInv => TypeOK
  BY DEF TypeInv
<1> QED BY <1>1, TypeInit, TypeStep, PTL DEF Spec

-----------------------------------------------------------------------------
(***************************************************************************)
(* No byte without a notice.                                                *)
(***************************************************************************)
Taken == IF pc = "taken" THEN 1 ELSE 0

LEMMA WakesStep == ASSUME TypeInv, WakesReader, [Next]_vars PROVE WakesReader'
<1> USE DEF server, ring, reader, session, sent
<1>0. /\ rx \in Seq(Bytes) /\ Len(rx) \in Nat /\ readNotice \in Nat /\ escaped \in Nat
      /\ Len(rx) <= readNotice + Taken + escaped
  BY LenProperties DEF TypeInv, TypeOK, WakesReader, Taken
<1>1. SUFFICES Len(rx') <= readNotice' + Taken' + escaped'
  BY DEF WakesReader, Taken
<1>2. CASE UNCHANGED <<rx, readNotice, escaped>> /\ (pc = "taken" <=> pc' = "taken")
  BY <1>0, <1>2 DEF Taken
<1>3. CASE ReadWakes
  BY <1>0, <1>3 DEF ReadWakes, Taken
<1>4. CASE ReadGets
  <2>1. Len(rx') <= readNotice + escaped
    <3>1. CASE rx = <<>>
      BY <1>0, <1>4, <3>1 DEF ReadGets
    <3>2. CASE rx # <<>>
      BY <1>0, <1>4, <3>2, HeadTailProperties DEF ReadGets, Taken
    <3> QED BY <3>1, <3>2
  <2> QED BY <1>0, <1>4, <2>1 DEF ReadGets, Taken
<1>5. CASE Byte
  <2> DEFINE b == Head(buf)
  <2>1. Store(b) /\ pc' = pc
    BY <1>5 DEF Byte
  <2>2. b \in Bytes
    BY <1>5, HeadTailProperties DEF Byte, TypeInv, TypeOK
  <2>3. Append(rx, b) \in Seq(Bytes) /\ Len(Append(rx, b)) = Len(rx) + 1
    BY <1>0, <2>2
  <2> HIDE DEF b
  <2>4. CASE Stored(state, b)
    <3>1. Len(rx') <= Len(rx) + 1
      BY <1>0, <2>1, <2>3 DEF Store
    <3>2. CASE Noticed(state, b)
      BY <1>0, <2>1, <2>4, <3>1, <3>2 DEF Store, Taken
    <3>3. CASE ~Noticed(state, b)
      BY <1>0, <2>1, <2>4, <3>1, <3>3 DEF Store, Taken
    <3> QED BY <3>2, <3>3
  <2>5. CASE ~Stored(state, b)
    BY <1>0, <2>1, <2>5 DEF Store, Noticed, Taken
  <2> QED BY <2>4, <2>5
<1>6. CASE CloseWakes
  BY <1>0, <1>6 DEF CloseWakes, Taken
<1>7. CASE UNCHANGED vars \/ SenderWakes \/ Accept \/ Hello \/ Banner \/ BannerNotifies \/ Recv \/ End \/ Close
  BY <1>2, <1>7 DEF vars, SenderWakes, Accept, Hello, Banner, BannerNotifies, Recv, End, Close
<1>8. CASE ReadBegins \/ WritePuts \/ WriteNotifies
  BY <1>2, <1>8 DEF ReadBegins, WritePuts, WriteNotifies
<1>9. ASSUME NEW d \in Drainers, Drain(d) PROVE Len(rx') <= readNotice' + Taken' + escaped'
  BY <1>2, <1>9 DEF Drain, Take, Advance, Send
<1> QED BY <1>3, <1>4, <1>5, <1>6, <1>7, <1>8, <1>9 DEF Next, Server, Sender, Shell, Drainers

\* Whatever the clients send and however it is cut, the shell has a notice for
\* every byte that waits, but the doubled IACs.
THEOREM ReaderWoken == Spec => []WakesReader
<1>1. Init => WakesReader
  <2> SUFFICES ASSUME Init PROVE WakesReader
    OBVIOUS
  <2>1. Len(rx) = 0 /\ readNotice = 0 /\ escaped = 0 /\ pc = "idle"
    BY DEF Init
  <2> QED BY <2>1 DEF WakesReader
<1>2. TypeInv /\ WakesReader /\ [Next]_vars => (TypeInv /\ WakesReader)'
  BY TypeStep, WakesStep
<1> QED BY <1>1, <1>2, TypeInit, PTL DEF Spec

-----------------------------------------------------------------------------
(***************************************************************************)
(* Every byte once.                                                         *)
(***************************************************************************)
Distinct(s) == \A i, j \in DOMAIN s : i # j => s[i] # s[j]

\* The numbers 1 .. n, each in one of five sets.
Parted(A, B, C, D, E, n) ==
  /\ A \cap B = {} /\ A \cap C = {} /\ A \cap D = {} /\ A \cap E = {}
  /\ B \cap C = {} /\ B \cap D = {} /\ B \cap E = {}
  /\ C \cap D = {} /\ C \cap E = {} /\ D \cap E = {}
  /\ A \cup B \cup C \cup D \cup E = 1 .. n

\* Whoever has copied a piece and not yet moved the read index holds the mutex,
\* and the piece is still the head of the ring.  The server thread is done with
\* send_to_client when it does anything else.
TxInv ==
  /\ \A d \in Drainers : dpc[d] = "advance" =>
       /\ lock = d /\ Len(hand[d]) <= Len(tx)
       /\ \A i \in 1 .. Len(hand[d]) : hand[d][i] = tx[i]
  /\ spc \in {"accept", "hello", "notify", "wake", "close"} => dpc["server"] = "off"
  /\ Distinct(tx)
  /\ Parted(Elements(tx), InHand("server"), InHand("sender"), out, lost, Len(log))

LEMMA InRing ==
  ASSUME NEW s \in Seq(Nat)
  PROVE  Elements(s) = {s[i] : i \in 1 .. Len(s)}
  BY LenProperties DEF Elements

LEMMA PutParts ==
  ASSUME TypeInv, Distinct(tx), NEW bytes \in Seq(Text), Put(bytes),
         NEW B, NEW C, NEW D, NEW E, Parted(Elements(tx), B, C, D, E, Len(log))
  PROVE  Distinct(tx') /\ Parted(Elements(tx'), B, C, D, E, Len(log'))
<1>0. tx \in Seq(Nat) /\ log \in Seq(Text) /\ Len(tx) \in Nat /\ Len(log) \in Nat
  BY LenProperties DEF TypeInv, TypeOK
<1>1. PICK n \in 0 .. Len(bytes) :
        /\ Len(log') = Len(log) + n
        /\ tx' \in Seq(Nat) /\ Len(tx') = Len(tx) + n
        /\ \A i \in 1 .. Len(tx') :
             tx'[i] = IF i <= Len(tx) THEN tx[i] ELSE Len(log) + (i - Len(tx))
  BY PutAdds
<1>2. n \in Nat
  BY LenProperties
<1>3. \A i \in 1 .. Len(tx) : tx[i] \in Elements(tx)
  BY <1>0, InRing
<1>4. \A i \in 1 .. Len(tx) : tx[i] \in 1 .. Len(log)
  BY <1>3 DEF Parted
<1>5. Elements(tx') = Elements(tx) \cup ((Len(log) + 1) .. (Len(log) + n))
  <2>1. ASSUME NEW x \in Elements(tx') PROVE x \in Elements(tx) \/ x \in (Len(log) + 1) .. (Len(log) + n)
    <3>1. PICK i \in 1 .. Len(tx') : x = tx'[i]
      BY <1>1, InRing
    <3>2. CASE i <= Len(tx)
      <4>1. i \in 1 .. Len(tx) /\ tx'[i] = tx[i]
        BY <1>0, <1>1, <1>2, <3>2
      <4> QED BY <1>3, <3>1, <4>1
    <3>3. CASE i > Len(tx)
      BY <1>0, <1>1, <1>2, <3>1, <3>3
    <3> QED BY <1>0, <1>1, <1>2, <3>2, <3>3
  <2>2. ASSUME NEW x \in Elements(tx) PROVE x \in Elements(tx')
    <3>1. PICK i \in 1 .. Len(tx) : x = tx[i]
      BY <1>0, InRing
    <3>2. i \in 1 .. Len(tx') /\ tx'[i] = x
      BY <1>0, <1>1, <1>2, <3>1, SMTT(40)
    <3> QED BY <1>1, <3>2, InRing
  <2>3. ASSUME NEW x \in (Len(log) + 1) .. (Len(log) + n) PROVE x \in Elements(tx')
    <3>1. x - Len(log) + Len(tx) \in 1 .. Len(tx') /\ ~(x - Len(log) + Len(tx) <= Len(tx))
      BY <1>0, <1>1, <1>2
    <3>2. tx'[x - Len(log) + Len(tx)] = x
      <4> DEFINE i == x - Len(log) + Len(tx)
      <4>1. i \in 1 .. Len(tx') /\ ~(i <= Len(tx)) /\ Len(log) + (i - Len(tx)) = x
        BY <1>0, <3>1
      <4> HIDE DEF i
      <4>2. tx'[i] = x
        BY <1>1, <4>1
      <4> QED BY <4>2 DEF i
    <3> QED BY <1>1, <3>1, <3>2, InRing
  <2> QED BY <2>1, <2>2, <2>3
<1>6. Distinct(tx')
  <2> SUFFICES ASSUME NEW i \in 1 .. Len(tx'), NEW j \in 1 .. Len(tx'), i < j PROVE tx'[i] # tx'[j]
    BY <1>1, LenProperties DEF Distinct
  <2>1. CASE j <= Len(tx)
    <3>1. i \in 1 .. Len(tx) /\ j \in 1 .. Len(tx) /\ tx'[i] = tx[i] /\ tx'[j] = tx[j]
      BY <1>0, <1>1, <1>2, <2>1
    <3> QED BY <1>0, <3>1, LenProperties DEF Distinct
  <2>2. CASE i <= Len(tx) /\ j > Len(tx)
    <3>1. i \in 1 .. Len(tx) /\ tx'[i] = tx[i] /\ tx[i] <= Len(log)
      BY <1>0, <1>1, <1>2, <1>4, <2>2, SMTT(40)
    <3>2. tx'[j] = Len(log) + (j - Len(tx))
      BY <1>0, <1>1, <2>2
    <3> QED BY <1>0, <1>1, <1>4, <2>2, <3>1, <3>2, SMTT(40)
  <2>3. CASE i > Len(tx)
    BY <1>0, <1>1, <1>2, <2>3
  <2> QED BY <1>0, <1>1, <1>2, <2>1, <2>2, <2>3
<1>7. Elements(tx) \cup B \cup C \cup D \cup E = 1 .. Len(log)
  BY DEF Parted
<1>8. 1 .. Len(log') = (1 .. Len(log)) \cup ((Len(log) + 1) .. (Len(log) + n))
  BY <1>0, <1>1, <1>2
<1>9. (1 .. Len(log)) \cap ((Len(log) + 1) .. (Len(log) + n)) = {}
  BY <1>0, <1>2
<1> QED BY <1>5, <1>6, <1>7, <1>8, <1>9, Zenon DEF Parted

LEMMA DrainParts ==
  ASSUME TypeInv, TxInv, NEW d \in Drainers, Drain(d)
  PROVE  TxInv'
<1> USE DEF server, reader, session, sent
<1>0. /\ tx \in Seq(Nat) /\ Len(tx) \in Nat /\ Len(log) \in Nat /\ hand[d] \in Seq(Nat)
      /\ Len(hand[d]) \in Nat
      /\ dpc \in [Drainers -> {"off", "take", "advance", "send"}] /\ hand \in [Drainers -> Seq(Nat)]
  BY LenProperties DEF TypeInv, TypeOK
<1>1. PICK e \in Drainers : e # d /\ Drainers = {d, e}
  BY DEF Drainers
<1>2. dpc'[e] = dpc[e] /\ hand'[e] = hand[e] /\ spc' = spc /\ dpc[d] # "off" /\ Len(log') = Len(log)
  BY <1>0, <1>1 DEF Drain, Take, Advance, Send
<1>3. InHand(e)' = InHand(e)
  BY <1>2 DEF InHand, Elements
<1>4. spc' \in {"accept", "hello", "notify", "wake", "close"} => dpc'["server"] = "off"
  <2>1. CASE d = "server"
    BY <1>2, <2>1 DEF TxInv
  <2>2. CASE d = "sender"
    BY <1>1, <1>2, <2>2 DEF TxInv, Drainers
  <2> QED BY <2>1, <2>2 DEF Drainers
<1>5. /\ Elements(tx) \cap InHand(d) = {} /\ Elements(tx) \cap InHand(e) = {}
      /\ InHand(d) \cap InHand(e) = {}
      /\ \A S \in {Elements(tx), InHand(d), InHand(e)} : S \cap out = {} /\ S \cap lost = {}
      /\ out \cap lost = {}
      /\ Elements(tx) \cup InHand(d) \cup InHand(e) \cup out \cup lost = 1 .. Len(log)
  BY <1>1, Zenon DEF TxInv, Parted, Drainers
<1>6. ASSUME /\ Elements(tx)' \cap InHand(d)' = {} /\ Elements(tx)' \cap InHand(e) = {}
             /\ InHand(d)' \cap InHand(e) = {}
             /\ \A S \in {Elements(tx)', InHand(d)', InHand(e)} : S \cap out' = {} /\ S \cap lost' = {}
             /\ out' \cap lost' = {}
             /\ Elements(tx)' \cup InHand(d)' \cup InHand(e) \cup out' \cup lost' = 1 .. Len(log)
      PROVE  Parted(Elements(tx), InHand("server"), InHand("sender"), out, lost, Len(log))'
  <2>1. CASE d = "server" /\ e = "sender"
    BY <1>2, <1>3, <1>6, <2>1, Zenon DEF Parted
  <2>2. CASE d = "sender" /\ e = "server"
    BY <1>2, <1>3, <1>6, <2>2, ZenonT(150) DEF Parted
  <2> QED BY <1>1, <2>1, <2>2 DEF Drainers
<1>7. CASE Take(d)
  <2> DEFINE k == IF Chunk < Len(tx) THEN Chunk ELSE Len(tx)
  <2>1. k \in 0 .. Len(tx)
    BY <1>0, SizesAssumption
  <2>2. hand'[d] = SubSeq(tx, 1, k)
    BY <1>0, <1>7 DEF Take
  <2> HIDE DEF k
  <2>3. Len(hand'[d]) = k /\ \A i \in 1 .. k : hand'[d][i] = tx[i]
    BY <1>0, <2>1, <2>2, Piece
  <2>4. dpc[d] = "take" /\ dpc'[d] = "advance" /\ lock = "none" /\ lock' = d /\ tx' = tx
        /\ out' = out /\ lost' = lost
    BY <1>0, <1>7 DEF Take
  <2>5. InHand(d) = {} /\ InHand(d)' = {} /\ Elements(tx)' = Elements(tx)
    BY <2>4 DEF InHand, Elements
  <2>6. dpc'[e] # "advance"
    BY <1>1, <1>2, <2>4 DEF TxInv, Drainers
  <2>7. Parted(Elements(tx), InHand("server"), InHand("sender"), out, lost, Len(log))'
    BY <1>5, <1>6, <2>4, <2>5
  <2>8. \A c \in Drainers : dpc'[c] = "advance" =>
          /\ lock' = c /\ Len(hand'[c]) <= Len(tx')
          /\ \A i \in 1 .. Len(hand'[c]) : hand'[c][i] = tx'[i]
    BY <1>0, <1>1, <2>1, <2>3, <2>4, <2>6
  <2> QED BY <1>4, <2>4, <2>7, <2>8 DEF TxInv, Distinct
<1>8. CASE Advance(d)
  <2> DEFINE m == Len(hand[d])
             H == Elements(hand[d])
  <2>1. dpc[d] = "advance" /\ lock = d /\ m <= Len(tx) /\ m \in Nat
        /\ \A i \in 1 .. m : hand[d][i] = tx[i]
    BY <1>0, <1>8 DEF Advance, TxInv
  <2>2. tx' = SubSeq(tx, m + 1, Len(tx)) /\ out' = out /\ lost' = lost /\ hand' = hand
    BY <1>8 DEF Advance
  <2>3. /\ tx' \in Seq(Nat) /\ Len(tx') = Len(tx) - m
        /\ \A i \in 1 .. Len(tx) - m : tx'[i] = tx[m + i]
    BY <1>0, <2>1, <2>2, Piece, SMTT(40)
  <2>4. Elements(tx)' = {tx[i] : i \in (m + 1) .. Len(tx)}
    <3>1. Elements(tx)' = {tx'[i] : i \in 1 .. Len(tx) - m}
      BY <2>3, InRing DEF Elements
    <3>2. ASSUME NEW i \in (m + 1) .. Len(tx) PROVE i - m \in 1 .. Len(tx) - m /\ tx'[i - m] = tx[i]
      <4>1. i - m \in 1 .. Len(tx) - m /\ m + (i - m) = i
        BY <1>0, <2>1
      <4> QED BY <2>3, <4>1
    <3>3. ASSUME NEW i \in 1 .. Len(tx) - m PROVE m + i \in (m + 1) .. Len(tx)
      BY <1>0, <2>1
    <3> HIDE DEF m
    <3> QED BY <2>3, <3>1, <3>2, <3>3, SMTT(40)
  <2>5. H = {tx[i] : i \in 1 .. m}
    <3>1. H = {hand[d][i] : i \in 1 .. m}
      BY <1>0, InRing
    <3> QED BY <2>1, <3>1
  <2>6. Elements(tx) = {tx[i] : i \in 1 .. Len(tx)}
    BY <1>0, InRing
  <2> HIDE DEF m, H
  <2>7. Elements(tx) = H \cup Elements(tx)'
    <3>1. 1 .. Len(tx) = (1 .. m) \cup ((m + 1) .. Len(tx))
      BY <1>0, <2>1
    <3> QED BY <2>4, <2>5, <2>6, <3>1
  <2>8. H \cap Elements(tx)' = {}
    <3> SUFFICES ASSUME NEW i \in 1 .. m, NEW j \in (m + 1) .. Len(tx) PROVE tx[i] # tx[j]
      BY <2>4, <2>5
    <3>1. i \in 1 .. Len(tx) /\ j \in 1 .. Len(tx) /\ i # j
      BY <1>0, <2>1
    <3> QED BY <1>0, <3>1, LenProperties DEF TxInv, Distinct
  <2>9. InHand(d) = {} /\ InHand(d)' = H
    <3>1. InHand(d) = {}
      BY <2>1 DEF InHand
    <3>2. CASE hand[d] = <<>>
      <4>1. dpc'[d] = "off" /\ H = {}
        BY <1>0, <1>8, <3>2 DEF Advance, H, Elements
      <4> QED BY <3>1, <4>1 DEF InHand
    <3>3. CASE hand[d] # <<>>
      <4>1. dpc'[d] = "send"
        BY <1>0, <1>8, <3>3 DEF Advance
      <4> QED BY <2>2, <3>1, <4>1 DEF InHand, H, Elements
    <3> QED BY <3>2, <3>3
  <2>10. Parted(Elements(tx), InHand("server"), InHand("sender"), out, lost, Len(log))'
    <3>1. out' = out /\ lost' = lost /\ Elements(tx)' \subseteq Elements(tx) /\ H \subseteq Elements(tx)
      BY <2>2, <2>7
    <3> QED BY <1>5, <1>6, <2>7, <2>8, <2>9, <3>1, ZenonT(150)
  <2>11. dpc'[d] # "advance" /\ dpc'[e] # "advance"
    BY <1>0, <1>1, <1>2, <1>8, <2>1 DEF Advance, TxInv
  <2>12. Distinct(tx')
    <3> SUFFICES ASSUME NEW i \in 1 .. Len(tx'), NEW j \in 1 .. Len(tx'), i # j PROVE tx'[i] # tx'[j]
      BY <2>3, LenProperties DEF Distinct
    <3>1. m + i \in 1 .. Len(tx) /\ m + j \in 1 .. Len(tx) /\ m + i # m + j
      BY <1>0, <2>1, <2>3
    <3>2. tx'[i] = tx[m + i] /\ tx'[j] = tx[m + j]
      BY <2>3
    <3> QED BY <1>0, <3>1, <3>2, LenProperties DEF TxInv, Distinct
  <2> QED BY <1>1, <1>4, <2>10, <2>11, <2>12 DEF TxInv
<1>9. CASE Send(d)
  <2>1. dpc[d] = "send" /\ dpc'[d] = "take" /\ tx' = tx /\ lock' = lock
    BY <1>0, <1>9 DEF Send
  <2>2. InHand(d) = Elements(hand[d]) /\ InHand(d)' = {} /\ Elements(tx)' = Elements(tx)
    BY <2>1 DEF InHand, Elements
  <2>3. \/ out' = out \cup InHand(d) /\ lost' = lost
        \/ lost' = lost \cup InHand(d) /\ out' = out
    BY <1>9, <2>2 DEF Send
  <2>4. Parted(Elements(tx), InHand("server"), InHand("sender"), out, lost, Len(log))'
    <3>1. CASE out' = out \cup InHand(d) /\ lost' = lost
      BY <1>5, <1>6, <2>2, <3>1, ZenonT(60)
    <3>2. CASE lost' = lost \cup InHand(d) /\ out' = out
      BY <1>5, <1>6, <2>2, <3>2, ZenonT(60)
    <3> QED BY <2>3, <3>1, <3>2
  <2>5. \A c \in Drainers : dpc'[c] = "advance" =>
          /\ lock' = c /\ Len(hand'[c]) <= Len(tx')
          /\ \A i \in 1 .. Len(hand'[c]) : hand'[c][i] = tx'[i]
    BY <1>1, <1>2, <2>1 DEF TxInv
  <2> QED BY <1>4, <2>1, <2>4, <2>5 DEF TxInv, Distinct
<1> QED BY <1>7, <1>8, <1>9 DEF Drain

\* What every other step does to the piece in a thread's hand: nothing, but that
\* a thread may enter send_to_client.
Enters(d) == dpc'[d] = dpc[d] \/ (dpc[d] = "off" /\ dpc'[d] = "take")

LEMMA HandsKept ==
  ASSUME TypeInv, TxInv, UNCHANGED <<lock, hand>>, \A d \in Drainers : Enters(d),
         lock = "none" \/ tx' = tx
  PROVE  /\ \A d \in Drainers : dpc'[d] = "advance" =>
              /\ lock' = d /\ Len(hand'[d]) <= Len(tx')
              /\ \A i \in 1 .. Len(hand'[d]) : hand'[d][i] = tx'[i]
         /\ InHand("server")' = InHand("server") /\ InHand("sender")' = InHand("sender")
<1>1. ASSUME NEW d \in Drainers, dpc'[d] = "advance" PROVE dpc[d] = "advance" /\ tx' = tx
  BY <1>1 DEF Enters, TxInv, Drainers
<1>2. ASSUME NEW d \in Drainers
      PROVE  (IF dpc'[d] = "send" THEN Elements(hand'[d]) ELSE {})
               = (IF dpc[d] = "send" THEN Elements(hand[d]) ELSE {})
  BY <1>2 DEF Enters
<1>3. InHand("server")' = InHand("server") /\ InHand("sender")' = InHand("sender")
  BY <1>2 DEF InHand, Drainers, Elements
<1>4. ASSUME NEW d \in Drainers, dpc'[d] = "advance"
      PROVE  /\ lock' = d /\ Len(hand'[d]) <= Len(tx')
             /\ \A i \in 1 .. Len(hand'[d]) : hand'[d][i] = tx'[i]
  BY <1>1, <1>4 DEF TxInv
<1> QED BY <1>3, <1>4

LEMMA QuietParts ==
  ASSUME TypeInv, TxInv, UNCHANGED <<tx, log, lock, hand, out, lost>>,
         \A d \in Drainers : Enters(d),
         spc' \in {"accept", "hello", "notify", "wake", "close"} => dpc'["server"] = "off"
  PROVE  TxInv'
<1>1. Elements(tx)' = Elements(tx)
  BY DEF Elements
<1> QED BY <1>1, HandsKept DEF TxInv, Distinct

LEMMA PutInv ==
  ASSUME TypeInv, TxInv, NEW bytes \in Seq(Text), Put(bytes), UNCHANGED <<lock, hand, out, lost>>,
         \A d \in Drainers : Enters(d),
         spc' \in {"accept", "hello", "notify", "wake", "close"} => dpc'["server"] = "off"
  PROVE  TxInv'
<1>1. lock = "none"
  BY DEF Put
<1>2. Distinct(tx') /\ Parted(Elements(tx'), InHand("server"), InHand("sender"), out, lost, Len(log'))
  BY PutParts DEF TxInv
<1>3. Parted(Elements(tx), InHand("server"), InHand("sender"), out, lost, Len(log))'
  BY <1>1, <1>2, HandsKept DEF Elements
<1> QED BY <1>1, <1>2, <1>3, HandsKept DEF TxInv, Distinct

LEMMA TxStep == ASSUME TypeInv, TxInv, [Next]_vars PROVE TxInv'
<1> USE DEF server, ring, reader, session, sent
<1>0. dpc \in [Drainers -> {"off", "take", "advance", "send"}] /\ "server" \in Drainers
      /\ "sender" \in Drainers /\ "server" # "sender"
  BY DEF TypeInv, TypeOK, Drainers
<1>1. CASE \/ UNCHANGED vars \/ ReadBegins \/ ReadWakes \/ ReadGets \/ WriteNotifies \/ SenderWakes
           \/ Accept \/ Recv \/ End \/ CloseWakes \/ Close \/ BannerNotifies
  <2>1. UNCHANGED <<tx, log, lock, hand, out, lost>>
    BY <1>1 DEF vars, ReadBegins, ReadWakes, ReadGets, WriteNotifies, SenderWakes, Accept, Recv, End,
                CloseWakes, Close, BannerNotifies
  <2>2. \A d \in Drainers : Enters(d)
    <3>1. CASE SenderWakes \/ BannerNotifies
      BY <1>0, <3>1 DEF SenderWakes, BannerNotifies, Drains, Enters, TxInv
    <3>2. CASE dpc' = dpc
      BY <3>2 DEF Enters
    <3> QED BY <1>1, <3>1, <3>2 DEF vars, ReadBegins, ReadWakes, ReadGets, WriteNotifies, Accept,
                                    Recv, End, CloseWakes, Close
  <2>3. spc' \in {"accept", "hello", "notify", "wake", "close"} => dpc'["server"] = "off"
    <3>1. CASE SenderWakes
      BY <1>0, <3>1 DEF SenderWakes, TxInv
    <3>2. CASE BannerNotifies
      BY <3>2 DEF BannerNotifies
    <3>3. CASE UNCHANGED <<spc, dpc>>
      BY <3>3 DEF TxInv
    <3>4. CASE Accept \/ Recv \/ End \/ CloseWakes \/ Close
      BY <3>4 DEF Accept, Recv, End, CloseWakes, Close, Idle, TxInv
    <3> QED BY <1>1, <3>1, <3>2, <3>3, <3>4 DEF vars, ReadBegins, ReadWakes, ReadGets, WriteNotifies
  <2> QED BY <2>1, <2>2, <2>3, QuietParts
<1>2. CASE WritePuts
  <2>1. <<"text">> \in Seq(Text) /\ Put(<<"text">>)
    BY <1>2 DEF WritePuts, Text
  <2>2. UNCHANGED <<lock, hand, out, lost, dpc, spc>>
    BY <1>2 DEF WritePuts
  <2>3. spc' \in {"accept", "hello", "notify", "wake", "close"} => dpc'["server"] = "off"
    BY <2>2 DEF TxInv
  <2> QED BY <2>1, <2>2, <2>3, PutInv DEF Enters
<1>3. CASE Hello
  <2>1. <<"IAC", "WILL", "ECHO">> \in Seq(Text) /\ Put(<<"IAC", "WILL", "ECHO">>)
    BY <1>3 DEF Hello, Text, Bytes, Verbs, Options
  <2>2. UNCHANGED <<lock, hand, out, lost>> /\ spc' = "banner" /\ \A d \in Drainers : Enters(d)
    BY <1>0, <1>3 DEF Hello, Drains, Enters, TxInv
  <2> QED BY <2>1, <2>2, PutInv
<1>4. CASE Banner
  <2>1. <<"text">> \in Seq(Text) /\ Put(<<"text">>)
    BY <1>4 DEF Banner, Text
  <2>2. UNCHANGED <<lock, hand, out, lost, dpc>> /\ dpc["server"] = "off"
    BY <1>4 DEF Banner, Idle
  <2> QED BY <2>1, <2>2, PutInv DEF Enters
<1>5. CASE Byte
  <2>1. UNCHANGED <<lock, hand, out, lost>> /\ spc' \in {"recv", "rx"}
    BY <1>5 DEF Byte
  <2>2. \A d \in Drainers : Enters(d)
    BY <1>0, <1>5 DEF Byte, Drains, Idle, Enters
  <2>3. CASE Answered(state)
    <3>1. Put(<<"IAC">> \o Answer(state, Head(buf)))
      BY <1>5, <2>3 DEF Byte
    <3>2. <<"IAC">> \o Answer(state, Head(buf)) \in Seq(Text)
      BY <1>5, <2>3, HeadTailProperties, AnswerType DEF Byte, TypeInv, TypeOK
    <3> QED BY <2>1, <2>2, <3>1, <3>2, PutInv
  <2>4. CASE ~Answered(state)
    <3>1. UNCHANGED <<tx, log>>
      BY <1>5, <2>4 DEF Byte
    <3> QED BY <2>1, <2>2, <3>1, QuietParts
  <2> QED BY <2>3, <2>4
<1> QED BY <1>0, <1>1, <1>2, <1>3, <1>4, <1>5, DrainParts DEF Next, Server, Sender, Shell

LEMMA RingCounted ==
  ASSUME NEW s \in Seq(Nat), Distinct(s)
  PROVE  Cardinality(Elements(s)) = Len(s)
<1>1. DOMAIN s = 1 .. Len(s) /\ Len(s) \in Nat /\ s \in [1 .. Len(s) -> Elements(s)]
  BY LenProperties DEF Elements
<1>2. s \in Injection(1 .. Len(s), Elements(s))
  BY <1>1 DEF Injection, IsInjective, Distinct
<1>3. s \in Surjection(1 .. Len(s), Elements(s))
  BY <1>1 DEF Surjection, Elements
<1>4. IsFiniteSet(1 .. Len(s)) /\ Cardinality(1 .. Len(s)) = Len(s)
  BY <1>1, FS_Interval
<1>5. ExistsBijection(1 .. Len(s), Elements(s))
  BY <1>2, <1>3 DEF ExistsBijection, Bijection
<1> QED BY <1>4, <1>5, FS_Bijection

\* Every byte that was put into the transmit ring is in one place, once,
\* whichever of the two threads empties the ring and whenever clients come and go.
THEOREM BytesOnce == Spec => []TxOnce
<1>1. Init => TxInv
  <2> SUFFICES ASSUME Init PROVE TxInv
    OBVIOUS
  <2>1. tx = <<>> /\ log = <<>> /\ out = {} /\ lost = {} /\ \A d \in Drainers : dpc[d] = "off"
    BY DEF Init
  <2>2. Elements(tx) = {} /\ InHand("server") = {} /\ InHand("sender") = {} /\ Len(log) = 0 /\ Distinct(tx)
    BY <2>1 DEF Elements, InHand, Drainers, Distinct
  <2> QED BY <2>1, <2>2 DEF TxInv, Parted, Drainers
<1>2. TypeInv /\ TxInv /\ [Next]_vars => (TypeInv /\ TxInv)'
  BY TypeStep, TxStep
<1>3. TypeInv /\ TxInv => TxOnce
  <2> SUFFICES ASSUME TypeInv, TxInv PROVE TxOnce
    OBVIOUS
  <2> DEFINE A == Elements(tx)
             B == InHand("server")
             C == InHand("sender")
             places == <<A, B, C, out, lost>>
  <2>1. Parted(A, B, C, out, lost, Len(log))
    BY DEF TxInv
  <2>2. DOMAIN log = 1 .. Len(log)
    BY LenProperties DEF TypeInv
  <2>3. Cardinality(A) = Len(tx)
    BY RingCounted DEF TypeInv, TypeOK, TxInv
  <2> HIDE DEF A, B, C
  <2>4. \A i, j \in 1 .. 5 : i # j => places[i] \cap places[j] = {}
    <3> SUFFICES ASSUME NEW i \in 1 .. 5, NEW j \in 1 .. 5, i < j PROVE places[i] \cap places[j] = {}
      OBVIOUS
    <3>1. CASE i = 1
      BY <2>1, <3>1 DEF Parted
    <3>2. CASE i = 2
      BY <2>1, <3>2 DEF Parted
    <3>3. CASE i = 3
      BY <2>1, <3>3 DEF Parted
    <3>4. CASE i = 4
      BY <2>1, <3>4 DEF Parted
    <3> QED BY <3>1, <3>2, <3>3, <3>4
  <2>5. UNION {places[i] : i \in 1 .. 5} = A \cup B \cup C \cup out \cup lost
    OBVIOUS
  <2> QED BY <2>1, <2>2, <2>3, <2>4, <2>5 DEF TxOnce, Parted, A, B, C
<1> QED BY <1>1, <1>2, <1>3, TypeInit, PTL DEF Spec

-----------------------------------------------------------------------------
(***************************************************************************)
(* The echo mode: the shell's own one is in force before a connection, and  *)
(* put by from its greeting until it is closed.                             *)
(***************************************************************************)
EchoInv == IF spc \in {"accept", "hello"} THEN echo = mode ELSE saved = mode

LEMMA EchoStep == ASSUME EchoInv, [Next]_vars PROVE EchoInv'
<1> USE DEF EchoInv
<1>1. CASE UNCHANGED <<spc, echo, saved, mode>>
  BY <1>1
<1>2. CASE UNCHANGED vars \/ Sender \/ Shell \/ Drain("server")
  BY <1>1, <1>2 DEF vars, server, session, Sender, SenderWakes, Drain, Take, Advance, Send, Shell,
                    ReadBegins, ReadWakes, ReadGets, WritePuts, WriteNotifies
<1>3. CASE Accept \/ Hello
  BY <1>3 DEF Accept, Hello, session
<1>4. CASE Banner \/ BannerNotifies \/ Recv \/ Byte \/ End \/ CloseWakes
  BY <1>4 DEF Banner, BannerNotifies, Recv, Byte, End, CloseWakes, session
<1>5. CASE Close
  BY <1>5 DEF Close, session
<1> QED BY <1>2, <1>3, <1>4, <1>5 DEF Next, Server

\* Whatever options a client switches, and wherever its connection ends, the
\* shell has its own echo mode back before the next one.
THEOREM EchoAlways == Spec => []EchoRestored
<1>1. Init => EchoInv
  BY DEF Init, EchoInv
<1>2. EchoInv => EchoRestored
  BY DEF EchoInv, EchoRestored
<1> QED BY <1>1, <1>2, EchoStep, PTL DEF Spec

-----------------------------------------------------------------------------
(***************************************************************************)
(* Induction, from the least element of a set of numbers: a step proved for *)
(* every number holds for all of them.                                      *)
(***************************************************************************)
Before == {p \in Nat \X Nat : p[1] < p[2]}

LEMMA BeforeWellFounded == IsWellFoundedOn(Before, Nat)
<1>1. OpToRel(<, Nat) = {p \in Nat \X Nat : p[1] < p[2]}
  BY DEF OpToRel
<1> QED BY <1>1, NatLessThanWellFounded DEF Before

LEMMA Least ==
  ASSUME NEW T \in SUBSET Nat, T # {}
  PROVE  \E n \in T : \A m \in T : n <= m
<1>1. PICK n \in T : \A m \in T : ~ (<<m, n>> \in Before)
  BY BeforeWellFounded, WFMin
<1>2. ASSUME NEW m \in T PROVE n <= m
  <2>1. ~ (<<m, n>> \in Before) /\ m \in Nat /\ n \in Nat
    BY <1>1
  <2> QED BY <2>1 DEF Before
<1> QED BY <1>2

LEMMA Induction ==
  ASSUME NEW T \in SUBSET Nat, 0 \in T, \A n \in T : n + 1 \in T
  PROVE  T = Nat
<1> DEFINE U == Nat \ T
<1>1. ASSUME U # {} PROVE FALSE
  <2>1. PICK n \in U : \A m \in U : n <= m
    BY <1>1, Least
  <2>2. n # 0 /\ n - 1 \in Nat
    OBVIOUS
  <2>3. n - 1 \in T
    BY <2>1, <2>2
  <2> QED BY <2>1, <2>3
<1> QED BY <1>1

-----------------------------------------------------------------------------
(***************************************************************************)
(* The meaning of a stream.                                                 *)
(***************************************************************************)
\* The meaning at a place depends on the three places behind it only.
LEMMA MeaningLocal ==
  ASSUME NEW s \in Seq(Bytes), NEW f, NEW g, NEW i \in Nat \ {0},
         i <= Len(s) => f[i + 1] = g[i + 1] /\ f[i + 2] = g[i + 2] /\ f[i + 3] = g[i + 3]
  PROVE  MeaningAt(s, f, i) = MeaningAt(s, g, i)
<1>1. CASE i > Len(s)
  BY <1>1 DEF MeaningAt
<1>2. CASE ~(i > Len(s))
  <2>1. i <= Len(s)
    BY <1>2, LenProperties
  <2>2. f[i + 1] = g[i + 1] /\ f[i + 2] = g[i + 2] /\ f[i + 3] = g[i + 3]
    BY <2>1
  <2> QED BY <2>2 DEF MeaningAt
<1> QED BY <1>1, <1>2

\* The recursive definition of Meanings has a solution.
LEMMA MeaningsExist ==
  ASSUME NEW s \in Seq(Bytes)
  PROVE  \E f : f = [i \in 1 .. Len(s) + 3 |-> MeaningAt(s, f, i)]
<1> DEFINE N == Len(s)
           Solves(f, k) == f = [i \in (N - k + 1) .. N + 3 |-> MeaningAt(s, f, i)]
           T == {k \in Nat : k <= N => \E f : Solves(f, k)}
<1>0. N \in Nat /\ N = Len(s)
  BY LenProperties
<1> HIDE DEF N
<1>1. 0 \in T
  <2> DEFINE f == [i \in N + 1 .. N + 3 |-> Nothing]
  <2>1. \A i \in N + 1 .. N + 3 : MeaningAt(s, f, i) = Nothing
    <3> HIDE DEF f
    <3> QED BY <1>0 DEF MeaningAt
  <2>2. f = [i \in N + 1 .. N + 3 |-> MeaningAt(s, f, i)]
    BY <2>1
  <2>3. N - 0 + 1 = N + 1
    BY <1>0
  <2>4. Solves(f, 0)
    BY <2>2, <2>3
  <2> HIDE DEF Solves, f
  <2> QED BY <2>4
<1>2. ASSUME NEW k \in T PROVE k + 1 \in T
  <2> SUFFICES ASSUME k + 1 <= N PROVE \E g : Solves(g, k + 1)
    OBVIOUS
  <2>1. k \in Nat /\ k <= N /\ N - (k + 1) + 1 = N - k /\ N - k \in Nat \ {0}
    BY <1>0
  <2>2. PICK f : Solves(f, k)
    BY <2>1
  <2> HIDE DEF T
  <2> DEFINE g == [i \in (N - k) .. N + 3 |-> IF i = N - k THEN MeaningAt(s, f, i) ELSE f[i]]
  <2>3. \A i \in (N - k + 1) .. N + 3 : g[i] = f[i]
    BY <1>0, <2>1
  <2>4. g[N - k] = MeaningAt(s, f, N - k)
    BY <1>0, <2>1
  <2>5. ASSUME NEW i \in (N - k) .. N + 3 PROVE MeaningAt(s, f, i) = MeaningAt(s, g, i)
    <3>1. i \in Nat \ {0}
      BY <1>0, <2>1
    <3>2. ASSUME i <= N
          PROVE  /\ i + 1 \in (N - k + 1) .. N + 3 /\ i + 2 \in (N - k + 1) .. N + 3
                 /\ i + 3 \in (N - k + 1) .. N + 3
      BY <1>0, <2>1, <3>1, <3>2
    <3>3. i <= Len(s) => f[i + 1] = g[i + 1] /\ f[i + 2] = g[i + 2] /\ f[i + 3] = g[i + 3]
      BY <1>0, <2>3, <3>2
    <3> HIDE DEF g
    <3> QED BY <3>1, <3>3, MeaningLocal
  <2>6. ASSUME NEW i \in (N - k) .. N + 3 PROVE g[i] = MeaningAt(s, g, i)
    <3>1. CASE i = N - k
      BY <2>4, <2>5, <3>1
    <3>2. CASE i # N - k
      <4>1. i \in (N - k + 1) .. N + 3
        BY <1>0, <2>1, <3>2
      <4>2. f[i] = MeaningAt(s, f, i)
        BY <2>2, <4>1
      <4> QED BY <2>3, <2>5, <4>1, <4>2
    <3> QED BY <3>1, <3>2
  <2>7. g = [i \in (N - k) .. N + 3 |-> g[i]]
    OBVIOUS
  <2>8. g = [i \in (N - k) .. N + 3 |-> MeaningAt(s, g, i)]
    <3> HIDE DEF g
    <3> QED BY <2>6, <2>7
  <2>9. Solves(g, k + 1)
    BY <2>1, <2>8
  <2> HIDE DEF Solves, g
  <2> QED BY <2>9
<1>3. T = Nat
  <2> HIDE DEF T
  <2>1. T \in SUBSET Nat
    BY DEF T
  <2> QED BY <1>1, <1>2, <2>1, Induction
<1>4. PICK f : Solves(f, N)
  BY <1>0, <1>3
<1>5. N - N + 1 = 1
  BY <1>0
<1> QED BY <1>0, <1>4, <1>5

LEMMA MeaningOf ==
  ASSUME NEW s \in Seq(Bytes)
  PROVE  \A i \in 1 .. Len(s) + 3 : Meanings(s)[i] = MeaningAt(s, Meanings(s), i)
<1> DEFINE Solves(f) == f = [i \in 1 .. Len(s) + 3 |-> MeaningAt(s, f, i)]
<1>1. \E f : Solves(f)
  BY MeaningsExist
<1>2. Meanings(s) = CHOOSE f : Solves(f)
  BY DEF Meanings
<1>3. Solves(Meanings(s))
  <2> HIDE DEF Solves
  <2> QED BY <1>1, <1>2
<1> QED BY <1>3

Meaning == [text : Seq(Bytes), answers : Seq(Verbs \X Bytes)]

LEMMA WithTextType ==
  ASSUME NEW b \in Bytes, NEW p \in Meaning
  PROVE  WithText(b, p) \in Meaning
<1>1. <<b>> \in Seq(Bytes) /\ p.text \in Seq(Bytes)
  BY DEF Meaning
<1>2. <<b>> \o p.text \in Seq(Bytes)
  BY <1>1, ConcatProperties
<1> QED BY <1>2 DEF WithText, Meaning

LEMMA WithReplyType ==
  ASSUME NEW v \in {"WILL", "DO"}, NEW o \in Bytes, NEW p \in Meaning
  PROVE  WithReply(v, o, p) \in Meaning
<1> DEFINE agree == [WILL |-> "DO", DO |-> "WILL"]
           refuse == [WILL |-> "DONT", DO |-> "WONT"]
           verb == IF o \in {"ECHO", "SGA"} THEN agree[v] ELSE refuse[v]
<1>1. verb \in Verbs
  BY DEF Verbs
<1>2. WithReply(v, o, p) = [text |-> p.text, answers |-> <<<<verb, o>>>> \o p.answers]
  BY DEF WithReply
<1> HIDE DEF verb
<1>3. <<<<verb, o>>>> \in Seq(Verbs \X Bytes) /\ p.answers \in Seq(Verbs \X Bytes)
  BY <1>1 DEF Meaning
<1>4. <<<<verb, o>>>> \o p.answers \in Seq(Verbs \X Bytes)
  BY <1>3, ConcatProperties
<1> QED BY <1>2, <1>4 DEF Meaning

LEMMA MeaningAtType ==
  ASSUME NEW s \in Seq(Bytes), NEW p, NEW i \in Nat \ {0},
         i <= Len(s) => p[i + 1] \in Meaning /\ p[i + 2] \in Meaning /\ p[i + 3] \in Meaning
  PROVE  MeaningAt(s, p, i) \in Meaning
<1>0. Len(s) \in Nat /\ Nothing \in Meaning
  BY LenProperties DEF Nothing, Meaning
<1>1. CASE i > Len(s)
  BY <1>0, <1>1 DEF MeaningAt
<1>2. CASE ~(i > Len(s))
  <2> DEFINE next == IF i < Len(s) THEN s[i + 1] ELSE "end"
  <2>1. /\ i <= Len(s) /\ s[i] \in Bytes
        /\ p[i + 1] \in Meaning /\ p[i + 2] \in Meaning /\ p[i + 3] \in Meaning
    BY <1>0, <1>2, ElementOfSeq
  <2>2. WithText("IAC", p[i + 2]) \in Meaning /\ WithText("LF", p[i + 2]) \in Meaning
    BY <2>1, WithTextType DEF Bytes
  <2>3. WithText(s[i], p[i + 1]) \in Meaning
    BY <2>1, WithTextType
  <2>4. ASSUME next \in {"WILL", "DO"}, ~(i + 2 > Len(s))
        PROVE  WithReply(next, s[i + 2], p[i + 3]) \in Meaning
    <3>1. s[i + 2] \in Bytes
      BY <1>0, <2>4, ElementOfSeq
    <3> HIDE DEF next
    <3> QED BY <2>1, <2>4, <3>1, WithReplyType
  <2>5. MeaningAt(s, p, i) =
          CASE s[i] = "IAC" /\ next = "IAC" -> WithText("IAC", p[i + 2])
            [] s[i] = "IAC" /\ next \in {"WILL", "DO"} ->
                 IF i + 2 > Len(s) THEN Nothing ELSE WithReply(next, s[i + 2], p[i + 3])
            [] s[i] = "IAC" /\ next \in {"WONT", "DONT"} -> p[i + 3]
            [] s[i] = "IAC" /\ next \notin Verbs \cup {"IAC"} -> p[i + 2]
            [] s[i] = "CR" /\ next = "NUL" -> WithText("LF", p[i + 2])
            [] s[i] = "CR" /\ next # "NUL" -> p[i + 1]
            [] OTHER -> WithText(s[i], p[i + 1])
    BY <1>2 DEF MeaningAt
  <2> HIDE DEF next
  <2> QED BY <1>0, <2>1, <2>2, <2>3, <2>4, <2>5 DEF Verbs
<1> QED BY <1>1, <1>2

LEMMA MeaningType ==
  ASSUME NEW s \in Seq(Bytes)
  PROVE  \A i \in 1 .. Len(s) + 3 : Meanings(s)[i] \in Meaning
<1> DEFINE N == Len(s) + 3
           P == Meanings(s)
           T == {k \in Nat : \A i \in 1 .. N : i + k > N => P[i] \in Meaning}
<1>0. Len(s) \in Nat /\ N \in Nat /\ N = Len(s) + 3
  BY LenProperties
<1>1. \A i \in 1 .. N : P[i] = MeaningAt(s, P, i)
  BY MeaningOf
<1> HIDE DEF N, P
<1>2. 0 \in T
  BY <1>0
<1>3. ASSUME NEW k \in T PROVE k + 1 \in T
  <2> SUFFICES ASSUME NEW i \in 1 .. N, i + (k + 1) > N PROVE P[i] \in Meaning
    OBVIOUS
  <2>1. k \in Nat /\ i \in Nat \ {0} /\ \A j \in 1 .. N : j + k > N => P[j] \in Meaning
    BY <1>0
  <2> HIDE DEF T
  <2>2. ASSUME i <= Len(s)
        PROVE  P[i + 1] \in Meaning /\ P[i + 2] \in Meaning /\ P[i + 3] \in Meaning
    <3>1. i + 1 \in 1 .. N /\ i + 2 \in 1 .. N /\ i + 3 \in 1 .. N
      BY <1>0, <2>1, <2>2
    <3>2. i + 1 + k > N /\ i + 2 + k > N /\ i + 3 + k > N
      BY <1>0, <2>1
    <3> QED BY <2>1, <3>1, <3>2
  <2>3. MeaningAt(s, P, i) \in Meaning
    BY <2>1, <2>2, MeaningAtType
  <2> QED BY <1>1, <2>3
<1>4. T = Nat
  <2>1. T \in SUBSET Nat
    OBVIOUS
  <2> HIDE DEF T
  <2> QED BY <1>2, <1>3, <2>1, Induction
<1>5. ASSUME NEW i \in 1 .. N PROVE P[i] \in Meaning
  <2>1. N \in T /\ i + N > N
    BY <1>0, <1>4
  <2> QED BY <2>1
<1> QED BY <1>0, <1>5 DEF P

LEMMA ParseType ==
  ASSUME NEW s \in Seq(Bytes)
  PROVE  /\ Parse(s) \in Meaning
         /\ Parse(s).text \in Seq(Bytes) /\ Parse(s).answers \in Seq(Verbs \X Bytes)
<1>1. 1 \in 1 .. Len(s) + 3
  BY LenProperties
<1>2. Parse(s) \in Meaning
  BY <1>1, MeaningType DEF Parse
<1> QED BY <1>2 DEF Meaning

\* The meaning at a place is that of what the stream is from there on.
LEMMA MeaningAtShift ==
  ASSUME NEW w \in Seq(Bytes), NEW z \in Seq(Bytes), NEW f, NEW g, NEW i \in Nat \ {0},
         i <= Len(z) => /\ f[Len(w) + i + 1] = g[i + 1]
                        /\ f[Len(w) + i + 2] = g[i + 2]
                        /\ f[Len(w) + i + 3] = g[i + 3]
  PROVE  MeaningAt(w \o z, f, Len(w) + i) = MeaningAt(z, g, i)
<1> DEFINE m == Len(w)
           n == Len(z)
           s == w \o z
<1>0. m \in Nat /\ n \in Nat /\ s \in Seq(Bytes) /\ Len(s) = m + n
  BY LenProperties, ConcatProperties
<1>1. \A j \in 1 .. n : s[m + j] = z[j]
  <2> SUFFICES ASSUME NEW j \in 1 .. n PROVE s[m + j] = z[j]
    OBVIOUS
  <2>1. m + j \in 1 .. m + n /\ ~(m + j <= m) /\ (m + j) - m = j
    BY <1>0
  <2> QED BY <2>1, ConcatProperties
<1>9. m = Len(w) /\ n = Len(z) /\ s = w \o z
  OBVIOUS
<1> HIDE DEF m, n, s
<1>2. CASE i > n
  <2>1. m + i > Len(s)
    BY <1>0, <1>2
  <2> QED BY <1>2, <1>9, <2>1 DEF MeaningAt
<1>3. CASE ~(i > n)
  <2>1. /\ i <= n /\ ~(m + i > Len(s)) /\ s[m + i] = z[i]
        /\ m + i < Len(s) <=> i < n
        /\ m + i + 2 > Len(s) <=> i + 2 > n
    BY <1>0, <1>1, <1>3
  <2>2. f[m + i + 1] = g[i + 1] /\ f[m + i + 2] = g[i + 2] /\ f[m + i + 3] = g[i + 3]
    BY <1>9, <2>1
  <2>3. i < n => s[m + i + 1] = z[i + 1]
    <3> SUFFICES ASSUME i < n PROVE s[m + i + 1] = z[i + 1]
      OBVIOUS
    <3>1. i + 1 \in 1 .. n /\ m + i + 1 = m + (i + 1)
      BY <1>0
    <3> QED BY <1>1, <3>1
  <2>4. i + 2 <= n => s[m + i + 2] = z[i + 2]
    <3> SUFFICES ASSUME i + 2 <= n PROVE s[m + i + 2] = z[i + 2]
      OBVIOUS
    <3>1. i + 2 \in 1 .. n /\ m + i + 2 = m + (i + 2)
      BY <1>0
    <3> QED BY <1>1, <3>1
  <2> DEFINE next == IF i < n THEN z[i + 1] ELSE "end"
  <2>5. next = IF m + i < Len(s) THEN s[m + i + 1] ELSE "end"
    BY <2>1, <2>3
  <2>6. MeaningAt(z, g, i) =
          CASE z[i] = "IAC" /\ next = "IAC" -> WithText("IAC", g[i + 2])
            [] z[i] = "IAC" /\ next \in {"WILL", "DO"} ->
                 IF i + 2 > n THEN Nothing ELSE WithReply(next, z[i + 2], g[i + 3])
            [] z[i] = "IAC" /\ next \in {"WONT", "DONT"} -> g[i + 3]
            [] z[i] = "IAC" /\ next \notin Verbs \cup {"IAC"} -> g[i + 2]
            [] z[i] = "CR" /\ next = "NUL" -> WithText("LF", g[i + 2])
            [] z[i] = "CR" /\ next # "NUL" -> g[i + 1]
            [] OTHER -> WithText(z[i], g[i + 1])
    BY <1>3, <1>9 DEF MeaningAt
  <2> HIDE DEF next
  <2>7. MeaningAt(s, f, m + i) =
          CASE s[m + i] = "IAC" /\ next = "IAC" -> WithText("IAC", f[m + i + 2])
            [] s[m + i] = "IAC" /\ next \in {"WILL", "DO"} ->
                 IF m + i + 2 > Len(s) THEN Nothing
                 ELSE WithReply(next, s[m + i + 2], f[m + i + 3])
            [] s[m + i] = "IAC" /\ next \in {"WONT", "DONT"} -> f[m + i + 3]
            [] s[m + i] = "IAC" /\ next \notin Verbs \cup {"IAC"} -> f[m + i + 2]
            [] s[m + i] = "CR" /\ next = "NUL" -> WithText("LF", f[m + i + 2])
            [] s[m + i] = "CR" /\ next # "NUL" -> f[m + i + 1]
            [] OTHER -> WithText(s[m + i], f[m + i + 1])
    BY <2>1, <2>5 DEF MeaningAt
  <2>8. (IF m + i + 2 > Len(s) THEN Nothing ELSE WithReply(next, s[m + i + 2], f[m + i + 3]))
        = IF i + 2 > n THEN Nothing ELSE WithReply(next, z[i + 2], g[i + 3])
    BY <1>0, <2>1, <2>2, <2>4
  <2> QED BY <1>9, <2>1, <2>2, <2>6, <2>7, <2>8
<1> QED BY <1>2, <1>3

LEMMA MeaningShift ==
  ASSUME NEW w \in Seq(Bytes), NEW z \in Seq(Bytes)
  PROVE  \A i \in 1 .. Len(z) + 3 : Meanings(w \o z)[Len(w) + i] = Meanings(z)[i]
<1> DEFINE m == Len(w)
           N == Len(z) + 3
           f == Meanings(w \o z)
           g == Meanings(z)
           T == {k \in Nat : \A i \in 1 .. N : i + k > N => f[m + i] = g[i]}
<1>0. /\ m \in Nat /\ Len(z) \in Nat /\ N \in Nat /\ N = Len(z) + 3
      /\ w \o z \in Seq(Bytes) /\ Len(w \o z) = m + Len(z)
  BY LenProperties, ConcatProperties
<1>1. \A i \in 1 .. N : g[i] = MeaningAt(z, g, i)
  BY MeaningOf
<1>2. \A j \in 1 .. m + Len(z) + 3 : f[j] = MeaningAt(w \o z, f, j)
  BY <1>0, MeaningOf
<1>9. m = Len(w)
  OBVIOUS
<1> HIDE DEF N, f, g, m
<1>3. 0 \in T
  BY <1>0
<1>4. ASSUME NEW k \in T PROVE k + 1 \in T
  <2> SUFFICES ASSUME NEW i \in 1 .. N, i + (k + 1) > N PROVE f[m + i] = g[i]
    OBVIOUS
  <2>1. k \in Nat /\ i \in Nat \ {0} /\ \A j \in 1 .. N : j + k > N => f[m + j] = g[j]
    BY <1>0
  <2> HIDE DEF T
  <2>2. ASSUME i <= Len(z)
        PROVE  /\ f[m + i + 1] = g[i + 1] /\ f[m + i + 2] = g[i + 2]
               /\ f[m + i + 3] = g[i + 3]
    <3>1. i + 1 \in 1 .. N /\ i + 2 \in 1 .. N /\ i + 3 \in 1 .. N
      BY <1>0, <2>1, <2>2
    <3>2. i + 1 + k > N /\ i + 2 + k > N /\ i + 3 + k > N
      BY <1>0, <2>1
    <3>3. m + i + 1 = m + (i + 1) /\ m + i + 2 = m + (i + 2) /\ m + i + 3 = m + (i + 3)
      BY <1>0, <2>1
    <3> QED BY <2>1, <3>1, <3>2, <3>3
  <2>3. MeaningAt(w \o z, f, m + i) = MeaningAt(z, g, i)
    <3>1. i <= Len(z) => /\ f[Len(w) + i + 1] = g[i + 1]
                         /\ f[Len(w) + i + 2] = g[i + 2]
                         /\ f[Len(w) + i + 3] = g[i + 3]
      BY <1>9, <2>2
    <3>2. MeaningAt(w \o z, f, Len(w) + i) = MeaningAt(z, g, i)
      BY <2>1, <3>1, MeaningAtShift
    <3> QED BY <1>9, <3>2
  <2>4. m + i \in 1 .. m + Len(z) + 3
    BY <1>0, <2>1
  <2> QED BY <1>1, <1>2, <2>3, <2>4
<1>5. T = Nat
  <2>1. T \in SUBSET Nat
    OBVIOUS
  <2> HIDE DEF T
  <2> QED BY <1>3, <1>4, <2>1, Induction
<1>6. ASSUME NEW i \in 1 .. N PROVE f[m + i] = g[i]
  <2>1. N \in T /\ i + N > N
    BY <1>0, <1>5
  <2> QED BY <2>1
<1> QED BY <1>0, <1>6, <1>9 DEF f, g

\* How a stream is read from its beginning.
LEMMA ParseOf ==
  ASSUME NEW w \in Seq(Bytes), NEW z \in Seq(Bytes)
  PROVE  /\ w \o z \in Seq(Bytes) /\ Len(w \o z) = Len(w) + Len(z)
         /\ Len(w) \in Nat /\ Len(z) \in Nat
         /\ \A i \in 1 .. Len(w) : (w \o z)[i] = w[i]
         /\ z # <<>> => (w \o z)[Len(w) + 1] = Head(z) /\ Len(z) > 0
         /\ Parse(w \o z) = MeaningAt(w \o z, Meanings(w \o z), 1)
         /\ Meanings(w \o z)[Len(w) + 1] = Parse(z)
<1>1. /\ w \o z \in Seq(Bytes) /\ Len(w \o z) = Len(w) + Len(z)
      /\ Len(w) \in Nat /\ Len(z) \in Nat
      /\ \A i \in 1 .. Len(w) : (w \o z)[i] = w[i]
  BY LenProperties, ConcatProperties
<1>2. 1 \in 1 .. Len(w \o z) + 3 /\ 1 \in 1 .. Len(z) + 3
  BY <1>1
<1>3. Parse(w \o z) = MeaningAt(w \o z, Meanings(w \o z), 1)
  BY <1>1, <1>2, MeaningOf DEF Parse
<1>4. Meanings(w \o z)[Len(w) + 1] = Parse(z)
  BY <1>2, MeaningShift DEF Parse
<1>5. z # <<>> => (w \o z)[Len(w) + 1] = Head(z) /\ Len(z) > 0
  <2> SUFFICES ASSUME z # <<>> PROVE (w \o z)[Len(w) + 1] = Head(z) /\ Len(z) > 0
    OBVIOUS
  <2>1. Len(z) > 0 /\ Head(z) = z[1]
    BY EmptySeq, HeadTailProperties
  <2>2. /\ Len(w) + 1 \in 1 .. Len(w) + Len(z) /\ ~(Len(w) + 1 <= Len(w))
        /\ Len(w) + 1 - Len(w) = 1
    BY <1>1, <2>1
  <2> QED BY <2>1, <2>2, ConcatProperties
<1> QED BY <1>1, <1>3, <1>4, <1>5

LEMMA ParsePlain ==
  ASSUME NEW b \in Bytes \ {"IAC", "CR"}, NEW z \in Seq(Bytes)
  PROVE  Parse(<<b>> \o z) = WithText(b, Parse(z))
<1> DEFINE w == <<b>>
           s == w \o z
<1>1. w \in Seq(Bytes) /\ Len(w) = 1 /\ w[1] = b /\ 1 \in 1 .. Len(w) /\ Len(w) + 1 = 2
  OBVIOUS
<1> HIDE DEF w
<1>5. /\ s \in Seq(Bytes) /\ Len(s) = Len(w) + Len(z) /\ Len(z) \in Nat
      /\ \A i \in 1 .. Len(w) : s[i] = w[i]
      /\ z # <<>> => s[Len(w) + 1] = Head(z)
      /\ Parse(s) = MeaningAt(s, Meanings(s), 1)
      /\ Meanings(s)[Len(w) + 1] = Parse(z)
  BY <1>1, ParseOf
<1> HIDE DEF s
<1>2. /\ Len(s) = 1 + Len(z) /\ Len(z) \in Nat /\ s[1] = b
      /\ Parse(s) = MeaningAt(s, Meanings(s), 1) /\ Meanings(s)[2] = Parse(z)
  BY <1>1, <1>5
<1>3. ~(1 > Len(s)) /\ b # "IAC" /\ b # "CR"
  BY <1>2
<1>4. Parse(s) = WithText(s[1], Meanings(s)[1 + 1])
  BY <1>2, <1>3 DEF MeaningAt
<1> QED BY <1>2, <1>4 DEF s, w

LEMMA ParseReturn ==
  ASSUME NEW z \in Seq(Bytes), z = <<>> \/ Head(z) # "NUL"
  PROVE  Parse(<<"CR">> \o z) = Parse(z)
<1> DEFINE w == <<"CR">>
           s == w \o z
<1>1. w \in Seq(Bytes) /\ Len(w) = 1 /\ w[1] = "CR" /\ 1 \in 1 .. Len(w) /\ Len(w) + 1 = 2
  BY DEF Bytes
<1> HIDE DEF w
<1>5. /\ s \in Seq(Bytes) /\ Len(s) = Len(w) + Len(z) /\ Len(z) \in Nat
      /\ \A i \in 1 .. Len(w) : s[i] = w[i]
      /\ z # <<>> => s[Len(w) + 1] = Head(z)
      /\ Parse(s) = MeaningAt(s, Meanings(s), 1)
      /\ Meanings(s)[Len(w) + 1] = Parse(z)
  BY <1>1, ParseOf
<1> HIDE DEF s
<1>2. /\ Len(s) = 1 + Len(z) /\ Len(z) \in Nat /\ s[1] = "CR"
      /\ Parse(s) = MeaningAt(s, Meanings(s), 1) /\ Meanings(s)[2] = Parse(z)
      /\ z # <<>> => s[2] = Head(z)
  BY <1>1, <1>5
<1> DEFINE next == IF 1 < Len(s) THEN s[1 + 1] ELSE "end"
<1>3. ~(1 > Len(s)) /\ next # "NUL"
  <2>1. CASE z = <<>>
    <3>1. Len(z) = 0
      BY <2>1
    <3> QED BY <1>2, <3>1
  <2>2. CASE z # <<>>
    BY <1>2, <2>2
  <2> QED BY <2>1, <2>2
<1>4. Parse(s) = Meanings(s)[1 + 1]
  BY <1>2, <1>3 DEF MeaningAt
<1> QED BY <1>2, <1>4 DEF s, w

\* What a stream of two known bytes and more means.
LEMMA ParseTwo ==
  ASSUME NEW a \in Bytes, NEW b \in Bytes, NEW z \in Seq(Bytes)
  PROVE  LET s == <<a, b>> \o z IN
         /\ Len(s) = 2 + Len(z) /\ Len(z) \in Nat /\ s[1] = a /\ s[2] = b
         /\ Parse(s) = MeaningAt(s, Meanings(s), 1) /\ Meanings(s)[3] = Parse(z)
         /\ ~(1 > Len(s)) /\ 1 < Len(s)
<1> DEFINE w == <<a, b>>
           s == w \o z
<1>1. /\ w \in Seq(Bytes) /\ Len(w) = 2 /\ w[1] = a /\ w[2] = b
      /\ 1 \in 1 .. Len(w) /\ 2 \in 1 .. Len(w) /\ Len(w) + 1 = 3
  OBVIOUS
<1> HIDE DEF w
<1>5. /\ s \in Seq(Bytes) /\ Len(s) = Len(w) + Len(z) /\ Len(z) \in Nat
      /\ \A i \in 1 .. Len(w) : s[i] = w[i]
      /\ z # <<>> => s[Len(w) + 1] = Head(z)
      /\ Parse(s) = MeaningAt(s, Meanings(s), 1)
      /\ Meanings(s)[Len(w) + 1] = Parse(z)
  BY <1>1, ParseOf
<1> HIDE DEF s
<1>2. /\ Len(s) = 2 + Len(z) /\ Len(z) \in Nat /\ s[1] = a /\ s[2] = b
      /\ Parse(s) = MeaningAt(s, Meanings(s), 1)
      /\ Meanings(s)[3] = Parse(z)
  BY <1>1, <1>5
<1> QED BY <1>2 DEF s, w

LEMMA ParseLine ==
  ASSUME NEW z \in Seq(Bytes)
  PROVE  Parse(<<"CR", "NUL">> \o z) = WithText("LF", Parse(z))
<1> DEFINE s == <<"CR", "NUL">> \o z
<1>1. /\ s[1] = "CR" /\ s[2] = "NUL" /\ ~(1 > Len(s)) /\ 1 < Len(s)
      /\ Parse(s) = MeaningAt(s, Meanings(s), 1) /\ Meanings(s)[3] = Parse(z)
  BY ParseTwo DEF Bytes
<1> HIDE DEF s
<1>2. Parse(s) = WithText("LF", Meanings(s)[1 + 2])
  BY <1>1 DEF MeaningAt
<1> QED BY <1>1, <1>2 DEF s

LEMMA ParseDoubled ==
  ASSUME NEW z \in Seq(Bytes)
  PROVE  Parse(<<"IAC", "IAC">> \o z) = WithText("IAC", Parse(z))
<1> DEFINE s == <<"IAC", "IAC">> \o z
<1>1. /\ s[1] = "IAC" /\ s[2] = "IAC" /\ ~(1 > Len(s)) /\ 1 < Len(s)
      /\ Parse(s) = MeaningAt(s, Meanings(s), 1) /\ Meanings(s)[3] = Parse(z)
  BY ParseTwo DEF Bytes
<1> HIDE DEF s
<1>2. Parse(s) = WithText("IAC", Meanings(s)[1 + 2])
  BY <1>1 DEF MeaningAt
<1> QED BY <1>1, <1>2 DEF s

LEMMA ParseCommand ==
  ASSUME NEW b \in Bytes \ (Verbs \cup {"IAC"}), NEW z \in Seq(Bytes)
  PROVE  Parse(<<"IAC", b>> \o z) = Parse(z)
<1> DEFINE s == <<"IAC", b>> \o z
<1>1. /\ s[1] = "IAC" /\ s[2] = b /\ ~(1 > Len(s)) /\ 1 < Len(s)
      /\ Parse(s) = MeaningAt(s, Meanings(s), 1) /\ Meanings(s)[3] = Parse(z)
  BY ParseTwo DEF Bytes
<1> HIDE DEF s
<1>2. Parse(s) = Meanings(s)[1 + 2]
  BY <1>1 DEF MeaningAt, Verbs
<1> QED BY <1>1, <1>2 DEF s

LEMMA ParseOption ==
  ASSUME NEW v \in Verbs, NEW o \in Bytes, NEW z \in Seq(Bytes)
  PROVE  Parse(<<"IAC", v, o>> \o z) =
           IF v \in {"WILL", "DO"} THEN WithReply(v, o, Parse(z)) ELSE Parse(z)
<1> DEFINE w == <<"IAC", v, o>>
           s == w \o z
<1>1. /\ w \in Seq(Bytes) /\ Len(w) = 3 /\ w[1] = "IAC" /\ w[2] = v /\ w[3] = o
      /\ 1 \in 1 .. Len(w) /\ 2 \in 1 .. Len(w) /\ 3 \in 1 .. Len(w) /\ Len(w) + 1 = 4
  BY DEF Bytes
<1> HIDE DEF w
<1>5. /\ s \in Seq(Bytes) /\ Len(s) = Len(w) + Len(z) /\ Len(z) \in Nat
      /\ \A i \in 1 .. Len(w) : s[i] = w[i]
      /\ z # <<>> => s[Len(w) + 1] = Head(z)
      /\ Parse(s) = MeaningAt(s, Meanings(s), 1)
      /\ Meanings(s)[Len(w) + 1] = Parse(z)
  BY <1>1, ParseOf
<1> HIDE DEF s
<1>2. /\ Len(s) = 3 + Len(z) /\ Len(z) \in Nat /\ s[1] = "IAC" /\ s[2] = v /\ s[3] = o
      /\ Parse(s) = MeaningAt(s, Meanings(s), 1) /\ Meanings(s)[4] = Parse(z)
  BY <1>1, <1>5
<1>3. ~(1 > Len(s)) /\ 1 < Len(s) /\ ~(1 + 2 > Len(s))
  BY <1>2
<1>4. CASE v \in {"WILL", "DO"}
  <2>1. Parse(s) = WithReply(v, s[1 + 2], Meanings(s)[1 + 3])
    BY <1>2, <1>3, <1>4 DEF MeaningAt
  <2> QED BY <1>2, <1>4, <2>1 DEF s, w
<1>6. CASE v \in {"WONT", "DONT"}
  <2>1. Parse(s) = Meanings(s)[1 + 3]
    BY <1>2, <1>3, <1>6 DEF MeaningAt
  <2> QED BY <1>2, <1>6, <2>1 DEF s, w
<1> QED BY <1>4, <1>6 DEF Verbs

\* A stream that ends within a sequence.
LEMMA ParseEnds ==
  /\ Parse(<<>>) = Nothing /\ Parse(<<"IAC">>) = Nothing
  /\ \A v \in Verbs : Parse(<<"IAC", v>>) = Nothing
<1>1. ASSUME NEW s \in Seq(Bytes), NEW i \in 1 .. Len(s) + 3, i > Len(s)
      PROVE  Meanings(s)[i] = Nothing
  BY <1>1, MeaningOf DEF MeaningAt
<1>2. Parse(<<>>) = Nothing
  <2>1. <<>> \in Seq(Bytes) /\ 1 \in 1 .. Len(<<>>) + 3 /\ 1 > Len(<<>>)
    OBVIOUS
  <2> QED BY <1>1, <2>1 DEF Parse
<1>3. Parse(<<"IAC">>) = Nothing
  <2> DEFINE s == <<"IAC">>
  <2>1. s \in Seq(Bytes) /\ Len(s) = 1 /\ s[1] = "IAC" /\ 3 \in 1 .. Len(s) + 3 /\ 3 > Len(s)
    BY DEF Bytes
  <2> HIDE DEF s
  <2>2. Meanings(s)[3] = Nothing
    BY <1>1, <2>1
  <2>3. Parse(s) = MeaningAt(s, Meanings(s), 1)
    BY <2>1, MeaningOf DEF Parse
  <2>4. MeaningAt(s, Meanings(s), 1) = Meanings(s)[1 + 2]
    BY <2>1 DEF MeaningAt, Verbs
  <2> QED BY <2>2, <2>3, <2>4 DEF s
<1>4. ASSUME NEW v \in Verbs PROVE Parse(<<"IAC", v>>) = Nothing
  <2> DEFINE s == <<"IAC", v>>
  <2>1. /\ s \in Seq(Bytes) /\ Len(s) = 2 /\ s[1] = "IAC" /\ s[2] = v
        /\ 4 \in 1 .. Len(s) + 3 /\ 4 > Len(s)
    BY DEF Bytes
  <2> HIDE DEF s
  <2>2. Meanings(s)[4] = Nothing
    BY <1>1, <2>1
  <2>3. Parse(s) = MeaningAt(s, Meanings(s), 1)
    BY <2>1, MeaningOf DEF Parse
  <2>4. MeaningAt(s, Meanings(s), 1) \in {Nothing, Meanings(s)[1 + 3]}
    <3>1. v \in {"WILL", "DO"} \/ v \in {"WONT", "DONT"}
      BY DEF Verbs
    <3> QED BY <2>1, <3>1 DEF MeaningAt
  <2> QED BY <2>2, <2>3, <2>4 DEF s
<1> QED BY <1>2, <1>3, <1>4

(***************************************************************************)
(* What process_rx makes of one byte is what the byte means.  A stream that *)
(* begins in a state of the protocol is one that begins with the bytes that *)
(* led there.                                                               *)
(***************************************************************************)
Pending(st) ==
  CASE st = "NORMAL" -> <<>> [] st = "IAC" -> <<"IAC">> [] OTHER -> <<"IAC", st>>

Ahead(st, b, y) == Parse(Pending(st) \o (b \o y))

LEMMA PendingType == \A st \in States : Pending(st) \in Seq(Bytes)
<1> SUFFICES ASSUME NEW st \in States PROVE Pending(st) \in Seq(Bytes)
  OBVIOUS
<1>1. CASE st = "NORMAL"
  BY <1>1 DEF Pending
<1>2. CASE st = "IAC"
  BY <1>2 DEF Pending, Bytes
<1>3. CASE st \in Verbs
  BY <1>3 DEF Pending, Bytes, Verbs
<1> QED BY <1>1, <1>2, <1>3 DEF States

LEMMA Regroup ==
  ASSUME NEW a \in Seq(Bytes), NEW b \in Seq(Bytes), NEW c \in Seq(Bytes)
  PROVE  (a \o b) \o c = a \o (b \o c)
BY ConcatAssociative

LEMMA Joined ==
  ASSUME NEW a \in Bytes, NEW b \in Bytes, NEW z \in Seq(Bytes)
  PROVE  <<a>> \o (<<b>> \o z) = <<a, b>> \o z /\ <<b>> \o z \in Seq(Bytes)
<1>1. <<a>> \in Seq(Bytes) /\ <<b>> \in Seq(Bytes)
  OBVIOUS
<1>2. <<a>> \o <<b>> = <<a, b>>
  <2> DEFINE u == <<a>>
             v == <<b>>
             w == <<a, b>>
  <2>1. /\ u \in Seq(Bytes) /\ Len(u) = 1 /\ u[1] = a
        /\ v \in Seq(Bytes) /\ Len(v) = 1 /\ v[1] = b
        /\ w \in Seq(Bytes) /\ Len(w) = 2 /\ w[1] = a /\ w[2] = b
    OBVIOUS
  <2> HIDE DEF u, v, w
  <2>2. /\ u \o v \in Seq(Bytes) /\ Len(u \o v) = Len(u) + Len(v)
        /\ \A i \in 1 .. Len(u) + Len(v) :
             (u \o v)[i] = IF i <= Len(u) THEN u[i] ELSE v[i - Len(u)]
    BY <2>1, ConcatProperties
  <2>3. Len(u \o v) = 2 /\ \A i \in 1 .. 2 : (u \o v)[i] = w[i]
    BY <2>1, <2>2
  <2> QED BY <2>1, <2>2, <2>3, SeqEqual DEF u, v, w
<1>3. <<b>> \o z \in Seq(Bytes)
  BY <1>1, ConcatProperties
<1>4. (<<a>> \o <<b>>) \o z = <<a>> \o (<<b>> \o z)
  BY <1>1, ConcatAssociative
<1> QED BY <1>2, <1>3, <1>4

LEMMA JoinedThree ==
  ASSUME NEW a \in Bytes, NEW b \in Bytes, NEW c \in Bytes, NEW z \in Seq(Bytes)
  PROVE  <<a, b>> \o (<<c>> \o z) = <<a, b, c>> \o z
<1>1. <<a, b>> \in Seq(Bytes) /\ <<c>> \in Seq(Bytes)
  OBVIOUS
<1>2. <<a, b>> \o <<c>> = <<a, b, c>>
  <2> DEFINE u == <<a, b>>
             v == <<c>>
             w == <<a, b, c>>
  <2>1. /\ u \in Seq(Bytes) /\ Len(u) = 2 /\ u[1] = a /\ u[2] = b
        /\ v \in Seq(Bytes) /\ Len(v) = 1 /\ v[1] = c
        /\ w \in Seq(Bytes) /\ Len(w) = 3 /\ w[1] = a /\ w[2] = b /\ w[3] = c
    OBVIOUS
  <2> HIDE DEF u, v, w
  <2>2. /\ u \o v \in Seq(Bytes) /\ Len(u \o v) = Len(u) + Len(v)
        /\ \A i \in 1 .. Len(u) + Len(v) :
             (u \o v)[i] = IF i <= Len(u) THEN u[i] ELSE v[i - Len(u)]
    BY <2>1, ConcatProperties
  <2>3. Len(u \o v) = 3 /\ \A i \in 1 .. 3 : (u \o v)[i] = w[i]
    BY <2>1, <2>2
  <2> QED BY <2>1, <2>2, <2>3, SeqEqual DEF u, v, w
<1>3. (<<a, b>> \o <<c>>) \o z = <<a, b>> \o (<<c>> \o z)
  BY <1>1, ConcatAssociative
<1> QED BY <1>2, <1>3

\* A buffer is its first byte and the rest, which Rest leaves but for the NUL
\* behind a CR.
LEMMA RestIs ==
  ASSUME NEW st \in States, NEW b \in Seq(Bytes), b # <<>>, NEW y \in Seq(Bytes)
  PROVE  /\ Head(b) \in Bytes /\ Tail(b) \o y \in Seq(Bytes)
         /\ b \o y = <<Head(b)>> \o (Tail(b) \o y)
         /\ ~(st = "NORMAL" /\ Head(b) = "CR" /\ Len(b) > 1 /\ b[2] = "NUL") =>
              Rest(st, b) = Tail(b)
<1>1. /\ Head(b) = b[1] /\ Head(b) \in Bytes /\ Tail(b) \in Seq(Bytes) /\ Len(b) \in Nat \ {0}
      /\ Len(Tail(b)) = Len(b) - 1 /\ \A i \in 1 .. Len(Tail(b)) : Tail(b)[i] = b[i + 1]
  BY HeadTailProperties, EmptySeq
<1>2. b = <<Head(b)>> \o Tail(b)
  <2>1. <<b[1]>> \in Seq(Bytes) /\ Len(<<b[1]>>) = 1 /\ <<b[1]>>[1] = b[1]
    BY <1>1
  <2>2. /\ <<b[1]>> \o Tail(b) \in Seq(Bytes)
        /\ Len(<<b[1]>> \o Tail(b)) = Len(<<b[1]>>) + Len(Tail(b))
        /\ \A i \in 1 .. Len(<<b[1]>>) + Len(Tail(b)) : (<<b[1]>> \o Tail(b))[i] =
             IF i <= Len(<<b[1]>>) THEN <<b[1]>>[i] ELSE Tail(b)[i - Len(<<b[1]>>)]
    BY <1>1, <2>1, ConcatProperties
  <2>3. ASSUME NEW i \in 1 .. Len(b) PROVE (<<b[1]>> \o Tail(b))[i] = b[i]
    <3>1. CASE i = 1
      BY <1>1, <2>1, <2>2, <3>1
    <3>2. CASE i # 1
      <4>1. i - 1 \in 1 .. Len(Tail(b)) /\ ~(i <= Len(<<b[1]>>)) /\ (i - 1) + 1 = i
            /\ i \in 1 .. Len(<<b[1]>>) + Len(Tail(b)) /\ i - Len(<<b[1]>>) = i - 1
        BY <1>1, <2>1, <3>2
      <4> QED BY <1>1, <2>2, <4>1
    <3> QED BY <3>1, <3>2
  <2>4. Len(<<b[1]>> \o Tail(b)) = Len(b)
    BY <1>1, <2>1, <2>2
  <2> QED BY <1>1, <2>2, <2>3, <2>4, SeqEqual
<1>3. <<Head(b)>> \in Seq(Bytes)
  BY <1>1
<1>4. b \o y = <<Head(b)>> \o (Tail(b) \o y) /\ Tail(b) \o y \in Seq(Bytes)
  BY <1>1, <1>2, <1>3, ConcatAssociative, ConcatProperties
<1>5. ASSUME ~(st = "NORMAL" /\ Head(b) = "CR" /\ Len(b) > 1 /\ b[2] = "NUL")
      PROVE  Rest(st, b) = Tail(b)
  <2> DEFINE e(i) == IF i = 1 /\ st = "NORMAL" /\ b[1] = "CR" /\ b[2] = "NUL"
                     THEN "LF" ELSE b[i + 1]
  <2>1. Rest(st, b) = [i \in 1 .. Len(b) - 1 |-> e(i)]
    BY DEF Rest
  <2>2. \A i \in 1 .. Len(b) - 1 : e(i) = Tail(b)[i]
    BY <1>1, <1>5
  <2>3. Tail(b) = [i \in 1 .. Len(b) - 1 |-> Tail(b)[i]]
    <3>1. Tail(b) = [i \in 1 .. Len(Tail(b)) |-> Tail(b)[i]]
      BY <1>1, LenProperties
    <3> QED BY <1>1, <3>1
  <2> HIDE DEF e
  <2> QED BY <2>1, <2>2, <2>3
<1> QED BY <1>1, <1>4, <1>5

LEMMA LineThen ==
  ASSUME NEW t \in Seq(Bytes), NEW y \in Seq(Bytes)
  PROVE  /\ (<<"CR", "NUL">> \o t) \o y = <<"CR", "NUL">> \o (t \o y)
         /\ (<<"LF">> \o t) \o y = <<"LF">> \o (t \o y)
<1>1. <<"CR", "NUL">> \in Seq(Bytes) /\ <<"LF">> \in Seq(Bytes)
  BY DEF Bytes
<1>2. (<<"CR", "NUL">> \o t) \o y = <<"CR", "NUL">> \o (t \o y)
  BY <1>1, Regroup
<1>3. (<<"LF">> \o t) \o y = <<"LF">> \o (t \o y)
  BY <1>1, Regroup
<1> QED BY <1>2, <1>3

\* A CR with its NUL: what is left begins with a line feed.
LEMMA RestLine ==
  ASSUME NEW b \in Seq(Bytes), Len(b) > 1, b[1] = "CR", b[2] = "NUL", NEW y \in Seq(Bytes)
  PROVE  \E z \in Seq(Bytes) :
           b \o y = <<"CR", "NUL">> \o z /\ Rest("NORMAL", b) \o y = <<"LF">> \o z
<1> DEFINE r == Rest("NORMAL", b)
           t == SubSeq(b, 3, Len(b))
<1>1. Len(b) \in Nat /\ b # <<>> /\ "NORMAL" \in States
  BY LenProperties, EmptySeq DEF States
<1>2. \A i \in 3 .. Len(b) : b[i] \in Bytes
  BY <1>1, ElementOfSeq
<1>3. /\ t \in Seq(Bytes) /\ Len(t) = Len(b) - 2 /\ \A i \in 1 .. Len(b) - 2 : t[i] = b[i + 2]
  <2>1. 3 \in 1 .. Len(b) + 1
    BY <1>1
  <2>2. /\ t \in Seq(Bytes)
        /\ Len(t) = IF 3 <= Len(b) THEN Len(b) - 3 + 1 ELSE 0
        /\ \A i \in 1 .. Len(b) - 3 + 1 : t[i] = b[3 + i - 1]
    BY <1>1, <1>2, <2>1, SubSeqProperties
  <2> HIDE DEF t
  <2>3. ASSUME NEW i \in 1 .. Len(b) - 2 PROVE t[i] = b[i + 2]
    <3>1. i \in 1 .. Len(b) - 3 + 1 /\ 3 + i - 1 = i + 2
      BY <1>1
    <3>2. t[i] = b[3 + i - 1]
      BY <2>2, <3>1
    <3> QED BY <3>1, <3>2
  <2>4. Len(t) = Len(b) - 2
    <3>1. Len(t) = IF 3 <= Len(b) THEN Len(b) - 3 + 1 ELSE 0
      BY <2>2
    <3>2. CASE 3 <= Len(b)
      <4>1. Len(t) = Len(b) - 3 + 1
        BY <3>1, <3>2
      <4> QED BY <1>1, <4>1
    <3>3. CASE ~(3 <= Len(b))
      <4>1. Len(t) = 0
        BY <3>1, <3>3
      <4>2. \A n \in Nat : n > 1 /\ ~(3 <= n) => n = 2
        OBVIOUS
      <4>3. Len(b) = 2
        BY <1>1, <3>3, <4>2, Zenon
      <4> QED BY <4>1, <4>3
    <3> QED BY <3>2, <3>3
  <2> QED BY <2>2, <2>3, <2>4
<1> HIDE DEF t
<1>4. <<"CR", "NUL">> \in Seq(Bytes) /\ <<"LF">> \in Seq(Bytes)
  BY DEF Bytes
<1>5. b = <<"CR", "NUL">> \o t
  <2> DEFINE w == <<"CR", "NUL">>
  <2>1. w \in Seq(Bytes) /\ Len(w) = 2 /\ w[1] = "CR" /\ w[2] = "NUL"
    BY <1>4
  <2> HIDE DEF w
  <2>2. /\ w \o t \in Seq(Bytes) /\ Len(w \o t) = Len(w) + Len(t)
        /\ \A i \in 1 .. Len(w) + Len(t) :
             (w \o t)[i] = IF i <= Len(w) THEN w[i] ELSE t[i - Len(w)]
    <3>1. w \in Seq(Bytes) /\ t \in Seq(Bytes)
      BY <1>3, <2>1
    <3> QED BY <3>1, ConcatProperties
  <2>3. ASSUME NEW i \in 1 .. Len(b) PROVE (w \o t)[i] = b[i]
    <3>1. CASE i \in 1 .. 2
      BY <1>1, <1>3, <2>1, <2>2, <3>1
    <3>2. CASE i \notin 1 .. 2
      <4>1. /\ i - 2 \in 1 .. Len(b) - 2 /\ ~(i <= Len(w)) /\ (i - 2) + 2 = i
            /\ i \in 1 .. Len(w) + Len(t) /\ i - Len(w) = i - 2
        BY <1>1, <1>3, <2>1, <3>2
      <4> QED BY <1>3, <2>2, <4>1
    <3> QED BY <3>1, <3>2
  <2>4. Len(w \o t) = Len(b)
    BY <1>1, <1>3, <2>1, <2>2
  <2> QED BY <2>2, <2>3, <2>4, SeqEqual DEF w
<1>6. r = <<"LF">> \o t
  <2> DEFINE w == <<"LF">>
             e(i) == IF i = 1 /\ "NORMAL" = "NORMAL" /\ b[1] = "CR" /\ b[2] = "NUL"
                     THEN "LF" ELSE b[i + 1]
  <2>1. w \in Seq(Bytes) /\ Len(w) = 1 /\ w[1] = "LF"
    BY <1>4
  <2>5. r = [i \in 1 .. Len(b) - 1 |-> e(i)]
    BY DEF Rest
  <2>6. \A i \in 1 .. Len(b) - 1 : e(i) = IF i = 1 THEN "LF" ELSE b[i + 1]
    OBVIOUS
  <2> HIDE DEF w, e, r
  <2>7. \A i \in 1 .. Len(b) - 1 : e(i) \in Bytes
    <3> SUFFICES ASSUME NEW i \in 1 .. Len(b) - 1 PROVE e(i) \in Bytes
      OBVIOUS
    <3>1. i + 1 \in 1 .. Len(b)
      BY <1>1
    <3>2. b[i + 1] \in Bytes
      BY <3>1, ElementOfSeq
    <3> QED BY <2>6, <3>2 DEF Bytes
  <2>8. r \in Seq(Bytes) /\ Len(r) = Len(b) - 1
    BY <1>1, <2>5, <2>7
  <2>2. /\ w \o t \in Seq(Bytes) /\ Len(w \o t) = Len(w) + Len(t)
        /\ \A i \in 1 .. Len(w) + Len(t) :
             (w \o t)[i] = IF i <= Len(w) THEN w[i] ELSE t[i - Len(w)]
    <3>1. w \in Seq(Bytes) /\ t \in Seq(Bytes)
      BY <1>3, <2>1
    <3> QED BY <3>1, ConcatProperties
  <2>3. ASSUME NEW i \in 1 .. Len(r) PROVE (w \o t)[i] = r[i]
    <3>0. r[i] = IF i = 1 THEN "LF" ELSE b[i + 1]
      BY <2>5, <2>6, <2>8
    <3>1. CASE i = 1
      BY <1>1, <1>3, <2>1, <2>2, <3>0, <3>1
    <3>2. CASE i # 1
      <4>1. /\ i - 1 \in 1 .. Len(b) - 2 /\ ~(i <= Len(w)) /\ (i - 1) + 2 = i + 1
            /\ i \in 1 .. Len(w) + Len(t) /\ i - Len(w) = i - 1
        BY <1>1, <1>3, <2>1, <2>8, <3>2
      <4> QED BY <1>3, <2>2, <3>0, <3>2, <4>1
    <3> QED BY <3>1, <3>2
  <2>4. Len(w \o t) = Len(r)
    BY <1>1, <1>3, <2>1, <2>2, <2>8
  <2> QED BY <2>2, <2>3, <2>4, <2>8, SeqEqual DEF w
<1>7. t \o y \in Seq(Bytes)
  BY <1>3, ConcatProperties
<1>8. /\ (<<"CR", "NUL">> \o t) \o y = <<"CR", "NUL">> \o (t \o y)
      /\ (<<"LF">> \o t) \o y = <<"LF">> \o (t \o y)
  BY <1>3, LineThen
<1>9. /\ b \o y = <<"CR", "NUL">> \o (t \o y)
      /\ r \o y = <<"LF">> \o (t \o y)
  <2> HIDE DEF r
  <2> QED BY <1>5, <1>6, <1>8
<1> QED BY <1>7, <1>9

LEMMA HeadOf ==
  ASSUME NEW d \in Bytes, NEW v \in Seq(Bytes)
  PROVE  Head(<<d>> \o v) = d /\ <<d>> \o v # <<>>
<1>1. <<d>> \in Seq(Bytes) /\ Len(<<d>>) = 1 /\ <<d>>[1] = d /\ Len(v) \in Nat
  BY LenProperties
<1>2. /\ <<d>> \o v \in Seq(Bytes) /\ Len(<<d>> \o v) = Len(<<d>>) + Len(v)
      /\ \A i \in 1 .. Len(<<d>>) + Len(v) : (<<d>> \o v)[i] =
           IF i <= Len(<<d>>) THEN <<d>>[i] ELSE v[i - Len(<<d>>)]
  BY <1>1, ConcatProperties
<1>3. (<<d>> \o v)[1] = d /\ Len(<<d>> \o v) > 0
  BY <1>1, <1>2
<1>4. <<d>> \o v # <<>>
  BY <1>2, <1>3, EmptySeq
<1>5. Head(<<d>> \o v) = (<<d>> \o v)[1]
  BY <1>2, <1>4, HeadTailProperties
<1> QED BY <1>3, <1>4, <1>5

\* One round of the loop of process_rx takes the meaning of the byte off.
LEMMA ReadByte ==
  ASSUME NEW st \in States, NEW b \in Seq(Bytes), b # <<>>, NEW y \in Seq(Bytes),
         ~(Len(b) = 1 /\ st = "NORMAL" /\ Head(b) = "CR" /\ y # <<>> /\ Head(y) = "NUL")
  PROVE  LET next == Ahead(AfterByte(st, Head(b)), Rest(st, b), y) IN
         Ahead(st, b, y) =
           IF Stored(st, Head(b)) THEN WithText(Head(b), next)
           ELSE IF Answered(st)
                THEN [text |-> next.text, answers |-> <<Answer(st, Head(b))>> \o next.answers]
                ELSE next
<1> DEFINE c == Head(b)
           z == Tail(b) \o y
           next == Ahead(AfterByte(st, c), Rest(st, b), y)
<1>1. /\ c \in Bytes /\ z \in Seq(Bytes) /\ b \o y = <<c>> \o z
      /\ ~(st = "NORMAL" /\ c = "CR" /\ Len(b) > 1 /\ b[2] = "NUL") => Rest(st, b) = Tail(b)
  BY RestIs
<1>2. \A w \in Seq(Bytes) : <<>> \o w = w
  BY ConcatEmptySeq
<1>3. <<c>> \o z \in Seq(Bytes)
  BY <1>1, Joined
<1> HIDE DEF c
<1>4. CASE st = "NORMAL"
  <2>1. Ahead(st, b, y) = Parse(<<c>> \o z)
    BY <1>1, <1>2, <1>3, <1>4 DEF Ahead, Pending
  <2>2. ~Answered(st) /\ (Stored(st, c) <=> c \notin {"IAC", "CR"})
    BY <1>4 DEF Answered, Stored
  <2>3. CASE c = "IAC"
    <3>1. next = Parse(<<"IAC">> \o z)
      BY <1>1, <1>4, <2>3 DEF Ahead, AfterByte, Pending
    <3> QED BY <2>1, <2>2, <2>3, <3>1 DEF c
  <2>4. CASE c # "IAC"
    <3>1. AfterByte(st, c) = "NORMAL"
      BY <1>4, <2>4 DEF AfterByte
    <3>2. CASE c = "CR" /\ Len(b) > 1 /\ b[2] = "NUL"
      <4>1. b[1] = "CR"
        BY <3>2, HeadTailProperties DEF c
      <4>2. PICK v \in Seq(Bytes) :
              b \o y = <<"CR", "NUL">> \o v /\ Rest("NORMAL", b) \o y = <<"LF">> \o v
        BY <3>2, <4>1, RestLine
      <4>3. Ahead(st, b, y) = WithText("LF", Parse(v))
        BY <1>1, <2>1, <4>2, ParseLine
      <4>4. <<"LF">> \o v \in Seq(Bytes)
        BY <4>2, Joined DEF Bytes
      <4>5. next = Parse(<<"LF">> \o v)
        BY <1>2, <1>4, <3>1, <4>2, <4>4 DEF Ahead, Pending
      <4>6. "LF" \in Bytes \ {"IAC", "CR"}
        BY DEF Bytes
      <4>7. next = WithText("LF", Parse(v))
        BY <4>2, <4>5, <4>6, ParsePlain
      <4> QED BY <2>2, <3>2, <4>3, <4>7 DEF c
    <3>3. CASE ~(c = "CR" /\ Len(b) > 1 /\ b[2] = "NUL")
      <4>1. next = Parse(z)
        BY <1>1, <1>2, <1>4, <3>1, <3>3 DEF Ahead, Pending
      <4>2. CASE c = "CR"
        <5>1. z = <<>> \/ Head(z) # "NUL"
          <6>1. Len(b) \in Nat \ {0} /\ Len(Tail(b)) = Len(b) - 1 /\ Tail(b) \in Seq(Bytes)
            BY EmptySeq, HeadTailProperties
          <6>2. CASE Len(b) = 1
            <7>1. Tail(b) = <<>>
              <8>1. Len(Tail(b)) = 0 /\ Tail(b) \in Seq(Bytes)
                BY <6>1, <6>2
              <8> QED BY <8>1, EmptySeq
            <7>2. z = y
              BY <1>2, <7>1
            <7> QED BY <1>4, <4>2, <6>2, <7>2 DEF c
          <6>3. CASE Len(b) # 1
            <7>1. Len(b) > 1 /\ Tail(b) # <<>> /\ Tail(b)[1] = b[2]
              <8>1. Len(b) > 1 /\ Len(Tail(b)) > 0
                BY <6>1, <6>3
              <8>2. Tail(b) # <<>>
                BY <6>1, <8>1, EmptySeq
              <8>3. 1 \in 1 .. Len(Tail(b))
                BY <6>1, <8>1
              <8>4. Tail(b)[1] = b[1 + 1]
                BY <8>3, HeadTailProperties
              <8> QED BY <8>1, <8>2, <8>4
            <7>2. z = <<Head(Tail(b))>> \o (Tail(Tail(b)) \o y)
              BY <6>1, <7>1, RestIs DEF States
            <7>3. Head(Tail(b)) = b[2] /\ Head(Tail(b)) \in Bytes
                  /\ Tail(Tail(b)) \o y \in Seq(Bytes)
              BY <6>1, <7>1, HeadTailProperties, RestIs DEF States
            <7>4. Head(z) = Head(Tail(b))
              BY <7>2, <7>3, HeadOf
            <7> QED BY <3>3, <4>2, <7>1, <7>3, <7>4
          <6> QED BY <6>2, <6>3
        <5>2. Parse(<<"CR">> \o z) = Parse(z)
          BY <1>1, <5>1, ParseReturn
        <5> QED BY <2>1, <2>2, <4>1, <4>2, <5>2 DEF c
      <4>3. CASE c # "CR"
        <5>1. Parse(<<c>> \o z) = WithText(c, Parse(z))
          BY <1>1, <2>4, <4>3, ParsePlain
        <5> QED BY <2>1, <2>2, <2>4, <4>1, <4>3, <5>1 DEF c
      <4> QED BY <4>2, <4>3
    <3> QED BY <3>2, <3>3
  <2> QED BY <2>3, <2>4
<1>5. CASE st = "IAC"
  <2>0. Rest(st, b) = Tail(b)
    BY <1>1, <1>5
  <2>1. Ahead(st, b, y) = Parse(<<"IAC", c>> \o z)
    <3>1. Pending(st) = <<"IAC">> /\ "IAC" \in Bytes
      BY <1>5 DEF Pending, Bytes
    <3>2. Ahead(st, b, y) = Parse(<<"IAC">> \o (<<c>> \o z))
      BY <1>1, <3>1 DEF Ahead
    <3> QED BY <1>1, <3>1, <3>2, Joined
  <2>2. ~Answered(st) /\ (Stored(st, c) <=> c = "IAC")
    BY <1>5 DEF Answered, Stored
  <2>3. CASE c = "IAC"
    <3>1. next = Parse(z)
      BY <1>1, <1>2, <1>5, <2>0, <2>3 DEF Ahead, AfterByte, Pending, Verbs
    <3> QED BY <1>1, <2>1, <2>2, <2>3, <3>1, ParseDoubled DEF c
  <2>4. CASE c \in Verbs
    <3>1. AfterByte(st, c) = c /\ Pending(c) = <<"IAC", c>> /\ c # "IAC"
      BY <1>5, <2>4 DEF AfterByte, Pending, Verbs
    <3>2. next = Parse(<<"IAC", c>> \o z)
      BY <2>0, <3>1 DEF Ahead
    <3> QED BY <2>1, <2>2, <3>1, <3>2 DEF c
  <2>5. CASE c \notin Verbs \cup {"IAC"}
    <3>1. next = Parse(z)
      BY <1>1, <1>2, <1>5, <2>0, <2>5 DEF Ahead, AfterByte, Pending
    <3> QED BY <1>1, <2>1, <2>2, <2>5, <3>1, ParseCommand DEF c
  <2> QED BY <2>3, <2>4, <2>5
<1>6. CASE st \in Verbs
  <2>0. Rest(st, b) = Tail(b) /\ st \notin {"NORMAL", "IAC"}
    BY <1>1, <1>6 DEF Verbs
  <2>1. Ahead(st, b, y) = Parse(<<"IAC", st, c>> \o z)
    <3>1. Pending(st) = <<"IAC", st>> /\ "IAC" \in Bytes /\ st \in Bytes
      BY <1>6, <2>0 DEF Pending, Bytes
    <3>2. Ahead(st, b, y) = Parse(<<"IAC", st>> \o (<<c>> \o z))
      BY <1>1, <3>1 DEF Ahead
    <3> QED BY <1>1, <3>1, <3>2, JoinedThree
  <2>2. ~Stored(st, c) /\ (Answered(st) <=> st \in {"WILL", "DO"})
    BY <2>0 DEF Answered, Stored
  <2>3. next = Parse(z)
    <3>1. AfterByte(st, c) = "NORMAL"
      BY <2>0 DEF AfterByte
    <3> QED BY <1>1, <1>2, <2>0, <3>1 DEF Ahead, Pending
  <2>4. CASE Answered(st)
    <3>1. Parse(<<"IAC", st, c>> \o z) = WithReply(st, c, Parse(z))
      BY <1>1, <1>6, <2>2, <2>4, ParseOption
    <3>2. WithReply(st, c, Parse(z)) =
            [text |-> Parse(z).text, answers |-> <<Answer(st, c)>> \o Parse(z).answers]
      <4>1. CASE st = "WILL"
        BY <4>1 DEF WithReply, Answer, Known
      <4>2. CASE st = "DO"
        BY <4>2 DEF WithReply, Answer, Known
      <4> QED BY <2>2, <2>4, <4>1, <4>2
    <3> QED BY <2>1, <2>2, <2>3, <2>4, <3>1, <3>2 DEF c
  <2>5. CASE ~Answered(st)
    <3>1. Parse(<<"IAC", st, c>> \o z) = Parse(z)
      BY <1>1, <1>6, <2>2, <2>5, ParseOption
    <3> QED BY <2>1, <2>2, <2>3, <2>5, <3>1 DEF c
  <2> QED BY <2>4, <2>5
<1> QED BY <1>4, <1>5, <1>6 DEF States

-----------------------------------------------------------------------------
(***************************************************************************)
(* The streams of the clients and what the shell gets.                      *)
(***************************************************************************)
LastReturn(s) == s # <<>> /\ s[Len(s)] = "CR"

StreamInv ==
  /\ got \in Seq(Bytes) /\ seen \in Seq(Bytes) /\ earlier \in Seq(Bytes)
  /\ due \in Seq(Verbs \X Bytes)
  /\ Len(rx) <= RxSize
  /\ spc # "rx" => buf = <<>>
  /\ spc = "hello" => seen = <<>>
  /\ LastReturn(buf) => LastReturn(seen)

\* All but the shell, the server thread's loop and a new connection leave the
\* streams alone.
StreamsKept == UNCHANGED <<got, seen, earlier, due, rx, buf, state, split>>

LEMMA QuietStreams ==
  ASSUME UNCHANGED vars \/ SenderWakes \/ Drain("server") \/ Drain("sender")
           \/ ReadBegins \/ ReadWakes \/ WritePuts \/ WriteNotifies
  PROVE  StreamsKept /\ spc' = spc
BY DEF StreamsKept, vars, server, reader, session, SenderWakes, Drain, Take, Advance, Send,
       ReadBegins, ReadWakes, WritePuts, WriteNotifies

LEMMA QuietServer ==
  ASSUME Banner \/ BannerNotifies \/ End \/ CloseWakes \/ Close
  PROVE  /\ StreamsKept
         /\ spc \in {"banner", "notify", "recv", "wake", "close"}
         /\ spc' \in {"notify", "recv", "wake", "close", "accept"}
BY DEF StreamsKept, reader, session, Banner, BannerNotifies, End, CloseWakes, Close

\* The last byte of the buffer is the last one that came, or the line feed made
\* of it.
LEMMA LastOfRest ==
  ASSUME NEW st \in States, NEW b \in Seq(Bytes), b # <<>>, LastReturn(Rest(st, b))
  PROVE  LastReturn(b)
<1> DEFINE n == Len(b)
           r == Rest(st, b)
           e(i) == IF i = 1 /\ st = "NORMAL" /\ b[1] = "CR" /\ b[2] = "NUL" THEN "LF" ELSE b[i + 1]
<1>1. n \in Nat /\ n > 0
  BY EmptySeq, LenProperties
<1>2. r = [i \in 1 .. n - 1 |-> e(i)]
  BY DEF Rest
<1>3. r \in Seq(Bytes) /\ r # <<>> /\ r[Len(r)] = "CR"
  BY RestType DEF LastReturn
<1> HIDE DEF n, r, e
<1>4. DOMAIN r = 1 .. Len(r) /\ Len(r) \in Nat /\ Len(r) > 0
  BY <1>3, EmptySeq, LenProperties
<1>5. DOMAIN r = 1 .. n - 1
  BY <1>2
<1>6. Len(r) = n - 1 /\ n - 1 \in 1 .. n - 1
  BY <1>1, <1>4, <1>5
<1>7. r[n - 1] = e(n - 1)
  BY <1>2, <1>6
<1>8. e(n - 1) = b[(n - 1) + 1]
  BY <1>3, <1>6, <1>7 DEF e
<1>9. (n - 1) + 1 = n
  BY <1>1
<1> QED BY <1>3, <1>6, <1>7, <1>8, <1>9 DEF LastReturn, n

\* What Store does when the ring has room.
LEMMA StoreRoom ==
  ASSUME TypeInv, StreamInv, Byte
  PROVE  /\ rx' = IF Stored(state, Head(buf)) /\ Len(rx) < RxSize
                  THEN Append(rx, Head(buf)) ELSE rx
         /\ Len(rx') <= RxSize
         /\ ~full' /\ Stored(state, Head(buf)) => Len(rx) < RxSize
<1> DEFINE b == Head(buf)
<1>0. /\ b \in Bytes /\ rx \in Seq(Bytes) /\ Len(rx) \in Nat /\ RxSize \in Nat
      /\ Len(rx) <= RxSize /\ Store(b) /\ state \in States
  BY HeadTailProperties, LenProperties, SizesAssumption
     DEF Byte, TypeInv, TypeOK, StreamInv
<1>1. ~Answered(state) => full' = (full \/ (Stored(state, b) /\ Len(rx) = RxSize))
  BY DEF Byte
<1>2. Stored(state, b) => ~Answered(state)
  BY DEF Stored, Answered
<1> HIDE DEF b
<1>3. rx' = IF Stored(state, b) /\ Len(rx) < RxSize THEN Append(rx, b) ELSE rx
  BY <1>0 DEF Store
<1>4. Len(Append(rx, b)) = Len(rx) + 1
  BY <1>0
<1>5. Len(rx') <= RxSize
  BY <1>0, <1>3, <1>4
<1>6. ASSUME ~full', Stored(state, b) PROVE Len(rx) < RxSize
  <2>1. ~(Stored(state, b) /\ Len(rx) = RxSize)
    BY <1>1, <1>2, <1>6, Zenon
  <2>2. Len(rx) # RxSize
    BY <1>6, <2>1, Zenon
  <2> QED BY <1>0, <2>2
<1> QED BY <1>3, <1>5, <1>6 DEF b

\* What recv brings.
LEMMA RecvPiece ==
  ASSUME TypeInv, StreamInv, Recv
  PROVE  /\ buf' \in Seq(Bytes) /\ buf' # <<>> /\ seen' = seen \o buf' /\ seen' \in Seq(Bytes)
         /\ Head(buf') = wire[1] /\ (LastReturn(buf') => LastReturn(seen'))
         /\ buf = <<>> /\ spc # "hello"
<1>1. PICK n \in 1 .. RecvLen :
        /\ n <= Len(wire) /\ buf' = SubSeq(wire, 1, n) /\ seen' = seen \o SubSeq(wire, 1, n)
  BY DEF Recv
<1>2. Len(wire) \in Nat /\ n \in 0 .. Len(wire) /\ wire \in Seq(Bytes) /\ n > 0
  BY <1>1, SizesAssumption, LenProperties DEF TypeInv, TypeOK
<1>3. /\ buf' \in Seq(Bytes) /\ Len(buf') = n
      /\ \A i \in 1 .. n - 1 + 1 : buf'[i] = wire[1 + i - 1]
  BY <1>1, <1>2, Piece
<1>4. buf' # <<>> /\ 1 \in 1 .. n - 1 + 1 /\ 1 + 1 - 1 = 1
  BY <1>2, <1>3, EmptySeq
<1>5. Head(buf') = wire[1]
  <2>1. buf'[1] = wire[1]
    BY <1>3, <1>4
  <2> QED BY <1>3, <1>4, <2>1, HeadTailProperties
<1>6. seen \in Seq(Bytes) /\ Len(seen) \in Nat
  BY LenProperties DEF StreamInv
<1>7. /\ seen \o buf' \in Seq(Bytes) /\ Len(seen \o buf') = Len(seen) + n
      /\ \A i \in 1 .. Len(seen) + n : (seen \o buf')[i] =
           IF i <= Len(seen) THEN seen[i] ELSE buf'[i - Len(seen)]
  BY <1>3, <1>6, ConcatProperties
<1>8. (seen \o buf')[Len(seen) + n] = buf'[n]
  <2>1. /\ Len(seen) + n \in 1 .. Len(seen) + n /\ ~(Len(seen) + n <= Len(seen))
        /\ Len(seen) + n - Len(seen) = n
    BY <1>2, <1>6
  <2> QED BY <1>7, <2>1
<1>9. seen \o buf' # <<>>
  <2>1. Len(seen \o buf') > 0
    BY <1>2, <1>6, <1>7
  <2> QED BY <1>7, <2>1, EmptySeq
<1>10. LastReturn(buf') => LastReturn(seen')
  BY <1>1, <1>3, <1>7, <1>8, <1>9 DEF LastReturn
<1>11. buf = <<>> /\ spc # "hello"
  BY DEF Recv, StreamInv
<1> QED BY <1>1, <1>3, <1>4, <1>5, <1>7, <1>10, <1>11

LEMMA StreamStep ==
  ASSUME TypeInv, TypeInv', StreamInv, [Next]_vars PROVE StreamInv'
<1>1. CASE StreamsKept /\ (spc' = spc \/ spc' \notin {"hello", "rx"}) /\ (spc' # "rx" => buf = <<>>)
  BY <1>1 DEF StreamsKept, StreamInv
<1>2. CASE UNCHANGED vars \/ SenderWakes \/ Drain("server") \/ Drain("sender")
             \/ ReadBegins \/ ReadWakes \/ WritePuts \/ WriteNotifies
  BY <1>1, <1>2, QuietStreams DEF StreamInv
<1>3. CASE Banner \/ BannerNotifies \/ End \/ CloseWakes \/ Close
  BY <1>1, <1>3, QuietServer DEF StreamInv
<1>4. CASE ReadGets
  <2>1. CASE rx = <<>>
    BY <1>4, <2>1 DEF ReadGets, StreamInv, server, session, sent
  <2>2. CASE rx # <<>>
    <3>1. rx \in Seq(Bytes) /\ Len(rx) \in Nat /\ RxSize \in Nat /\ got \in Seq(Bytes)
      BY LenProperties, SizesAssumption DEF TypeInv, TypeOK, StreamInv
    <3>2. rx' = Tail(rx) /\ got' = Append(got, Head(rx))
      BY <1>4, <2>2 DEF ReadGets
    <3>3. Head(rx) \in Bytes /\ Len(Tail(rx)) = Len(rx) - 1
      BY <2>2, <3>1, HeadTailProperties
    <3>4. got' \in Seq(Bytes) /\ Len(rx') <= RxSize
      BY <3>1, <3>2, <3>3, AppendProperties DEF StreamInv
    <3> QED BY <1>4, <3>4 DEF ReadGets, StreamInv, server, session, sent
  <2> QED BY <2>1, <2>2
<1>5. CASE Accept
  <2>1. seen \in Seq(Bytes) /\ earlier \in Seq(Bytes) /\ due \in Seq(Verbs \X Bytes)
    BY DEF StreamInv
  <2>2. Parse(seen).text \in Seq(Bytes) /\ Parse(seen).answers \in Seq(Verbs \X Bytes)
    BY <2>1, ParseType
  <2>3. earlier' \in Seq(Bytes)
    BY <1>5, <2>1, <2>2, ConcatProperties DEF Accept
  <2>4. <<<<"WILL", "ECHO">>>> \in Seq(Verbs \X Bytes)
    BY DEF Verbs, Bytes, Options
  <2>5. due' \in Seq(Verbs \X Bytes)
    BY <1>5, <2>1, <2>2, <2>4, ConcatProperties DEF Accept
  <2>6. seen' = <<>> /\ <<>> \in Seq(Bytes) /\ spc = "accept" /\ spc' = "hello"
        /\ UNCHANGED <<buf, rx, got>>
    BY <1>5 DEF Accept, reader
  <2> QED BY <2>3, <2>5, <2>6 DEF StreamInv, LastReturn
<1>6. CASE Hello
  BY <1>6 DEF Hello, StreamInv, reader, session
<1>7. CASE Recv
  <2>1. spc' = "rx" /\ UNCHANGED <<rx, got, earlier, due>>
    BY <1>7 DEF Recv, reader
  <2> QED BY <1>7, <2>1, RecvPiece DEF StreamInv
<1>8. CASE Byte
  <2>1. UNCHANGED <<got, seen, earlier, due>> /\ buf' = Rest(state, buf) /\ spc = "rx"
        /\ spc' = IF Len(buf) = 1 THEN "recv" ELSE "rx"
    BY <1>8 DEF Byte
  <2>2. buf \in Seq(Bytes) /\ buf # <<>> /\ state \in States
    BY <2>1 DEF TypeInv, TypeOK
  <2>3. Len(buf) = 1 => buf' = <<>>
    <3>1. Len(buf) = 1 => 1 .. Len(buf) - 1 = {}
      OBVIOUS
    <3>2. Len(buf) = 1 => DOMAIN Rest(state, buf) = {}
      BY <3>1 DEF Rest
    <3>3. Rest(state, buf) \in Seq(Bytes)
      BY <2>2, RestType
    <3>4. \A s \in Seq(Bytes) : DOMAIN s = {} => s = <<>>
      <4> SUFFICES ASSUME NEW s \in Seq(Bytes), DOMAIN s = {} PROVE s = <<>>
        OBVIOUS
      <4>1. DOMAIN s = 1 .. Len(s) /\ Len(s) \in Nat
        BY LenProperties
      <4>2. Len(s) = 0
        BY <4>1
      <4> QED BY <4>2, EmptySeq
    <3> QED BY <2>1, <3>2, <3>3, <3>4
  <2>4. LastReturn(buf') => LastReturn(seen')
    <3>1. LastReturn(buf') => LastReturn(buf)
      BY <2>1, <2>2, LastOfRest
    <3> QED BY <2>1, <3>1 DEF StreamInv
  <2>5. Len(rx') <= RxSize
    BY <1>8, StoreRoom
  <2> QED BY <2>1, <2>3, <2>4, <2>5 DEF StreamInv
<1> QED BY <1>2, <1>3, <1>4, <1>5, <1>6, <1>7, <1>8 DEF Next, Server, Sender, Shell

LEMMA StreamInit == Init => StreamInv
<1> SUFFICES ASSUME Init PROVE StreamInv
  OBVIOUS
<1>1. <<>> \in Seq(Bytes) /\ <<>> \in Seq(Verbs \X Bytes) /\ Len(<<>>) = 0
  OBVIOUS
<1> QED BY <1>1, SizesAssumption DEF Init, StreamInv, LastReturn

(***************************************************************************)
(* Whatever still comes, the meaning of the stream is what the shell has    *)
(* been given and what the bytes ahead mean in the state the server is in.  *)
(* A NUL that comes apart from its CR is left out.                          *)
(***************************************************************************)
Joins(y) == ~(buf = <<>> /\ LastReturn(seen) /\ y # <<>> /\ Head(y) = "NUL")

Given(y) ==
  earlier \o Parse(seen \o y).text = (got \o rx) \o Ahead(state, buf, y).text

TextInv ==
  ~full /\ ~split =>
    IF spc = "hello" THEN earlier = got \o rx
    ELSE \A y \in Seq(Bytes) : Joins(y) => Given(y)

LEMMA AheadType ==
  ASSUME NEW st \in States, NEW b \in Seq(Bytes), NEW y \in Seq(Bytes)
  PROVE  /\ Ahead(st, b, y).text \in Seq(Bytes)
         /\ Ahead(st, b, y).answers \in Seq(Verbs \X Bytes)
<1>1. Pending(st) \o (b \o y) \in Seq(Bytes)
  BY PendingType, ConcatProperties
<1> QED BY <1>1, ParseType DEF Ahead

\* At the end of what came nothing is ahead.
LEMMA AheadEnds == \A st \in States : Ahead(st, <<>>, <<>>) = Nothing
<1> SUFFICES ASSUME NEW st \in States PROVE Ahead(st, <<>>, <<>>) = Nothing
  OBVIOUS
<1>1. Pending(st) \in Seq(Bytes) /\ <<>> \in Seq(Bytes)
  BY PendingType
<1>2. <<>> \o <<>> = <<>> /\ Pending(st) \o <<>> = Pending(st)
  BY <1>1, ConcatEmptySeq
<1>3. Ahead(st, <<>>, <<>>) = Parse(Pending(st))
  BY <1>2 DEF Ahead
<1>4. CASE st = "NORMAL"
  BY <1>3, <1>4, ParseEnds DEF Pending
<1>5. CASE st = "IAC"
  BY <1>3, <1>5, ParseEnds DEF Pending
<1>6. CASE st \in Verbs
  BY <1>3, <1>6, ParseEnds DEF Pending, Verbs
<1> QED BY <1>4, <1>5, <1>6 DEF States

\* At the end of a piece the shell has all the text of the streams.
LEMMA TextThere ==
  ASSUME TypeInv, StreamInv, TextInv, ~full, ~split, buf = <<>>
  PROVE  got \o rx = earlier \o Parse(seen).text
<1>0. got \o rx \in Seq(Bytes) /\ earlier \in Seq(Bytes) /\ seen \in Seq(Bytes)
      /\ <<>> \in Seq(Bytes) /\ state \in States
  BY ConcatProperties DEF TypeInv, TypeOK, StreamInv
<1>1. CASE spc = "hello"
  <2>1. earlier = got \o rx /\ seen = <<>>
    BY <1>1 DEF TextInv, StreamInv
  <2>2. Parse(seen).text = <<>>
    BY <2>1, ParseEnds DEF Nothing
  <2>3. earlier \o <<>> = earlier
    BY <1>0, ConcatEmptySeq
  <2> QED BY <2>1, <2>2, <2>3
<1>2. CASE spc # "hello"
  <2>1. Given(<<>>)
    BY <1>0, <1>2 DEF TextInv, Joins
  <2>2. Ahead(state, <<>>, <<>>).text = <<>>
    BY <1>0, AheadEnds DEF Nothing
  <2>3. seen \o <<>> = seen /\ (got \o rx) \o <<>> = got \o rx
    BY <1>0, ConcatEmptySeq
  <2> QED BY <2>1, <2>2, <2>3 DEF Given
<1> QED BY <1>1, <1>2

LEMMA RecvText ==
  ASSUME TypeInv, StreamInv, TextInv, Recv PROVE TextInv'
<1> SUFFICES ASSUME ~full', ~split', NEW y \in Seq(Bytes) PROVE Given(y)'
  BY DEF TextInv, Recv
<1>1. full' = full /\ split' = (split \/ (seen # <<>> /\ seen[Len(seen)] = "CR" /\ wire[1] = "NUL"))
      /\ UNCHANGED <<got, rx, earlier, state>>
  BY DEF Recv, reader, sent
<1>2. ~full /\ ~split /\ ~(LastReturn(seen) /\ wire[1] = "NUL")
  BY <1>1, Zenon DEF LastReturn
<1>3. /\ buf' \in Seq(Bytes) /\ buf' # <<>> /\ seen' = seen \o buf' /\ Head(buf') = wire[1]
      /\ buf = <<>> /\ spc # "hello"
  BY RecvPiece
<1>4. /\ buf' \o y \in Seq(Bytes) /\ buf' \o y = <<Head(buf')>> \o (Tail(buf') \o y)
      /\ Head(buf') \in Bytes /\ Tail(buf') \o y \in Seq(Bytes)
  BY <1>3, RestIs, ConcatProperties DEF States
<1>5. Head(buf' \o y) = wire[1]
  BY <1>3, <1>4, HeadOf
<1>6. Joins(buf' \o y)
  BY <1>2, <1>5 DEF Joins
<1>7. Given(buf' \o y)
  BY <1>2, <1>3, <1>4, <1>6 DEF TextInv
<1>8. seen \o (buf' \o y) = seen' \o y
  <2>1. seen \in Seq(Bytes)
    BY DEF StreamInv
  <2>2. (seen \o buf') \o y = seen \o (buf' \o y)
    BY <1>3, <2>1, Regroup
  <2> QED BY <1>3, <2>2
<1>9. <<>> \o (buf' \o y) = buf' \o y
  BY <1>4, ConcatEmptySeq
<1>10. Ahead(state, <<>>, buf' \o y) = Ahead(state, buf', y)
  BY <1>9 DEF Ahead
<1>11. earlier \o Parse(seen' \o y).text = (got \o rx) \o Ahead(state, buf', y).text
  BY <1>3, <1>7, <1>8, <1>10 DEF Given
<1> QED BY <1>1, <1>11 DEF Given

LEMMA ByteText ==
  ASSUME TypeInv, TypeInv', StreamInv, TextInv, Byte PROVE TextInv'
<1> SUFFICES ASSUME ~full', ~split', NEW y \in Seq(Bytes), Joins(y)' PROVE Given(y)'
  BY DEF TextInv, Byte
<1> DEFINE b == Head(buf)
           next == Ahead(state', buf', y)
<1>1. /\ UNCHANGED <<got, seen, earlier, split>> /\ spc = "rx"
      /\ state' = AfterByte(state, b) /\ buf' = Rest(state, buf)
  BY DEF Byte
<1>2. buf \in Seq(Bytes) /\ buf # <<>> /\ state \in States /\ rx \in Seq(Bytes)
      /\ buf' \in Seq(Bytes) /\ state' \in States /\ got \in Seq(Bytes) /\ b \in Bytes
  BY <1>1, HeadTailProperties DEF TypeInv, TypeOK, StreamInv
<1>3. ~full /\ ~split
  <2>1. full' = (full \/ (Stored(state, b) /\ Len(rx) = RxSize))
        \/ Put(<<"IAC">> \o Answer(state, b))
    BY DEF Byte
  <2>2. ~full
    BY <2>1, Zenon DEF Put
  <2> QED BY <1>1, <2>2
<1>4. Given(y)
  BY <1>1, <1>2, <1>3 DEF TextInv, Joins
<1>5. ~(Len(buf) = 1 /\ state = "NORMAL" /\ b = "CR" /\ y # <<>> /\ Head(y) = "NUL")
  <2> SUFFICES ASSUME Len(buf) = 1, b = "CR", y # <<>>, Head(y) = "NUL" PROVE FALSE
    OBVIOUS
  <2>1. LastReturn(buf)
    BY <1>2, HeadTailProperties DEF LastReturn
  <2>2. LastReturn(seen)
    BY <2>1 DEF StreamInv
  <2>3. buf' # <<>>
    BY <1>1, <2>2 DEF Joins, LastReturn
  <2>4. spc' = "recv"
    BY DEF Byte
  <2>5. StreamInv'
    BY StreamStep DEF Next, Server
  <2> QED BY <2>3, <2>4, <2>5 DEF StreamInv
<1>6. Ahead(state, buf, y) =
        IF Stored(state, b) THEN WithText(b, next)
        ELSE IF Answered(state)
             THEN [text |-> next.text, answers |-> <<Answer(state, b)>> \o next.answers]
             ELSE next
  BY <1>1, <1>2, <1>5, ReadByte
<1>7. next.text \in Seq(Bytes)
  BY <1>2, AheadType
<1>8. (got \o rx') \o next.text = (got \o rx) \o Ahead(state, buf, y).text
  <2> HIDE DEF next, b
  <2>1. CASE Stored(state, b)
    <3>1. rx' = Append(rx, b)
      BY <1>3, <2>1, StoreRoom DEF b
    <3>2. rx' = rx \o <<b>> /\ <<b>> \in Seq(Bytes)
      BY <1>2, <3>1, AppendIsConcat
    <3>3. Ahead(state, buf, y).text = <<b>> \o next.text
      BY <1>6, <2>1 DEF WithText
    <3>4. got \o (rx \o <<b>>) = (got \o rx) \o <<b>> /\ got \o rx \in Seq(Bytes)
      BY <1>2, <3>2, ConcatAssociative, ConcatProperties
    <3>5. ((got \o rx) \o <<b>>) \o next.text = (got \o rx) \o (<<b>> \o next.text)
      BY <1>7, <3>2, <3>4, Regroup
    <3> QED BY <3>2, <3>3, <3>4, <3>5
  <2>2. CASE ~Stored(state, b)
    <3>1. rx' = rx
      BY <2>2, StoreRoom DEF b
    <3>2. Ahead(state, buf, y).text = next.text
      BY <1>6, <2>2
    <3> QED BY <3>1, <3>2
  <2> QED BY <2>1, <2>2
<1>9. earlier \o Parse(seen \o y).text = (got \o rx') \o next.text
  BY <1>4, <1>8 DEF Given
<1> QED BY <1>1, <1>9 DEF Given

LEMMA FullStays == ASSUME [Next]_vars PROVE full => full'
<1>1. CASE UNCHANGED full
  BY <1>1
<1>2. ASSUME NEW bytes, Put(bytes) PROVE full => full'
  BY <1>2, Zenon DEF Put
<1>3. CASE Hello \/ Banner \/ WritePuts
  BY <1>2, <1>3 DEF Hello, Banner, WritePuts
<1>4. CASE Byte
  <2>1. full' = (full \/ (Stored(state, Head(buf)) /\ Len(rx) = RxSize))
        \/ Put(<<"IAC">> \o Answer(state, Head(buf)))
    BY <1>4 DEF Byte
  <2> QED BY <1>2, <2>1, Zenon
<1>5. CASE UNCHANGED vars \/ SenderWakes \/ Drain("server") \/ Drain("sender")
             \/ ReadBegins \/ ReadWakes \/ ReadGets \/ WriteNotifies
  BY <1>1, <1>5 DEF vars, sent, SenderWakes, Drain, Take, Advance, Send,
                    ReadBegins, ReadWakes, ReadGets, WriteNotifies
<1>6. CASE Accept \/ BannerNotifies \/ Recv \/ End \/ CloseWakes \/ Close
  BY <1>1, <1>6 DEF Accept, BannerNotifies, Recv, End, CloseWakes, Close, sent
<1> QED BY <1>3, <1>4, <1>5, <1>6 DEF Next, Server, Sender, Shell

LEMMA TextKept ==
  ASSUME TextInv, StreamsKept, [Next]_vars, spc' = "hello" <=> spc = "hello" PROVE TextInv'
<1>1. full => full'
  BY FullStays
<1>2. \A y : Given(y)' = Given(y) /\ Joins(y)' = Joins(y)
  BY DEF StreamsKept, Given, Joins
<1>3. got' = got /\ rx' = rx /\ earlier' = earlier /\ split' = split
  BY DEF StreamsKept
<1> QED BY <1>1, <1>2, <1>3 DEF TextInv

LEMMA TextStep ==
  ASSUME TypeInv, TypeInv', StreamInv, TextInv, [Next]_vars PROVE TextInv'
<1>1. CASE UNCHANGED vars \/ SenderWakes \/ Drain("server") \/ Drain("sender")
             \/ ReadBegins \/ ReadWakes \/ WritePuts \/ WriteNotifies
  BY <1>1, QuietStreams, TextKept
<1>2. CASE Banner \/ BannerNotifies \/ End \/ CloseWakes \/ Close
  BY <1>2, QuietServer, TextKept
<1>3. CASE ReadGets
  <2>1. UNCHANGED <<seen, earlier, buf, state, split, full, spc>>
    BY <1>3 DEF ReadGets, server, session, sent
  <2>2. got' \o rx' = got \o rx
    <3>1. CASE rx = <<>>
      BY <1>3, <3>1 DEF ReadGets
    <3>2. CASE rx # <<>>
      <4>1. rx \in Seq(Bytes) /\ got \in Seq(Bytes) /\ <<>> \in Seq(Bytes)
        BY DEF TypeInv, TypeOK, StreamInv
      <4>2. rx' = Tail(rx) /\ got' = Append(got, Head(rx))
        BY <1>3, <3>2 DEF ReadGets
      <4>3. /\ Head(rx) \in Bytes /\ Tail(rx) \in Seq(Bytes) /\ <<Head(rx)>> \in Seq(Bytes)
            /\ rx \o <<>> = <<Head(rx)>> \o (Tail(rx) \o <<>>)
        BY <3>2, <4>1, HeadTailProperties, RestIs DEF States
      <4>4. rx = <<Head(rx)>> \o Tail(rx)
        BY <4>1, <4>3, ConcatEmptySeq
      <4>5. got' = got \o <<Head(rx)>>
        BY <4>1, <4>2, <4>3, AppendIsConcat
      <4>6. (got \o <<Head(rx)>>) \o Tail(rx) = got \o (<<Head(rx)>> \o Tail(rx))
        BY <4>1, <4>3, ConcatAssociative
      <4> QED BY <4>2, <4>4, <4>5, <4>6
    <3> QED BY <3>1, <3>2
  <2>3. \A y : Given(y)' = Given(y) /\ Joins(y)' = Joins(y)
    BY <2>1, <2>2 DEF Given, Joins
  <2> QED BY <2>1, <2>2, <2>3 DEF TextInv
<1>4. CASE Accept
  <2>1. /\ UNCHANGED <<got, rx, buf, full, split>> /\ spc = "accept" /\ spc' = "hello"
        /\ earlier' = earlier \o Parse(seen).text
    BY <1>4 DEF Accept, reader, sent
  <2>2. buf = <<>>
    BY <2>1 DEF StreamInv
  <2>3. ~full /\ ~split => earlier' = got \o rx
    BY <2>1, <2>2, TextThere
  <2> QED BY <2>1, <2>3 DEF TextInv
<1>5. CASE Hello
  <2> SUFFICES ASSUME ~full', ~split', NEW y \in Seq(Bytes) PROVE Given(y)'
    BY <1>5 DEF TextInv, Hello
  <2>1. /\ UNCHANGED <<got, rx, buf, seen, earlier, split>> /\ state' = "NORMAL"
        /\ spc = "hello"
    BY <1>5 DEF Hello, reader, session
  <2>2. ~full
    BY FullStays
  <2>3. earlier = got \o rx /\ seen = <<>> /\ buf = <<>>
    BY <2>1, <2>2 DEF TextInv, StreamInv
  <2>4. <<>> \o y = y
    BY ConcatEmptySeq
  <2>5. Ahead("NORMAL", <<>>, y) = Parse(y)
    BY <2>4 DEF Ahead, Pending
  <2> QED BY <2>1, <2>3, <2>4, <2>5 DEF Given
<1>6. CASE Recv
  BY <1>6, RecvText
<1>7. CASE Byte
  BY <1>7, ByteText
<1> QED BY <1>1, <1>2, <1>3, <1>4, <1>5, <1>6, <1>7 DEF Next, Server, Sender, Shell

LEMMA TextInit == Init => TextInv
<1> SUFFICES ASSUME Init, NEW y \in Seq(Bytes) PROVE Given(y)
  BY DEF Init, TextInv
<1>1. <<>> \o y = y /\ <<>> \o <<>> = <<>>
  BY ConcatEmptySeq
<1>2. Ahead("NORMAL", <<>>, y) = Parse(y)
  BY <1>1 DEF Ahead, Pending
<1>3. Parse(y).text \in Seq(Bytes)
  BY ParseType
<1>4. <<>> \o Parse(y).text = Parse(y).text
  BY <1>3, ConcatEmptySeq
<1> QED BY <1>1, <1>2, <1>4 DEF Init, Given

\* Whatever the clients send, and wherever recv cuts it, the shell gets the text
\* of it and nothing else, in its order, unless a ring was full or a CR came
\* apart from its NUL.
THEOREM TextAlways == Spec => []RxDecoded
<1>1. TypeInv /\ StreamInv /\ TextInv => RxDecoded
  BY TextThere DEF RxDecoded
<1>2. TypeInv /\ StreamInv /\ TextInv /\ [Next]_vars => (TypeInv /\ StreamInv /\ TextInv)'
  BY TypeStep, StreamStep, TextStep
<1> QED BY <1>1, <1>2, TypeInit, StreamInit, TextInit, PTL DEF Spec

-----------------------------------------------------------------------------
(***************************************************************************)
(* The options among the bytes that are printed.                            *)
(***************************************************************************)
LEMMA OptionsExist ==
  ASSUME NEW s \in Seq(Text)
  PROVE  \E f : f = [i \in 0 .. Len(s) |-> OptionsUpTo(s, f, i)]
<1> DEFINE Solves(f, k) == f = [i \in 0 .. k |-> OptionsUpTo(s, f, i)]
           T == {k \in Nat : \E f : Solves(f, k)}
<1>1. 0 \in T
  <2> DEFINE f == [i \in 0 .. 0 |-> <<>>]
  <2>1. \A i \in 0 .. 0 : OptionsUpTo(s, f, i) = <<>>
    <3> HIDE DEF f
    <3> QED BY DEF OptionsUpTo
  <2>2. f = [i \in 0 .. 0 |-> OptionsUpTo(s, f, i)]
    BY <2>1
  <2>3. Solves(f, 0)
    BY <2>2
  <2> HIDE DEF Solves, f
  <2> QED BY <2>3
<1>2. ASSUME NEW k \in T PROVE k + 1 \in T
  <2>1. k \in Nat /\ k + 1 \in Nat
    OBVIOUS
  <2>2. PICK f : Solves(f, k)
    OBVIOUS
  <2> HIDE DEF T
  <2> DEFINE g == [i \in 0 .. k + 1 |-> IF i = k + 1 THEN OptionsUpTo(s, f, i) ELSE f[i]]
  <2>3. \A i \in 0 .. k : g[i] = f[i]
    BY <2>1
  <2>4. g[k + 1] = OptionsUpTo(s, f, k + 1)
    BY <2>1
  <2>5. ASSUME NEW i \in 0 .. k + 1 PROVE OptionsUpTo(s, f, i) = OptionsUpTo(s, g, i)
    <3>1. i # 0 => i - 1 \in 0 .. k
      BY <2>1
    <3>2. i # 0 => f[i - 1] = g[i - 1]
      BY <2>3, <3>1
    <3> HIDE DEF g
    <3> QED BY <3>2 DEF OptionsUpTo
  <2>6. ASSUME NEW i \in 0 .. k + 1 PROVE g[i] = OptionsUpTo(s, g, i)
    <3>1. CASE i = k + 1
      BY <2>4, <2>5, <3>1
    <3>2. CASE i # k + 1
      <4>1. i \in 0 .. k
        BY <2>1, <3>2
      <4>2. f[i] = OptionsUpTo(s, f, i)
        BY <2>2, <4>1
      <4> QED BY <2>3, <2>5, <4>1, <4>2
    <3> QED BY <3>1, <3>2
  <2>7. g = [i \in 0 .. k + 1 |-> g[i]]
    OBVIOUS
  <2>8. Solves(g, k + 1)
    <3> HIDE DEF g
    <3> QED BY <2>6, <2>7
  <2> HIDE DEF Solves, g
  <2> QED BY <2>1, <2>8 DEF T
<1>3. T = Nat
  <2>1. T \in SUBSET Nat
    OBVIOUS
  <2> HIDE DEF T
  <2> QED BY <1>1, <1>2, <2>1, Induction
<1>4. Len(s) \in T
  BY <1>3, LenProperties
<1> QED BY <1>4

LEMMA OptionsAt ==
  ASSUME NEW s \in Seq(Text)
  PROVE  \A i \in 0 .. Len(s) : OptionsAmong(s)[i] = OptionsUpTo(s, OptionsAmong(s), i)
<1> DEFINE Solves(f) == f = [i \in 0 .. Len(s) |-> OptionsUpTo(s, f, i)]
<1>1. \E f : Solves(f)
  BY OptionsExist
<1>2. OptionsAmong(s) = CHOOSE f : Solves(f)
  BY DEF OptionsAmong
<1>3. Solves(OptionsAmong(s))
  <2> HIDE DEF Solves
  <2> QED BY <1>1, <1>2
<1> QED BY <1>3

LEMMA OptionsType ==
  ASSUME NEW s \in Seq(Text) PROVE OptionsOf(s) \in Seq(Text)
<1> DEFINE f == OptionsAmong(s)
           T == {k \in Nat : k <= Len(s) => f[k] \in Seq(Text)}
<1>0. Len(s) \in Nat /\ \A i \in 0 .. Len(s) : f[i] = OptionsUpTo(s, f, i)
  BY LenProperties, OptionsAt
<1> HIDE DEF f
<1>1. 0 \in T
  <2>1. 0 \in 0 .. Len(s)
    BY <1>0
  <2>2. f[0] = <<>>
    BY <1>0, <2>1 DEF OptionsUpTo
  <2>3. <<>> \in Seq(Text)
    OBVIOUS
  <2> QED BY <2>2, <2>3
<1>2. ASSUME NEW k \in T PROVE k + 1 \in T
  <2> SUFFICES ASSUME k + 1 <= Len(s) PROVE f[k + 1] \in Seq(Text)
    OBVIOUS
  <2>1. k \in Nat /\ f[k] \in Seq(Text) /\ k + 1 \in 1 .. Len(s) /\ (k + 1) - 1 = k
        /\ k + 1 \in 0 .. Len(s) /\ k + 1 # 0
    BY <1>0
  <2>2. s[k + 1] \in Text
    BY <2>1, ElementOfSeq
  <2>3. f[k + 1] \in {f[k], Append(f[k], s[k + 1])}
    BY <1>0, <2>1 DEF OptionsUpTo
  <2>4. Append(f[k], s[k + 1]) \in Seq(Text)
    BY <2>1, <2>2, AppendProperties
  <2> QED BY <2>1, <2>3, <2>4
<1>3. T = Nat
  <2>1. T \in SUBSET Nat
    OBVIOUS
  <2> HIDE DEF T
  <2> QED BY <1>1, <1>2, <2>1, Induction
<1>4. f[Len(s)] \in Seq(Text)
  BY <1>0, <1>3
<1> QED BY <1>4 DEF OptionsOf, f

\* One byte more.
LEMMA OptionsAppend ==
  ASSUME NEW s \in Seq(Text), NEW x \in Text
  PROVE  OptionsOf(Append(s, x)) =
           IF x = "text" THEN OptionsOf(s) ELSE Append(OptionsOf(s), x)
<1> DEFINE n == Len(s)
           t == Append(s, x)
           f == OptionsAmong(s)
           g == OptionsAmong(t)
           T == {k \in Nat : k <= n => g[k] = f[k]}
<1>0. /\ n \in Nat /\ t \in Seq(Text) /\ Len(t) = n + 1 /\ t[n + 1] = x
      /\ \A i \in 1 .. n : t[i] = s[i]
  BY AppendProperties, LenProperties
<1>1. \A i \in 0 .. n : f[i] = OptionsUpTo(s, f, i)
  BY OptionsAt
<1>2. \A i \in 0 .. n + 1 : g[i] = OptionsUpTo(t, g, i)
  <2> HIDE DEF t, n
  <2> QED BY <1>0, OptionsAt
<1>9. OptionsOf(s) = f[n] /\ OptionsOf(t) = g[n + 1]
  BY <1>0 DEF OptionsOf
<1> HIDE DEF n, t, f, g
<1>3. 0 \in T
  <2>1. 0 \in 0 .. n /\ 0 \in 0 .. n + 1
    BY <1>0
  <2>2. f[0] = <<>> /\ g[0] = <<>>
    BY <1>1, <1>2, <2>1 DEF OptionsUpTo
  <2> QED BY <2>2
<1>4. ASSUME NEW k \in T PROVE k + 1 \in T
  <2> SUFFICES ASSUME k + 1 <= n PROVE g[k + 1] = f[k + 1]
    OBVIOUS
  <2>1. k \in Nat /\ g[k] = f[k] /\ k + 1 \in 1 .. n /\ (k + 1) - 1 = k
        /\ k + 1 \in 0 .. n /\ k + 1 \in 0 .. n + 1 /\ k + 1 # 0
    BY <1>0
  <2> QED BY <1>0, <1>1, <1>2, <2>1 DEF OptionsUpTo
<1>5. T = Nat
  <2>1. T \in SUBSET Nat
    OBVIOUS
  <2> HIDE DEF T
  <2> QED BY <1>3, <1>4, <2>1, Induction
<1>6. g[n] = f[n]
  BY <1>0, <1>5
<1>7. n + 1 \in 0 .. n + 1 /\ n + 1 # 0 /\ (n + 1) - 1 = n
  BY <1>0
<1>8. g[n + 1] = IF x = "text" THEN g[n] ELSE Append(g[n], x)
  BY <1>0, <1>2, <1>7 DEF OptionsUpTo
<1> QED BY <1>6, <1>8, <1>9 DEF t

LEMMA OptionsAppendThree ==
  ASSUME NEW s \in Seq(Text), NEW x \in Text \ {"text"}, NEW y \in Text \ {"text"},
         NEW z \in Text \ {"text"}
  PROVE  OptionsOf(s \o <<x, y, z>>) = OptionsOf(s) \o <<x, y, z>>
<1>1. ASSUME NEW r \in Seq(Text)
      PROVE  r \o <<x, y, z>> = Append(Append(Append(r, x), y), z)
  BY <1>1
<1>2. Append(s, x) \in Seq(Text) /\ Append(Append(s, x), y) \in Seq(Text)
  BY AppendProperties
<1>3. /\ OptionsOf(Append(s, x)) = Append(OptionsOf(s), x)
      /\ OptionsOf(Append(Append(s, x), y)) = Append(OptionsOf(Append(s, x)), y)
      /\ OptionsOf(Append(Append(Append(s, x), y), z)) =
           Append(OptionsOf(Append(Append(s, x), y)), z)
  BY <1>2, OptionsAppend
<1> QED BY <1>1, <1>3, OptionsType

\* What a whole Put adds to the log.
LEMMA PutWhole ==
  ASSUME TypeInv, NEW bytes \in Seq(Text), Put(bytes), ~full'
  PROVE  log' = log \o bytes /\ ~full
<1>1. full' = (full \/ Fits(Len(bytes)) < Len(bytes)) /\ log' = log \o SubSeq(bytes, 1, Fits(Len(bytes)))
  BY DEF Put
<1>2. ~full /\ ~(Fits(Len(bytes)) < Len(bytes))
  BY <1>1, Zenon
<1>3. Len(bytes) \in Nat /\ TxSize \in Nat /\ Len(tx) \in Nat
  BY LenProperties, SizesAssumption DEF TypeInv, TypeOK
<1>4. Fits(Len(bytes)) = Len(bytes)
  BY <1>2, <1>3 DEF Fits
<1>5. SubSeq(bytes, 1, Len(bytes)) = bytes
  BY SubSeqFull
<1> QED BY <1>1, <1>2, <1>4, <1>5

-----------------------------------------------------------------------------
(***************************************************************************)
(* The answers as bytes.                                                    *)
(***************************************************************************)
Pairs == Verbs \X Bytes

LEMMA FlatIs ==
  ASSUME NEW a \in Seq(Pairs)
  PROVE  /\ Flat(a) \in Seq(Text) /\ Len(Flat(a)) = 3 * Len(a) /\ Len(a) \in Nat
         /\ \A k \in 1 .. Len(a) : /\ Flat(a)[3 * k - 2] = "IAC"
                                   /\ Flat(a)[3 * k - 1] = a[k][1]
                                   /\ Flat(a)[3 * k] = a[k][2]
<1> DEFINE n == Len(a)
           e(i) == IF i % 3 = 1 THEN "IAC" ELSE a[(i - 1) \div 3 + 1][IF i % 3 = 2 THEN 1 ELSE 2]
<1>0. n \in Nat /\ 3 * n \in Nat
  BY LenProperties
<1>1. Flat(a) = [i \in 1 .. 3 * n |-> e(i)]
  BY DEF Flat
<1>2. ASSUME NEW i \in 1 .. 3 * n PROVE e(i) \in Text
  <2>1. (i - 1) \div 3 + 1 \in 1 .. n
    BY <1>0
  <2>2. a[(i - 1) \div 3 + 1] \in Pairs
    BY <2>1, ElementOfSeq
  <2>3. \A p \in Pairs : p[1] \in Text /\ p[2] \in Text
    BY DEF Pairs, Text, Bytes
  <2>4. "IAC" \in Text
    BY DEF Text, Bytes
  <2> QED BY <2>2, <2>3, <2>4
<1>3. ASSUME NEW k \in 1 .. n
      PROVE  e(3 * k - 2) = "IAC" /\ e(3 * k - 1) = a[k][1] /\ e(3 * k) = a[k][2]
  <2>1. (3 * k - 2) % 3 = 1 /\ (3 * k - 1) % 3 = 2 /\ (3 * k) % 3 = 0
    BY <1>0
  <2>2. (3 * k - 1 - 1) \div 3 + 1 = k /\ (3 * k - 1) \div 3 + 1 = k
    BY <1>0
  <2> QED BY <2>1, <2>2
<1> HIDE DEF e
<1>4. Flat(a) \in Seq(Text) /\ Len(Flat(a)) = 3 * n
  BY <1>0, <1>1, <1>2
<1>5. ASSUME NEW k \in 1 .. n
      PROVE  3 * k - 2 \in 1 .. 3 * n /\ 3 * k - 1 \in 1 .. 3 * n /\ 3 * k \in 1 .. 3 * n
  BY <1>0
<1>6. ASSUME NEW k \in 1 .. n
      PROVE  /\ Flat(a)[3 * k - 2] = "IAC" /\ Flat(a)[3 * k - 1] = a[k][1]
             /\ Flat(a)[3 * k] = a[k][2]
  BY <1>1, <1>3, <1>5
<1> QED BY <1>0, <1>4, <1>6

LEMMA Thirds ==
  ASSUME NEW n \in Nat, NEW i \in 1 .. 3 * n
  PROVE  \E k \in 1 .. n : i = 3 * k - 2 \/ i = 3 * k - 1 \/ i = 3 * k
<1> DEFINE k == (i - 1) \div 3 + 1
<1>1. k \in 1 .. n /\ (i = 3 * k - 2 \/ i = 3 * k - 1 \/ i = 3 * k)
  OBVIOUS
<1> QED BY <1>1

LEMMA FlatJoin ==
  ASSUME NEW a \in Seq(Pairs), NEW c \in Seq(Pairs)
  PROVE  Flat(a \o c) = Flat(a) \o Flat(c)
<1> DEFINE n == Len(a)
           m == Len(c)
           u == Flat(a \o c)
           v == Flat(a) \o Flat(c)
<1>1. /\ a \o c \in Seq(Pairs) /\ Len(a \o c) = n + m /\ n \in Nat /\ m \in Nat
      /\ \A k \in 1 .. n + m : (a \o c)[k] = IF k <= n THEN a[k] ELSE c[k - n]
  BY ConcatProperties, LenProperties
<1>2. /\ u \in Seq(Text) /\ Len(u) = 3 * (n + m)
      /\ \A k \in 1 .. n + m : /\ u[3 * k - 2] = "IAC"
                               /\ u[3 * k - 1] = (a \o c)[k][1] /\ u[3 * k] = (a \o c)[k][2]
  BY <1>1, FlatIs
<1>3. /\ Flat(a) \in Seq(Text) /\ Len(Flat(a)) = 3 * n
      /\ \A k \in 1 .. n : /\ Flat(a)[3 * k - 2] = "IAC" /\ Flat(a)[3 * k - 1] = a[k][1]
                           /\ Flat(a)[3 * k] = a[k][2]
  BY FlatIs
<1>4. /\ Flat(c) \in Seq(Text) /\ Len(Flat(c)) = 3 * m
      /\ \A k \in 1 .. m : /\ Flat(c)[3 * k - 2] = "IAC" /\ Flat(c)[3 * k - 1] = c[k][1]
                           /\ Flat(c)[3 * k] = c[k][2]
  BY FlatIs
<1>5. /\ v \in Seq(Text) /\ Len(v) = Len(Flat(a)) + Len(Flat(c))
      /\ \A i \in 1 .. Len(Flat(a)) + Len(Flat(c)) :
           v[i] = IF i <= Len(Flat(a)) THEN Flat(a)[i] ELSE Flat(c)[i - Len(Flat(a))]
  BY <1>3, <1>4, ConcatProperties
<1>10. \A i \in 1 .. 3 * n + 3 * m :
         v[i] = IF i <= 3 * n THEN Flat(a)[i] ELSE Flat(c)[i - 3 * n]
  BY <1>3, <1>4, <1>5
<1> HIDE DEF n, m, u, v
<1>6. Len(v) = 3 * (n + m) /\ n + m \in Nat
  BY <1>1, <1>3, <1>4, <1>5
<1>7. ASSUME NEW k \in 1 .. n + m
      PROVE  /\ v[3 * k - 2] = "IAC"
             /\ v[3 * k - 1] = (a \o c)[k][1] /\ v[3 * k] = (a \o c)[k][2]
  <2>1. CASE k <= n
    <3>1. /\ k \in 1 .. n /\ 3 * k - 2 <= 3 * n /\ 3 * k - 1 <= 3 * n /\ 3 * k <= 3 * n
          /\ 3 * k - 2 \in 1 .. 3 * n + 3 * m /\ 3 * k - 1 \in 1 .. 3 * n + 3 * m
          /\ 3 * k \in 1 .. 3 * n + 3 * m
      BY <1>1, <2>1
    <3>2. v[3 * k - 2] = Flat(a)[3 * k - 2] /\ v[3 * k - 1] = Flat(a)[3 * k - 1]
          /\ v[3 * k] = Flat(a)[3 * k]
      BY <1>3, <1>4, <1>5, <3>1
    <3>3. (a \o c)[k] = a[k]
      BY <1>1, <2>1
    <3> QED BY <1>3, <3>1, <3>2, <3>3
  <2>2. CASE ~(k <= n)
    <3> DEFINE j == k - n
    <3>1. /\ j \in 1 .. m
          /\ ~(3 * k - 2 <= 3 * n) /\ ~(3 * k - 1 <= 3 * n) /\ ~(3 * k <= 3 * n)
          /\ 3 * k - 2 - 3 * n = 3 * j - 2 /\ 3 * k - 1 - 3 * n = 3 * j - 1
          /\ 3 * k - 3 * n = 3 * j
          /\ 3 * k - 2 \in 1 .. 3 * n + 3 * m /\ 3 * k - 1 \in 1 .. 3 * n + 3 * m
          /\ 3 * k \in 1 .. 3 * n + 3 * m
      BY <1>1, <2>2
    <3>3. (a \o c)[k] = c[j]
      BY <1>1, <2>2
    <3> HIDE DEF j
    <3>2. v[3 * k - 2] = Flat(c)[3 * j - 2] /\ v[3 * k - 1] = Flat(c)[3 * j - 1]
          /\ v[3 * k] = Flat(c)[3 * j]
      <4>1. v[3 * k - 2] = Flat(c)[3 * k - 2 - 3 * n]
        BY <1>10, <3>1
      <4>2. v[3 * k - 1] = Flat(c)[3 * k - 1 - 3 * n]
        BY <1>10, <3>1
      <4>3. v[3 * k] = Flat(c)[3 * k - 3 * n]
        BY <1>10, <3>1
      <4> QED BY <3>1, <4>1, <4>2, <4>3
    <3> QED BY <1>4, <3>1, <3>2, <3>3
  <2> QED BY <2>1, <2>2
<1>8. ASSUME NEW i \in 1 .. 3 * (n + m) PROVE u[i] = v[i]
  <2>1. PICK k \in 1 .. n + m : i = 3 * k - 2 \/ i = 3 * k - 1 \/ i = 3 * k
    BY <1>6, Thirds
  <2> QED BY <1>2, <1>7, <2>1
<1>9. u = v
  BY <1>2, <1>5, <1>6, <1>8, SeqEqual
<1> QED BY <1>9 DEF u, v

LEMMA FlatOne ==
  ASSUME NEW v \in Verbs, NEW o \in Bytes
  PROVE  /\ <<<<v, o>>>> \in Seq(Pairs) /\ <<"IAC", v, o>> \in Seq(Text)
         /\ Flat(<<<<v, o>>>>) = <<"IAC", v, o>>
<1> DEFINE a == <<<<v, o>>>>
           w == <<"IAC", v, o>>
<1>1. a \in Seq(Pairs) /\ Len(a) = 1 /\ a[1] = <<v, o>> /\ <<v, o>>[1] = v /\ <<v, o>>[2] = o
  BY DEF Pairs
<1>2. w \in Seq(Text) /\ Len(w) = 3 /\ w[1] = "IAC" /\ w[2] = v /\ w[3] = o
  BY DEF Text, Bytes
<1> HIDE DEF a, w
<1>3. 1 \in 1 .. Len(a) /\ 3 * 1 - 2 = 1 /\ 3 * 1 - 1 = 2 /\ 3 * 1 = 3
  BY <1>1
<1>4. /\ Flat(a) \in Seq(Text) /\ Len(Flat(a)) = 3 * Len(a)
      /\ Flat(a)[3 * 1 - 2] = "IAC" /\ Flat(a)[3 * 1 - 1] = a[1][1] /\ Flat(a)[3 * 1] = a[1][2]
  BY <1>1, <1>3, FlatIs
<1>5. Len(Flat(a)) = 3 /\ Flat(a)[1] = "IAC" /\ Flat(a)[2] = v /\ Flat(a)[3] = o
  BY <1>1, <1>3, <1>4
<1>6. \A i \in 1 .. 3 : Flat(a)[i] = w[i]
  BY <1>2, <1>5
<1>7. Flat(a) = w
  BY <1>2, <1>4, <1>5, <1>6, SeqEqual
<1> QED BY <1>1, <1>2, <1>7 DEF a, w

LEMMA FlatNone == Flat(<<>>) = <<>> /\ <<>> \in Seq(Pairs)
<1> DEFINE a == <<>>
<1>1. a \in Seq(Pairs) /\ Len(a) = 0
  OBVIOUS
<1> HIDE DEF a
<1>2. Flat(a) \in Seq(Text) /\ Len(Flat(a)) = 3 * Len(a)
  BY <1>1, FlatIs
<1>3. Flat(a) = <<>>
  BY <1>1, <1>2, EmptySeq
<1> QED BY <1>1, <1>3 DEF a

-----------------------------------------------------------------------------
(***************************************************************************)
(* The answers printed so far, and those the bytes ahead ask for.           *)
(***************************************************************************)
\* A NUL that comes apart from its CR makes no difference to the answers.
LEMMA ReadAnswers ==
  ASSUME NEW st \in States, NEW b \in Seq(Bytes), b # <<>>, NEW y \in Seq(Bytes)
  PROVE  LET next == Ahead(AfterByte(st, Head(b)), Rest(st, b), y) IN
         Ahead(st, b, y).answers =
           IF Answered(st) THEN <<Answer(st, Head(b))>> \o next.answers ELSE next.answers
<1> DEFINE c == Head(b)
           next == Ahead(AfterByte(st, c), Rest(st, b), y)
           Late == Len(b) = 1 /\ st = "NORMAL" /\ c = "CR" /\ y # <<>> /\ Head(y) = "NUL"
<1>1. CASE ~Late
  <2>1. Ahead(st, b, y) =
          IF Stored(st, c) THEN WithText(c, next)
          ELSE IF Answered(st)
               THEN [text |-> next.text, answers |-> <<Answer(st, c)>> \o next.answers]
               ELSE next
    BY <1>1, ReadByte
  <2>2. Stored(st, c) => ~Answered(st)
    BY DEF Stored, Answered
  <2> HIDE DEF next, c
  <2>3. CASE Stored(st, c)
    BY <2>1, <2>2, <2>3 DEF WithText, next, c
  <2>4. CASE ~Stored(st, c)
    BY <2>1, <2>4 DEF next, c
  <2> QED BY <2>3, <2>4
<1>2. CASE Late
  <2>1. /\ b \o y = <<c>> \o (Tail(b) \o y) /\ Tail(b) \in Seq(Bytes)
        /\ Len(Tail(b)) = Len(b) - 1 /\ Rest(st, b) = Tail(b)
    BY <1>2, RestIs, HeadTailProperties
  <2>2. Tail(b) = <<>>
    <3>1. Len(Tail(b)) = 0
      BY <1>2, <2>1
    <3> QED BY <2>1, <3>1, EmptySeq
  <2>3. <<>> \o y = y /\ \A w \in Seq(Bytes) : <<>> \o w = w
    BY ConcatEmptySeq
  <2> DEFINE z == Tail(y)
  <2>4. z \in Seq(Bytes) /\ y = <<"NUL">> \o z
    <3>1. /\ <<>> \in Seq(Bytes) /\ Tail(y) \in Seq(Bytes)
          /\ y \o <<>> = <<Head(y)>> \o (Tail(y) \o <<>>)
      BY <1>2, RestIs, HeadTailProperties DEF States
    <3> QED BY <1>2, <3>1, ConcatEmptySeq
  <2> HIDE DEF z
  <2>5. "CR" \in Bytes /\ "NUL" \in Bytes \ {"IAC", "CR"}
    BY DEF Bytes
  <2>6. b \o y = <<"CR", "NUL">> \o z
    <3>1. b \o y = <<"CR">> \o (<<"NUL">> \o z)
      BY <1>2, <2>1, <2>2, <2>3, <2>4
    <3> QED BY <2>4, <2>5, <3>1, Joined
  <2>7. Ahead(st, b, y) = WithText("LF", Parse(z))
    <3>1. b \o y \in Seq(Bytes)
      BY ConcatProperties
    <3>2. Ahead(st, b, y) = Parse(b \o y)
      BY <1>2, <2>3, <3>1 DEF Ahead, Pending
    <3> QED BY <2>4, <2>6, <3>2, ParseLine
  <2>8. next = WithText("NUL", Parse(z))
    <3>1. AfterByte(st, c) = "NORMAL"
      BY <1>2 DEF AfterByte
    <3>2. next = Parse(y)
      BY <2>1, <2>2, <2>3, <3>1 DEF Ahead, Pending
    <3> QED BY <2>4, <2>5, <3>2, ParsePlain
  <2>9. ~Answered(st)
    BY <1>2 DEF Answered
  <2>10. Ahead(st, b, y).answers = next.answers
    <3> HIDE DEF next
    <3> QED BY <2>7, <2>8 DEF WithText
  <2> QED BY <2>9, <2>10
<1> QED BY <1>1, <1>2

Told(y) ==
  Flat(due \o Parse(seen \o y).answers) = OptionsOf(log) \o Flat(Ahead(state, buf, y).answers)

AnswersInv ==
  ~full =>
    IF spc = "hello" THEN Flat(due) = OptionsOf(log) \o <<"IAC", "WILL", "ECHO">>
    ELSE \A y \in Seq(Bytes) : Told(y)

\* At the end of a piece the log has the answers to all that came.
LEMMA AnswersThere ==
  ASSUME TypeInv, StreamInv, AnswersInv, ~full, buf = <<>>, spc # "hello"
  PROVE  OptionsOf(log) = Flat(due \o Parse(seen).answers)
<1>0. seen \in Seq(Bytes) /\ <<>> \in Seq(Bytes) /\ state \in States /\ log \in Seq(Text)
  BY DEF TypeInv, TypeOK, StreamInv
<1>1. Told(<<>>)
  BY <1>0 DEF AnswersInv
<1>2. Flat(Ahead(state, <<>>, <<>>).answers) = <<>>
  BY <1>0, AheadEnds, FlatNone DEF Nothing
<1>3. seen \o <<>> = seen /\ OptionsOf(log) \o <<>> = OptionsOf(log)
  BY <1>0, OptionsType, ConcatEmptySeq
<1> QED BY <1>1, <1>2, <1>3 DEF Told

\* Text that is printed is no option.
LEMMA PutText ==
  ASSUME TypeInv, Put(<<"text">>), ~full' PROVE OptionsOf(log') = OptionsOf(log) /\ ~full
<1>1. <<"text">> \in Seq(Text) /\ "text" \in Text /\ log \in Seq(Text)
  BY DEF Text, TypeInv
<1>2. log' = log \o <<"text">> /\ ~full
  BY <1>1, PutWhole
<1>3. log' = Append(log, "text")
  BY <1>1, <1>2, AppendIsConcat
<1> QED BY <1>1, <1>2, <1>3, OptionsAppend

LEMMA PutOption ==
  ASSUME TypeInv, NEW v \in Verbs, NEW o \in Bytes, Put(<<"IAC", v, o>>), ~full'
  PROVE  OptionsOf(log') = OptionsOf(log) \o <<"IAC", v, o>> /\ ~full
<1>1. <<"IAC", v, o>> \in Seq(Text) /\ log \in Seq(Text)
  BY FlatOne DEF TypeInv
<1>2. "IAC" \in Text \ {"text"} /\ v \in Text \ {"text"} /\ o \in Text \ {"text"}
  BY DEF Text, Bytes, Verbs, Options
<1>3. log' = log \o <<"IAC", v, o>> /\ ~full
  BY <1>1, PutWhole
<1> QED BY <1>1, <1>2, <1>3, OptionsAppendThree

LEMMA AnswersKept ==
  ASSUME AnswersInv, UNCHANGED <<due, seen, state, buf>>, [Next]_vars,
         ~full' => OptionsOf(log') = OptionsOf(log), spc' = "hello" <=> spc = "hello"
  PROVE  AnswersInv'
<1> SUFFICES ASSUME ~full' PROVE AnswersInv'
  BY DEF AnswersInv
<1>1. ~full
  BY FullStays
<1>2. OptionsOf(log)' = OptionsOf(log)
  OBVIOUS
<1>3. \A y : Told(y)' = Told(y)
  BY <1>2 DEF Told
<1> QED BY <1>1, <1>2, <1>3 DEF AnswersInv

LEMMA AnswerBytes ==
  ASSUME NEW v \in Verbs, NEW o \in Bytes
  PROVE  <<"IAC">> \o <<v, o>> = <<"IAC", v, o>>
<1> DEFINE u == <<"IAC">>
           a == <<v, o>>
           w == <<"IAC", v, o>>
<1>1. /\ u \in Seq(Bytes) /\ Len(u) = 1 /\ u[1] = "IAC"
      /\ a \in Seq(Bytes) /\ Len(a) = 2 /\ a[1] = v /\ a[2] = o
      /\ w \in Seq(Bytes) /\ Len(w) = 3 /\ w[1] = "IAC" /\ w[2] = v /\ w[3] = o
  BY DEF Bytes
<1> HIDE DEF u, a, w
<1>2. /\ u \o a \in Seq(Bytes) /\ Len(u \o a) = Len(u) + Len(a)
      /\ \A i \in 1 .. Len(u) + Len(a) :
           (u \o a)[i] = IF i <= Len(u) THEN u[i] ELSE a[i - Len(u)]
  BY <1>1, ConcatProperties
<1>3. Len(u \o a) = 3 /\ \A i \in 1 .. 3 : (u \o a)[i] = w[i]
  BY <1>1, <1>2
<1> QED BY <1>1, <1>2, <1>3, SeqEqual DEF u, a, w

LEMMA RecvAnswers ==
  ASSUME TypeInv, StreamInv, AnswersInv, Recv PROVE AnswersInv'
<1> SUFFICES ASSUME ~full', NEW y \in Seq(Bytes) PROVE Told(y)'
  BY DEF AnswersInv, Recv
<1>1. UNCHANGED <<full, log, due, state>>
  BY DEF Recv, ring, sent
<1>2. /\ buf' \in Seq(Bytes) /\ seen' = seen \o buf' /\ buf = <<>> /\ spc # "hello"
      /\ seen \in Seq(Bytes) /\ buf' \o y \in Seq(Bytes)
  BY RecvPiece, ConcatProperties DEF StreamInv
<1>3. Told(buf' \o y)
  BY <1>1, <1>2 DEF AnswersInv
<1>4. seen \o (buf' \o y) = seen' \o y
  <2>1. (seen \o buf') \o y = seen \o (buf' \o y)
    BY <1>2, Regroup
  <2> QED BY <1>2, <2>1
<1>5. Ahead(state, <<>>, buf' \o y) = Ahead(state, buf', y)
  <2>1. <<>> \o (buf' \o y) = buf' \o y
    BY <1>2, ConcatEmptySeq
  <2> QED BY <2>1 DEF Ahead
<1>6. Flat(due \o Parse(seen' \o y).answers) = OptionsOf(log) \o Flat(Ahead(state, buf', y).answers)
  BY <1>2, <1>3, <1>4, <1>5 DEF Told
<1> QED BY <1>1, <1>6 DEF Told

LEMMA ByteAnswers ==
  ASSUME TypeInv, TypeInv', StreamInv, AnswersInv, Byte PROVE AnswersInv'
<1> SUFFICES ASSUME ~full', NEW y \in Seq(Bytes) PROVE Told(y)'
  BY DEF AnswersInv, Byte
<1> DEFINE b == Head(buf)
           next == Ahead(state', buf', y)
<1>1. /\ UNCHANGED <<seen, due>> /\ spc = "rx"
      /\ state' = AfterByte(state, b) /\ buf' = Rest(state, buf)
  BY DEF Byte
<1>2. buf \in Seq(Bytes) /\ buf # <<>> /\ state \in States /\ b \in Bytes
      /\ buf' \in Seq(Bytes) /\ state' \in States /\ log \in Seq(Text)
  BY <1>1, HeadTailProperties DEF TypeInv, TypeOK
<1>3. ~full
  BY FullStays DEF Next, Server
<1>4. Told(y)
  BY <1>1, <1>3 DEF AnswersInv
<1>5. Ahead(state, buf, y).answers =
        IF Answered(state) THEN <<Answer(state, b)>> \o next.answers ELSE next.answers
  BY <1>1, <1>2, ReadAnswers
<1>6. next.answers \in Seq(Pairs)
  BY <1>2, AheadType DEF Pairs
<1>7. OptionsOf(log') \o Flat(next.answers) = OptionsOf(log) \o Flat(Ahead(state, buf, y).answers)
  <2>1. CASE Answered(state)
    <3>1. PICK v \in Verbs : Answer(state, b) = <<v, b>>
      <4>1. CASE state = "WILL"
        BY <4>1 DEF Answer, Verbs
      <4>2. CASE state = "DO"
        BY <4>2 DEF Answer, Verbs
      <4> QED BY <2>1, <4>1, <4>2 DEF Answered
    <3>2. <<"IAC">> \o <<v, b>> = <<"IAC", v, b>>
      BY <1>2, AnswerBytes
    <3>3. Put(<<"IAC">> \o Answer(state, b))
      BY <2>1 DEF Byte
    <3>4. Put(<<"IAC", v, b>>)
      BY <3>1, <3>2, <3>3
    <3> HIDE DEF b, next
    <3>5. OptionsOf(log') = OptionsOf(log) \o <<"IAC", v, b>>
      BY <1>2, <3>4, PutOption
    <3>6. /\ <<<<v, b>>>> \in Seq(Pairs) /\ <<"IAC", v, b>> \in Seq(Text)
          /\ Flat(<<<<v, b>>>>) = <<"IAC", v, b>>
      BY <1>2, FlatOne
    <3>7. Flat(<<<<v, b>>>> \o next.answers) = <<"IAC", v, b>> \o Flat(next.answers)
      BY <1>6, <3>6, FlatJoin
    <3>8. OptionsOf(log) \in Seq(Text) /\ Flat(next.answers) \in Seq(Text)
      BY <1>2, <1>6, OptionsType, FlatIs
    <3>9. (OptionsOf(log) \o <<"IAC", v, b>>) \o Flat(next.answers)
          = OptionsOf(log) \o (<<"IAC", v, b>> \o Flat(next.answers))
      BY <3>6, <3>8, ConcatAssociative
    <3> QED BY <1>5, <2>1, <3>1, <3>5, <3>7, <3>9
  <2>2. CASE ~Answered(state)
    <3>1. log' = log
      BY <2>2 DEF Byte
    <3> QED BY <1>5, <2>2, <3>1
  <2> QED BY <2>1, <2>2
<1>8. Flat(due \o Parse(seen \o y).answers) = OptionsOf(log') \o Flat(next.answers)
  BY <1>4, <1>7 DEF Told
<1>9. Told(y)' <=>
        Flat(due' \o Parse(seen' \o y).answers) = OptionsOf(log)' \o Flat(next.answers)
  BY DEF Told
<1> QED BY <1>1, <1>8, <1>9

LEMMA AnswersStep ==
  ASSUME TypeInv, TypeInv', StreamInv, AnswersInv, [Next]_vars PROVE AnswersInv'
<1>1. CASE UNCHANGED log /\ StreamsKept /\ UNCHANGED due /\ (spc' = "hello" <=> spc = "hello")
  BY <1>1, AnswersKept DEF StreamsKept
<1>2. CASE UNCHANGED vars \/ SenderWakes \/ Drain("server") \/ Drain("sender")
             \/ ReadBegins \/ ReadWakes
  <2>1. StreamsKept /\ spc' = spc
    BY <1>2, QuietStreams
  <2>2. UNCHANGED log
    BY <1>2 DEF vars, sent, SenderWakes, Drain, Take, Advance, Send, ReadBegins, ReadWakes
  <2> QED BY <1>1, <2>1, <2>2 DEF StreamsKept
<1>3. CASE BannerNotifies \/ End \/ CloseWakes \/ Close
  <2>1. StreamsKept /\ spc # "hello" /\ spc' # "hello"
    BY <1>3, QuietServer
  <2>2. UNCHANGED log
    BY <1>3 DEF sent, ring, BannerNotifies, End, CloseWakes, Close
  <2> QED BY <1>1, <2>1, <2>2 DEF StreamsKept
<1>4. CASE ReadGets \/ WriteNotifies
  <2>1. UNCHANGED <<due, seen, state, buf, log, spc>>
    BY <1>4 DEF ReadGets, WriteNotifies, server, session, sent
  <2> QED BY <2>1, AnswersKept
<1>5. CASE WritePuts
  <2>1. UNCHANGED <<due, seen, state, buf, spc>> /\ Put(<<"text">>)
    BY <1>5 DEF WritePuts, server, session
  <2>2. ~full' => OptionsOf(log') = OptionsOf(log)
    BY <2>1, PutText
  <2> QED BY <2>1, <2>2, AnswersKept
<1>6. CASE Banner
  <2>1. UNCHANGED <<due, seen, state, buf>> /\ Put(<<"text">>) /\ spc = "banner" /\ spc' = "notify"
    BY <1>6 DEF Banner, session
  <2>2. ~full' => OptionsOf(log') = OptionsOf(log)
    BY <2>1, PutText
  <2> QED BY <2>1, <2>2, AnswersKept
<1>7. CASE Accept
  <2> SUFFICES ASSUME ~full' PROVE Flat(due') = OptionsOf(log') \o <<"IAC", "WILL", "ECHO">>
    BY <1>7 DEF AnswersInv, Accept
  <2>1. /\ UNCHANGED <<full, log>> /\ spc = "accept" /\ spc' = "hello"
        /\ due' = (due \o Parse(seen).answers) \o <<<<"WILL", "ECHO">>>>
    BY <1>7 DEF Accept, ring, sent
  <2>2. buf = <<>>
    BY <2>1 DEF StreamInv
  <2>3. OptionsOf(log) = Flat(due \o Parse(seen).answers)
    BY <2>1, <2>2, AnswersThere
  <2>4. due \o Parse(seen).answers \in Seq(Pairs)
    <3>1. due \in Seq(Pairs) /\ Parse(seen).answers \in Seq(Pairs)
      BY ParseType DEF StreamInv, Pairs
    <3> QED BY <3>1, ConcatProperties
  <2>5. /\ <<<<"WILL", "ECHO">>>> \in Seq(Pairs)
        /\ Flat(<<<<"WILL", "ECHO">>>>) = <<"IAC", "WILL", "ECHO">>
    BY FlatOne DEF Verbs, Bytes, Options
  <2>6. Flat(due') = Flat(due \o Parse(seen).answers) \o <<"IAC", "WILL", "ECHO">>
    BY <2>1, <2>4, <2>5, FlatJoin
  <2> QED BY <2>1, <2>3, <2>6
<1>8. CASE Hello
  <2> SUFFICES ASSUME ~full', NEW y \in Seq(Bytes) PROVE Told(y)'
    BY <1>8 DEF AnswersInv, Hello
  <2>1. /\ UNCHANGED <<due, seen, buf>> /\ state' = "NORMAL" /\ spc = "hello"
        /\ Put(<<"IAC", "WILL", "ECHO">>)
    BY <1>8 DEF Hello, session
  <2>2. "WILL" \in Verbs /\ "ECHO" \in Bytes
    BY DEF Verbs, Bytes, Options
  <2>3. OptionsOf(log') = OptionsOf(log) \o <<"IAC", "WILL", "ECHO">> /\ ~full
    BY <2>1, <2>2, PutOption
  <2>4. Flat(due) = OptionsOf(log') /\ seen = <<>> /\ buf = <<>>
    BY <2>1, <2>3 DEF AnswersInv, StreamInv
  <2>5. <<>> \o y = y
    BY ConcatEmptySeq
  <2>6. Ahead("NORMAL", <<>>, y) = Parse(y)
    BY <2>5 DEF Ahead, Pending
  <2>7. Flat(due \o Parse(y).answers) = Flat(due) \o Flat(Parse(y).answers)
    <3>1. due \in Seq(Pairs) /\ Parse(y).answers \in Seq(Pairs)
      BY ParseType DEF StreamInv, Pairs
    <3> QED BY <3>1, FlatJoin
  <2>8. Told(y)' <=> Flat(due' \o Parse(seen' \o y).answers)
                       = OptionsOf(log') \o Flat(Ahead(state', buf', y).answers)
    BY DEF Told
  <2> QED BY <2>1, <2>4, <2>5, <2>6, <2>7, <2>8
<1>9. CASE Recv
  BY <1>9, RecvAnswers
<1>10. CASE Byte
  BY <1>10, ByteAnswers
<1> QED BY <1>2, <1>3, <1>4, <1>5, <1>6, <1>7, <1>8, <1>9, <1>10 DEF Next, Server, Sender, Shell

LEMMA AnswersInit == Init => AnswersInv
<1> SUFFICES ASSUME Init, NEW y \in Seq(Bytes) PROVE Told(y)
  BY DEF Init, AnswersInv
<1>1. <<>> \o y = y /\ <<>> \o <<>> = <<>>
  BY ConcatEmptySeq
<1>2. Ahead("NORMAL", <<>>, y) = Parse(y)
  BY <1>1 DEF Ahead, Pending
<1>3. Parse(y).answers \in Seq(Pairs)
  BY ParseType DEF Pairs
<1>4. <<>> \o Parse(y).answers = Parse(y).answers
  BY <1>3, ConcatEmptySeq
<1>5. OptionsOf(<<>>) = <<>>
  <2> DEFINE s == <<>>
  <2>1. s \in Seq(Text) /\ Len(s) = 0 /\ 0 \in 0 .. Len(s)
    OBVIOUS
  <2> HIDE DEF s
  <2>2. OptionsAmong(s)[0] = <<>>
    BY <2>1, OptionsAt DEF OptionsUpTo
  <2> QED BY <2>1, <2>2 DEF OptionsOf, s
<1>6. <<>> \o Flat(Parse(y).answers) = Flat(Parse(y).answers)
  BY <1>3, FlatIs, ConcatEmptySeq
<1> QED BY <1>1, <1>2, <1>4, <1>5, <1>6 DEF Init, Told

\* Whatever options the clients send, and wherever recv cuts them, each is
\* answered once, in its order, behind the server's own WILL ECHO.
THEOREM AnswersAlways == Spec => []OptionsAnswered
<1>1. TypeInv /\ StreamInv /\ AnswersInv => OptionsAnswered
  BY AnswersThere DEF OptionsAnswered
<1>2. TypeInv /\ StreamInv /\ AnswersInv /\ [Next]_vars => (TypeInv /\ StreamInv /\ AnswersInv)'
  BY TypeStep, StreamStep, AnswersStep
<1> QED BY <1>1, <1>2, TypeInit, StreamInit, AnswersInit, PTL DEF Spec


-----------------------------------------------------------------------------
(***************************************************************************)
(* process_rx by itself, on one piece behind the other.                     *)
(***************************************************************************)
LEMMA RoundsExist ==
  ASSUME NEW p, NEW s \in Seq(Bytes)
  PROVE  \E f : f = [i \in 0 .. Len(s) |-> RoundAt(p, s, f, i)]
<1> DEFINE Solves(f, k) == f = [i \in 0 .. k |-> RoundAt(p, s, f, i)]
           T == {k \in Nat : \E f : Solves(f, k)}
<1>1. 0 \in T
  <2> DEFINE f == [i \in 0 .. 0 |-> [p EXCEPT !.buf = s]]
  <2>1. \A i \in 0 .. 0 : RoundAt(p, s, f, i) = [p EXCEPT !.buf = s]
    <3> HIDE DEF f
    <3> QED BY DEF RoundAt
  <2>2. Solves(f, 0)
    BY <2>1
  <2> HIDE DEF Solves, f
  <2> QED BY <2>2
<1>2. ASSUME NEW k \in T PROVE k + 1 \in T
  <2>1. k \in Nat /\ k + 1 \in Nat
    OBVIOUS
  <2>2. PICK f : Solves(f, k)
    OBVIOUS
  <2> HIDE DEF T
  <2> DEFINE g == [i \in 0 .. k + 1 |-> IF i = k + 1 THEN RoundAt(p, s, f, i) ELSE f[i]]
  <2>3. \A i \in 0 .. k : g[i] = f[i]
    BY <2>1
  <2>4. g[k + 1] = RoundAt(p, s, f, k + 1)
    BY <2>1
  <2>5. ASSUME NEW i \in 0 .. k + 1 PROVE RoundAt(p, s, f, i) = RoundAt(p, s, g, i)
    <3>1. i # 0 => i - 1 \in 0 .. k
      BY <2>1
    <3>2. i # 0 => f[i - 1] = g[i - 1]
      BY <2>3, <3>1
    <3> HIDE DEF g
    <3> QED BY <3>2 DEF RoundAt
  <2>6. ASSUME NEW i \in 0 .. k + 1 PROVE g[i] = RoundAt(p, s, g, i)
    <3>1. CASE i = k + 1
      BY <2>4, <2>5, <3>1
    <3>2. CASE i # k + 1
      <4>1. i \in 0 .. k
        BY <2>1, <3>2
      <4>2. f[i] = RoundAt(p, s, f, i)
        BY <2>2, <4>1
      <4> QED BY <2>3, <2>5, <4>1, <4>2
    <3> QED BY <3>1, <3>2
  <2>7. g = [i \in 0 .. k + 1 |-> g[i]]
    OBVIOUS
  <2>8. Solves(g, k + 1)
    <3> HIDE DEF g
    <3> QED BY <2>6, <2>7
  <2> HIDE DEF Solves, g
  <2> QED BY <2>1, <2>8 DEF T
<1>3. T = Nat
  <2>1. T \in SUBSET Nat
    OBVIOUS
  <2> HIDE DEF T
  <2> QED BY <1>1, <1>2, <2>1, Induction
<1>4. Len(s) \in T
  BY <1>3, LenProperties
<1> QED BY <1>4

LEMMA RoundsAt ==
  ASSUME NEW p, NEW s \in Seq(Bytes)
  PROVE  \A i \in 0 .. Len(s) : Rounds(p, s)[i] = RoundAt(p, s, Rounds(p, s), i)
<1> DEFINE Solves(f) == f = [i \in 0 .. Len(s) |-> RoundAt(p, s, f, i)]
<1>1. \E f : Solves(f)
  BY RoundsExist
<1>2. Rounds(p, s) = CHOOSE f : Solves(f)
  BY DEF Rounds
<1>3. Solves(Rounds(p, s))
  <2> HIDE DEF Solves
  <2> QED BY <1>1, <1>2
<1> QED BY <1>3

\* Where process_rx is: what it has yet to read, and what it has made so far.
Places == [buf : Seq(Bytes), state : States, text : Seq(Bytes), answers : Seq(Pairs)]

\* What has been read and what lies ahead, before a stream goes on with y.
TextOf(q, y) == q.text \o Ahead(q.state, q.buf, y).text
AnswersOf(q, y) == q.answers \o Ahead(q.state, q.buf, y).answers

\* A round changes neither, unless a CR is the last byte of its piece and its
\* NUL comes first in what follows.
LEMMA RoundKeeps ==
  ASSUME NEW q \in Places, q.buf # <<>>, NEW y \in Seq(Bytes),
         ~(LastReturn(q.buf) /\ y # <<>> /\ Head(y) = "NUL")
  PROVE  /\ Round(q) \in Places /\ Len(Round(q).buf) = Len(q.buf) - 1
         /\ LastReturn(Round(q).buf) => LastReturn(q.buf)
         /\ TextOf(Round(q), y) = TextOf(q, y) /\ AnswersOf(Round(q), y) = AnswersOf(q, y)
<1> DEFINE st == q.state
           b == Head(q.buf)
           rest == Rest(st, q.buf)
           next == Ahead(AfterByte(st, b), rest, y)
           text == IF Stored(st, b) THEN <<b>> ELSE <<>>
           answers == IF Answered(st) THEN <<Answer(st, b)>> ELSE <<>>
<1>1. /\ q.buf \in Seq(Bytes) /\ st \in States /\ q.text \in Seq(Bytes)
      /\ q.answers \in Seq(Pairs) /\ b \in Bytes
  BY HeadTailProperties DEF Places
<1>2. Round(q) = [buf |-> rest, state |-> AfterByte(st, b), text |-> q.text \o text,
                  answers |-> q.answers \o answers]
  BY DEF Round
<1>3. /\ rest \in Seq(Bytes) /\ Len(rest) = Len(q.buf) - 1
      /\ LastReturn(rest) => LastReturn(q.buf)
  <2>1. rest \in Seq(Bytes)
    BY <1>1, RestType
  <2>2. Len(q.buf) \in Nat \ {0} /\ DOMAIN rest = 1 .. Len(q.buf) - 1
    BY <1>1, EmptySeq, LenProperties DEF Rest
  <2>3. Len(rest) \in Nat /\ DOMAIN rest = 1 .. Len(rest)
    BY <2>1, LenProperties
  <2>4. Len(rest) = Len(q.buf) - 1
    <3> HIDE DEF rest
    <3> QED BY <2>2, <2>3
  <2> QED BY <1>1, <2>1, <2>4, LastOfRest
<1>4. AfterByte(st, b) \in States
  BY <1>1 DEF AfterByte, States, Verbs
<1>5. text \in Seq(Bytes) /\ answers \in Seq(Pairs)
  <2>1. Answered(st) => Answer(st, b) \in Pairs
    BY <1>1 DEF Answered, Answer, Pairs, Verbs
  <2> QED BY <1>1, <2>1
<1>6. ~(Len(q.buf) = 1 /\ st = "NORMAL" /\ b = "CR" /\ y # <<>> /\ Head(y) = "NUL")
  <2>1. Len(q.buf) = 1 /\ b = "CR" => LastReturn(q.buf)
    BY <1>1, HeadTailProperties DEF LastReturn
  <2> QED BY <2>1
<1>7. Ahead(st, q.buf, y) =
        IF Stored(st, b) THEN WithText(b, next)
        ELSE IF Answered(st)
             THEN [text |-> next.text, answers |-> <<Answer(st, b)>> \o next.answers]
             ELSE next
  BY <1>1, <1>6, ReadByte
<1>8. next.text \in Seq(Bytes) /\ next.answers \in Seq(Pairs)
  BY <1>3, <1>4, AheadType DEF Pairs
<1> HIDE DEF next, rest
<1>9. /\ Ahead(st, q.buf, y).text = text \o next.text
      /\ Ahead(st, q.buf, y).answers = answers \o next.answers
  <2>1. <<>> \o next.text = next.text /\ <<>> \o next.answers = next.answers
    BY <1>8, ConcatEmptySeq
  <2>2. Stored(st, b) => ~Answered(st)
    BY DEF Stored, Answered
  <2>3. CASE Stored(st, b)
    <3>1. Ahead(st, q.buf, y) = WithText(b, next) /\ text = <<b>> /\ answers = <<>>
      BY <1>7, <2>2, <2>3
    <3> HIDE DEF text, answers
    <3> QED BY <2>1, <3>1 DEF WithText
  <2>4. CASE ~Stored(st, b) /\ Answered(st)
    <3>1. /\ Ahead(st, q.buf, y)
               = [text |-> next.text, answers |-> <<Answer(st, b)>> \o next.answers]
          /\ text = <<>> /\ answers = <<Answer(st, b)>>
      BY <1>7, <2>4
    <3> HIDE DEF text, answers
    <3> QED BY <2>1, <3>1
  <2>5. CASE ~Stored(st, b) /\ ~Answered(st)
    <3>1. Ahead(st, q.buf, y) = next /\ text = <<>> /\ answers = <<>>
      BY <1>7, <2>5
    <3> HIDE DEF text, answers
    <3> QED BY <2>1, <3>1
  <2> QED BY <2>3, <2>4, <2>5
<1> HIDE DEF text, answers
<1>10. q.text \o text \in Seq(Bytes) /\ q.answers \o answers \in Seq(Pairs)
  BY <1>1, <1>5, ConcatProperties
<1>11. (q.text \o text) \o next.text = q.text \o (text \o next.text)
  <2> DEFINE u == q.text
             v == next.text
  <2>1. u \in Seq(Bytes) /\ v \in Seq(Bytes)
    BY <1>1, <1>8
  <2> HIDE DEF u, v
  <2>2. (u \o text) \o v = u \o (text \o v)
    BY <1>5, <2>1, ConcatAssociative
  <2> QED BY <2>2 DEF u, v
<1>12. (q.answers \o answers) \o next.answers = q.answers \o (answers \o next.answers)
  <2> DEFINE u == q.answers
             v == next.answers
  <2>1. u \in Seq(Pairs) /\ v \in Seq(Pairs)
    BY <1>1, <1>8
  <2> HIDE DEF u, v
  <2>2. (u \o answers) \o v = u \o (answers \o v)
    BY <1>5, <2>1, ConcatAssociative
  <2> QED BY <2>2 DEF u, v
<1>13. Round(q) \in Places
  BY <1>2, <1>3, <1>4, <1>10 DEF Places
<1>14. /\ Round(q).buf = rest /\ Round(q).state = AfterByte(st, b)
       /\ Round(q).text = q.text \o text /\ Round(q).answers = q.answers \o answers
  BY <1>2
<1>15. Ahead(Round(q).state, Round(q).buf, y) = next
  BY <1>14 DEF next
<1>16. TextOf(Round(q), y) = TextOf(q, y) /\ AnswersOf(Round(q), y) = AnswersOf(q, y)
  BY <1>9, <1>11, <1>12, <1>14, <1>15 DEF TextOf, AnswersOf
<1> QED BY <1>3, <1>13, <1>14, <1>16

\* The meaning of a piece and what follows is what process_rx makes of the
\* piece, and what the rest means in the state it is left in.
LEMMA PieceKeeps ==
  ASSUME NEW p \in Places, NEW s \in Seq(Bytes), NEW y \in Seq(Bytes),
         ~(LastReturn(s) /\ y # <<>> /\ Head(y) = "NUL")
  PROVE  /\ Process(p, s) \in Places /\ Process(p, s).buf = <<>>
         /\ TextOf(Process(p, s), y) = p.text \o Ahead(p.state, s, y).text
         /\ AnswersOf(Process(p, s), y) = p.answers \o Ahead(p.state, s, y).answers
<1> DEFINE f == Rounds(p, s)
           first == [p EXCEPT !.buf = s]
           Good(k) == /\ f[k] \in Places /\ Len(f[k].buf) = Len(s) - k
                      /\ LastReturn(f[k].buf) => LastReturn(s)
                      /\ TextOf(f[k], y) = TextOf(first, y)
                      /\ AnswersOf(f[k], y) = AnswersOf(first, y)
           T == {k \in Nat : k <= Len(s) => Good(k)}
<1>0. Len(s) \in Nat /\ \A i \in 0 .. Len(s) : f[i] = RoundAt(p, s, f, i)
  BY LenProperties, RoundsAt
<1>1. first \in Places /\ first.buf = s /\ first.state = p.state /\ first.text = p.text
      /\ first.answers = p.answers
  BY DEF Places
<1> HIDE DEF f, first
<1>2. 0 \in T
  <2>1. f[0] = first
    BY <1>0 DEF RoundAt, first
  <2>2. Good(0)
    BY <1>0, <1>1, <2>1
  <2> HIDE DEF Good
  <2> QED BY <2>2
<1>3. ASSUME NEW k \in T PROVE k + 1 \in T
  <2> SUFFICES ASSUME k + 1 <= Len(s) PROVE Good(k + 1)
    BY DEF T
  <2>1. k \in Nat /\ k <= Len(s) /\ k + 1 \in 0 .. Len(s) /\ (k + 1) - 1 = k /\ k + 1 # 0
    BY <1>0
  <2>2. Good(k)
    BY <2>1
  <2>3. f[k + 1] = Round(f[k])
    BY <1>0, <2>1 DEF RoundAt
  <2> HIDE DEF T
  <2>4. f[k].buf \in Seq(Bytes) /\ f[k].buf # <<>>
    <3>1. f[k].buf \in Seq(Bytes) /\ Len(f[k].buf) > 0
      BY <1>0, <2>1, <2>2 DEF Places
    <3> QED BY <3>1, EmptySeq
  <2>5. /\ Round(f[k]) \in Places /\ Len(Round(f[k]).buf) = Len(f[k].buf) - 1
        /\ LastReturn(Round(f[k]).buf) => LastReturn(f[k].buf)
        /\ TextOf(Round(f[k]), y) = TextOf(f[k], y)
        /\ AnswersOf(Round(f[k]), y) = AnswersOf(f[k], y)
    BY <2>2, <2>4, RoundKeeps
  <2>6. Len(s) - (k + 1) = (Len(s) - k) - 1
    BY <1>0, <2>1
  <2> QED BY <2>2, <2>3, <2>5, <2>6
<1>4. T = Nat
  <2>1. T \in SUBSET Nat
    OBVIOUS
  <2> HIDE DEF T
  <2> QED BY <1>2, <1>3, <2>1, Induction
<1>5. Good(Len(s))
  BY <1>0, <1>4
<1>6. f[Len(s)].buf = <<>>
  <2>1. f[Len(s)].buf \in Seq(Bytes) /\ Len(f[Len(s)].buf) = 0
    BY <1>0, <1>5 DEF Places
  <2> QED BY <2>1, EmptySeq
<1> QED BY <1>1, <1>5, <1>6 DEF Process, f, TextOf, AnswersOf

\* A stream from its beginning, and the rest of one behind its first piece.
LEMMA FromFresh ==
  ASSUME NEW s \in Seq(Bytes), NEW y \in Seq(Bytes)
  PROVE  /\ Fresh \in Places /\ Ahead(Fresh.state, s, y) = Parse(s \o y)
         /\ \A st \in States : Ahead(st, <<>>, y) = Ahead(st, y, <<>>)
<1>1. s \o y \in Seq(Bytes) /\ <<>> \o (s \o y) = s \o y /\ <<>> \o y = y /\ y \o <<>> = y
  BY ConcatProperties, ConcatEmptySeq
<1>2. Fresh \in Places
  BY DEF Fresh, Places, States
<1> QED BY <1>1, <1>2 DEF Ahead, Fresh, Pending

(***************************************************************************)
(* Whatever the stream and wherever recv cuts it in two, but between a CR   *)
(* and its NUL, process_rx makes of the two pieces the text and the answers *)
(* the stream means.                                                        *)
(***************************************************************************)
THEOREM EveryStreamParsed ==
  ASSUME NEW s \in Seq(Bytes), NEW cut \in 0 .. Len(s), ~Apart(s, cut)
  PROVE  LET p == Process(Process(Fresh, SubSeq(s, 1, cut)), SubSeq(s, cut + 1, Len(s)))
         IN  p.text = Parse(s).text /\ p.answers = Parse(s).answers
<1> DEFINE a == SubSeq(s, 1, cut)
           z == SubSeq(s, cut + 1, Len(s))
           q == Process(Fresh, a)
           r == Process(q, z)
<1>0. Len(s) \in Nat /\ cut \in Nat /\ cut <= Len(s) /\ cut + 1 \in Nat \ {0}
  BY LenProperties
<1>1. /\ a \in Seq(Bytes) /\ Len(a) = cut /\ \A i \in 1 .. cut : a[i] = s[i]
      /\ z \in Seq(Bytes) /\ Len(z) = Len(s) - cut
      /\ \A i \in 1 .. Len(s) - cut : z[i] = s[cut + i]
  <2>1. /\ a \in Seq(Bytes) /\ Len(a) = IF 1 <= cut THEN cut - 1 + 1 ELSE 0
        /\ \A i \in 1 .. cut - 1 + 1 : a[i] = s[1 + i - 1]
    BY <1>0, Piece
  <2>2. /\ z \in Seq(Bytes)
        /\ Len(z) = IF cut + 1 <= Len(s) THEN Len(s) - (cut + 1) + 1 ELSE 0
        /\ \A i \in 1 .. Len(s) - (cut + 1) + 1 : z[i] = s[cut + 1 + i - 1]
    BY <1>0, Piece
  <2> HIDE DEF a, z
  <2>3. \A i \in 1 .. cut : i \in 1 .. cut - 1 + 1 /\ 1 + i - 1 = i
    BY <1>0
  <2>4. \A i \in 1 .. Len(s) - cut : i \in 1 .. Len(s) - (cut + 1) + 1 /\ cut + 1 + i - 1 = cut + i
    BY <1>0
  <2> QED BY <1>0, <2>1, <2>2, <2>3, <2>4
<1> HIDE DEF a, z
<1>2. a \o z = s
  <2>1. /\ a \o z \in Seq(Bytes) /\ Len(a \o z) = Len(a) + Len(z)
        /\ \A i \in 1 .. Len(a) + Len(z) :
             (a \o z)[i] = IF i <= Len(a) THEN a[i] ELSE z[i - Len(a)]
    BY <1>1, ConcatProperties
  <2>2. Len(a) + Len(z) = Len(s)
    BY <1>0, <1>1
  <2>3. ASSUME NEW i \in 1 .. Len(s) PROVE (a \o z)[i] = s[i]
    <3>1. CASE i <= cut
      <4>1. i \in 1 .. cut
        BY <1>0, <3>1
      <4> QED BY <1>1, <2>1, <2>2, <3>1, <4>1
    <3>2. CASE ~(i <= cut)
      <4>1. i - cut \in 1 .. Len(s) - cut /\ cut + (i - cut) = i
        BY <1>0, <3>2
      <4>2. z[i - cut] = s[cut + (i - cut)]
        BY <1>1, <4>1
      <4>3. (a \o z)[i] = z[i - cut]
        BY <1>1, <2>1, <2>2, <3>2
      <4> QED BY <4>1, <4>2, <4>3
    <3> QED BY <3>1, <3>2
  <2> QED BY <2>1, <2>2, <2>3, SeqEqual
<1>3. ~(LastReturn(a) /\ z # <<>> /\ Head(z) = "NUL")
  <2> SUFFICES ASSUME LastReturn(a), z # <<>>, Head(z) = "NUL" PROVE FALSE
    OBVIOUS
  <2>1. Len(a) # 0 /\ Len(z) # 0 /\ Head(z) = z[1] /\ a[Len(a)] = "CR"
    BY <1>1, EmptySeq, HeadTailProperties DEF LastReturn
  <2>2. 0 < cut /\ cut < Len(s) /\ cut \in 1 .. cut /\ 1 \in 1 .. Len(s) - cut
    BY <1>0, <1>1, <2>1
  <2>3. s[cut] = "CR" /\ s[cut + 1] = "NUL"
    BY <1>1, <2>1, <2>2
  <2> QED BY <2>2, <2>3 DEF Apart
<1>4. Fresh \in Places /\ Ahead(Fresh.state, a, z) = Parse(s)
  BY <1>1, <1>2, FromFresh
<1>5. /\ q \in Places /\ q.buf = <<>>
      /\ TextOf(q, z) = Fresh.text \o Parse(s).text
      /\ AnswersOf(q, z) = Fresh.answers \o Parse(s).answers
  <2>1. /\ Process(Fresh, a) \in Places /\ Process(Fresh, a).buf = <<>>
        /\ TextOf(Process(Fresh, a), z) = Fresh.text \o Ahead(Fresh.state, a, z).text
        /\ AnswersOf(Process(Fresh, a), z) = Fresh.answers \o Ahead(Fresh.state, a, z).answers
    BY <1>1, <1>3, <1>4, PieceKeeps
  <2> QED BY <1>4, <2>1
<1>6. <<>> \in Seq(Bytes) /\ q.state \in States /\ Ahead(q.state, <<>>, z) = Ahead(q.state, z, <<>>)
  BY <1>1, <1>5, FromFresh DEF Places
<1> HIDE DEF q
<1>7. /\ r \in Places /\ r.buf = <<>>
      /\ TextOf(r, <<>>) = q.text \o Ahead(q.state, z, <<>>).text
      /\ AnswersOf(r, <<>>) = q.answers \o Ahead(q.state, z, <<>>).answers
  BY <1>1, <1>5, <1>6, PieceKeeps
<1> HIDE DEF r
<1>8. /\ r.text \in Seq(Bytes) /\ r.answers \in Seq(Pairs) /\ r.state \in States
      /\ Ahead(r.state, r.buf, <<>>).text = <<>> /\ Ahead(r.state, r.buf, <<>>).answers = <<>>
  BY <1>7, AheadEnds DEF Places, Nothing
<1>9. TextOf(r, <<>>) = r.text /\ AnswersOf(r, <<>>) = r.answers
  BY <1>8, ConcatEmptySeq DEF TextOf, AnswersOf
<1>10. TextOf(q, z) = TextOf(r, <<>>) /\ AnswersOf(q, z) = AnswersOf(r, <<>>)
  BY <1>5, <1>6, <1>7 DEF TextOf, AnswersOf
<1>11. /\ Parse(s).text \in Seq(Bytes) /\ Parse(s).answers \in Seq(Pairs)
       /\ Fresh.text = <<>> /\ Fresh.answers = <<>>
  BY ParseType DEF Fresh, Pairs
<1>12. TextOf(q, z) = Parse(s).text /\ AnswersOf(q, z) = Parse(s).answers
  BY <1>5, <1>11, ConcatEmptySeq
<1> QED BY <1>9, <1>10, <1>12 DEF r, q, a, z

\* The streams the run tries, all of them at once: the property of the run.
THEOREM StreamsParsed == Spec => []ParsesEveryStream
<1>1. ParsesEveryStream
  <2> SUFFICES ASSUME NEW n \in 0 .. 4, NEW s \in [1 .. n -> Bytes], NEW cut \in 0 .. n,
                      ~Apart(s, cut)
               PROVE  LET p == Process(Process(Fresh, SubSeq(s, 1, cut)), SubSeq(s, cut + 1, n))
                      IN  p.text = Parse(s).text /\ p.answers = Parse(s).answers
    BY DEF ParsesEveryStream
  <2>1. s \in Seq(Bytes) /\ Len(s) = n
    OBVIOUS
  <2> QED BY <2>1, EveryStreamParsed
<1> QED BY <1>1, PTL
=============================================================================
