---------------------------- MODULE Mqtt_proofs ----------------------------
(***************************************************************************)
(* Proofs about the MQTT client: for any number of applications, topics,    *)
(* handlers, calls, faults and items in the pipe.                           *)
(*                                                                         *)
(* OneMessageAtATime relates the semaphore, the pipe and the calls, and is  *)
(* inductive once their types are known.  Most actions touch none of the    *)
(* three: those are dealt with in one step, and the others one by one.      *)
(***************************************************************************)
EXTENDS Mqtt, SequenceTheorems, TLAPS

PubType == sem \in {0, 1} /\ pipe \in Seq({"msg", "stop"}) /\ app \in [Apps -> AppCalls]

PubInv == PubType /\ (~Blocking => sem = 1) /\ OneMessageAtATime

\* The messages that wait after a read of the whole pipe, and after a write.
LEMMA EmptyPipe == ASSUME pipe = <<>> PROVE \A i \in DOMAIN pipe : ~Waits(i)
  BY DEF Waits

LEMMA AppendDomain ==
  ASSUME NEW S, NEW s \in Seq(S), NEW x \in S
  PROVE  /\ Append(s, x) \in Seq(S)
         /\ DOMAIN Append(s, x) = DOMAIN s \cup {Len(s) + 1}
         /\ \A i \in DOMAIN s : Append(s, x)[i] = s[i]
         /\ Append(s, x)[Len(s) + 1] = x
  OBVIOUS

LEMMA IdleCall == Idle \in AppCalls /\ Idle.pc = "idle"
  BY PipeAssumption DEF Idle, AppCalls

LEMMA InitPub == Init => PubInv
  <1> SUFFICES ASSUME Init PROVE PubInv
    OBVIOUS
  <1>1. PubType
    BY IdleCall DEF Init, PubType
  <1>2. (\A a \in Apps : ~Inside(a)) /\ (\A i \in DOMAIN pipe : ~Waits(i)) /\ sem = 1
    BY IdleCall, EmptyPipe DEF Init, Inside
  <1>3. QED
    BY <1>1, <1>2 DEF PubInv, OneMessageAtATime

\* The steps that leave the semaphore, the pipe and the calls alone.
LEMMA OthersPub ==
  ASSUME PubInv, UNCHANGED <<sem, pipe, app>>
  PROVE  PubInv'
  BY DEF PubInv, PubType, OneMessageAtATime, Inside, Waits

\* The worker's read empties the pipe; it gives the semaphore back for a message.
LEMMA ReadPub ==
  ASSUME PubInv, pipe' = <<>>, UNCHANGED app,
         \/ UNCHANGED sem
         \/ Waits(1) /\ sem' = IF Blocking THEN sem + 1 ELSE sem
  PROVE  PubInv'
  <1>1. \A i \in DOMAIN pipe' : ~Waits(i)'
    BY DEF Waits
  <1>2. PubType'
    BY DEF PubInv, PubType, OneMessageAtATime, Waits
  <1>3. ~Blocking => sem' = 1
    BY DEF PubInv
  <1>4. ASSUME Blocking, sem' = 1, NEW a \in Apps PROVE ~Inside(a)'
    BY <1>4 DEF PubInv, OneMessageAtATime, Inside, Waits
  <1>5. \A a, b \in Apps : Blocking /\ Inside(a)' /\ Inside(b)' => a = b
    BY DEF PubInv, OneMessageAtATime, Inside
  <1>6. QED
    BY <1>1, <1>2, <1>3, <1>4, <1>5 DEF PubInv, OneMessageAtATime

\* A call that neither enters nor leaves the part the semaphore guards.
LEMMA CallPub ==
  ASSUME PubInv, NEW a \in Apps, ~Inside(a),
         NEW c \in AppCalls, c.pc \notin {"publish", "write msg"},
         app' = [app EXCEPT ![a] = c], UNCHANGED <<sem, pipe>>
  PROVE  PubInv'
  <1>1. PubType'
    BY DEF PubInv, PubType
  <1>2. \A b \in Apps : Inside(b)' => Inside(b)
    BY DEF PubInv, PubType, Inside
  <1>3. \A i : Waits(i)' <=> Waits(i)
    BY DEF Waits
  <1>4. QED
    BY <1>1, <1>2, <1>3 DEF PubInv, OneMessageAtATime

LEMMA PublishPub ==
  ASSUME PubInv, NEW a \in Apps, Publish(a)
  PROVE  PubInv'
  <1>1. CASE UNCHANGED <<sem, app>>
    BY <1>1, OthersPub DEF Publish
  <1>2. CASE Take /\ GoOn(a, "publish", None, 0)
    <2>1. PubType' /\ (~Blocking => sem' = 1)
      <3>1. app' \in [Apps -> AppCalls]
        <4>1. [pc |-> "publish", topic |-> None, slot |-> 0] \in AppCalls
          BY PipeAssumption DEF AppCalls
        <4>2. QED
          BY <1>2, <4>1 DEF PubInv, PubType, GoOn
      <3>2. sem' \in {0, 1} /\ (~Blocking => sem' = 1)
        BY <1>2 DEF PubInv, PubType, Take
      <3>3. QED
        BY <3>1, <3>2 DEF Publish, PubInv, PubType
    <2>2. \A i : Waits(i)' <=> Waits(i)
      BY DEF Publish, Waits
    <2>3. \A b \in Apps : b # a => (Inside(b)' <=> Inside(b))
      BY <1>2 DEF PubInv, PubType, GoOn, Inside
    <2>4. Blocking => sem = 1 /\ sem' = 0
      BY <1>2 DEF Take, PubInv, PubType
    <2>5. DOMAIN pipe' = DOMAIN pipe
      BY DEF Publish
    <2>6. QED
      BY <2>1, <2>2, <2>3, <2>4, <2>5 DEF PubInv, OneMessageAtATime
  <1>3. QED
    BY <1>1, <1>2 DEF Publish

\* The message goes from the call into the pipe, or nowhere.
LEMMA WritePub ==
  ASSUME PubInv, NEW a \in Apps, WriteItem(a)
  PROVE  PubInv'
  <1> DEFINE item == IF app[a].pc = "write msg" THEN "msg" ELSE "stop"
  <1>1. /\ app' = [app EXCEPT ![a] = Idle] /\ sem' = sem
        /\ pipe' = pipe \/ pipe' = Append(pipe, item)
        /\ app[a].pc \in {"write msg", "write stop"}
    BY DEF WriteItem, Write, Return
  <1>2. PubType'
    <2>1. pipe' \in Seq({"msg", "stop"})
      <3>1. CASE pipe' = pipe
        BY <3>1 DEF PubInv, PubType
      <3>2. CASE pipe' = Append(pipe, item)
        BY <3>2, AppendDomain, item \in {"msg", "stop"} DEF PubInv, PubType
      <3>3. QED
        BY <1>1, <3>1, <3>2
    <2>2. app' \in [Apps -> AppCalls]
      BY <1>1, IdleCall DEF PubInv, PubType
    <2>3. QED
      BY <1>1, <2>1, <2>2 DEF PubInv, PubType
  <1>3. \A b \in Apps : Inside(b)' => Inside(b) /\ b # a
    BY <1>1, IdleCall DEF PubInv, PubType, Inside
  <1>4. \A i \in DOMAIN pipe' : Waits(i)' => Waits(i) \/ (i = Len(pipe) + 1 /\ Inside(a))
    <2>1. CASE pipe' = pipe
      BY <2>1 DEF Waits
    <2>2. CASE pipe' = Append(pipe, item)
      <3>1. /\ DOMAIN pipe' = DOMAIN pipe \cup {Len(pipe) + 1}
            /\ \A i \in DOMAIN pipe : pipe'[i] = pipe[i]
            /\ pipe'[Len(pipe) + 1] = item
        BY <2>2, AppendDomain, item \in {"msg", "stop"} DEF PubInv, PubType
      <3>2. QED
        BY <1>1, <3>1 DEF Waits, Inside
    <2>3. QED
      BY <1>1, <2>1, <2>2
  <1>5. QED
    BY <1>1, <1>2, <1>3, <1>4 DEF PubInv, OneMessageAtATime, Waits

LEMMA PublishingPub ==
  ASSUME PubInv, NEW a \in Apps, Publishing(a)
  PROVE  PubInv'
  <1>1. \A b \in Apps : Inside(b)' => Inside(b)
    BY IdleCall DEF Publishing, GoOn, Return, PubInv, PubType, Inside
  <1>2. PubType'
    <2>1. CASE GoOn(a, "write msg", None, 0)
      <3>1. [pc |-> "write msg", topic |-> None, slot |-> 0] \in AppCalls
        BY PipeAssumption DEF AppCalls
      <3>2. QED
        BY <2>1, <3>1 DEF GoOn, Publishing, PubInv, PubType, svars
    <2>2. CASE Return(a)
      BY <2>2, IdleCall DEF Return, Publishing, PubInv, PubType, svars
    <2>3. QED
      BY <2>1, <2>2 DEF Publishing
  <1>3. sem' = sem /\ pipe' = pipe /\ \A i : Waits(i)' <=> Waits(i)
    BY DEF Publishing, svars, Waits
  <1>4. QED
    BY <1>1, <1>2, <1>3 DEF PubInv, OneMessageAtATime

LEMMA WorkerPub ==
  ASSUME PubInv, Worker
  PROVE  PubInv'
  <1>1. CASE WorkerPublish \/ WorkerPublishFails \/ WorkerExit \/ WorkerMisreads
    <2>1. /\ pipe' = <<>> /\ app' = app
          /\ \/ sem' = sem
             \/ Head(pipe) = "msg" /\ pipe # <<>> /\ sem' = IF Blocking THEN sem + 1 ELSE sem
      BY <1>1 DEF WorkerPublish, WorkerPublishFails, WorkerExit, WorkerMisreads,
                  PipeReady, avars
    <2>2. pipe \in Seq({"msg", "stop"}) /\ pipe # <<>> => 1 \in DOMAIN pipe /\ Head(pipe) = pipe[1]
      OBVIOUS
    <2>3. QED
      BY <2>1, <2>2, ReadPub DEF PubInv, PubType, Waits
  <1>2. CASE \/ WorkerStart \/ WorkerConnect \/ WorkerConnack \/ WorkerDelay
             \/ WorkerSubscribe \/ WorkerSuback
    <2>1. UNCHANGED <<sem, pipe, app>>
      BY <1>2 DEF WorkerStart, WorkerConnect, WorkerConnack, WorkerDelay,
                  WorkerSubscribe, WorkerSuback, Restart, Leave, svars, avars
    <2>2. QED
      BY <2>1, OthersPub
  <1>3. CASE WorkerCycle \/ WorkerEnd \/ WorkerPing \/ WorkerNoPong
    <2>1. UNCHANGED <<sem, pipe, app>>
      BY <1>3 DEF WorkerCycle, WorkerEnd, WorkerPing, WorkerNoPong, Leave, svars, avars
    <2>2. QED
      BY <2>1, OthersPub
  <1>4. QED
    BY <1>1, <1>2, <1>3 DEF Worker

LEMMA AppPub ==
  ASSUME PubInv, NEW a \in Apps, NewCall(a) \/ OldCall(a)
  PROVE  PubInv'
  <1>1. CASE Publish(a)
    BY <1>1, PublishPub
  <1>2. CASE Stop(a)
    <2>1. ~Inside(a) /\ UNCHANGED <<sem, pipe>>
      BY <1>2, IdleCall DEF Stop, Call, Inside, svars
    <2>2. CASE UNCHANGED app
      BY <2>1, <2>2, OthersPub
    <2>3. CASE GoOn(a, "write stop", None, 0)
      <3> DEFINE c == [pc |-> "write stop", topic |-> None, slot |-> 0]
      <3>1. c \in AppCalls /\ c.pc = "write stop"
        BY PipeAssumption DEF AppCalls
      <3>2. app' = [app EXCEPT ![a] = c]
        BY <2>3 DEF GoOn
      <3> HIDE DEF c
      <3>3. QED
        BY <2>1, <3>1, <3>2, CallPub
    <2>4. QED
      BY <1>2, <2>2, <2>3 DEF Stop
  <1>3. ASSUME NEW t \in Topics, Subscribe(a, t) \/ Unsubscribe(a, t)
        PROVE  PubInv'
    <2>1. ~Inside(a) /\ UNCHANGED <<sem, pipe>>
      BY <1>3, IdleCall DEF Subscribe, Unsubscribe, Call, Inside
    <2>2. CASE UNCHANGED app
      BY <2>1, <2>2, OthersPub
    <2>3. ASSUME NEW i \in Slots, NEW pc \in {"store", "clear"}, GoOn(a, pc, t, i)
          PROVE  PubInv'
      <3> DEFINE c == [pc |-> pc, topic |-> t, slot |-> i]
      <3>1. c \in AppCalls /\ c.pc = pc
        <4>1. i \in 0 .. MaxHandlers
          BY PipeAssumption DEF Slots
        <4>2. QED
          BY <4>1 DEF AppCalls
      <3>2. app' = [app EXCEPT ![a] = c]
        BY <2>3 DEF GoOn
      <3> HIDE DEF c
      <3>3. QED
        BY <2>1, <3>1, <3>2, CallPub
    <2>4. QED
      BY <1>3, <2>2, <2>3 DEF Subscribe, Unsubscribe, MarksOffline
  <1>4. CASE Publishing(a)
    BY <1>4, PublishingPub
  <1>5. CASE WriteItem(a)
    BY <1>5, WritePub
  <1>6. CASE Record(a)
    <2>1. ~Inside(a) /\ UNCHANGED <<sem, pipe>> /\ app' = [app EXCEPT ![a] = Idle]
      BY <1>6 DEF Record, Return, Inside
    <2>2. QED
      BY <2>1, IdleCall, CallPub
  <1>7. QED
    BY <1>1, <1>2, <1>3, <1>4, <1>5, <1>6 DEF NewCall, OldCall

LEMMA StepPub == PubInv /\ [Next]_vars => PubInv'
  <1> SUFFICES ASSUME PubInv, [Next]_vars PROVE PubInv'
    OBVIOUS
  <1>1. CASE UNCHANGED vars
    BY <1>1, OthersPub DEF vars, svars, avars
  <1>2. CASE Broker
    BY <1>2, OthersPub DEF Broker, svars, avars
  <1>3. QED
    BY <1>1, <1>2, WorkerPub, AppPub DEF Next

(***************************************************************************)
(* While publishing blocks, no two messages are ever in the pipe, and the   *)
(* semaphore is free only when none is there or on its way: whatever the    *)
(* applications call, and however often the connection breaks.              *)
(***************************************************************************)
THEOREM OneAlways == Spec => []OneMessageAtATime
  <1>1. PubInv => OneMessageAtATime
    BY DEF PubInv
  <1>2. QED
    BY InitPub, StepPub, <1>1, PTL DEF Spec
-----------------------------------------------------------------------------
(***************************************************************************)
(* Types.  That the semaphore is binary needs the invariant above.          *)
(***************************************************************************)
LEMMA OrderType ==
  /\ \A t \in Topics : /\ Packet("SUBSCRIBE", t) \in Orders
                       /\ Packet("UNSUBSCRIBE", t) \in Orders
                       /\ Packet("PUBLISH", t) \in Answers
  /\ \A type \in {"CONNECT", "PUBLISH", "PUBACK", "PINGREQ"} : Packet(type, None) \in Orders
  /\ \A type \in {"CONNACK", "REFUSED", "SUBACK", "UNSUBACK", "PUBACK", "PINGRESP"} :
       Packet(type, None) \in Answers
  BY DEF Packet, About, Plain, Orders, Answers

LEMMA SendingType ==
  ASSUME up \in Seq(Orders), NEW p \in Orders, Sending(p)
  PROVE  up' \in Seq(Orders)
  BY AppendProperties DEF Sending

LEMMA CloseType ==
  ASSUME LinkType, Close, faults' \in 0 .. MaxFaults, UNCHANGED news
  PROVE  LinkType'
  BY DEF LinkType, Close

LEMMA FaultType ==
  ASSUME LinkType, Fault \/ UNCHANGED faults
  PROVE  faults' \in 0 .. MaxFaults
  BY LinkAssumption DEF LinkType, Fault

LEMMA CannotSendIs == CannotSend => Fault \/ UNCHANGED faults
  BY DEF CannotSend

LEMMA DownTail ==
  ASSUME LinkType, down # <<>>
  PROVE  Tail(down) \in Seq(Answers) /\ Head(down) \in Answers
  BY HeadTailProperties DEF LinkType

\* The steps that close the connection.
LEMMA ClosingType ==
  ASSUME TypeOK, Restart \/ Leave, Fault \/ UNCHANGED faults
  PROVE  LinkType' /\ wpc' = "delay" /\ slot' = slot /\ connected' \in BOOLEAN
         /\ UNCHANGED <<handlers, pipe, calls, crossed>>
  BY CloseType, FaultType DEF TypeOK, SharedType, Restart, Leave, Offline, svars, avars

LEMMA BrokerType ==
  ASSUME LinkType, BrokerAnswers \/ BrokerPublishes \/ Break
  PROVE  LinkType'
  <1>1. CASE BrokerAnswers
    <2> DEFINE p == Head(up)
    <2>1. up # <<>> /\ p \in Orders /\ up' \in Seq(Orders)
      BY <1>1, HeadTailProperties DEF LinkType, BrokerAnswers
    <2>2. p.topic \in Topics \/ (p.topic = None /\ p.type # "SUBSCRIBE")
      BY <2>1 DEF Orders, About, Plain
    <2>3. Replies(p) \in Seq(Answers)
      <3>1. <<Packet("SUBACK", None)>> \in Seq(Answers)
            /\ (p.topic \in Retained => <<Packet("PUBLISH", p.topic)>> \in Seq(Answers))
            /\ <<Packet("UNSUBACK", None)>> \in Seq(Answers)
            /\ <<Packet("PUBACK", None)>> \in Seq(Answers)
            /\ <<Packet("PINGRESP", None)>> \in Seq(Answers)
            /\ <<>> \in Seq(Answers)
        BY LinkAssumption, OrderType
      <3>2. <<Packet("SUBACK", None)>> \o (IF p.topic \in Retained THEN <<Packet("PUBLISH", p.topic)>> ELSE <<>>)
              \in Seq(Answers)
        BY <3>1, ConcatProperties
      <3>3. QED
        BY <3>1, <3>2 DEF Replies
    <2>4. down' \in Seq(Answers) /\ (Fault \/ UNCHANGED faults)
      <3>1. CASE p.type # "CONNECT"
        BY <1>1, <3>1, <2>3, ConcatProperties DEF BrokerAnswers, LinkType
      <3>2. CASE p.type = "CONNECT"
        <4>1. Packet("CONNACK", None) \in Answers /\ Packet("REFUSED", None) \in Answers
          BY OrderType
        <4>2. \/ down' = Append(down, Packet("CONNACK", None)) /\ UNCHANGED faults
              \/ down' = Append(down, Packet("REFUSED", None)) /\ Fault
          BY <1>1, <3>2 DEF BrokerAnswers
        <4>3. /\ Append(down, Packet("CONNACK", None)) \in Seq(Answers)
              /\ Append(down, Packet("REFUSED", None)) \in Seq(Answers)
          <5>1. down \in Seq(Answers)
            BY DEF LinkType
          <5>2. QED
            BY <4>1, <5>1, AppendProperties, ZenonT(60)
        <4>4. QED
          BY <4>2, <4>3
      <3>3. QED
        BY <3>1, <3>2
    <2>5. subs' \subseteq Topics
      <3>1. subs' = subs \cup {p.topic} \/ subs' = subs \ {p.topic} \/ subs' = subs
        BY <1>1 DEF BrokerAnswers
      <3>2. p.type # "SUBSCRIBE" => subs' = subs \ {p.topic} \/ subs' = subs
        BY <1>1 DEF BrokerAnswers
      <3>3. QED
        BY <2>2, <3>1, <3>2 DEF LinkType
    <2>6. QED
      BY <1>1, <2>1, <2>4, <2>5, FaultType DEF BrokerAnswers, LinkType
  <1>2. CASE BrokerPublishes
    <2>1. PICK t \in subs : down' = Append(down, Packet("PUBLISH", t))
      BY <1>2 DEF BrokerPublishes
    <2>2. Packet("PUBLISH", t) \in Answers
      BY OrderType DEF LinkType
    <2>3. down' \in Seq(Answers)
      BY <2>1, <2>2, AppendProperties DEF LinkType
    <2>4. QED
      BY <1>2, <2>3, LinkAssumption DEF BrokerPublishes, LinkType
  <1>3. CASE Break
    <2>1. faults' \in 0 .. MaxFaults
      BY <1>3, FaultType DEF Break
    <2>2. up' = <<>> /\ (down' = down \/ down' = <<>>) /\ subs' = {} /\ sock' = "broken" /\ news' = news
      BY <1>3 DEF Break
    <2>3. up' \in Seq(Orders) /\ down' \in Seq(Answers)
      <3>1. <<>> \in Seq(Orders) /\ <<>> \in Seq(Answers) /\ down \in Seq(Answers)
        BY DEF LinkType
      <3>2. QED
        BY <2>2, <3>1
    <2>4. sock' \in {"none", "open", "broken"} /\ subs' \subseteq Topics /\ news' \in 0 .. MaxNews
      BY <2>2 DEF LinkType
    <2>5. QED
      BY <2>1, <2>3, <2>4 DEF LinkType
  <1>4. QED
    BY <1>1, <1>2, <1>3
LEMMA WorkerType1 ==
  ASSUME TypeOK, WorkerStart \/ WorkerConnect \/ WorkerConnack \/ WorkerDelay
  PROVE  LinkType' /\ WorkerType' /\ UNCHANGED <<handlers, pipe, calls, crossed>>
         /\ connected' \in BOOLEAN
  <1> USE DEF TypeOK
  <1>1. CASE WorkerStart
    BY <1>1, FaultType DEF WorkerStart, LinkType, WorkerType, SharedType, svars, avars
  <1>2. CASE WorkerConnect
    <2>1. CASE wpc' = "connack" /\ Open(Packet("CONNECT", None)) /\ UNCHANGED <<faults, news, slot, svars, avars>>
      <3>1. up' \in Seq(Orders) /\ down' \in Seq(Answers)
        BY <2>1, OrderType DEF Open
      <3>2. QED
        BY <2>1, <3>1 DEF Open, LinkType, WorkerType, SharedType, svars, avars
    <2>2. CASE Restart /\ (Fault \/ UNCHANGED faults)
      BY <2>2, ClosingType DEF WorkerType
    <2>3. QED
      BY <1>2, <2>1, <2>2 DEF WorkerConnect
  <1>3. CASE WorkerConnack
    <2>1. CASE down # <<>> /\ down' = Tail(down) /\ wpc' = "subscribe" /\ slot' = 1 /\ connected' = TRUE
                /\ UNCHANGED <<sock, up, subs, faults, news, handlers, pipe, sem, avars>>
      BY <2>1, DownTail, PipeAssumption DEF LinkType, WorkerType, SharedType, avars
    <2>2. CASE Restart /\ (Fault \/ UNCHANGED faults)
      BY <2>2, ClosingType DEF WorkerType
    <2>3. QED
      BY <1>3, <2>1, <2>2 DEF WorkerConnack, Receives, GetsNothing
  <1>4. CASE WorkerDelay
    BY <1>4 DEF WorkerDelay, LinkType, WorkerType, SharedType, lvars, svars, avars
  <1>5. QED
    BY <1>1, <1>2, <1>3, <1>4

LEMMA WorkerType2 ==
  ASSUME TypeOK, WorkerSubscribe \/ WorkerSuback
  PROVE  LinkType' /\ WorkerType' /\ UNCHANGED <<handlers, pipe, calls>>
         /\ connected' \in BOOLEAN /\ crossed' \subseteq Topics
  <1> USE DEF TypeOK
  <1>1. CASE Leave /\ (Fault \/ UNCHANGED faults)
    BY <1>1, ClosingType DEF WorkerType, AppType
  <1>2. CASE WorkerSubscribe
    <2>1. CASE wpc' = "loop" /\ UNCHANGED <<lvars, slot, svars, avars>>
      BY <2>1 DEF LinkType, WorkerType, SharedType, AppType, lvars, svars, avars
    <2>2. ASSUME NEW i \in Pending, Sending(Packet("SUBSCRIBE", handlers[i])),
                 wpc' = "suback", slot' = i + 1, crossed' = crossed \ {handlers[i]},
                 UNCHANGED <<sock, down, subs, faults, news, svars, app, calls>>
          PROVE  LinkType' /\ WorkerType' /\ UNCHANGED <<handlers, pipe, calls>>
                 /\ connected' \in BOOLEAN /\ crossed' \subseteq Topics
      <3>1. i \in Slots /\ handlers[i] \in Topics
        BY DEF Pending, SharedType
      <3>2. up' \in Seq(Orders)
        BY <2>2, <3>1, OrderType, SendingType DEF LinkType
      <3>3. slot' \in 1 .. MaxHandlers + 1
        BY <2>2, <3>1, PipeAssumption DEF Slots
      <3>4. QED
        BY <2>2, <3>2, <3>3 DEF LinkType, WorkerType, SharedType, AppType, svars
    <2>3. QED
      BY <1>1, <1>2, <2>1, <2>2, CannotSendIs DEF WorkerSubscribe
  <1>3. CASE WorkerSuback
    <2>1. CASE down # <<>> /\ down' = Tail(down) /\ wpc' = "subscribe"
                /\ UNCHANGED <<sock, up, subs, faults, news, slot, svars, avars>>
      BY <2>1, DownTail DEF LinkType, WorkerType, SharedType, AppType, svars, avars
    <2>2. QED
      BY <1>1, <1>3, <2>1 DEF WorkerSuback, Receives, GetsNothing
  <1>4. QED
    BY <1>2, <1>3

LEMMA WorkerType3 ==
  ASSUME TypeOK, WorkerCycle \/ WorkerEnd \/ WorkerPing \/ WorkerNoPong
  PROVE  LinkType' /\ WorkerType' /\ UNCHANGED <<handlers, pipe, calls, crossed>>
         /\ connected' \in BOOLEAN
  <1> USE DEF TypeOK
  <1>1. CASE Leave /\ (Fault \/ UNCHANGED faults)
    BY <1>1, ClosingType DEF WorkerType
  <1>2. CASE WorkerCycle
    <2>1. CASE /\ down # <<>> /\ wpc' = "loop" /\ down' = Tail(down)
               /\ Sending(Packet("PUBACK", None)) \/ UNCHANGED up
               /\ UNCHANGED <<sock, subs, faults, news, slot, svars, avars>>
      <3>1. up' \in Seq(Orders)
        BY <2>1, OrderType, SendingType DEF LinkType
      <3>2. QED
        BY <2>1, <3>1, DownTail DEF LinkType, WorkerType, SharedType, svars, avars
    <2>2. QED
      BY <1>1, <1>2, <2>1, CannotSendIs DEF WorkerCycle
  <1>3. CASE WorkerPing
    <2>1. CASE Sending(Packet("PINGREQ", None)) /\ wpc' = "pong"
               /\ UNCHANGED <<sock, down, subs, faults, news, slot, svars, avars>>
      <3>1. up' \in Seq(Orders)
        BY <2>1, OrderType, SendingType DEF LinkType
      <3>2. QED
        BY <2>1, <3>1 DEF LinkType, WorkerType, SharedType, svars, avars
    <2>2. QED
      BY <1>1, <1>3, <2>1, CannotSendIs DEF WorkerPing
  <1>4. QED
    BY <1>1, <1>2, <1>3 DEF WorkerEnd, WorkerNoPong

LEMMA WorkerType4 ==
  ASSUME TypeOK, WorkerPublish \/ WorkerPublishFails \/ WorkerExit \/ WorkerMisreads
  PROVE  /\ LinkType' /\ WorkerType' /\ UNCHANGED <<calls, crossed>>
         /\ connected' \in BOOLEAN /\ handlers' \in [Slots -> Topics \cup {None}]
         /\ Len(pipe') <= PipeSize
  <1> USE DEF TypeOK
  <1>1. pipe' = <<>> /\ Len(pipe') <= PipeSize
    BY PipeAssumption DEF WorkerPublish, WorkerPublishFails, WorkerExit, WorkerMisreads
  <1>2. CASE WorkerPublish
    <2>1. up' \in Seq(Orders)
      BY <1>2, OrderType, SendingType DEF LinkType, WorkerPublish
    <2>2. QED
      BY <1>1, <1>2, <2>1 DEF WorkerPublish, LinkType, WorkerType, SharedType, wvars, avars
  <1>3. CASE WorkerPublishFails
    BY <1>1, <1>3, CloseType, FaultType, CannotSendIs
       DEF WorkerPublishFails, WorkerType, SharedType, Offline, avars
  <1>4. CASE WorkerExit
    BY <1>1, <1>4, CloseType DEF WorkerExit, LinkType, WorkerType, SharedType, avars
  <1>5. CASE WorkerMisreads
    <2>1. CASE wpc' = "crash" /\ UNCHANGED <<lvars, slot, connected, handlers, sem, avars>>
      BY <1>1, <2>1 DEF LinkType, WorkerType, SharedType, lvars, avars
    <2>2. CASE wpc' = "delay" /\ Close /\ Offline /\ UNCHANGED <<slot, faults, news, handlers, sem, avars>>
      BY <1>1, <2>2, CloseType DEF LinkType, WorkerType, SharedType, Offline, avars
    <2>3. QED
      BY <1>5, <2>1, <2>2 DEF WorkerMisreads
  <1>6. QED
    BY <1>2, <1>3, <1>4, <1>5

LEMMA AppTypes ==
  ASSUME TypeOK, NEW a \in Apps, NewCall(a) \/ OldCall(a)
  PROVE  /\ LinkType' /\ WorkerType' /\ calls' \in 0 .. MaxCalls /\ crossed' \subseteq Topics
         /\ connected' \in BOOLEAN /\ handlers' \in [Slots -> Topics \cup {None}]
         /\ Len(pipe') <= PipeSize
  <1> USE DEF TypeOK
  <1>0. Call(a) => calls' \in 0 .. MaxCalls
    BY PipeAssumption DEF Call, AppType
  <1>1. CASE Publish(a) \/ Stop(a)
    BY <1>0, <1>1 DEF Publish, Stop, LinkType, WorkerType, SharedType, AppType, lvars, wvars, svars
  <1>2. ASSUME NEW t \in Topics, Subscribe(a, t) \/ Unsubscribe(a, t)
        PROVE  /\ LinkType' /\ WorkerType' /\ calls' \in 0 .. MaxCalls /\ crossed' \subseteq Topics
               /\ connected' \in BOOLEAN /\ handlers' \in [Slots -> Topics \cup {None}]
               /\ Len(pipe') <= PipeSize
    <2>1. \/ Sending(Packet("SUBSCRIBE", t)) \/ Sending(Packet("UNSUBSCRIBE", t)) \/ up' = up
      BY <1>2 DEF Subscribe, Unsubscribe, MarksOffline
    <2>2. up' \in Seq(Orders)
      BY <2>1, OrderType, SendingType DEF LinkType
    <2>3. /\ UNCHANGED <<sock, down, subs, news, wvars, handlers, pipe, sem>>
          /\ connected' \in BOOLEAN /\ crossed' \subseteq Topics
          /\ faults' \in 0 .. MaxFaults
      BY <1>2, FaultType, CannotSendIs
         DEF Subscribe, Unsubscribe, MarksOffline, LinkType, SharedType, AppType
    <2>4. QED
      BY <1>0, <1>2, <2>2, <2>3 DEF Subscribe, Unsubscribe, LinkType, WorkerType, SharedType, wvars
  <1>3. CASE Publishing(a)
    BY <1>3 DEF Publishing, LinkType, WorkerType, SharedType, AppType, lvars, wvars, svars
  <1>4. CASE WriteItem(a)
    <2>1. Len(pipe') <= PipeSize
      <3>1. pipe \in Seq({"msg", "stop"}) /\ Len(pipe) <= PipeSize
        BY DEF SharedType
      <3>2. \A item \in {"msg", "stop"} : Len(Append(pipe, item)) = Len(pipe) + 1
        BY <3>1, AppendProperties
      <3>3. \/ pipe' = pipe
            \/ Len(pipe) < PipeSize /\ \E item \in {"msg", "stop"} : pipe' = Append(pipe, item)
        BY <1>4 DEF WriteItem, Write
      <3>4. QED
        BY <3>1, <3>2, <3>3, PipeAssumption, LenProperties
    <2>2. QED
      BY <1>4, <2>1 DEF WriteItem, Write, LinkType, WorkerType, SharedType, AppType, lvars, wvars
  <1>5. CASE Record(a)
    <2>1. (IF app[a].pc = "store" THEN app[a].topic ELSE None) \in Topics \cup {None}
      BY DEF AppType, AppCalls
    <2>2. QED
      BY <1>5, <2>1 DEF Record, LinkType, WorkerType, SharedType, AppType, lvars, wvars
  <1>6. QED
    BY <1>1, <1>2, <1>3, <1>4, <1>5 DEF NewCall, OldCall

LEMMA InitTypes == Init => TypeOK
  <1> SUFFICES ASSUME Init PROVE TypeOK
    OBVIOUS
  <1>1. LinkType
    BY LinkAssumption DEF Init, LinkInit, LinkType
  <1>2. WorkerType
    BY PipeAssumption DEF Init, WorkerType
  <1>0. SharedType
    <2>1. pipe \in Seq({"msg", "stop"}) /\ Len(pipe) <= PipeSize
      BY PipeAssumption DEF Init
    <2>2. QED
      BY <2>1 DEF Init, SharedType
  <1>3. AppType
    BY IdleCall, PipeAssumption DEF Init, AppType
  <1>4. QED
    BY <1>0, <1>1, <1>2, <1>3 DEF TypeOK

LEMMA TypeStep == TypeOK /\ PubInv /\ [Next]_vars => TypeOK'
  <1> SUFFICES ASSUME TypeOK, PubInv, [Next]_vars PROVE TypeOK'
    OBVIOUS
  <1>1. PubType'
    BY StepPub DEF PubInv
  <1>2. SUFFICES /\ LinkType' /\ WorkerType' /\ calls' \in 0 .. MaxCalls /\ crossed' \subseteq Topics
                 /\ connected' \in BOOLEAN /\ handlers' \in [Slots -> Topics \cup {None}]
                 /\ Len(pipe') <= PipeSize
    BY <1>1 DEF PubType, TypeOK, SharedType, AppType
  <1>3. CASE UNCHANGED vars
    BY <1>3 DEF vars, TypeOK, LinkType, WorkerType, SharedType, AppType, lvars, wvars, svars, avars
  <1>4. CASE Broker
    BY <1>4, BrokerType DEF Broker, TypeOK, WorkerType, SharedType, AppType, wvars, svars, avars
  <1>5. CASE Worker
    BY <1>5, WorkerType1, WorkerType2, WorkerType3, WorkerType4
       DEF Worker, TypeOK, SharedType, AppType
  <1>6. CASE \E a \in Apps : NewCall(a) \/ OldCall(a)
    BY <1>6, AppTypes
  <1>7. QED
    BY <1>3, <1>4, <1>5, <1>6 DEF Next

(***************************************************************************)
(* The variables have their types: every packet on the way is one the       *)
(* client or the broker sends, the pipe holds what fits it, and pub_sem is  *)
(* binary.                                                                  *)
(***************************************************************************)
THEOREM TypeCorrect == Spec => []TypeOK
  BY InitTypes, InitPub, StepPub, TypeStep, PTL DEF Spec
-----------------------------------------------------------------------------
(***************************************************************************)
(* Who is subscribed.  The last the broker is told of a topic, in the       *)
(* packets on the way or before them, is to keep it.                        *)
(***************************************************************************)
KeptBy(s, u, t) ==
  \/ t \in s /\ \A k \in 1 .. Len(u) : u[k] # Packet("UNSUBSCRIBE", t)
  \/ \E k \in 1 .. Len(u) :
       /\ u[k] = Packet("SUBSCRIBE", t)
       /\ \A m \in k .. Len(u) : u[m] # Packet("UNSUBSCRIBE", t)

Kept(t) == KeptBy(subs, up, t)

LEMMA PacketParts ==
  \A type, t : Packet(type, t).type = type /\ Packet(type, t).topic = t
  BY DEF Packet

LEMMA KeptOnSubscribe ==
  ASSUME NEW s, NEW u \in Seq(Orders), NEW t \in Topics
  PROVE  KeptBy(s, Append(u, Packet("SUBSCRIBE", t)), t)
  <1> DEFINE w == Append(u, Packet("SUBSCRIBE", t))
  <1>1. Len(w) = Len(u) + 1 /\ w[Len(u) + 1] = Packet("SUBSCRIBE", t) /\ Len(u) \in Nat
    BY OrderType, AppendProperties, LenProperties
  <1>2. Packet("SUBSCRIBE", t) # Packet("UNSUBSCRIBE", t)
    BY DEF Packet
  <1> HIDE DEF w
  <1>3. Len(w) \in 1 .. Len(w) /\ \A m \in Len(w) .. Len(w) : w[m] # Packet("UNSUBSCRIBE", t)
    BY <1>1, <1>2
  <1>4. KeptBy(s, w, t)
    BY <1>1, <1>3 DEF KeptBy
  <1>5. QED
    BY <1>4 DEF w

LEMMA KeptOnOther ==
  ASSUME NEW s, NEW u \in Seq(Orders), NEW t, KeptBy(s, u, t),
         NEW p \in Orders, p # Packet("UNSUBSCRIBE", t)
  PROVE  KeptBy(s, Append(u, p), t)
  <1> DEFINE w == Append(u, p)
  <1>1. /\ Len(w) = Len(u) + 1 /\ w[Len(u) + 1] = p /\ Len(u) \in Nat
        /\ \A k \in 1 .. Len(u) : w[k] = u[k]
    BY AppendProperties, LenProperties
  <1> HIDE DEF w
  <1>2. CASE t \in s /\ \A k \in 1 .. Len(u) : u[k] # Packet("UNSUBSCRIBE", t)
    <2>1. \A k \in 1 .. Len(w) : w[k] # Packet("UNSUBSCRIBE", t)
      BY <1>1, <1>2
    <2>2. KeptBy(s, w, t)
      BY <1>2, <2>1 DEF KeptBy
    <2>3. QED
      BY <2>2 DEF w
  <1>3. ASSUME NEW k \in 1 .. Len(u), u[k] = Packet("SUBSCRIBE", t),
               \A m \in k .. Len(u) : u[m] # Packet("UNSUBSCRIBE", t)
        PROVE  KeptBy(s, w, t)
    <2>1. k \in 1 .. Len(w) /\ w[k] = Packet("SUBSCRIBE", t)
      BY <1>1, <1>3
    <2>2. \A m \in k .. Len(w) : w[m] # Packet("UNSUBSCRIBE", t)
      BY <1>1, <1>3
    <2>3. QED
      BY <2>1, <2>2 DEF KeptBy
  <1>4. QED
    BY <1>2, <1>3 DEF KeptBy, w

\* The broker takes the first packet.
LEMMA KeptByBroker ==
  ASSUME TypeOK, NEW t, Kept(t), BrokerAnswers
  PROVE  Kept(t)'
  <1> DEFINE p == Head(up)
             n == Len(up)
  <1>1. /\ up # <<>> /\ up' = Tail(up) /\ up \in Seq(Orders) /\ p = up[1]
        /\ n \in Nat \ {0} /\ Len(up') = n - 1
        /\ \A k \in 1 .. n - 1 : up'[k] = up[k + 1]
    <2>1. up # <<>> /\ up' = Tail(up) /\ up \in Seq(Orders)
      BY DEF BrokerAnswers, TypeOK, LinkType
    <2>2. Len(up') = n - 1 /\ \A k \in 1 .. n - 1 : up'[k] = up[k + 1]
      BY <2>1, HeadTailProperties
    <2>3. QED
      BY <2>1, <2>2, LenProperties, EmptySeq
  <1>2. /\ p.type = "SUBSCRIBE" => subs' = subs \cup {p.topic}
        /\ p.type = "UNSUBSCRIBE" => subs' = subs \ {p.topic}
        /\ p.type \notin {"SUBSCRIBE", "UNSUBSCRIBE"} => subs' = subs
    BY DEF BrokerAnswers
  <1>3. p.type \in {"SUBSCRIBE", "UNSUBSCRIBE"} => p = Packet(p.type, p.topic)
    <2>1. p \in Orders
      BY <1>1, HeadTailProperties
    <2>2. QED
      BY <2>1 DEF Orders, About, Plain, Packet
  <1> HIDE DEF n, p
  <1>4. CASE t \in subs /\ \A k \in 1 .. n : up[k] # Packet("UNSUBSCRIBE", t)
    <2>1. p # Packet("UNSUBSCRIBE", t)
      BY <1>1, <1>4
    <2>2. t \in subs'
      BY <1>2, <1>3, <1>4, <2>1
    <2>3. \A k \in 1 .. n - 1 : up'[k] # Packet("UNSUBSCRIBE", t)
      BY <1>1, <1>4
    <2>4. QED
      BY <1>1, <2>2, <2>3 DEF Kept, KeptBy
  <1>5. ASSUME NEW k \in 1 .. n, up[k] = Packet("SUBSCRIBE", t),
               \A m \in k .. n : up[m] # Packet("UNSUBSCRIBE", t)
        PROVE  Kept(t)'
    <2>1. CASE k = 1
      <3>1. t \in subs'
        BY <1>1, <1>2, <1>5, <2>1, PacketParts
      <3>2. \A m \in 1 .. n - 1 : up'[m] # Packet("UNSUBSCRIBE", t)
        BY <1>1, <1>5, <2>1
      <3>3. QED
        BY <1>1, <3>1, <3>2 DEF Kept, KeptBy
    <2>2. CASE k > 1
      <3>1. k - 1 \in 1 .. n - 1 /\ up'[k - 1] = Packet("SUBSCRIBE", t)
        BY <1>1, <1>5, <2>2
      <3>2. \A m \in k - 1 .. n - 1 : up'[m] # Packet("UNSUBSCRIBE", t)
        BY <1>1, <1>5, <2>2
      <3>3. QED
        BY <1>1, <3>1, <3>2 DEF Kept, KeptBy
    <2>3. QED
      BY <1>1, <2>1, <2>2
  <1>6. QED
    BY <1>4, <1>5 DEF Kept, KeptBy, n
-----------------------------------------------------------------------------
(***************************************************************************)
(* The invariant.  A handler of the table is on its way to the broker, or   *)
(* there, or the worker has yet to come to it; one that is about to be      *)
(* stored has been sent on this connection, as the delay before the next    *)
(* outlasts a call.                                                         *)
(***************************************************************************)
Places == {"connack", "subscribe", "suback", "loop", "pong"}

Linked == wpc \in Places /\ sock = "open"

\* The worker will subscribe handler i on this connection.
ToCome(i) == wpc = "connack" \/ (wpc \in {"subscribe", "suback"} /\ i >= slot)

Writes(a) == app[a].pc \in {"store", "clear"}

Covered(i) ==
  \/ handlers[i] = None \/ Clearing(i) \/ ToCome(i)
  \/ handlers[i] \in crossed \/ Kept(handlers[i])

Unlinked ==
  /\ wpc \in {"start", "connect", "delay", "exit"} => sock = "none"
  /\ wpc \in {"start", "connect"} => \A a \in Apps : ~Writes(a)

Distinct == \A i, j \in Slots : handlers[i] = handlers[j] /\ handlers[i] # None => i = j

Writers ==
  \A a \in Apps : Writes(a) =>
    a \in Subscribers /\ app[a].slot \in Slots /\ app[a].topic \in Topics

Storing ==
  \A a \in Apps : app[a].pc = "store" =>
    /\ handlers[app[a].slot] = None
    /\ \A i \in Slots : handlers[i] # app[a].topic
    /\ sock = "open" => Kept(app[a].topic)

SubInv ==
  /\ Unlinked /\ Distinct /\ Writers /\ Storing
  /\ Linked => \A i \in Slots : Covered(i)

OneSubscriber == \A a, b \in Subscribers : a = b

LEMMA InitSub == Init => SubInv
  <1> SUFFICES ASSUME Init PROVE SubInv
    OBVIOUS
  <1>1. \A a \in Apps : ~Writes(a) /\ app[a].pc # "store"
    BY DEF Init, Idle, Writes
  <1>2. wpc = "start" /\ sock = "none" /\ \A i \in Slots : handlers[i] = None
    BY DEF Init, LinkInit
  <1>3. QED
    BY <1>1, <1>2 DEF SubInv, Unlinked, Distinct, Writers, Storing, Linked, Places

LEMMA OthersSub ==
  ASSUME SubInv, UNCHANGED <<sock, up, subs, wpc, slot, handlers, app, crossed>>
  PROVE  SubInv'
  BY DEF SubInv, Unlinked, Distinct, Writers, Storing, Linked, Covered, Clearing, ToCome,
         Writes, Kept, KeptBy

\* The connection is closed; the table stays, or goes with the worker.
LEMMA ClosedSub ==
  ASSUME SubInv, sock' = "none", wpc' \in {"delay", "exit"}, UNCHANGED app,
         handlers' = handlers \/ handlers' = [i \in Slots |-> None]
  PROVE  SubInv'
  <1>1. Unlinked' /\ Writers' /\ ~Linked'
    BY DEF SubInv, Unlinked, Writers, Linked, Writes, Places
  <1>2. Distinct'
    BY DEF SubInv, Distinct
  <1>3. Storing'
    <2> SUFFICES ASSUME NEW a \in Apps, app[a].pc = "store"
                 PROVE  handlers'[app[a].slot] = None /\ \A i \in Slots : handlers'[i] # app[a].topic
      BY DEF Storing
    <2>1. app[a].slot \in Slots /\ app[a].topic \in Topics
      BY DEF SubInv, Writers, Writes
    <2>2. QED
      BY <2>1, PipeAssumption DEF SubInv, Storing
  <1>4. QED
    BY <1>1, <1>2, <1>3 DEF SubInv

\* The connection stays, and so does the table; what is kept is kept.
LEMMA LinkedSub ==
  ASSUME SubInv, TypeOK, UNCHANGED <<sock, handlers, app>>,
         \A t \in Topics : Kept(t) => Kept(t)',
         wpc' = wpc \/ (wpc \in Places /\ wpc' \in Places \cup {"crash"}),
         \A i \in Slots : ToCome(i) =>
           ToCome(i)' \/ handlers[i] = None \/ (sock = "open" => Kept(handlers[i])'),
         \A t \in crossed : t \in crossed' \/ (sock = "open" => Kept(t)')
  PROVE  SubInv'
  <1>1. Unlinked' /\ Distinct' /\ Writers'
    BY DEF SubInv, Unlinked, Distinct, Writers, Writes, Places
  <1>2. Storing'
    BY DEF SubInv, Storing, Writers, Writes
  <1>3. ASSUME Linked', NEW i \in Slots PROVE Covered(i)'
    <2>1. Linked
      BY <1>3 DEF Linked, Places
    <2>2. Covered(i)
      BY <2>1 DEF SubInv
    <2>3. handlers[i] \in Topics \cup {None}
      BY DEF TypeOK, SharedType
    <2>4. Clearing(i) => Clearing(i)'
      BY DEF Clearing
    <2>5. sock = "open" /\ handlers' = handlers
      BY <2>1 DEF Linked
    <2>6. QED
      BY <2>2, <2>3, <2>4, <2>5 DEF Covered
  <1>4. QED
    BY <1>1, <1>2, <1>3 DEF SubInv

LEMMA KeptStays ==
  ASSUME TypeOK, UNCHANGED subs, NEW t, Kept(t),
         \/ UNCHANGED up
         \/ \E p \in Orders : p # Packet("UNSUBSCRIBE", t) /\ Sending(p)
  PROVE  Kept(t)'
  <1>1. up' = up \/ \E p \in Orders : p # Packet("UNSUBSCRIBE", t) /\ up' = Append(up, p)
    BY DEF Sending
  <1>2. up \in Seq(Orders)
    BY DEF TypeOK, LinkType
  <1>3. QED
    BY <1>1, <1>2, KeptOnOther DEF Kept

LEMMA SubscribeKept ==
  ASSUME TypeOK, sock = "open", NEW t \in Topics, Sending(Packet("SUBSCRIBE", t))
  PROVE  Kept(t)'
  <1>1. up' = Append(up, Packet("SUBSCRIBE", t)) /\ up \in Seq(Orders)
    BY DEF Sending, TypeOK, LinkType
  <1>2. QED
    BY <1>1, KeptOnSubscribe DEF Kept

-----------------------------------------------------------------------------
LEMMA WorkerSubscribeSub ==
  ASSUME SubInv, TypeOK, WorkerSubscribe
  PROVE  SubInv'
  <1>1. CASE Pending = {} /\ wpc' = "loop" /\ UNCHANGED <<lvars, slot, svars, avars>>
    <2>1. \A i \in Slots : ToCome(i) => handlers[i] = None
      BY <1>1 DEF WorkerSubscribe, ToCome, Pending
    <2>2. UNCHANGED <<sock, handlers, app, subs, up, crossed>> /\ wpc = "subscribe"
      BY <1>1 DEF WorkerSubscribe, lvars, svars, avars
    <2>3. \A t \in Topics : Kept(t) => Kept(t)'
      BY <2>2 DEF Kept
    <2>4. QED
      BY <1>1, <2>1, <2>2, <2>3, LinkedSub DEF Places
  <1>2. ASSUME NEW i \in Pending, \A j \in Pending : i <= j,
               Sending(Packet("SUBSCRIBE", handlers[i])),
               wpc = "subscribe", wpc' = "suback", slot' = i + 1,
               crossed' = crossed \ {handlers[i]},
               UNCHANGED <<sock, down, subs, faults, news, svars, app, calls>>
        PROVE  SubInv'
    <2>1. i \in Slots /\ handlers[i] \in Topics /\ i >= slot
      BY <1>2 DEF Pending, TypeOK, SharedType
    <2>2. sock = "open" => Kept(handlers[i])'
      BY <1>2, <2>1, SubscribeKept DEF svars
    <2>3. \A t \in Topics : Packet("SUBSCRIBE", handlers[i]) # Packet("UNSUBSCRIBE", t)
      BY PacketParts
    <2>4. \A t \in Topics : Kept(t) => Kept(t)'
      BY <1>2, <2>1, <2>3, OrderType, KeptStays
    <2>5. ASSUME NEW j \in Slots, ToCome(j)
          PROVE  ToCome(j)' \/ handlers[j] = None \/ j = i
      <3>1. j >= slot
        BY <1>2, <2>5 DEF ToCome
      <3>2. CASE j > i
        BY <1>2, <2>1, <3>2, PipeAssumption DEF ToCome, Slots
      <3>3. CASE j < i
        BY <1>2, <2>1, <3>1, <3>3, PipeAssumption DEF Pending, Slots
      <3>4. QED
        BY <2>1, <3>2, <3>3, PipeAssumption DEF Slots
    <2>6. \A t \in crossed : t \in crossed' \/ t = handlers[i]
      BY <1>2
    <2>7. UNCHANGED <<sock, handlers, app>>
      BY <1>2 DEF svars
    <2>8. QED
      BY <1>2, <2>2, <2>4, <2>5, <2>6, <2>7, LinkedSub DEF Places
  <1>3. CASE Leave
    BY <1>3, ClosedSub DEF Leave, Close, avars
  <1>4. QED
    BY <1>1, <1>2, <1>3 DEF WorkerSubscribe

\* What the worker sends besides.
LEMMA SendsSub ==
  ASSUME SubInv, TypeOK, UNCHANGED <<sock, subs, handlers, app, crossed>>,
         UNCHANGED up \/ \E type \in {"PUBLISH", "PUBACK", "PINGREQ"} : Sending(Packet(type, None)),
         wpc \in Places, wpc' \in Places \cup {"crash"},
         \A i \in Slots : ToCome(i) => ToCome(i)'
  PROVE  SubInv'
  <1>1. \A t \in Topics, type \in {"PUBLISH", "PUBACK", "PINGREQ"} :
          Packet(type, None) # Packet("UNSUBSCRIBE", t)
    BY PacketParts
  <1>2. \A t \in Topics : Kept(t) => Kept(t)'
    BY <1>1, OrderType, KeptStays
  <1>3. QED
    BY <1>2, LinkedSub

LEMMA WorkerSub ==
  ASSUME SubInv, TypeOK, Worker
  PROVE  SubInv'
  <1>1. CASE WorkerStart \/ WorkerDelay
    <2>1. /\ wpc \in {"start", "delay"} /\ wpc' \in {"connect", "exit"}
          /\ wpc' = "connect" => \A a \in Apps : ~Writes(a)
          /\ UNCHANGED <<sock, handlers, app>>
      BY <1>1 DEF WorkerStart, WorkerDelay, SubInv, Unlinked, Writes, lvars, svars, avars
    <2>2. sock = "none"
      BY <2>1 DEF SubInv, Unlinked
    <2>3. QED
      BY <2>1, <2>2 DEF SubInv, Unlinked, Distinct, Writers, Storing, Writes, Linked, Places
  <1>2. CASE WorkerConnect
    <2>1. CASE wpc' = "connack" /\ sock' = "open" /\ UNCHANGED <<handlers, app>>
      <3>1. \A a \in Apps : ~Writes(a)
        BY <1>2 DEF WorkerConnect, SubInv, Unlinked
      <3>2. \A i \in Slots : ToCome(i)'
        BY <2>1 DEF ToCome
      <3>3. QED
        BY <2>1, <3>1, <3>2 DEF SubInv, Unlinked, Distinct, Writers, Storing, Writes, Covered
    <2>2. CASE Restart
      BY <2>2, ClosedSub DEF Restart, Close, svars, avars
    <2>3. QED
      BY <1>2, <2>1, <2>2 DEF WorkerConnect, Open, svars, avars
  <1>3. CASE WorkerConnack
    <2>1. CASE wpc' = "subscribe" /\ slot' = 1 /\ UNCHANGED <<sock, up, subs, handlers, avars>>
      <3>1. \A i \in Slots : ToCome(i)'
        BY <2>1 DEF ToCome, Slots
      <3>2. QED
        BY <1>3, <2>1, <3>1, SendsSub DEF WorkerConnack, Places, avars
    <2>2. CASE Restart
      BY <2>2, ClosedSub DEF Restart, Close, svars, avars
    <2>3. QED
      BY <1>3, <2>1, <2>2 DEF WorkerConnack
  <1>4. CASE WorkerSubscribe
    BY <1>4, WorkerSubscribeSub
  <1>5. CASE Leave
    BY <1>5, ClosedSub DEF Leave, Close, avars
  <1>6. CASE WorkerSuback
    <2>1. CASE wpc' = "subscribe" /\ UNCHANGED <<sock, up, subs, slot, svars, avars>>
      <3>1. \A i \in Slots : ToCome(i) => ToCome(i)'
        BY <1>6, <2>1 DEF WorkerSuback, ToCome
      <3>2. QED
        BY <1>6, <2>1, <3>1, SendsSub DEF WorkerSuback, Places, svars, avars
    <2>2. QED
      BY <1>5, <1>6, <2>1 DEF WorkerSuback
  <1>7. CASE WorkerCycle \/ WorkerPing \/ WorkerPublish
    <2>1. CASE /\ wpc \in {"loop", "pong"} /\ wpc' \in {"loop", "pong"}
               /\ UNCHANGED <<sock, subs, handlers, app, crossed>>
               /\ UNCHANGED up \/ \E type \in {"PUBLISH", "PUBACK", "PINGREQ"} : Sending(Packet(type, None))
      <3>1. \A i \in Slots : ~ToCome(i)
        BY <2>1 DEF ToCome
      <3>2. QED
        BY <2>1, <3>1, SendsSub DEF Places
    <2>2. QED
      BY <1>5, <1>7, <2>1 DEF WorkerCycle, WorkerPing, WorkerPublish, PipeReady, Online,
                              wvars, svars, avars
  <1>8. CASE WorkerEnd \/ WorkerNoPong
    BY <1>5, <1>8 DEF WorkerEnd, WorkerNoPong
  <1>9. CASE WorkerPublishFails \/ WorkerExit
    BY <1>9, ClosedSub DEF WorkerPublishFails, WorkerExit, Close, avars
  <1>10. CASE WorkerMisreads
    <2>1. CASE wpc' = "crash" /\ UNCHANGED <<lvars, slot, connected, handlers, sem, avars>>
      <3>1. wpc = "loop" /\ \A i \in Slots : ~ToCome(i)
        BY <1>10 DEF WorkerMisreads, PipeReady, ToCome
      <3>2. QED
        BY <2>1, <3>1, SendsSub DEF Places, lvars, avars
    <2>2. QED
      BY <1>10, <2>1, ClosedSub DEF WorkerMisreads, Close, avars
  <1>11. QED
    BY <1>1, <1>2, <1>3, <1>4, <1>6, <1>7, <1>8, <1>9, <1>10 DEF Worker

LEMMA BrokerSub ==
  ASSUME SubInv, TypeOK, Broker
  PROVE  SubInv'
  <1>1. UNCHANGED <<wpc, slot, handlers, app, crossed>>
    BY DEF Broker, wvars, svars, avars
  <1>2. CASE BrokerAnswers
    <2>1. \A t \in Topics : Kept(t) => Kept(t)'
      BY <1>2, KeptByBroker
    <2>2. UNCHANGED sock /\ \A i \in Slots : ToCome(i) => ToCome(i)'
      BY <1>1, <1>2 DEF BrokerAnswers, ToCome
    <2>3. QED
      BY <1>1, <2>1, <2>2, LinkedSub
  <1>3. CASE BrokerPublishes
    BY <1>1, <1>3, OthersSub DEF BrokerPublishes
  <1>4. CASE Break
    <2>1. sock = "open" /\ sock' = "broken"
      BY <1>4 DEF Break
    <2>2. QED
      BY <1>1, <2>1 DEF SubInv, Unlinked, Distinct, Writers, Storing, Linked, Writes
  <1>5. QED
    BY <1>2, <1>3, <1>4 DEF Broker

-----------------------------------------------------------------------------
\* A call that does not write the table.
LEMMA CallSub ==
  ASSUME SubInv, TypeOK, UNCHANGED <<sock, up, subs, wpc, slot, handlers, crossed>>,
         NEW a \in Apps, ~Writes(a), NEW pc, pc \notin {"store", "clear"},
         NEW t, NEW i, GoOn(a, pc, t, i)
  PROVE  SubInv'
  <1>1. ASSUME NEW b \in Apps
        PROVE  /\ Writes(b)' <=> Writes(b)
               /\ app'[b].pc = "store" <=> app[b].pc = "store"
               /\ app'[b].pc = "clear" <=> app[b].pc = "clear"
               /\ Writes(b) => app'[b] = app[b]
    BY DEF GoOn, Writes, TypeOK, AppType
  <1>2. \A j \in Slots : Clearing(j) => Clearing(j)'
    BY <1>1 DEF Clearing, Writes
  <1>3. Unlinked' /\ Distinct' /\ Writers'
    BY <1>1 DEF SubInv, Unlinked, Distinct, Writers
  <1>4. Storing'
    BY <1>1 DEF SubInv, Storing, Writes, Kept
  <1>5. Linked' => \A j \in Slots : Covered(j)'
    BY <1>2 DEF SubInv, Linked, Covered, ToCome, Kept
  <1>6. QED
    BY <1>3, <1>4, <1>5 DEF SubInv

\* One application subscribes, so that a call of it finds no other in its way.
LEMMA NoWriters ==
  ASSUME OneSubscriber, SubInv, NEW a \in Subscribers, ~Writes(a)
  PROVE  \A b \in Apps : ~Writes(b)
  BY DEF OneSubscriber, SubInv, Writers

LEMMA SubscribeSub ==
  ASSUME OneSubscriber, SubInv, TypeOK, NEW a \in Apps, NEW t \in Topics, Subscribe(a, t)
  PROVE  SubInv'
  <1>1. /\ a \in Subscribers /\ app[a] = Idle /\ ~Writes(a)
        /\ \A j \in Slots : handlers[j] # t
        /\ UNCHANGED <<sock, subs, wpc, slot, handlers>>
    <2>1. a \in Subscribers /\ app[a] = Idle /\ UNCHANGED <<sock, subs, wpc, slot, handlers>>
      BY DEF Subscribe, Call, wvars
    <2>2. ~Writes(a)
      BY <2>1 DEF Writes, Idle
    <2>3. \A j \in Slots : handlers[j] # t
      BY DEF Subscribe, Matches
    <2>4. QED
      BY <2>1, <2>2, <2>3
  <1>2. \A b \in Apps : ~Writes(b)
    BY <1>1, NoWriters
  <1>3. ASSUME NEW i \in Slots, handlers[i] = None, CanSend, Sending(Packet("SUBSCRIBE", t)),
               GoOn(a, "store", t, i), crossed' = crossed \ {t}
        PROVE  SubInv'
    <2>1. sock # "none" /\ wpc \notin {"start", "connect"}
      BY <1>3 DEF CanSend, SubInv, Unlinked
    <2>2. /\ app'[a].pc = "store" /\ app'[a].topic = t /\ app'[a].slot = i
          /\ \A b \in Apps : b # a => app'[b] = app[b]
      BY <1>3 DEF GoOn, TypeOK, AppType
    <2>3. Unlinked' /\ Distinct'
      BY <1>1, <2>1 DEF SubInv, Unlinked, Distinct
    <2>4. Writers'
      BY <1>1, <1>2, <2>2 DEF Writers, Writes
    <2>5. Storing'
      <3>1. sock = "open" => Kept(t)'
        BY <1>3, SubscribeKept
      <3>2. QED
        BY <1>1, <1>2, <1>3, <2>2, <3>1 DEF Storing, Writes
    <2>6. \A s \in Topics : Kept(s) => Kept(s)'
      <3>1. \A s \in Topics : Packet("SUBSCRIBE", t) # Packet("UNSUBSCRIBE", s)
        BY PacketParts
      <3>2. QED
        BY <1>1, <1>3, <3>1, OrderType, KeptStays
    <2>7. ASSUME Linked', NEW j \in Slots PROVE Covered(j)'
      <3>1. Covered(j)
        BY <1>1, <2>7 DEF SubInv, Linked
      <3>2. ~Clearing(j)
        BY <1>2 DEF Clearing, Writes
      <3>3. handlers[j] \in Topics \cup {None} /\ handlers[j] # t
        BY <1>1 DEF TypeOK, SharedType
      <3>4. ToCome(j) => ToCome(j)'
        BY <1>1 DEF ToCome
      <3>5. QED
        BY <1>1, <1>3, <2>6, <3>1, <3>2, <3>3, <3>4 DEF Covered
    <2>8. QED
      BY <2>3, <2>4, <2>5, <2>7 DEF SubInv
  <1>4. CASE UNCHANGED <<up, app, crossed>>
    BY <1>1, <1>4, OthersSub
  <1>5. QED
    BY <1>3, <1>4 DEF Subscribe, MarksOffline

LEMMA UnsubscribeSub ==
  ASSUME OneSubscriber, SubInv, TypeOK, NEW a \in Apps, NEW t \in Topics, Unsubscribe(a, t)
  PROVE  SubInv'
  <1>1. /\ a \in Subscribers /\ app[a] = Idle /\ ~Writes(a)
        /\ UNCHANGED <<sock, subs, wpc, slot, handlers>>
    BY DEF Unsubscribe, Call, Writes, Idle, wvars
  <1>2. \A b \in Apps : ~Writes(b)
    BY <1>1, NoWriters
  <1>3. ASSUME NEW i \in Slots, CanSend, Sending(Packet("UNSUBSCRIBE", t)),
               GoOn(a, "clear", t, i),
               crossed' = IF handlers[i] = t THEN crossed ELSE crossed \cup {t}
        PROVE  SubInv'
    <2>1. sock # "none" /\ wpc \notin {"start", "connect"}
      BY <1>3 DEF CanSend, SubInv, Unlinked
    <2>2. /\ app'[a].pc = "clear" /\ app'[a].topic = t /\ app'[a].slot = i
          /\ \A b \in Apps : b # a => app'[b] = app[b]
      BY <1>3 DEF GoOn, TypeOK, AppType
    <2>3. Unlinked' /\ Distinct'
      BY <1>1, <2>1 DEF SubInv, Unlinked, Distinct
    <2>4. Writers' /\ Storing'
      BY <1>1, <1>2, <2>2 DEF Writers, Storing, Writes
    <2>5. ASSUME Linked', NEW j \in Slots PROVE Covered(j)'
      <3>1. Covered(j) /\ ~Clearing(j)
        BY <1>1, <1>2, <2>5 DEF SubInv, Linked, Clearing, Writes
      <3>2. CASE j = i
        BY <2>2, <3>2 DEF Covered, Clearing
      <3>3. CASE handlers[j] = t /\ j # i
        BY <1>1, <1>3, <3>3, PipeAssumption DEF Covered, SubInv, Distinct
      <3>4. CASE handlers[j] # t
        <4>1. Kept(handlers[j]) => Kept(handlers[j])'
          <5>1. Packet("UNSUBSCRIBE", t) # Packet("UNSUBSCRIBE", handlers[j])
            BY <3>4, PacketParts
          <5>2. Kept(handlers[j]) => KeptBy(subs', up', handlers[j])
            BY <1>1, <1>3, <5>1, OrderType, KeptStays DEF Kept
          <5>3. QED
            BY <1>1, <5>2 DEF Kept
        <4>2. ToCome(j) => ToCome(j)'
          BY <1>1 DEF ToCome
        <4>3. QED
          BY <1>1, <1>3, <3>1, <4>1, <4>2 DEF Covered
      <3>5. QED
        BY <3>2, <3>3, <3>4
    <2>6. QED
      BY <2>3, <2>4, <2>5 DEF SubInv
  <1>4. CASE UNCHANGED <<up, app, crossed>>
    BY <1>1, <1>4, OthersSub
  <1>5. QED
    BY <1>3, <1>4 DEF Unsubscribe, MarksOffline

LEMMA RecordSub ==
  ASSUME OneSubscriber, SubInv, TypeOK, NEW a \in Apps, Record(a)
  PROVE  SubInv'
  <1> DEFINE i == app[a].slot
             h == IF app[a].pc = "store" THEN app[a].topic ELSE None
  <1>1. /\ Writes(a) /\ handlers' = [handlers EXCEPT ![i] = h]
        /\ UNCHANGED <<sock, up, subs, wpc, slot, crossed>>
        /\ app' = [app EXCEPT ![a] = Idle]
    BY DEF Record, Writes, Return, lvars, wvars
  <1>2. a \in Subscribers /\ i \in Slots /\ app[a].topic \in Topics
    BY <1>1 DEF SubInv, Writers
  <1>3. \A b \in Apps : b # a => ~Writes(b)
    BY <1>2 DEF OneSubscriber, SubInv, Writers
  <1>4. \A b \in Apps : ~Writes(b)' /\ app'[b].pc # "store"
    BY <1>1, <1>3 DEF Writes, Idle, TypeOK, AppType
  <1>5. app[a].pc = "store" => Kept(h) \/ sock # "open"
    BY DEF SubInv, Storing
  <1>6. handlers'[i] = h /\ \A j \in Slots : j # i => handlers'[j] = handlers[j]
    BY <1>1, <1>2 DEF TypeOK, SharedType
  <1>7. app[a].pc = "store" => \A j \in Slots : handlers[j] # app[a].topic
    BY DEF SubInv, Storing
  <1> HIDE DEF i
  <1>8. Unlinked' /\ Writers' /\ Storing'
    BY <1>1, <1>4 DEF SubInv, Unlinked, Writers, Storing
  <1>9. Distinct'
    BY <1>6, <1>7 DEF SubInv, Distinct
  <1>10. ASSUME Linked', NEW j \in Slots PROVE Covered(j)'
    <2>1. Linked /\ Covered(j)
      BY <1>1, <1>10 DEF SubInv, Linked
    <2>2. CASE j = i
      <3>1. CASE app[a].pc = "store"
        BY <1>5, <1>1, <1>6, <2>1, <2>2, <3>1 DEF Covered, Linked, Kept
      <3>2. QED
        BY <1>6, <2>2, <3>1 DEF Covered
    <2>3. CASE j # i
      <3>1. ~Clearing(j)
        BY <1>3, <2>3 DEF Clearing, Writes, i
      <3>2. Kept(handlers[j]) => KeptBy(subs', up', handlers[j])
        BY <1>1 DEF Kept
      <3>3. ToCome(j) => ToCome(j)'
        BY <1>1 DEF ToCome
      <3>4. QED
        BY <1>1, <1>6, <2>1, <2>3, <3>1, <3>2, <3>3 DEF Covered, Kept
    <2>4. QED
      BY <2>2, <2>3
  <1>11. QED
    BY <1>8, <1>9, <1>10 DEF SubInv

LEMMA AppSub ==
  ASSUME OneSubscriber, SubInv, TypeOK, NEW a \in Apps, NewCall(a) \/ OldCall(a)
  PROVE  SubInv'
  <1>1. CASE Publish(a) \/ Stop(a) \/ Publishing(a) \/ WriteItem(a)
    <2>1. UNCHANGED <<sock, up, subs, wpc, slot, handlers, crossed>>
      BY <1>1 DEF Publish, Stop, Publishing, WriteItem, Write, lvars, wvars, svars
    <2>2. ~Writes(a)
      <3>1. app[a] = Idle \/ app[a].pc \in {"publish", "write msg", "write stop"}
        BY <1>1 DEF Publish, Stop, Publishing, WriteItem, Write, Call
      <3>2. CASE app[a] = Idle
        BY <3>2 DEF Writes, Idle
      <3>3. CASE app[a].pc \in {"publish", "write msg", "write stop"}
        BY <3>3 DEF Writes
      <3>4. QED
        BY <3>1, <3>2, <3>3
    <2>3. \/ app' = app
          \/ \E pc \in {"idle", "publish", "write msg", "write stop"} : \E t, i : GoOn(a, pc, t, i)
      BY <1>1 DEF Publish, Stop, Publishing, WriteItem, Write, Return, GoOn, Idle
    <2>4. QED
      <3>1. CASE app' = app
        BY <2>1, <3>1, OthersSub
      <3>2. ASSUME NEW pc \in {"idle", "publish", "write msg", "write stop"}, NEW t, NEW i,
                   GoOn(a, pc, t, i)
            PROVE  SubInv'
        <4>1. pc \notin {"store", "clear"}
          OBVIOUS
        <4>2. QED
          BY <2>1, <2>2, <3>2, <4>1, CallSub
      <3>3. QED
        BY <2>3, <3>1, <3>2
  <1>2. ASSUME NEW t \in Topics, Subscribe(a, t) \/ Unsubscribe(a, t) PROVE SubInv'
    BY <1>2, SubscribeSub, UnsubscribeSub
  <1>3. CASE Record(a)
    BY <1>3, RecordSub
  <1>4. QED
    BY <1>1, <1>2, <1>3 DEF NewCall, OldCall

LEMMA StepSub ==
  ASSUME OneSubscriber, SubInv, TypeOK, [Next]_vars
  PROVE  SubInv'
  <1>1. CASE UNCHANGED vars
    BY <1>1, OthersSub DEF vars, lvars, wvars, svars, avars
  <1>2. QED
    BY <1>1, WorkerSub, BrokerSub, AppSub DEF Next

\* The invariant and what is on the way.
LEMMA SubInvOnline == TypeOK /\ SubInv => OnlineSubscribed
  <1> SUFFICES ASSUME TypeOK, SubInv, Online, sock = "open", NEW i \in Slots
               PROVE  \/ handlers[i] = None \/ Clearing(i) \/ handlers[i] \in crossed
                      \/ handlers[i] \in subs
                      \/ \E k \in DOMAIN up : up[k] = Packet("SUBSCRIBE", handlers[i])
    BY DEF OnlineSubscribed
  <1>1. Covered(i) /\ ~ToCome(i)
    BY DEF SubInv, Linked, Places, Online, ToCome
  <1>2. DOMAIN up = 1 .. Len(up)
    BY LenProperties DEF TypeOK, LinkType
  <1>3. QED
    BY <1>1, <1>2 DEF Covered, Kept, KeptBy

(***************************************************************************)
(* While one application subscribes and unsubscribes, every handler of the  *)
(* table is subscribed on the new connection once the worker is online, or  *)
(* its SUBSCRIBE is on the way, whatever else the applications call and     *)
(* wherever the connection breaks; topics that were crossed excepted.       *)
(***************************************************************************)
THEOREM SubscribedAlways == OneSubscriber => (Spec => []OnlineSubscribed)
  <1> SUFFICES ASSUME OneSubscriber PROVE Spec => []OnlineSubscribed
    OBVIOUS
  <1>1. SubInv /\ TypeOK /\ [Next]_vars => SubInv'
    BY StepSub
  <1>2. QED
    BY <1>1, InitSub, SubInvOnline, TypeCorrect, PTL DEF Spec
=============================================================================
