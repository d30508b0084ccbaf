------------------------------ MODULE MqttPipe ------------------------------
(***************************************************************************)
(* The MQTT client of the Paho package in pipe mode, paho_mqtt_pipe.c: the  *)
(* worker thread, and the application threads that call its interface.  They *)
(* share the client object without a lock; a pipe carries what is published, *)
(* and the command that stops the worker, to the worker.                    *)
(*                                                                         *)
(* A step of the worker is what it does from one select to the next; a step *)
(* of an application is what it does up to the next point where a switch of *)
(* threads changes what follows.                                            *)
(***************************************************************************)
EXTENDS MqttLink, FiniteSets

CONSTANTS Apps,         \* application threads
          Subscribers,  \* those of them that subscribe and unsubscribe
          MaxHandlers,  \* MAX_MESSAGE_HANDLERS
          Longer,       \* <<u, t>>: the name of u is t's and more
          Blocking,     \* isblocking, MQTT_CTRL_PUBLISH_BLOCK
          PipeSize,     \* items the pipe holds
          MaxCalls      \* bound on the calls of the applications

ASSUME PipeAssumption ==
  /\ Subscribers \subseteq Apps
  /\ Longer \subseteq Topics \X Topics
  /\ MaxHandlers \in Nat
  /\ Blocking \in BOOLEAN
  /\ PipeSize \in Nat
  /\ MaxCalls \in Nat
  /\ None \notin Topics

Slots == 1 .. MaxHandlers

VARIABLES wpc,        \* the select, or the delay, the worker waits in
          slot,       \* i, the handler the worker subscribes next
          connected,  \* isconnected
          handlers,   \* messageHandlers[].topicFilter
          pipe,       \* the unread items, "msg" or "stop"
          sem,        \* the value of pub_sem
          app,        \* per application: the call it is in
          calls

\* History: the topics whose handlers stand although the broker was told to
\* forget them, when a handler with a longer name was taken for theirs.
VARIABLE crossed

wvars == <<wpc, slot>>
svars == <<connected, handlers, pipe, sem>>
avars == <<app, calls, crossed>>
vars == <<lvars, wvars, svars, avars>>

Idle == [pc |-> "idle", topic |-> None, slot |-> 0]

Init ==
  /\ LinkInit
  /\ wpc = "start" /\ slot = 1
  /\ connected = FALSE /\ handlers = [i \in Slots |-> None]
  /\ pipe = <<>> /\ sem = 1
  /\ app = [a \in Apps |-> Idle] /\ calls = 0 /\ crossed = {}

-----------------------------------------------------------------------------
(***************************************************************************)
(* The worker, paho_mqtt_thread.  Leave is _mqtt_disconnect down to the     *)
(* delay before _mqtt_start; Restart enters at _mqtt_restart, and leaves    *)
(* isconnected as it is.                                                    *)
(***************************************************************************)
\* Mutant of Offline: MQTTDisconnect forgets the flag.
StaysOnline == UNCHANGED connected

Offline == connected' = FALSE

Restart == /\ wpc' = "delay" /\ Close
           /\ UNCHANGED <<slot, news, svars, avars>>

Leave == /\ wpc' = "delay" /\ Close /\ Offline
         /\ UNCHANGED <<slot, news, handlers, pipe, sem, avars>>

WorkerStart ==
  /\ wpc = "start"
  /\ \/ wpc' = "connect" /\ UNCHANGED faults
     \/ wpc' = "exit" /\ Fault
  /\ UNCHANGED <<sock, up, down, subs, news, slot, svars, avars>>

\* net_connect, and the first half of MQTTConnect.
WorkerConnect ==
  /\ wpc = "connect"
  /\ \/ /\ ~connected /\ wpc' = "connack" /\ Open(Packet("CONNECT", None))
        /\ UNCHANGED <<faults, news, slot, svars, avars>>
     \/ Restart /\ IF connected THEN UNCHANGED faults ELSE Fault

\* The worker waits for an answer, and it comes, breaks off or comes too late.
Receives(p) == down # <<>> /\ p = Head(down)
GetsNothing == down = <<>> /\ (Fault \/ (sock = "broken" /\ UNCHANGED faults))

WorkerConnack ==
  /\ wpc = "connack"
  /\ \/ /\ Receives(Packet("CONNACK", None))
        /\ wpc' = "subscribe" /\ slot' = 1
        /\ connected' = TRUE /\ down' = Tail(down)
        /\ UNCHANGED <<sock, up, subs, faults, news, handlers, pipe, sem, avars>>
     \/ Receives(Packet("REFUSED", None)) /\ Restart /\ UNCHANGED faults
     \/ GetsNothing /\ Restart

\* Mutant of Pending: the first handler is skipped.
PendingButOne == {i \in Slots : i > slot /\ handlers[i] # None}

\* The handlers the loop over messageHandlers has not subscribed yet.
Pending == {i \in Slots : i >= slot /\ handlers[i] # None}

\* The loop's next MQTTSubscribe, or its end.
WorkerSubscribe ==
  /\ wpc = "subscribe"
  /\ \/ /\ Pending = {} /\ wpc' = "loop"
        /\ UNCHANGED <<lvars, slot, svars, avars>>
     \/ \E i \in Pending :
          /\ \A j \in Pending : i <= j
          /\ \/ /\ connected /\ CanSend
                /\ Sending(Packet("SUBSCRIBE", handlers[i]))
                /\ wpc' = "suback" /\ slot' = i + 1
                /\ crossed' = crossed \ {handlers[i]}
                /\ UNCHANGED <<sock, down, subs, faults, news, svars, app, calls>>
             \/ ~connected /\ Leave /\ UNCHANGED faults
             \/ CannotSend /\ Leave

WorkerSuback ==
  /\ wpc = "suback"
  /\ \/ /\ Receives(Packet("SUBACK", None))
        /\ wpc' = "subscribe" /\ down' = Tail(down)
        /\ UNCHANGED <<sock, up, subs, faults, news, slot, svars, avars>>
     \/ /\ down # <<>> /\ Head(down).type # "SUBACK"
        /\ Leave /\ UNCHANGED faults
     \/ GetsNothing /\ Leave

Online == wpc \in {"loop", "pong"}

\* The socket is ready: MQTT_cycle.
WorkerCycle ==
  /\ Online /\ down # <<>>
  /\ LET p == Head(down) IN
     \/ /\ p.type = "PUBLISH" => CanSend
        /\ wpc' = "loop" /\ down' = Tail(down)
        /\ IF p.type = "PUBLISH" THEN Sending(Packet("PUBACK", None))
                                 ELSE UNCHANGED up
        /\ UNCHANGED <<sock, subs, faults, news, slot, svars, avars>>
     \/ p.type = "PUBLISH" /\ CannotSend /\ Leave

\* Mutant of SeesEnd: a read of 0 bytes is not an error.
NeverSeesEnd == FALSE

\* The socket is ready with the end of the connection.
SeesEnd == sock = "broken"

WorkerEnd == /\ Online /\ down = <<>> /\ SeesEnd
             /\ Leave /\ UNCHANGED faults

\* select has timed out: PINGREQ, and 5 s for any packet in return.
WorkerPing ==
  /\ wpc = "loop" /\ sock = "open" /\ down = <<>> /\ pipe = <<>>
  /\ \/ /\ wpc' = "pong" /\ Sending(Packet("PINGREQ", None))
        /\ UNCHANGED <<sock, down, subs, faults, news, slot, svars, avars>>
     \/ CannotSend /\ Leave

WorkerNoPong == wpc = "pong" /\ down = <<>> /\ Fault /\ Leave

(***************************************************************************)
(* The pipe is ready and the socket is not.  One read takes all that is in  *)
(* the pipe.  What follows the first message of it is lost; a "DISCONNECT"  *)
(* with anything after it is at least as long as a MQTTMessage and taken    *)
(* for one, with a payload length out of the bytes behind the command.      *)
(***************************************************************************)
PipeReady == wpc = "loop" /\ down = <<>> /\ sock = "open" /\ pipe # <<>>

WorkerPublish ==
  /\ PipeReady /\ Head(pipe) = "msg" /\ pipe' = <<>>
  /\ Sending(Packet("PUBLISH", None))
  /\ sem' = IF Blocking THEN sem + 1 ELSE sem
  /\ UNCHANGED <<sock, down, subs, faults, news, wvars, connected, handlers, avars>>

\* sendPacket fails, or the connection has broken since the select.
WorkerPublishFails ==
  /\ PipeReady /\ Head(pipe) = "msg" /\ pipe' = <<>>
  /\ CannotSend /\ wpc' = "delay" /\ Close /\ Offline
  /\ UNCHANGED <<slot, news, handlers, sem, avars>>

WorkerExit ==
  /\ PipeReady /\ pipe = <<"stop">> /\ pipe' = <<>>
  /\ wpc' = "exit" /\ Close
  /\ connected' = FALSE /\ handlers' = [i \in Slots |-> None]
  /\ UNCHANGED <<slot, faults, news, sem, avars>>

WorkerMisreads ==
  /\ PipeReady /\ Head(pipe) = "stop" /\ Len(pipe) > 1 /\ pipe' = <<>>
  /\ \/ /\ wpc' = "crash"
        /\ UNCHANGED <<lvars, slot, connected, handlers, sem, avars>>
     \/ /\ wpc' = "delay" /\ Close /\ Offline
        /\ UNCHANGED <<slot, faults, news, handlers, sem, avars>>

\* The delay of reconnect_interval, 5 s by default, outlasts a call.
WorkerDelay ==
  /\ wpc = "delay" /\ wpc' = "connect"
  /\ \A a \in Apps : app[a].pc \notin {"store", "clear"}
  /\ UNCHANGED <<lvars, slot, svars, avars>>

Worker ==
  \/ WorkerStart \/ WorkerConnect \/ WorkerConnack
  \/ WorkerSubscribe \/ WorkerSuback
  \/ WorkerCycle \/ WorkerEnd \/ WorkerPing \/ WorkerNoPong
  \/ WorkerPublish \/ WorkerPublishFails \/ WorkerExit \/ WorkerMisreads
  \/ WorkerDelay

-----------------------------------------------------------------------------
(***************************************************************************)
(* The applications.  Nobody calls a client whose worker has ended.         *)
(***************************************************************************)
Running == wpc \notin {"exit", "crash"}

Call(a) == /\ Running /\ app[a] = Idle
           /\ calls < MaxCalls /\ calls' = calls + 1

GoOn(a, pc, t, i) ==
  app' = [app EXCEPT ![a] = [pc |-> pc, topic |-> t, slot |-> i]]

Return(a) == app' = [app EXCEPT ![a] = Idle]

\* Mutant of Take: the semaphore is not taken.
NoTake == UNCHANGED sem

Take == /\ Blocking => sem > 0
        /\ sem' = IF Blocking THEN sem - 1 ELSE sem

\* paho_mqtt_publish takes the semaphore, or waits 5 s for it in vain.
Publish(a) ==
  /\ Call(a)
  /\ \/ Take /\ GoOn(a, "publish", None, 0)
     \/ Blocking /\ sem = 0 /\ UNCHANGED <<sem, app>>
  /\ UNCHANGED <<lvars, wvars, connected, handlers, pipe, crossed>>

\* MQTTPublish and MQTT_CMD look at isconnected ...
Stop(a) ==
  /\ Call(a)
  /\ IF connected THEN GoOn(a, "write stop", None, 0) ELSE UNCHANGED app
  /\ UNCHANGED <<lvars, wvars, svars, crossed>>

Publishing(a) ==
  /\ app[a].pc = "publish" /\ wpc # "crash"
  /\ IF connected THEN GoOn(a, "write msg", None, 0) ELSE Return(a)
  /\ UNCHANGED <<lvars, wvars, svars, calls, crossed>>

\* ... and write to the pipe, which blocks while it is full.
Write(a, pc, item) ==
  /\ app[a].pc = pc /\ Return(a)
  /\ \/ Running /\ Len(pipe) < PipeSize /\ pipe' = Append(pipe, item)
     \/ wpc = "exit" /\ UNCHANGED pipe
  /\ UNCHANGED <<lvars, wvars, connected, handlers, sem, calls, crossed>>

WriteItem(a) == Write(a, "write msg", "msg") \/ Write(a, "write stop", "stop")

\* rt_strncmp over the length of t: handler i is for t, or for a longer name.
Matches(i, t) == handlers[i] = t \/ <<handlers[i], t>> \in Longer

(***************************************************************************)
(* paho_mqtt_subscribe for a topic no handler matches, and its counterpart. *)
(* A packet that cannot be built or sent marks the client disconnected,     *)
(* whatever the state of the connection; nothing tells the worker.          *)
(***************************************************************************)
MarksOffline == /\ CannotSend /\ connected' = FALSE
                /\ UNCHANGED <<up, app, crossed>>

Subscribe(a, t) ==
  /\ Call(a) /\ a \in Subscribers
  /\ \A i \in Slots : ~Matches(i, t)
  /\ \E i \in Slots :
       /\ handlers[i] = None /\ \A j \in 1 .. i - 1 : handlers[j] # None
       /\ \/ /\ CanSend /\ Sending(Packet("SUBSCRIBE", t))
             /\ GoOn(a, "store", t, i) /\ crossed' = crossed \ {t}
             /\ UNCHANGED <<connected, faults>>
          \/ MarksOffline
  /\ UNCHANGED <<sock, down, subs, news, wvars, handlers, pipe, sem>>

Unsubscribe(a, t) ==
  /\ Call(a) /\ a \in Subscribers
  /\ \E i \in Slots :
       /\ Matches(i, t) /\ \A j \in 1 .. i - 1 : ~Matches(j, t)
       /\ \/ /\ CanSend /\ Sending(Packet("UNSUBSCRIBE", t))
             /\ GoOn(a, "clear", t, i)
             /\ crossed' = IF handlers[i] = t THEN crossed ELSE crossed \cup {t}
             /\ UNCHANGED <<connected, faults>>
          \/ MarksOffline
  /\ UNCHANGED <<sock, down, subs, news, wvars, handlers, pipe, sem>>

\* The table of handlers is written after the packet is sent.
Record(a) ==
  /\ app[a].pc \in {"store", "clear"} /\ wpc # "crash"
  /\ handlers' = [handlers EXCEPT ![app[a].slot] =
                    IF app[a].pc = "store" THEN app[a].topic ELSE None]
  /\ Return(a)
  /\ UNCHANGED <<lvars, wvars, connected, pipe, sem, calls, crossed>>

NewCall(a) == \/ Publish(a) \/ Stop(a)
              \/ \E t \in Topics : Subscribe(a, t) \/ Unsubscribe(a, t)

OldCall(a) == Publishing(a) \/ WriteItem(a) \/ Record(a)

Broker == (BrokerAnswers \/ BrokerPublishes \/ Break)
            /\ UNCHANGED <<wvars, svars, avars>>

Next == Worker \/ Broker \/ \E a \in Apps : NewCall(a) \/ OldCall(a)

Spec == Init /\ [][Next]_vars
=============================================================================
