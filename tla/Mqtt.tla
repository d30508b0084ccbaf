-------------------------------- MODULE Mqtt --------------------------------
(***************************************************************************)
(* What the MQTT client of paho_mqtt_pipe.c promises its applications.      *)
(***************************************************************************)
EXTENDS MqttPipe

(***************************************************************************)
(* The worker runs, the broker answers what it receives, and a call that    *)
(* has begun goes on.  No call need ever be made, and nothing need break.   *)
(***************************************************************************)
FairSpec == /\ Spec
            /\ WF_vars(Worker)
            /\ WF_vars(BrokerAnswers /\ UNCHANGED <<wvars, svars, avars>>)
            /\ \A a \in Apps : WF_vars(OldCall(a))

-----------------------------------------------------------------------------
About(types) == [type : types, topic : Topics]

Plain(types) == [type : types, topic : {None}]

Orders == About({"SUBSCRIBE", "UNSUBSCRIBE"}) \cup
          Plain({"CONNECT", "PUBLISH", "PUBACK", "PINGREQ"})

Answers == About({"PUBLISH"}) \cup
           Plain({"CONNACK", "REFUSED", "SUBACK", "UNSUBACK", "PUBACK", "PINGRESP"})

LinkType ==
  /\ sock \in {"none", "open", "broken"}
  /\ up \in Seq(Orders) /\ down \in Seq(Answers)
  /\ subs \subseteq Topics
  /\ faults \in 0 .. MaxFaults /\ news \in 0 .. MaxNews

WorkerType ==
  /\ wpc \in {"start", "connect", "connack", "subscribe", "suback", "loop",
              "pong", "delay", "exit", "crash"}
  /\ slot \in 1 .. MaxHandlers + 1

SharedType ==
  /\ connected \in BOOLEAN
  /\ handlers \in [Slots -> Topics \cup {None}]
  /\ pipe \in Seq({"msg", "stop"}) /\ Len(pipe) <= PipeSize
  /\ sem \in {0, 1}

AppCalls == [pc : {"idle", "publish", "write msg", "write stop", "store", "clear"},
             topic : Topics \cup {None}, slot : 0 .. MaxHandlers]

AppType == calls \in 0 .. MaxCalls /\ app \in [Apps -> AppCalls] /\ crossed \subseteq Topics

\* The variables have their types; pub_sem is binary.
TypeOK == LinkType /\ WorkerType /\ SharedType /\ AppType

(***************************************************************************)
(* While publishing blocks, the semaphore lets one message at a time into   *)
(* the pipe (pub_sem, "publish data semaphore for blocking"): it is free    *)
(* only when no call is publishing and no message waits, so that no two     *)
(* messages are read, and one of them lost, in one go.                      *)
(***************************************************************************)
Inside(a) == app[a].pc \in {"publish", "write msg"}

Waits(i) == i \in DOMAIN pipe /\ pipe[i] = "msg"

OneMessageAtATime ==
  Blocking =>
    /\ sem = 1 => (\A a \in Apps : ~Inside(a)) /\ (\A i \in DOMAIN pipe : ~Waits(i))
    /\ \A a \in Apps : Inside(a) => \A i \in DOMAIN pipe : ~Waits(i)
    /\ \A a, b \in Apps : Inside(a) /\ Inside(b) => a = b
    /\ \A i, j \in DOMAIN pipe : Waits(i) /\ Waits(j) => i = j

(***************************************************************************)
(* Once the worker is back online every handler of the table is subscribed  *)
(* on the new connection, or its SUBSCRIBE is on the way, whatever an       *)
(* application subscribed or unsubscribed while the connection was down;     *)
(* but for a topic whose UNSUBSCRIBE was sent when a handler with a longer  *)
(* name was found, and cleared, in its stead.                               *)
(***************************************************************************)
Clearing(i) == \E a \in Apps : app[a].pc = "clear" /\ app[a].slot = i

OnlineSubscribed ==
  Online /\ sock = "open" =>
    \A i \in Slots :
      \/ handlers[i] = None \/ Clearing(i) \/ handlers[i] \in crossed
      \/ handlers[i] \in subs
      \/ \E k \in DOMAIN up : up[k] = Packet("SUBSCRIBE", handlers[i])

(***************************************************************************)
(* A client that is not stopped gets online, again and again, if refusals,  *)
(* breaks and late answers come to an end.                                  *)
(***************************************************************************)
GoesOnline == Running ~> Online \/ ~Running

(***************************************************************************)
(* Every call of an application returns, also one that writes to a full     *)
(* pipe while the connection is down or just breaking: the worker gets      *)
(* online and reads the pipe, or ends.                                      *)
(***************************************************************************)
CallsReturn == \A a \in Apps : app[a] # Idle ~> app[a] = Idle \/ wpc = "crash"
=============================================================================
