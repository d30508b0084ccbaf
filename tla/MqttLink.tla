------------------------------ MODULE MqttLink ------------------------------
(***************************************************************************)
(* What the MQTT client talks to: a TCP connection and, at its other end, a *)
(* broker with clean sessions.  Neither is code of the repository; they are *)
(* modelled as paho_mqtt_pipe.c uses them.                                  *)
(*                                                                         *)
(* up and down are the packets in flight to and from the broker, in order.  *)
(* A broken connection has lost up and perhaps down; its socket still takes *)
(* packets until the client closes it.                                      *)
(***************************************************************************)
EXTENDS Integers, Sequences

CONSTANTS Topics,
          Retained,   \* topics with a retained message
          MaxFaults,  \* bound on refusals, breaks, late answers, failing sends
          MaxNews     \* bound on the messages other clients publish

ASSUME LinkAssumption ==
  /\ Retained \subseteq Topics
  /\ MaxFaults \in Nat
  /\ MaxNews \in Nat

VARIABLES sock,   \* "none" (-1), "open" or "broken"
          up, down,
          subs,   \* the topics of the broker's session
          faults, news

lvars == <<sock, up, down, subs, faults, news>>

None == "none"  \* the topic of a packet without one

Packet(type, t) == [type |-> type, topic |-> t]

LinkInit == /\ sock = "none" /\ up = <<>> /\ down = <<>> /\ subs = {}
            /\ faults = 0 /\ news = 0

Fault == faults < MaxFaults /\ faults' = faults + 1

\* connect() has succeeded, and the first packet is sent.
Open(p) == sock' = "open" /\ up' = <<p>> /\ down' = <<>> /\ subs' = {}

Close == sock' = "none" /\ up' = <<>> /\ down' = <<>> /\ subs' = {}

(***************************************************************************)
(* A send may succeed on any socket there is.  It may fail on any that is   *)
(* not open, and is a fault of its own on a healthy one: no memory, the     *)
(* timeout of the send, or a packet the buffer does not hold.  Nothing gets *)
(* to the broker then; one that gets a part of a packet closes (Break).     *)
(***************************************************************************)
CanSend == sock # "none"
CannotSend == IF sock = "open" THEN Fault ELSE UNCHANGED faults
Sending(p) == up' = IF sock = "open" THEN Append(up, p) ELSE up

-----------------------------------------------------------------------------
Replies(p) ==
  CASE p.type = "SUBSCRIBE" ->
         <<Packet("SUBACK", None)>>
           \o (IF p.topic \in Retained THEN <<Packet("PUBLISH", p.topic)>> ELSE <<>>)
    [] p.type = "UNSUBSCRIBE" -> <<Packet("UNSUBACK", None)>>
    [] p.type = "PUBLISH" -> <<Packet("PUBACK", None)>>
    [] p.type = "PINGREQ" -> <<Packet("PINGRESP", None)>>
    [] OTHER -> <<>>

\* The broker answers the packets one by one.
BrokerAnswers ==
  /\ up # <<>> /\ up' = Tail(up)
  /\ LET p == Head(up) IN
     /\ subs' = CASE p.type = "SUBSCRIBE" -> subs \cup {p.topic}
                  [] p.type = "UNSUBSCRIBE" -> subs \ {p.topic}
                  [] OTHER -> subs
     /\ IF p.type # "CONNECT"
        THEN down' = down \o Replies(p) /\ UNCHANGED faults
        ELSE \/ down' = Append(down, Packet("CONNACK", None)) /\ UNCHANGED faults
             \/ down' = Append(down, Packet("REFUSED", None)) /\ Fault
  /\ UNCHANGED <<sock, news>>

\* Another client publishes on a topic of the session.
BrokerPublishes ==
  /\ sock = "open" /\ news < MaxNews /\ news' = news + 1
  /\ \E t \in subs : down' = Append(down, Packet("PUBLISH", t))
  /\ UNCHANGED <<sock, up, subs, faults>>

Break ==
  /\ sock = "open" /\ Fault
  /\ sock' = "broken" /\ up' = <<>> /\ subs' = {}
  /\ down' = down \/ down' = <<>>
  /\ UNCHANGED news
=============================================================================
