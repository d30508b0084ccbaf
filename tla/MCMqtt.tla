------------------------------- MODULE MCMqtt -------------------------------
(***************************************************************************)
(* Instances of Mqtt for TLC.                                               *)
(***************************************************************************)
EXTENDS Mqtt

CONSTANTS a1, a2, t1, t2

TwoApps == {a1, a2}
OneApp == {a1}
TwoTopics == {t1, t2}
OneTopic == {t1}
T2BeginsWithT1 == {<<t2, t1>>}
=============================================================================
