------------------------------- MODULE MCTftp -------------------------------
(***************************************************************************)
(* Instances of Tftp for TLC.  The .cfg files give the constants their      *)
(* values; the larger ones are named here.                                  *)
(***************************************************************************)
EXTENDS Tftp

Both == {"pull", "push"}

\* The faults whose effect the code notices: a failed read of the server is not.
NoticedFaults == FaultKinds \ {"read"}

\* The network may deliver a datagram again, or not.
MayRepeat == {TRUE, FALSE}

\* Failed sends in a row: none up to all of them.
AnySendFails == 0 .. MaxRetry + 1
=============================================================================
