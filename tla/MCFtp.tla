-------------------------------- MODULE MCFtp -------------------------------
(* Small instances of Ftp. *)
EXTENDS Ftp, TLC

CONSTANTS c1, c2

\* One client logs in and stores, another one comes and goes.
SessionMay ==
  c1 :> {"USER admin", "PASS admin", "PORT", "STOR"} @@ c2 :> {"QUIT"}

\* One client that logs in in every way, goes everywhere, resumes its transfers,
\* and makes and removes what there is.
FileMay ==
  c1 :> Logins \cup Changes \cup {"PORT", "REST", "RETR", "STOR", "CWD sub", "CDUP"}

\* Bound of the run of the files: sessions are forced to end in that of the sessions.
NoRestart == ~force_restart
=============================================================================
