-------------------------------- MODULE Ftp ---------------------------------
(***************************************************************************)
(* The FTP server of agile_ftp: the listener (ftp.c), one thread for each   *)
(* session (ftp_session.c), their clients, the descriptors they share, and  *)
(* the tick, which wraps.  A client has one connection at a time and waits  *)
(* for the answer to a command before it sends the next.                    *)
(***************************************************************************)
EXTENDS FtpSession, Sequences

CONSTANTS Clients,
          May,           \* the commands a client knows
          MaxSessions,   \* ftp_max_session_num
          TickMod,       \* RT_TICK_MAX + 1
          Timeout,       \* FTP_SESSION_TIMEOUT, in ticks of a second
          NoSession

ASSUME FtpAssumption ==
  /\ May \in [Clients -> SUBSET Names]
  /\ MaxSessions \in Nat \ {0}
  /\ TickMod \in Nat \ {0} /\ Timeout \in Nat /\ Timeout < TickMod
  /\ NoSession \notin Sessions

VARIABLES
  lpc, server_fd, force_restart,    \* the listener
  sess, fds, now,      \* the sessions in the list, the open descriptors, the tick
  conn, inbox,         \* the clients: their connection, the command on its way
  stored, tree         \* the pieces a STOR has written so far, what there is

\* History: what a client received of the file, where it was told to start, the
\* login it gave, whether its last change of directory was confirmed and the
\* directory not removed since, how long its session has waited; whether the
\* TCP_NODELAY option ever failed.
VARIABLES have, asked, login, confirmed, idle, odd

listener == <<lpc, server_fd, force_restart>>
clients == <<conn, inbox>>
transfer == <<stored, tree, have>>
history == <<asked, login, confirmed>>
vars == <<listener, sess, fds, now, clients, transfer, history, idle, odd>>

Live == {c \in Clients : sess[c] # NoSession}

At(c, pc) == sess[c] # NoSession /\ sess[c].pc = pc

For(value) == [c \in Clients |-> value]

\* Descriptor 0 belongs to the console.
Init ==
  /\ lpc = "delay" /\ server_fd = NoFd /\ force_restart = FALSE
  /\ sess = For(NoSession) /\ fds = {0} /\ now = 0
  /\ conn = For("none") /\ inbox = For("none")
  /\ stored = For(0) /\ tree = Entries /\ have = For(<<>>)
  /\ asked = For(0) /\ login = For("nobody") /\ confirmed = For(TRUE)
  /\ idle = For(0) /\ odd = FALSE

-----------------------------------------------------------------------------
(***************************************************************************)
(* The listener: ftp_entry.  The connections it has not accepted go with    *)
(* its socket.                                                              *)
(***************************************************************************)
LeaveQueue == conn' = [c \in Clients |-> IF conn[c] = "queued" THEN "none" ELSE conn[c]]

Down ==
  /\ fds' = fds \ {server_fd}
  /\ server_fd' = NoFd
  /\ lpc' = "delay"

Listen ==
  /\ lpc = "start"
  /\ \/ lpc' = "delay" /\ UNCHANGED <<server_fd, fds>>
     \/ /\ \E fd \in Lowest(fds) : server_fd' = fd /\ fds' = fds \cup {fd}
        /\ lpc' = "top"
  /\ UNCHANGED <<force_restart, sess, now, clients, transfer, history, idle, odd>>

\* Mutant of Restart: the sessions are left alone.
RestartAlone ==
  /\ lpc = "top" /\ force_restart
  /\ force_restart' = FALSE
  /\ Down /\ LeaveQueue
  /\ UNCHANGED <<sess, now, inbox, transfer, history, idle, odd>>

Restart ==
  /\ lpc = "top" /\ force_restart
  /\ force_restart' = FALSE
  /\ sess' = [c \in Clients |->
                IF c \in Live THEN [sess[c] EXCEPT !.force_quit = TRUE] ELSE NoSession]
  /\ Down /\ LeaveQueue
  /\ UNCHANGED <<now, inbox, transfer, history, idle, odd>>

Waits ==
  /\ lpc = "top" /\ ~force_restart
  /\ lpc' = "select"
  /\ UNCHANGED <<server_fd, force_restart, sess, fds, now, clients, transfer, history,
                 idle, odd>>

\* select or accept fails.
ListenerFails ==
  /\ lpc = "select"
  /\ Down /\ LeaveQueue
  /\ UNCHANGED <<force_restart, sess, now, inbox, transfer, history, idle, odd>>

\* Mutant of Room: one session too many.
RoomForOneMore == Cardinality(Live) <= MaxSessions

Room == Cardinality(Live) < MaxSessions

\* ftp_session_create; without room or memory the connection is closed again.
AcceptConnection(c) ==
  /\ lpc = "select" /\ conn[c] = "queued" /\ Free(fds) # {}
  /\ lpc' = "top"
  /\ \/ /\ Room
        /\ \E fd \in Lowest(fds) :
             sess' = [sess EXCEPT ![c] = NewSession(fd)] /\ fds' = fds \cup {fd}
        /\ conn' = [conn EXCEPT ![c] = "open"]
        /\ idle' = [idle EXCEPT ![c] = 0]
        /\ login' = [login EXCEPT ![c] = "nobody"]
     \/ /\ conn' = [conn EXCEPT ![c] = "none"]
        /\ UNCHANGED <<sess, fds, idle, login>>
  /\ UNCHANGED <<server_fd, force_restart, now, inbox, transfer,
                 asked, confirmed, odd>>

-----------------------------------------------------------------------------
(***************************************************************************)
(* A session: ftp_client_entry.                                             *)
(***************************************************************************)
Goes(c, pc) == sess' = [sess EXCEPT ![c].pc = pc]

\* Mutant of Due: the sum does not wrap.
DueUnwrapped == now + Timeout

Due == (now + Timeout) % TickMod

\* Without the TCP_NODELAY option the session is deleted before it is set up.
Begin(c) ==
  /\ At(c, "begin")
  /\ \/ /\ sess' = [sess EXCEPT ![c] = [@ EXCEPT !.pc = "loop", !.port_pasv_fd = NoFd,
                                                 !.tick_timeout = Due]]
        /\ UNCHANGED odd
     \/ /\ Goes(c, "exit")
        /\ odd' = TRUE
  /\ UNCHANGED <<listener, fds, now, clients, transfer, history, idle>>

Loop(c) ==
  /\ At(c, "loop")
  /\ IF sess[c].force_quit
     THEN Goes(c, "exit")
     ELSE Goes(c, "select")
  /\ UNCHANGED <<listener, fds, now, clients, transfer, history, idle, odd>>

\* The end of the connection is an error of recv, and takes the command that
\* arrived before it along.
ReadFails(c) ==
  /\ At(c, "select") /\ conn[c] = "closing"
  /\ Goes(c, "exit")
  /\ inbox' = [inbox EXCEPT ![c] = "none"]
  /\ UNCHANGED <<listener, fds, now, conn, transfer, history, idle, odd>>

\* Where a client will start if it gets the file now: what it was told last.
AskedAfter(c, o, cmd) ==
  CASE o.reply = 350 -> cmd.at
    [] cmd.name \in {"RETR", "STOR"} /\ o.reply # 150 -> 0
    [] OTHER -> asked[c]

LoginAfter(c, o, cmd) ==
  CASE o.reply = 331 -> IF cmd.name = "USER admin" THEN "named" ELSE "anonymous"
    [] o.reply = 230 -> IF login[c] = "named" /\ cmd.name = "PASS admin" THEN "admin" ELSE login[c]
    [] OTHER -> login[c]

ConfirmedAfter(c, o, cmd) ==
  CASE o.reply = 230 -> TRUE
    [] sess[c].state = "PROCESS" /\ cmd.name \in {"CWD sub", "CDUP"} -> o.reply = 250
    [] OTHER -> confirmed[c]

\* A command is read and processed, or begins its transfer.
Process(c) ==
  /\ At(c, "select") /\ conn[c] = "open" /\ inbox[c] # "none"
  /\ LET cmd == [name |-> inbox[c], at |-> Len(have[c])]
         s == sess[c] IN
     \E o \in ftp_session_process(s, fds, tree, cmd) :
       LET busy == o.s.pc \in {"retr", "stor"} IN
       /\ fds' = o.fds
       /\ sess' = [sess EXCEPT ![c] =
                     IF ~o.ok THEN [o.s EXCEPT !.pc = "exit"]
                     ELSE IF busy THEN o.s
                     ELSE [o.s EXCEPT !.pc = "check", !.tick_timeout = Due]]
       /\ idle' = [idle EXCEPT ![c] = 0]
       /\ inbox' = [inbox EXCEPT ![c] = IF busy THEN @ ELSE "none"]
       /\ asked' = [asked EXCEPT ![c] = AskedAfter(c, o, cmd)]
       /\ login' = [login EXCEPT ![c] = LoginAfter(c, o, cmd)]
       /\ tree' = (tree \cup o.made) \ o.removed
       /\ confirmed' = [d \in Clients |->
            /\ IF d = c THEN ConfirmedAfter(c, o, cmd) ELSE confirmed[d]
            /\ d \in Live => sess[d].currentdir \notin o.removed]
       /\ have' = [have EXCEPT ![c] =
            IF o.s.pc = "retr" THEN SubSeq(@, 1, asked[c]) ELSE @]
  /\ UNCHANGED <<listener, now, conn, stored, odd>>

\* The transfer is over: its file and its connection are closed, and it is
\* answered unless it failed.
Finishes(c, ok) ==
  LET s == DropFile(DropData(sess[c])) IN
  /\ fds' = fds \ {sess[c].file, sess[c].port_pasv_fd}
  /\ sess' = [sess EXCEPT ![c] =
       IF ok THEN [Reset(s) EXCEPT !.pc = "check", !.tick_timeout = Due, !.pos = 0]
       ELSE [s EXCEPT !.pc = "exit", !.pos = 0]]
  /\ inbox' = [inbox EXCEPT ![c] = "none"]
  /\ asked' = [asked EXCEPT ![c] = IF ok THEN 0 ELSE @]
  /\ idle' = [idle EXCEPT ![c] = 0]
  /\ UNCHANGED <<listener, now, conn, login, confirmed, odd>>

Retrieve(c) ==
  /\ At(c, "retr") /\ sess[c].pos < Size
  /\ \/ /\ sess' = [sess EXCEPT ![c].pos = @ + 1]
        /\ have' = [have EXCEPT ![c] = Append(@, sess[c].pos + 1)]
        /\ UNCHANGED <<listener, fds, now, clients, stored, tree, history, idle, odd>>
     \/ Finishes(c, FALSE) /\ UNCHANGED transfer

RetrieveEnds(c) ==
  /\ At(c, "retr") /\ sess[c].pos = Size
  /\ Finishes(c, TRUE) /\ UNCHANGED transfer

\* stor_cmd_receive brings some pieces; if they are not written it has failed.
Receive(c) ==
  /\ At(c, "stor")
  /\ \/ /\ \E n \in stored[c] + 1 .. Size : stored' = [stored EXCEPT ![c] = n]
        /\ UNCHANGED <<have, tree, listener, sess, fds, now, clients, history, idle, odd>>
     \/ Finishes(c, FALSE) /\ stored' = [stored EXCEPT ![c] = 0] /\ UNCHANGED <<have, tree>>

\* The client has sent all and closed, or was silent for three seconds, or the
\* connection failed, which loses the pieces of this call: all are finished.
ReceiveEnds(c) ==
  /\ At(c, "stor")
  /\ Finishes(c, TRUE) /\ stored' = [stored EXCEPT ![c] = 0] /\ UNCHANGED <<have, tree>>

\* Mutant of Expired: the ticks are compared as they are.
ExpiredUnwrapped(c) == now >= sess[c].tick_timeout

Expired(c) == (now - sess[c].tick_timeout) % TickMod < (TickMod - 1) \div 2

Check(c) ==
  /\ At(c, "check")
  /\ IF Expired(c) THEN Goes(c, "exit")
     ELSE Goes(c, "loop")
  /\ UNCHANGED <<listener, fds, now, clients, transfer, history, idle, odd>>

\* ftp_session_delete closes descriptor 0 if the session was never set up.
Exit(c) ==
  /\ At(c, "exit")
  /\ fds' = fds \ {sess[c].fd, sess[c].port_pasv_fd}
  /\ sess' = [sess EXCEPT ![c] = NoSession]
  /\ conn' = [conn EXCEPT ![c] = "none"]
  /\ inbox' = [inbox EXCEPT ![c] = "none"]
  /\ asked' = [asked EXCEPT ![c] = 0]
  /\ confirmed' = [confirmed EXCEPT ![c] = TRUE]
  /\ UNCHANGED <<listener, now, transfer, login, idle, odd>>

-----------------------------------------------------------------------------
(***************************************************************************)
(* The clients, ftp_force_restart, and time, which passes when every thread *)
(* waits: the delays end, and so does each select.                          *)
(***************************************************************************)
Connect(c) ==
  /\ conn[c] = "none" /\ server_fd # NoFd
  /\ conn' = [conn EXCEPT ![c] = "queued"]
  /\ UNCHANGED <<listener, sess, fds, now, inbox, transfer, history, idle, odd>>

\* A command that arrives while the session does something else is there when
\* it comes back to select.
SendCommand(c) ==
  /\ conn[c] = "open" /\ inbox[c] = "none" /\ At(c, "select")
  /\ \E name \in May[c] :
       /\ name = "REST" => Len(have[c]) < Size
       /\ inbox' = [inbox EXCEPT ![c] = name]
  /\ UNCHANGED <<listener, sess, fds, now, conn, transfer, history, idle, odd>>

Leave(c) ==
  /\ conn[c] = "open"
  /\ conn' = [conn EXCEPT ![c] = "closing"]
  /\ UNCHANGED <<listener, sess, fds, now, inbox, transfer, history,
                 idle, odd>>

ftp_force_restart ==
  /\ force_restart' = TRUE
  /\ UNCHANGED <<lpc, server_fd, sess, fds, now, clients, transfer, history, idle, odd>>

Busy(c) ==
  \/ sess[c] # NoSession /\ sess[c].pc \notin {"select", "retr", "stor"}
  \/ At(c, "select") /\ (inbox[c] # "none" \/ conn[c] = "closing")

Tick ==
  /\ lpc \in {"delay", "select"}
  /\ \A c \in Clients : ~Busy(c) /\ (lpc = "select" => conn[c] # "queued")
  /\ now' = (now + 1) % TickMod
  /\ lpc' = IF lpc = "delay" THEN "start" ELSE "top"
  /\ sess' = [c \in Clients |->
                IF At(c, "select") THEN [sess[c] EXCEPT !.pc = "check"] ELSE sess[c]]
  /\ idle' = [c \in Clients |-> IF At(c, "select") THEN idle[c] + 1 ELSE idle[c]]
  /\ UNCHANGED <<server_fd, force_restart, fds, clients, transfer, history, odd>>

-----------------------------------------------------------------------------
Listener ==
  \/ Listen \/ Restart \/ Waits \/ ListenerFails
  \/ \E c \in Clients : AcceptConnection(c)

Transfer(c) == Retrieve(c) \/ RetrieveEnds(c) \/ Receive(c) \/ ReceiveEnds(c)

Session(c) ==
  \/ Begin(c) \/ Loop(c) \/ ReadFails(c) \/ Process(c)
  \/ Transfer(c) \/ Check(c) \/ Exit(c)

Client(c) == Connect(c) \/ SendCommand(c) \/ Leave(c)

Next ==
  \/ Listener \/ Tick \/ ftp_force_restart
  \/ \E c \in Clients : Session(c) \/ Client(c)

Spec == Init /\ [][Next]_vars

\* The threads run and time goes on.
FairSpec ==
  /\ Spec
  /\ []<><<Tick>>_vars
  /\ WF_vars(Listener)
  /\ \A c \in Clients : WF_vars(Session(c))

-----------------------------------------------------------------------------
(***************************************************************************)
(* Properties.                                                              *)
(***************************************************************************)
TypeOK ==
  /\ lpc \in {"delay", "start", "top", "select"} /\ server_fd \in Fds \cup {NoFd}
  /\ force_restart \in BOOLEAN
  /\ \A c \in Live : sess[c] \in Sessions /\ sess[c].tick_timeout < TickMod
  /\ fds \subseteq Fds /\ now \in 0 .. TickMod - 1
  /\ conn \in [Clients -> {"none", "queued", "open", "closing"}]
  /\ inbox \in [Clients -> Names \cup {"none"}]

\* The descriptors the parts of the server hold.
Held(c) == {sess[c].fd, sess[c].port_pasv_fd, sess[c].file} \ {NoFd}

Owners == [c \in Live |-> IF sess[c].pc = "begin" THEN {sess[c].fd} ELSE Held(c)]

\* What is open is held by exactly one part: nothing leaks, and nothing is
\* closed twice or under another's hands.  It ends with the first session whose
\* TCP_NODELAY failed: that one closes the console's descriptor.
DescriptorsOwned ==
  ~odd =>
    /\ fds = {0} \cup ({server_fd} \ {NoFd}) \cup UNION {Owners[c] : c \in Live}
    /\ \A c \in Live : 0 \notin Owners[c] /\ server_fd \notin Owners[c]
    /\ \A c, d \in Live : c # d => Owners[c] \cap Owners[d] = {}

\* The list never holds more sessions than ftp_max_session_num, as long as
\* ftp_set_max_session_num does not lower it.
SessionLimit == Cardinality(Live) <= MaxSessions

\* A client that goes on where it was told to, after a transfer that broke,
\* has the whole file when its RETR is answered with 226: no command in between
\* moves the start, and no start outlives its transfer.
ResumeIsExact ==
  [][\A c \in Clients :
       At(c, "retr") /\ At(c, "check")' => have'[c] = [i \in 1 .. Size |-> i]]_vars

\* A file is stored, and a file or a directory made or removed, only for a client
\* that gave the name and the password, whichever logins were tried before.
ChangesNeedLogin ==
  [][/\ \A c \in Clients : stored'[c] # stored[c] => login[c] = "admin"
     /\ tree' # tree =>
          \E c \in Clients : inbox[c] \in Changes /\ inbox'[c] = "none" /\ login[c] = "admin"]_vars

\* A directory that CWD or CDUP confirmed can be opened until some client removes
\* it; else only a refusal leaves the session in one that cannot.
ConfirmedIsOpenable ==
  \A c \in Live :
    sess[c].state = "PROCESS" /\ confirmed[c] => sess[c].currentdir \in Openable(tree)

\* No session times out before its time and none stays behind it, across the
\* wrap of the tick.
EndsInTime ==
  [][\A c \in Clients :
       /\ At(c, "check") /\ At(c, "exit")' => idle[c] >= Timeout
       /\ idle'[c] <= Timeout]_vars

\* A restart calls ftp_session_force_quit, which by the README closes the
\* connections of all clients, though not at once: every session that is there
\* when the listener sees it ends, even from the middle of a transfer.
ForcedEnds ==
  \A c \in Clients : lpc = "top" /\ force_restart /\ c \in Live ~> c \notin Live
=============================================================================
