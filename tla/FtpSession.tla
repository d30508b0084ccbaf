----------------------------- MODULE FtpSession -----------------------------
(***************************************************************************)
(* The commands of one session of agile_ftp (ftp_session.c and              *)
(* ftp_session_cmd.c).  A handler is the set of its outcomes: the session,  *)
(* the descriptors that are open then, the reply, whether it returned       *)
(* RT_EOK, what it made and what it removed.  Any rt_malloc may fail, and   *)
(* any call of the file system.                                             *)
(***************************************************************************)
EXTENDS Integers, FiniteSets

CONSTANTS Size,        \* pieces of the file that is served
          MaxFd        \* the last descriptor

ASSUME FtpSizes == Size \in Nat /\ MaxFd \in Nat

NoFd == -1

Fds == 0 .. MaxFd

Logins == {"USER anonymous", "USER admin", "USER other", "PASS admin", "PASS other"}

Listings == {"LIST", "NLST"}

Changes == {"MKD sub", "RMD sub", "DELE file"}

\* What is only looked up, and what needs no memory either.
Queries == {"PWD", "XPWD", "SIZE"}
Constant == {"TYPE", "SYST"}

Names == Logins \cup Listings \cup Changes \cup Queries \cup Constant \cup
         {"PORT", "CWD sub", "CDUP", "REST", "RETR", "STOR", "QUIT", "OTHER"}

\* The argument of REST; the other commands have it in their name.  The paths of
\* CWD and of the changes are absolute.
Commands == [name : Names, at : Int]

\* What there is besides the root: the file that is served, in it, and a directory.
Entries == {"file", "sub"}

\* The working directory: "empty" is the empty path, which fopen takes for the root.
Dirs == {"root", "sub", "empty"}
Top == {"root", "empty"}

\* opendir finds the directory, or fopen one to create a file in.
Openable(tree) == {"root"} \cup (tree \ {"file"})
Writable(tree) == Openable(tree) \cup Top

Steps == {"begin", "loop", "select", "check", "retr", "stor", "exit"}

Sessions ==
  [fd : Fds, port_pasv_fd : Fds \cup {NoFd}, file : Fds \cup {NoFd},
   is_anonymous : BOOLEAN, offset : Nat, state : {"USER", "PASSWD", "PROCESS"},
   currentdir : Dirs, force_quit : BOOLEAN, tick_timeout : Nat, pc : Steps, pos : Nat]

\* rt_memset of ftp_session_create: descriptor 0 until the thread has run.
NewSession(fd) ==
  [fd |-> fd, port_pasv_fd |-> 0, file |-> NoFd, is_anonymous |-> FALSE, offset |-> 0,
   state |-> "USER", currentdir |-> "empty", force_quit |-> FALSE, tick_timeout |-> 0,
   pc |-> "begin", pos |-> 0]

Free(fds) == Fds \ fds

\* The lowest free descriptor, if there is one.
Lowest(fds) == {n \in Free(fds) : \A m \in Free(fds) : n <= m}

-----------------------------------------------------------------------------
Outcome(s, fds, reply, ok) ==
  [s |-> s, fds |-> fds, reply |-> reply, ok |-> ok, made |-> {}, removed |-> {}]

Replies(s, fds, codes) == {Outcome(s, fds, code, TRUE) : code \in codes}

\* A handler that returns -RT_ERROR ends its session.
Fails(s, fds) == {Outcome(s, fds, 0, FALSE)}

DropData(s) == [s EXCEPT !.port_pasv_fd = NoFd]

DropFile(s) == [s EXCEPT !.file = NoFd]

user_cmd(s, fds, name) ==
  CASE name = "USER anonymous" ->
         Replies([s EXCEPT !.is_anonymous = TRUE, !.state = "PASSWD"], fds, {331})
    [] name = "USER admin" ->
         Replies([s EXCEPT !.is_anonymous = FALSE, !.state = "PASSWD"], fds, {331})
    [] name = "USER other" -> {Outcome(s, fds, 530, FALSE)}
    [] OTHER -> Replies(s, fds, {502})

pass_cmd(s, fds, name) ==
  CASE name = "PASS admin" \/ (name = "PASS other" /\ s.is_anonymous) ->
         Replies([s EXCEPT !.currentdir = "root", !.state = "PROCESS"], fds, {230})
    [] name = "PASS other" /\ ~s.is_anonymous -> {Outcome(s, fds, 530, FALSE)}
    [] OTHER -> Replies(s, fds, {502})

\* Mutant of port_cmd_fn: the data connection before stays open.
port_cmd_leaks(s, fds) ==
  Replies(DropData(s), fds, {425}) \cup
  {Outcome([s EXCEPT !.port_pasv_fd = n], fds \cup {n}, 200, TRUE) : n \in Lowest(fds)}

\* A parameter that is wrong, no socket and no connection end alike.
port_cmd_fn(s, fds) ==
  LET rest == fds \ {s.port_pasv_fd} IN
  Replies(DropData(s), rest, {425, 504}) \cup
  {Outcome([s EXCEPT !.port_pasv_fd = n], rest \cup {n}, 200, TRUE) : n \in Lowest(rest)}

list_cmd_fn(s, fds, tree) ==
  IF s.port_pasv_fd = NoFd THEN Replies(s, fds, {502})
  ELSE Replies(s, fds, {550}) \cup Fails(s, fds) \cup
       (IF s.currentdir \in Openable(tree)
        THEN Replies(DropData(s), fds \ {s.port_pasv_fd}, {226}) ELSE {})

\* build_full_path changes currentdir before opendir is asked.  Above the root
\* there is the empty path.
cwd_cmd_fn(s, fds, tree, dir) ==
  LET moved == [s EXCEPT !.currentdir = dir] IN
  Replies(moved, fds, {550} \cup (IF dir \in Openable(tree) THEN {250} ELSE {})) \cup
  Fails(moved, fds)

Up(dir) == IF dir \in Top THEN "empty" ELSE "root"

\* Mutant of cdup_cmd_fn: the directory is not opened.
cdup_cmd_blind(s, fds, tree) == Replies([s EXCEPT !.currentdir = Up(s.currentdir)], fds, {250})

cdup_cmd_fn(s, fds, tree) == cwd_cmd_fn(s, fds, tree, Up(s.currentdir))

\* RMD and DELE unlink what is there, whoever works in it; MKD leaves a directory
\* that there is as it is.
Changed(s, fds, tree, name) ==
  CASE name = "MKD sub" -> {[Outcome(s, fds, 257, TRUE) EXCEPT !.made = {"sub"}]}
    [] name = "RMD sub" -> {[Outcome(s, fds, 257, TRUE) EXCEPT !.removed = {e}] : e \in tree \ {"file"}}
    [] OTHER -> {[Outcome(s, fds, 250, TRUE) EXCEPT !.removed = {e}] : e \in tree \ {"sub"}}

\* Mutant of change_cmd_fn: an anonymous user may change them.
change_cmd_any(s, fds, tree, name) ==
  Replies(s, fds, {550}) \cup Fails(s, fds) \cup Changed(s, fds, tree, name)

change_cmd_fn(s, fds, tree, name) ==
  IF s.is_anonymous THEN Replies(s, fds, {550})
  ELSE Replies(s, fds, {550}) \cup Fails(s, fds) \cup Changed(s, fds, tree, name)

\* Mutant of Reset: a transfer and a refusal keep the offset.
Kept(s) == s

Reset(s) == [s EXCEPT !.offset = 0]

rest_cmd_fn(s, fds, at) ==
  IF at < 0 THEN Replies(Reset(s), fds, {504})
  ELSE Replies([s EXCEPT !.offset = at], fds, {350})

\* The transfer itself is steps of the session's thread.
Transfers(s, fds, pc, pos) ==
  {Outcome([s EXCEPT !.file = n, !.pos = pos, !.pc = pc], fds \cup {n}, 150, TRUE) : n \in Lowest(fds)}

Start(s) == IF 0 < s.offset /\ s.offset < Size THEN s.offset ELSE 0

retr_cmd_fn(s, fds, tree) ==
  IF s.port_pasv_fd = NoFd THEN Replies(Reset(s), fds, {502})
  ELSE Fails(s, fds) \cup Replies(Reset(s), fds, {550}) \cup
       (IF s.currentdir \in Top /\ "file" \in tree /\ Size > 0
        THEN Transfers(s, fds, "retr", Start(s)) ELSE {})

\* What is stored is another file.
stor_cmd_fn(s, fds, tree) ==
  IF s.is_anonymous THEN Replies(Reset(s), fds, {550})
  ELSE IF s.port_pasv_fd = NoFd THEN Replies(Reset(s), fds, {502})
  ELSE Fails(Reset(s), fds) \cup Replies(Reset(s), fds, {550}) \cup
       (IF s.currentdir \in Writable(tree) THEN Transfers(Reset(s), fds, "stor", 0) ELSE {})

ftp_session_cmd_process(s, fds, tree, cmd) ==
  LET name == cmd.name IN
  CASE name = "PORT" -> port_cmd_fn(s, fds)
    [] name \in Listings -> list_cmd_fn(s, fds, tree)
    [] name = "CWD sub" -> cwd_cmd_fn(s, fds, tree, "sub")
    [] name = "CDUP" -> cdup_cmd_fn(s, fds, tree)
    [] name \in Changes -> change_cmd_fn(s, fds, tree, name)
    [] name = "REST" -> rest_cmd_fn(s, fds, cmd.at)
    [] name = "RETR" -> retr_cmd_fn(s, fds, tree)
    [] name = "STOR" -> stor_cmd_fn(s, fds, tree)
    [] name = "QUIT" -> {Outcome(s, fds, 221, FALSE)}
    [] name \in Queries -> Replies(s, fds, {213, 257, 550}) \cup Fails(s, fds)
    [] name \in Constant -> Replies(s, fds, {200, 215})
    [] OTHER -> Replies(s, fds, {502})

ftp_session_process(s, fds, tree, cmd) ==
  CASE s.state = "USER" -> user_cmd(s, fds, cmd.name)
    [] s.state = "PASSWD" -> pass_cmd(s, fds, cmd.name)
    [] s.state = "PROCESS" -> ftp_session_cmd_process(s, fds, tree, cmd)
=============================================================================
