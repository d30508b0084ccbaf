----------------------------- MODULE Ftp_proofs -----------------------------
(***************************************************************************)
(* Proofs about the FTP server, for any number of clients, descriptors and  *)
(* sessions and a file of any size: the types, who holds which descriptor,  *)
(* and the limit of sessions.                                               *)
(***************************************************************************)
EXTENDS Ftp, TLAPS, FiniteSetTheorems

\* The descriptors of a session.  Before its thread has run, port_pasv_fd is
\* the 0 of rt_memset and nobody's.
Owns(s) ==
  IF s.pc = "begin" THEN {s.fd} ELSE {s.fd, s.port_pasv_fd, s.file} \ {NoFd}

\* The descriptors of a session are three, or two, or one.
Apart(s) ==
  s.pc # "begin" =>
    /\ s.fd # s.port_pasv_fd /\ s.fd # s.file
    /\ s.port_pasv_fd = s.file => s.file = NoFd

\* A session has a file during a transfer, and only then.
FileOnly(s) == s.file # NoFd <=> s.pc \in {"retr", "stor"}

-----------------------------------------------------------------------------
(***************************************************************************)
(* What a command leaves: a session as before but for what it holds, which  *)
(* it took from what was free.                                              *)
(***************************************************************************)
Good(s, open, o) ==
  /\ o.s \in Sessions /\ o.s.tick_timeout = s.tick_timeout
  /\ o.s.pc \in {"select", "retr", "stor"} /\ FileOnly(o.s)
  /\ o.ok \in BOOLEAN /\ (~o.ok => o.s.pc = "select")
  /\ o.s.pc # "select" => o.reply = 150
  /\ o.fds \subseteq Fds
  /\ Apart(s) /\ Owns(s) \subseteq open =>
       /\ Apart(o.s)
       /\ o.fds = (open \ Owns(s)) \cup Owns(o.s)
       /\ (open \ Owns(s)) \cap Owns(o.s) = {}

\* A session that waits for a command, and the descriptors that are open.
Before(s, open) ==
  /\ s \in Sessions /\ s.pc = "select" /\ FileOnly(s)
  /\ open \subseteq Fds

\* A session of the same descriptors.
Alike(s, t) ==
  /\ t \in Sessions /\ t.pc = s.pc /\ t.tick_timeout = s.tick_timeout
  /\ t.fd = s.fd /\ t.port_pasv_fd = s.port_pasv_fd /\ t.file = s.file

\* A command that opens and closes nothing.
LEMMA Untouched ==
  ASSUME NEW s, NEW open, Before(s, open), NEW t, Alike(s, t), NEW reply, NEW ok \in BOOLEAN
  PROVE  Good(s, open, Outcome(t, open, reply, ok))
<1> DEFINE o == Outcome(t, open, reply, ok)
<1>1. o.s = t /\ o.fds = open /\ o.ok = ok
  BY DEF Outcome
<1>2. Owns(t) = Owns(s) /\ (Apart(s) => Apart(t)) /\ (FileOnly(s) => FileOnly(t))
  BY DEF Alike, Owns, Apart, FileOnly
<1> QED BY <1>1, <1>2 DEF Good, Before, Alike

\* What MKD, RMD and DELE bring about leaves their session as it is.
LEMMA ChangedParts ==
  ASSUME NEW s, NEW open, NEW there, NEW name, NEW o \in Changed(s, open, there, name)
  PROVE  o.s = s /\ o.fds = open /\ o.ok \in BOOLEAN /\ o.reply \in {250, 257}
<1> DEFINE O(code) == Outcome(s, open, code, TRUE)
<1>1. \/ o \in {[O(257) EXCEPT !.made = {"sub"}]}
      \/ o \in {[O(257) EXCEPT !.removed = {e}] : e \in there \ {"file"}}
      \/ o \in {[O(250) EXCEPT !.removed = {e}] : e \in there \ {"sub"}}
  BY ZenonT(60) DEF Changed
<1>2. ASSUME o = [O(257) EXCEPT !.made = {"sub"}]
      PROVE  o.s = s /\ o.fds = open /\ o.ok = TRUE /\ o.reply \in {250, 257}
  BY <1>2 DEF Outcome
<1>3. ASSUME NEW e, \/ o = [O(257) EXCEPT !.removed = {e}]
                    \/ o = [O(250) EXCEPT !.removed = {e}]
      PROVE  o.s = s /\ o.fds = open /\ o.ok = TRUE /\ o.reply \in {250, 257}
  BY <1>3 DEF Outcome
<1>4. o.s = s /\ o.fds = open /\ o.ok = TRUE /\ o.reply \in {250, 257}
  BY <1>1, <1>2, <1>3
<1> QED BY <1>4

LEMMA ChangedGood ==
  ASSUME NEW s, NEW open, Before(s, open), NEW there, NEW name,
         NEW o \in Changed(s, open, there, name)
  PROVE  Good(s, open, o)
<1>1. Alike(s, s)
  BY DEF Alike, Before
<1>2. Good(s, open, Outcome(s, open, 0, TRUE))
  BY <1>1, Untouched
<1>3. o.s = s /\ o.fds = open /\ o.ok \in BOOLEAN
  BY ChangedParts
<1> DEFINE q == Outcome(s, open, 0, TRUE)
<1>4. q.s = s /\ q.fds = open /\ q.ok \in BOOLEAN
  BY DEF Outcome
<1> HIDE DEF q
<1> QED BY <1>2, <1>3, <1>4 DEF Good, Before, q

\* A command that closes the data connection.
LEMMA Dropped ==
  ASSUME NEW s, NEW open, Before(s, open), NEW reply
  PROVE  Good(s, open, Outcome(DropData(s), open \ {s.port_pasv_fd}, reply, TRUE))
<1> DEFINE t == DropData(s)
           o == Outcome(t, open \ {s.port_pasv_fd}, reply, TRUE)
<1>1. o.s = t /\ o.fds = open \ {s.port_pasv_fd} /\ o.ok = TRUE
  BY DEF Outcome
<1>2. /\ t \in Sessions /\ t.pc = s.pc /\ t.tick_timeout = s.tick_timeout
      /\ t.fd = s.fd /\ t.port_pasv_fd = NoFd /\ t.file = s.file
  BY DEF DropData, Before, Sessions
<1>3. s.fd \in Fds /\ s.fd # NoFd /\ s.file = NoFd /\ FileOnly(t)
  BY <1>2 DEF Before, Sessions, FileOnly, Fds, NoFd
<1>4. Owns(t) = {s.fd} /\ Owns(s) = {s.fd, s.port_pasv_fd} \ {NoFd}
  BY <1>2, <1>3 DEF Owns, Before
<1>5. NoFd \notin open
  BY DEF Before, Fds, NoFd
<1>6. ASSUME Apart(s), Owns(s) \subseteq open
      PROVE  /\ Apart(t)
             /\ open \ {s.port_pasv_fd} = (open \ Owns(s)) \cup Owns(t)
             /\ (open \ Owns(s)) \cap Owns(t) = {}
  <2>1. s.fd # s.port_pasv_fd /\ s.fd \in open
    BY <1>3, <1>4, <1>6 DEF Apart, Before
  <2> QED BY <1>2, <1>3, <1>4, <1>5, <2>1 DEF Apart
<1> QED BY <1>1, <1>2, <1>3, <1>6 DEF Good, Before

\* PORT that connects: the descriptor is a free one.
LEMMA Connected ==
  ASSUME NEW s, NEW open, Before(s, open),
         NEW n \in Lowest(open \ {s.port_pasv_fd}), NEW reply
  PROVE  Good(s, open, Outcome([s EXCEPT !.port_pasv_fd = n],
                               (open \ {s.port_pasv_fd}) \cup {n}, reply, TRUE))
<1> DEFINE t == [s EXCEPT !.port_pasv_fd = n]
           o == Outcome(t, (open \ {s.port_pasv_fd}) \cup {n}, reply, TRUE)
<1>1. o.s = t /\ o.fds = (open \ {s.port_pasv_fd}) \cup {n} /\ o.ok = TRUE
  BY DEF Outcome
<1>2. n \in Fds /\ n # NoFd /\ n \notin open \ {s.port_pasv_fd}
  BY DEF Lowest, Free, Fds, NoFd
<1>3. /\ t \in Sessions /\ t.pc = s.pc /\ t.tick_timeout = s.tick_timeout
      /\ t.fd = s.fd /\ t.port_pasv_fd = n /\ t.file = s.file
  BY <1>2 DEF Before, Sessions
<1>4. s.fd # NoFd /\ s.file = NoFd /\ FileOnly(t)
  BY <1>3 DEF Before, Sessions, FileOnly, Fds, NoFd
<1>5. Owns(t) = {s.fd, n} /\ Owns(s) = {s.fd, s.port_pasv_fd} \ {NoFd}
  BY <1>2, <1>3, <1>4 DEF Owns, Before
<1>6. NoFd \notin open
  BY DEF Before, Fds, NoFd
<1>7. ASSUME Apart(s), Owns(s) \subseteq open
      PROVE  /\ Apart(t)
             /\ (open \ {s.port_pasv_fd}) \cup {n} = (open \ Owns(s)) \cup Owns(t)
             /\ (open \ Owns(s)) \cap Owns(t) = {}
  <2>1. s.fd # s.port_pasv_fd /\ s.fd \in open
    BY <1>4, <1>5, <1>7 DEF Apart, Before
  <2>2. n # s.fd
    BY <1>2, <2>1
  <2> QED BY <1>2, <1>3, <1>4, <1>5, <1>6, <2>1, <2>2 DEF Apart
<1> QED BY <1>1, <1>2, <1>3, <1>4, <1>7 DEF Good, Before

\* A transfer that begins: its file is a free descriptor.
LEMMA Opened ==
  ASSUME NEW s, NEW open, Before(s, open), NEW pc \in {"retr", "stor"}, NEW pos \in Nat,
         NEW o \in Transfers(s, open, pc, pos)
  PROVE  Good(s, open, o)
<1>1. PICK n \in Lowest(open) :
        o = Outcome([s EXCEPT !.file = n, !.pos = pos, !.pc = pc], open \cup {n}, 150, TRUE)
  BY DEF Transfers
<1> DEFINE t == [s EXCEPT !.file = n, !.pos = pos, !.pc = pc]
<1>2. o.s = t /\ o.fds = open \cup {n} /\ o.ok = TRUE /\ o.reply = 150
  BY <1>1 DEF Outcome
<1>3. n \in Fds /\ n # NoFd /\ n \notin open
  BY DEF Lowest, Free, Fds, NoFd
<1>4. /\ t \in Sessions /\ t.pc = pc /\ t.tick_timeout = s.tick_timeout
      /\ t.fd = s.fd /\ t.port_pasv_fd = s.port_pasv_fd /\ t.file = n
  BY <1>3 DEF Before, Sessions, Steps
<1>5. s.fd # NoFd /\ s.file = NoFd /\ FileOnly(t)
  BY <1>3, <1>4 DEF Before, Sessions, FileOnly, Fds, NoFd
<1>6. /\ Owns(t) = {s.fd, s.port_pasv_fd, n} \ {NoFd}
      /\ Owns(s) = {s.fd, s.port_pasv_fd} \ {NoFd}
  BY <1>4, <1>5 DEF Owns, Before
<1>7. ASSUME Apart(s), Owns(s) \subseteq open
      PROVE  /\ Apart(t)
             /\ open \cup {n} = (open \ Owns(s)) \cup Owns(t)
             /\ (open \ Owns(s)) \cap Owns(t) = {}
  <2>1. s.fd # s.port_pasv_fd /\ s.fd \in open /\ (s.port_pasv_fd \in open \/ s.port_pasv_fd = NoFd)
    BY <1>5, <1>6, <1>7 DEF Apart, Before
  <2>2. n # s.fd /\ n # s.port_pasv_fd
    BY <1>3, <2>1
  <2> QED BY <1>3, <1>4, <1>6, <1>7, <2>1, <2>2 DEF Apart, Before
<1> QED BY <1>2, <1>3, <1>4, <1>5, <1>7 DEF Good, Before

(***************************************************************************)
(* The commands.                                                            *)
(***************************************************************************)
LEMMA RepliesGood ==
  ASSUME NEW s, NEW open, Before(s, open), NEW t, Alike(s, t), NEW codes,
         NEW o \in Replies(t, open, codes)
  PROVE  Good(s, open, o)
  BY Untouched DEF Replies

LEMMA FailsGood ==
  ASSUME NEW s, NEW open, Before(s, open), NEW t, Alike(s, t), NEW o \in Fails(t, open)
  PROVE  Good(s, open, o)
  BY Untouched DEF Fails

LEMMA DroppedReplies ==
  ASSUME NEW s, NEW open, Before(s, open), NEW codes,
         NEW o \in Replies(DropData(s), open \ {s.port_pasv_fd}, codes)
  PROVE  Good(s, open, o)
<1>1. PICK code \in codes : o = Outcome(DropData(s), open \ {s.port_pasv_fd}, code, TRUE)
  BY DEF Replies
<1>2. Good(s, open, Outcome(DropData(s), open \ {s.port_pasv_fd}, code, TRUE))
  BY Dropped
<1> QED BY <1>1, <1>2

LEMMA PortGood ==
  ASSUME NEW s, NEW open, Before(s, open), NEW o \in port_cmd_fn(s, open)
  PROVE  Good(s, open, o)
<1> DEFINE rest == open \ {s.port_pasv_fd}
<1>1. CASE o \in Replies(DropData(s), rest, {425, 504})
  BY <1>1, DroppedReplies
<1>2. CASE \E n \in Lowest(rest) :
             o = Outcome([s EXCEPT !.port_pasv_fd = n], rest \cup {n}, 200, TRUE)
  <2>1. PICK n \in Lowest(rest) :
          o = Outcome([s EXCEPT !.port_pasv_fd = n], rest \cup {n}, 200, TRUE)
    BY <1>2
  <2>2. Good(s, open, Outcome([s EXCEPT !.port_pasv_fd = n], rest \cup {n}, 200, TRUE))
    BY Connected
  <2> QED BY <2>1, <2>2
<1> QED BY <1>1, <1>2 DEF port_cmd_fn

\* What the commands that open nothing make of a session is the same session.
LEMMA SameSession ==
  ASSUME NEW s \in Sessions
  PROVE  /\ Alike(s, s) /\ Alike(s, Reset(s))
         /\ \A dir \in Dirs : Alike(s, [s EXCEPT !.currentdir = dir])
         /\ \A at \in Nat : Alike(s, [s EXCEPT !.offset = at])
         /\ \A b \in BOOLEAN : Alike(s, [s EXCEPT !.is_anonymous = b, !.state = "PASSWD"])
         /\ Alike(s, [s EXCEPT !.currentdir = "root", !.state = "PROCESS"])
  BY DEF Alike, Sessions, Reset, Dirs

LEMMA LoginGood ==
  ASSUME NEW s, NEW open, Before(s, open), NEW name,
         NEW o \in user_cmd(s, open, name) \cup pass_cmd(s, open, name)
  PROVE  Good(s, open, o)
<1>1. s \in Sessions
  BY DEF Before
<1>2. CASE o \in user_cmd(s, open, name)
  <2>1. Alike(s, [s EXCEPT !.is_anonymous = TRUE, !.state = "PASSWD"])
    BY <1>1, SameSession
  <2>2. Alike(s, [s EXCEPT !.is_anonymous = FALSE, !.state = "PASSWD"])
    BY <1>1, SameSession
  <2>3. \/ o \in Replies([s EXCEPT !.is_anonymous = TRUE, !.state = "PASSWD"], open, {331})
        \/ o \in Replies([s EXCEPT !.is_anonymous = FALSE, !.state = "PASSWD"], open, {331})
        \/ o = Outcome(s, open, 530, FALSE)
        \/ o \in Replies(s, open, {502})
    BY <1>2, ZenonT(60) DEF user_cmd
  <2>4. Good(s, open, Outcome(s, open, 530, FALSE))
    BY <1>1, SameSession, Untouched, ZenonT(60)
  <2> QED BY <1>1, <2>1, <2>2, <2>3, <2>4, RepliesGood, SameSession, ZenonT(60)
<1>3. CASE o \in pass_cmd(s, open, name)
  <2>1. Alike(s, [s EXCEPT !.currentdir = "root", !.state = "PROCESS"])
    BY <1>1, SameSession
  <2>2. \/ o \in Replies([s EXCEPT !.currentdir = "root", !.state = "PROCESS"], open, {230})
        \/ o = Outcome(s, open, 530, FALSE)
        \/ o \in Replies(s, open, {502})
    BY <1>3, ZenonT(60) DEF pass_cmd
  <2>3. Good(s, open, Outcome(s, open, 530, FALSE))
    BY <1>1, SameSession, Untouched, ZenonT(60)
  <2> QED BY <1>1, <2>1, <2>2, <2>3, RepliesGood, SameSession, ZenonT(60)
<1> QED BY <1>2, <1>3

LEMMA DirectoryGood ==
  ASSUME NEW s, NEW open, Before(s, open), NEW dir \in Dirs, NEW there,
         NEW o \in cwd_cmd_fn(s, open, there, dir)
  PROVE  Good(s, open, o)
<1>1. Alike(s, [s EXCEPT !.currentdir = dir])
  BY SameSession DEF Before
<1> QED BY <1>1, RepliesGood, FailsGood DEF cwd_cmd_fn

LEMMA ListGood ==
  ASSUME NEW s, NEW open, Before(s, open), NEW there, NEW o \in list_cmd_fn(s, open, there)
  PROVE  Good(s, open, o)
<1>1. Alike(s, s)
  BY SameSession DEF Before
<1>2. \/ o \in Replies(s, open, {502}) \/ o \in Replies(s, open, {550}) \/ o \in Fails(s, open)
      \/ o \in Replies(DropData(s), open \ {s.port_pasv_fd}, {226})
  BY DEF list_cmd_fn
<1>3. ASSUME o \in Replies(DropData(s), open \ {s.port_pasv_fd}, {226}) PROVE Good(s, open, o)
  BY <1>3, DroppedReplies
<1> QED BY <1>1, <1>2, <1>3, RepliesGood, FailsGood

LEMMA RetrieveGood ==
  ASSUME NEW s, NEW open, Before(s, open), NEW there, NEW o \in retr_cmd_fn(s, open, there)
  PROVE  Good(s, open, o)
<1>1. Alike(s, s) /\ Alike(s, Reset(s))
  BY SameSession DEF Before
<1>2. Start(s) \in Nat
  BY DEF Start, Before, Sessions
<1>3. \/ \E codes : o \in Replies(Reset(s), open, codes)
      \/ o \in Fails(s, open)
      \/ o \in Transfers(s, open, "retr", Start(s))
  BY ZenonT(60) DEF retr_cmd_fn
<1> QED BY <1>1, <1>2, <1>3, RepliesGood, FailsGood, Opened

LEMMA StoreGood ==
  ASSUME NEW s, NEW open, Before(s, open), NEW there, NEW o \in stor_cmd_fn(s, open, there)
  PROVE  Good(s, open, o)
<1> DEFINE r == Reset(s)
<1>1. Alike(s, r)
  BY SameSession DEF Before
<1>2. \/ \E codes : o \in Replies(r, open, codes)
      \/ o \in Fails(r, open)
      \/ o \in Transfers(r, open, "stor", 0)
  BY ZenonT(60) DEF stor_cmd_fn
<1>3. Before(r, open) /\ Owns(r) = Owns(s) /\ (Apart(s) <=> Apart(r))
  BY <1>1 DEF Before, Alike, Owns, Apart, FileOnly
<1>4. ASSUME o \in Transfers(r, open, "stor", 0) PROVE Good(s, open, o)
  <2>1. Good(r, open, o)
    BY <1>3, <1>4, Opened
  <2> QED BY <1>1, <1>3, <2>1 DEF Good, Alike
<1> QED BY <1>1, <1>2, <1>4, RepliesGood, FailsGood

LEMMA CommandGood ==
  ASSUME NEW s, NEW open, Before(s, open), NEW cmd \in [name : Names, at : Nat],
         NEW there, NEW o \in ftp_session_process(s, open, there, cmd)
  PROVE  Good(s, open, o)
<1>1. s \in Sessions /\ Alike(s, s) /\ Alike(s, Reset(s))
      /\ \A at \in Nat : Alike(s, [s EXCEPT !.offset = at])
  BY SameSession DEF Before
<1>2. \/ o \in user_cmd(s, open, cmd.name) \/ o \in pass_cmd(s, open, cmd.name)
      \/ o \in ftp_session_cmd_process(s, open, there, cmd)
  <2>1. s.state \in {"USER", "PASSWD", "PROCESS"}
    BY <1>1 DEF Sessions
  <2> QED BY <2>1 DEF ftp_session_process
<1>3. ASSUME o \in ftp_session_cmd_process(s, open, there, cmd) PROVE Good(s, open, o)
  <2> DEFINE at == cmd.at
  <2>1. at \in Nat
    OBVIOUS
  <2>2. \/ o \in port_cmd_fn(s, open) \/ o \in list_cmd_fn(s, open, there)
        \/ o \in cwd_cmd_fn(s, open, there, "sub") \/ o \in cdup_cmd_fn(s, open, there)
        \/ o \in change_cmd_fn(s, open, there, cmd.name)
        \/ o \in rest_cmd_fn(s, open, at) \/ o \in retr_cmd_fn(s, open, there)
        \/ o \in stor_cmd_fn(s, open, there)
        \/ o = Outcome(s, open, 221, FALSE)
        \/ (\E codes : o \in Replies(s, open, codes)) \/ o \in Fails(s, open)
    BY <1>3, ZenonT(60) DEF ftp_session_cmd_process
  <2>3. ASSUME o \in rest_cmd_fn(s, open, at) PROVE Good(s, open, o)
    BY <1>1, <2>1, <2>3, RepliesGood DEF rest_cmd_fn
  <2>4. ASSUME o \in change_cmd_fn(s, open, there, cmd.name) PROVE Good(s, open, o)
    <3>1. \/ (\E codes : o \in Replies(s, open, codes)) \/ o \in Fails(s, open)
          \/ o \in Changed(s, open, there, cmd.name)
      BY <2>4, ZenonT(60) DEF change_cmd_fn
    <3>2. ASSUME o \in Changed(s, open, there, cmd.name) PROVE Good(s, open, o)
      BY <3>2, ChangedGood
    <3> QED BY <1>1, <3>1, <3>2, RepliesGood, FailsGood
  <2>5. Good(s, open, Outcome(s, open, 221, FALSE))
    BY <1>1, Untouched
  <2>6. ASSUME o \in cdup_cmd_fn(s, open, there) PROVE Good(s, open, o)
    <3>1. Up(s.currentdir) \in Dirs
      BY DEF Up, Dirs
    <3> QED BY <2>6, <3>1, DirectoryGood DEF cdup_cmd_fn
  <2>7. "sub" \in Dirs
    BY DEF Dirs
  <2>8. ASSUME (\E codes : o \in Replies(s, open, codes)) \/ o \in Fails(s, open)
        PROVE Good(s, open, o)
    BY <1>1, <2>8, RepliesGood, FailsGood
  <2> QED BY <2>2, <2>3, <2>4, <2>5, <2>6, <2>7, <2>8, PortGood, ListGood, DirectoryGood,
             RetrieveGood, StoreGood
<1> QED BY <1>2, <1>3, LoginGood

-----------------------------------------------------------------------------
(***************************************************************************)
(* The inductive invariant: types, and who holds what while the TCP_NODELAY *)
(* option has not failed.                                                   *)
(***************************************************************************)
ListenerType ==
  /\ lpc \in {"delay", "start", "top", "select"} /\ server_fd \in Fds \cup {NoFd}
  /\ force_restart \in BOOLEAN
  /\ lpc \in {"delay", "start"} <=> server_fd = NoFd
  /\ fds \subseteq Fds /\ now \in 0 .. TickMod - 1

SessType ==
  /\ sess \in [Clients -> Sessions \cup {NoSession}]
  /\ \A c \in Live : sess[c].tick_timeout < TickMod /\ FileOnly(sess[c])

\* A client without a session has no connection, or waits for accept.
ConnType ==
  /\ conn \in [Clients -> {"none", "queued", "open", "closing"}]
  /\ inbox \in [Clients -> Names \cup {"none"}]
  /\ \A c \in Live : conn[c] \in {"open", "closing"}

\* A client starts again within what it has.
HaveType ==
  /\ have \in [Clients -> Seq(Nat)] /\ asked \in [Clients -> Nat]
  /\ \A c \in Clients : asked[c] <= Len(have[c])

\* Every descriptor but the console's and the listener's has one owner.
OwnInv ==
  /\ 0 \in fds /\ (server_fd # NoFd => server_fd \in fds \ {0})
  /\ \A c \in Live : Apart(sess[c]) /\ Owns(sess[c]) \subseteq fds \ {0, server_fd}
  /\ \A c, d \in Live : c # d => Owns(sess[c]) \cap Owns(sess[d]) = {}
  /\ \A n \in fds \ {0, server_fd} : \E c \in Live : n \in Owns(sess[c])

IInv ==
  /\ ListenerType /\ SessType /\ ConnType /\ HaveType
  /\ ~odd => OwnInv

LEMMA LiveSession ==
  ASSUME SessType, NEW c \in Live
  PROVE  c \in Clients /\ sess[c] \in Sessions /\ sess[c] # NoSession
  BY DEF SessType, Live

-----------------------------------------------------------------------------
(***************************************************************************)
(* A step of the thread of session c, which makes its record t.             *)
(***************************************************************************)
Exchanges(c, t) ==
  Apart(sess[c]) =>
    /\ Apart(t)
    /\ fds' = (fds \ Owns(sess[c])) \cup Owns(t)
    /\ (fds \ Owns(sess[c])) \cap Owns(t) = {}

Moves(c, t) ==
  /\ c \in Live /\ t \in Sessions /\ FileOnly(t) /\ t.tick_timeout < TickMod
  /\ sess' = [sess EXCEPT ![c] = t]
  /\ UNCHANGED <<listener, now>> /\ fds' \subseteq Fds
  /\ ~odd' => ~odd /\ Exchanges(c, t)

LEMMA MovesLive ==
  ASSUME SessType, NEW c, NEW t, Moves(c, t)
  PROVE  Live' = Live /\ SessType'
<1>1. c \in Clients /\ t # NoSession
  BY FtpAssumption DEF Moves, Live
<1>2. Live' = Live
  BY <1>1 DEF Moves, Live, SessType
<1> QED BY <1>1, <1>2 DEF Moves, SessType

LEMMA MovesOwn ==
  ASSUME SessType, OwnInv, NEW c, NEW t, Moves(c, t), Exchanges(c, t)
  PROVE  OwnInv'
<1> DEFINE Old(d) == Owns(sess[d])
           New(d) == Owns(sess'[d])
<1>1. c \in Live /\ Live' = Live /\ server_fd' = server_fd /\ c \in Clients
  BY MovesLive DEF Moves, listener, Live
<1>2. /\ \A d \in Live : d # c => sess'[d] = sess[d]
      /\ sess'[c] = t
  BY <1>1 DEF Moves, SessType
<1>3. Apart(t) /\ fds' = (fds \ Old(c)) \cup New(c) /\ (fds \ Old(c)) \cap New(c) = {}
  BY <1>1, <1>2 DEF Exchanges, OwnInv
<1>4. \A d \in Live : d # c => New(d) = Old(d) /\ Old(d) \cap Old(c) = {}
  BY <1>1, <1>2 DEF OwnInv
<1>5. 0 \in fds' /\ (server_fd # NoFd => server_fd \in fds' \ {0}) /\ 0 \notin New(c)
  BY <1>1, <1>3 DEF OwnInv
<1>6. server_fd \notin New(c)
  <2>1. CASE server_fd = NoFd
    <3>1. t.fd # NoFd
      BY DEF Moves, Sessions, Fds, NoFd
    <3> QED BY <1>2, <2>1, <3>1 DEF Owns
  <2>2. CASE server_fd # NoFd
    BY <1>1, <1>3, <2>2 DEF OwnInv
  <2> QED BY <2>1, <2>2
<1>7. \A d \in Live : Apart(sess'[d]) /\ New(d) \subseteq fds' \ {0, server_fd}
  <2>1. ASSUME NEW d \in Live, d # c PROVE Apart(sess'[d]) /\ New(d) \subseteq fds' \ {0, server_fd}
    BY <1>2, <1>3, <1>4, <2>1 DEF OwnInv
  <2> QED BY <1>2, <1>3, <1>5, <1>6, <2>1
<1>8. ASSUME NEW d \in Live, NEW e \in Live, d # e PROVE New(d) \cap New(e) = {}
  <2>1. ASSUME NEW f \in Live, f # c PROVE New(f) \cap New(c) = {}
    <3>1. New(f) \subseteq fds \ Old(c)
      BY <1>4, <2>1 DEF OwnInv
    <3> QED BY <1>3, <3>1
  <2> QED BY <1>4, <1>8, <2>1 DEF OwnInv
<1>9. \A n \in fds' \ {0, server_fd} : \E d \in Live : n \in New(d)
  <2> SUFFICES ASSUME NEW n \in fds' \ {0, server_fd} PROVE \E d \in Live : n \in New(d)
    OBVIOUS
  <2>1. CASE n \in New(c)
    BY <1>1, <2>1
  <2>2. CASE n \in fds \ Old(c)
    <3>1. PICK d \in Live : n \in Old(d)
      BY <2>2 DEF OwnInv
    <3> QED BY <1>4, <2>2, <3>1
  <2> QED BY <1>3, <2>1, <2>2
<1> QED BY <1>1, <1>5, <1>7, <1>8, <1>9 DEF OwnInv

LEMMA MovesInv ==
  ASSUME IInv, NEW c, NEW t, Moves(c, t)
  PROVE  ListenerType' /\ SessType' /\ Live' = Live /\ (~odd' => OwnInv')
<1>1. ListenerType'
  BY DEF IInv, ListenerType, Moves, listener
<1>2. SessType' /\ Live' = Live
  BY MovesLive DEF IInv
<1>3. ASSUME ~odd' PROVE OwnInv'
  BY <1>3, MovesOwn DEF IInv, Moves
<1> QED BY <1>1, <1>2, <1>3

LEMMA DueType == ASSUME ListenerType PROVE Due \in 0 .. TickMod - 1
<1>1. TickMod \in Nat \ {0} /\ Timeout \in Nat /\ now \in Nat
  BY FtpAssumption DEF ListenerType
<1> QED BY <1>1, SMT DEF Due

-----------------------------------------------------------------------------
(***************************************************************************)
(* The steps of a session.                                                  *)
(***************************************************************************)
\* A step that opens and closes nothing.
LEMMA StaysMoves ==
  ASSUME IInv, NEW c \in Live, NEW t, t \in Sessions, t.tick_timeout < TickMod,
         t.fd = sess[c].fd, t.port_pasv_fd = sess[c].port_pasv_fd, t.file = sess[c].file,
         \/ t.pc = sess[c].pc
         \/ {t.pc, sess[c].pc} \cap {"begin", "retr", "stor"} = {},
         sess' = [sess EXCEPT ![c] = t], fds' = fds,
         UNCHANGED <<listener, now, odd>>
  PROVE  Moves(c, t)
<1>1. FileOnly(t)
  BY DEF IInv, SessType, FileOnly
<1>2. Owns(t) = Owns(sess[c]) /\ (Apart(sess[c]) => Apart(t))
  BY DEF Owns, Apart
<1>3. ~odd => Owns(sess[c]) \subseteq fds
  BY DEF IInv, OwnInv
<1>4. ~odd => Exchanges(c, t)
  BY <1>2, <1>3 DEF Exchanges
<1> QED BY <1>1, <1>4 DEF Moves, IInv, ListenerType

LEMMA GoesMoves ==
  ASSUME IInv, NEW c \in Live, NEW pc \in Steps \ {"begin", "retr", "stor"},
         sess[c].pc \notin {"begin", "retr", "stor"},
         Goes(c, pc), fds' = fds, UNCHANGED <<listener, now, odd>>
  PROVE  Moves(c, [sess[c] EXCEPT !.pc = pc])
<1> DEFINE t == [sess[c] EXCEPT !.pc = pc]
<1>1. sess[c] \in Sessions /\ c \in Clients /\ sess[c].tick_timeout < TickMod
  BY LiveSession DEF IInv, SessType
<1>2. /\ t \in Sessions /\ t.pc = pc /\ t.tick_timeout = sess[c].tick_timeout
      /\ t.fd = sess[c].fd /\ t.port_pasv_fd = sess[c].port_pasv_fd /\ t.file = sess[c].file
  BY <1>1 DEF Sessions
<1>3. sess' = [sess EXCEPT ![c] = t]
  BY DEF Goes
<1> QED BY <1>1, <1>2, <1>3, StaysMoves

LEMMA AtLive == ASSUME NEW c \in Clients, NEW pc, At(c, pc) PROVE c \in Live /\ sess[c].pc = pc
  BY DEF At, Live

LEMMA GoesInv ==
  ASSUME IInv, NEW c \in Clients, Loop(c) \/ Check(c) \/ ReadFails(c)
  PROVE  IInv'
<1>1. c \in Live /\ sess[c].pc \in {"loop", "check", "select"}
  BY AtLive DEF Loop, Check, ReadFails
<1>2. \E pc \in {"loop", "select", "exit"} : Goes(c, pc)
  BY DEF Loop, Check, ReadFails
<1>3. UNCHANGED <<listener, fds, now, conn, have, asked, odd>>
  BY DEF Loop, Check, ReadFails, clients, transfer, history
<1>4. \E t : Moves(c, t)
  BY <1>1, <1>2, <1>3, GoesMoves DEF Steps
<1>5. ListenerType' /\ SessType' /\ Live' = Live /\ (~odd' => OwnInv')
  BY <1>4, MovesInv
<1>6. ConnType'
  BY <1>3, <1>5 DEF Loop, Check, ReadFails, clients, IInv, ConnType
<1>7. HaveType'
  BY <1>3 DEF IInv, HaveType
<1> QED BY <1>5, <1>6, <1>7 DEF IInv

LEMMA BeginInv ==
  ASSUME IInv, NEW c \in Clients, Begin(c)
  PROVE  IInv'
<1>1. c \in Live /\ sess[c].pc = "begin" /\ sess[c] \in Sessions /\ FileOnly(sess[c])
      /\ sess[c].tick_timeout < TickMod
  BY AtLive, LiveSession DEF Begin, IInv, SessType
<1>2. sess[c].file = NoFd /\ sess[c].fd # NoFd
  BY <1>1 DEF FileOnly, Sessions, Fds, NoFd
<1>3. Due \in Nat /\ Due < TickMod
  BY DueType, FtpAssumption DEF IInv
<1>8. UNCHANGED <<listener, now>> /\ fds' = fds /\ fds \subseteq Fds
  BY DEF Begin, IInv, ListenerType
<1>4. ASSUME sess' = [sess EXCEPT ![c] = [@ EXCEPT !.pc = "loop", !.port_pasv_fd = NoFd,
                                                 !.tick_timeout = Due]],
             UNCHANGED odd
      PROVE  \E t : Moves(c, t)
  <2> DEFINE t == [sess[c] EXCEPT !.pc = "loop", !.port_pasv_fd = NoFd, !.tick_timeout = Due]
  <2>1. /\ t \in Sessions /\ t.pc = "loop" /\ t.tick_timeout = Due
        /\ t.fd = sess[c].fd /\ t.port_pasv_fd = NoFd /\ t.file = sess[c].file
    BY <1>1, <1>3 DEF Sessions, Steps
  <2>2. Owns(t) = {t.fd} /\ Owns(sess[c]) = {t.fd} /\ Apart(t) /\ FileOnly(t)
    BY <1>1, <1>2, <2>1 DEF Owns, Apart, FileOnly
  <2>3. ~odd => Exchanges(c, t)
    BY <1>1, <1>8, <2>2 DEF Exchanges, IInv, OwnInv
  <2>4. sess' = [sess EXCEPT ![c] = t]
    BY <1>4
  <2>5. Moves(c, t)
    BY <1>1, <1>3, <1>4, <1>8, <2>1, <2>2, <2>3, <2>4 DEF Moves
  <2> QED BY <2>5
<1>5. ASSUME Goes(c, "exit"), odd' = TRUE PROVE \E t : Moves(c, t)
  <2> DEFINE t == [sess[c] EXCEPT !.pc = "exit"]
  <2>1. t \in Sessions /\ t.pc = "exit" /\ t.tick_timeout < TickMod /\ FileOnly(t)
    BY <1>1, <1>2 DEF Sessions, Steps, FileOnly
  <2>2. sess' = [sess EXCEPT ![c] = t]
    BY <1>5 DEF Goes
  <2>3. Moves(c, t)
    BY <1>1, <1>5, <1>8, <2>1, <2>2 DEF Moves
  <2> QED BY <2>3
<1>6. \E t : Moves(c, t)
  BY <1>4, <1>5 DEF Begin
<1>7. ListenerType' /\ SessType' /\ Live' = Live /\ (~odd' => OwnInv')
  BY <1>6, MovesInv
<1> QED BY <1>7 DEF IInv, ConnType, HaveType, Begin, clients, transfer, history

LEMMA ProcessInv ==
  ASSUME IInv, NEW c \in Clients, Process(c)
  PROVE  IInv'
<1> DEFINE s == sess[c]
           cmd == [name |-> inbox[c], at |-> Len(have[c])]
<1>1. /\ c \in Live /\ s.pc = "select" /\ s \in Sessions /\ FileOnly(s)
      /\ s.tick_timeout < TickMod
  BY AtLive, LiveSession, ZenonT(60) DEF Process, IInv, SessType
<1>2. cmd \in [name : Names, at : Nat]
  <2>1. inbox[c] \in Names
    BY DEF Process, IInv, ConnType
  <2>2. Len(have[c]) \in Nat
    BY DEF IInv, HaveType
  <2> QED BY <2>1, <2>2
<1>3. PICK o \in ftp_session_process(s, fds, tree, cmd) :
        LET busy == o.s.pc \in {"retr", "stor"} IN
        /\ fds' = o.fds
        /\ sess' = [sess EXCEPT ![c] =
                      IF ~o.ok THEN [o.s EXCEPT !.pc = "exit"]
                      ELSE IF busy THEN o.s
                      ELSE [o.s EXCEPT !.pc = "check", !.tick_timeout = Due]]
        /\ inbox' = [inbox EXCEPT ![c] = IF busy THEN @ ELSE "none"]
        /\ asked' = [asked EXCEPT ![c] = AskedAfter(c, o, cmd)]
        /\ have' = [have EXCEPT ![c] =
             IF o.s.pc = "retr" THEN SubSeq(@, 1, asked[c]) ELSE @]
  BY Zenon DEF Process
<1> DEFINE busy == o.s.pc \in {"retr", "stor"}
           t == IF ~o.ok THEN [o.s EXCEPT !.pc = "exit"]
                ELSE IF busy THEN o.s
                ELSE [o.s EXCEPT !.pc = "check", !.tick_timeout = Due]
<1>4. Good(s, fds, o)
  <2>1. Before(s, fds)
    BY <1>1 DEF Before, IInv, ListenerType
  <2> QED BY <1>2, <2>1, CommandGood
<1>5. UNCHANGED <<listener, now>> /\ UNCHANGED <<conn, odd>>
  BY DEF Process
<1>6. Due \in Nat /\ Due < TickMod
  BY DueType, FtpAssumption DEF IInv
<1>7. /\ t \in Sessions /\ t.tick_timeout < TickMod
      /\ t.fd = o.s.fd /\ t.port_pasv_fd = o.s.port_pasv_fd /\ t.file = o.s.file
      /\ IF busy THEN t.pc = o.s.pc ELSE t.pc \in {"check", "exit"} /\ o.s.pc = "select"
  <2>1. /\ o.s \in Sessions /\ o.s.tick_timeout < TickMod /\ o.ok \in BOOLEAN
        /\ o.s.pc \in {"select", "retr", "stor"} /\ (~o.ok => o.s.pc = "select")
    BY <1>1, <1>4 DEF Good
  <2>2. CASE ~o.ok
    BY <2>1, <2>2 DEF Sessions, Steps
  <2>3. CASE o.ok /\ busy
    BY <2>1, <2>3
  <2>4. CASE o.ok /\ ~busy
    BY <1>6, <2>1, <2>4 DEF Sessions, Steps
  <2> QED BY <2>1, <2>2, <2>3, <2>4
<1>8. FileOnly(t) /\ Owns(t) = Owns(o.s) /\ (Apart(t) <=> Apart(o.s))
  BY <1>4, <1>7 DEF Good, FileOnly, Owns, Apart
<1>9. fds' = o.fds /\ fds' \subseteq Fds /\ sess' = [sess EXCEPT ![c] = t]
  BY <1>3, <1>4 DEF Good
<1>10. ~odd => Exchanges(c, t)
  <2>1. ~odd => Apart(s) /\ Owns(s) \subseteq fds
    BY <1>1 DEF IInv, OwnInv
  <2> QED BY <1>4, <1>8, <1>9, <2>1 DEF Good, Exchanges
<1>11. Moves(c, t)
  BY <1>1, <1>5, <1>7, <1>8, <1>9, <1>10 DEF Moves
<1>12. ListenerType' /\ SessType' /\ Live' = Live /\ (~odd' => OwnInv')
  BY <1>11, MovesInv
<1>13. ConnType'
  BY <1>3, <1>5, <1>12 DEF IInv, ConnType
<1>14. HaveType'
  <2> DEFINE new == IF o.s.pc = "retr" THEN SubSeq(have[c], 1, asked[c]) ELSE have[c]
             next == AskedAfter(c, o, cmd)
  <2>1. /\ have \in [Clients -> Seq(Nat)] /\ asked \in [Clients -> Nat]
        /\ asked[c] \in 0 .. Len(have[c]) /\ have[c] \in Seq(Nat)
    BY DEF IInv, HaveType
  <2>2. next \in {Len(have[c]), 0, asked[c]} /\ (next = Len(have[c]) => o.reply = 350 \/ next \in {0, asked[c]})
    BY DEF AskedAfter
  <2>3. CASE o.s.pc = "retr"
    <3>1. o.reply = 150
      BY <1>4, <2>3 DEF Good
    <3>2. next \in {0, asked[c]}
      BY <3>1 DEF AskedAfter
    <3>3. new \in Seq(Nat) /\ Len(new) = asked[c]
      BY <2>1, <2>3
    <3> QED BY <1>3, <2>1, <3>2, <3>3 DEF IInv, HaveType
  <2>4. CASE o.s.pc # "retr"
    <3>1. new = have[c] /\ next \in 0 .. Len(new)
      BY <2>1, <2>2, <2>4
    <3> QED BY <1>3, <2>1, <3>1 DEF IInv, HaveType
  <2> QED BY <2>3, <2>4
<1> QED BY <1>12, <1>13, <1>14 DEF IInv

LEMMA FinishesInv ==
  ASSUME IInv, NEW c \in Clients, sess[c] # NoSession, sess[c].pc \in {"retr", "stor"},
         NEW ok \in BOOLEAN, Finishes(c, ok), have' = have
  PROVE  IInv'
<1> DEFINE s == sess[c]
           d == DropFile(DropData(s))
           t == IF ok THEN [Reset(d) EXCEPT !.pc = "check", !.tick_timeout = Due, !.pos = 0]
                ELSE [d EXCEPT !.pc = "exit", !.pos = 0]
<1>1. c \in Live /\ s \in Sessions /\ FileOnly(s) /\ s.tick_timeout < TickMod
  BY LiveSession DEF IInv, SessType, Live
<1>2. Due \in Nat /\ Due < TickMod
  BY DueType, FtpAssumption DEF IInv
<1>3. /\ d \in Sessions /\ d.fd = s.fd /\ d.port_pasv_fd = NoFd /\ d.file = NoFd
      /\ d.tick_timeout = s.tick_timeout
  BY <1>1 DEF DropFile, DropData, Sessions
<1>4. /\ t \in Sessions /\ t.tick_timeout < TickMod /\ t.pc \in {"check", "exit"}
      /\ t.fd = s.fd /\ t.port_pasv_fd = NoFd /\ t.file = NoFd
  <2>1. CASE ok
    <3>1. /\ Reset(d) \in Sessions /\ Reset(d).fd = s.fd /\ Reset(d).port_pasv_fd = NoFd
          /\ Reset(d).file = NoFd
      BY <1>3 DEF Reset, Sessions
    <3> QED BY <1>2, <2>1, <3>1 DEF Sessions, Steps
  <2>2. CASE ~ok
    BY <1>1, <1>3, <2>2 DEF Sessions, Steps
  <2> QED BY <2>1, <2>2
<1>5. s.fd # NoFd /\ NoFd \notin fds
  BY <1>1 DEF Sessions, Fds, NoFd, IInv, ListenerType
<1>6. FileOnly(t) /\ Apart(t) /\ Owns(t) = {s.fd} /\ Owns(s) = {s.fd, s.port_pasv_fd, s.file} \ {NoFd}
  BY <1>4, <1>5 DEF FileOnly, Apart, Owns
<1>7. /\ fds' = fds \ {s.file, s.port_pasv_fd} /\ sess' = [sess EXCEPT ![c] = t]
      /\ UNCHANGED <<listener, now>> /\ UNCHANGED <<conn, odd>>
      /\ inbox' = [inbox EXCEPT ![c] = "none"]
      /\ asked' = [asked EXCEPT ![c] = IF ok THEN 0 ELSE @]
  BY DEF Finishes
<1>8. ASSUME ~odd PROVE Exchanges(c, t)
  <2>1. s.fd \in fds /\ Apart(s) /\ Owns(s) \subseteq fds
    BY <1>1, <1>5, <1>6, <1>8 DEF IInv, OwnInv
  <2>2. s.fd # s.port_pasv_fd /\ s.fd # s.file
    BY <2>1 DEF Apart
  <2> QED BY <1>5, <1>6, <1>7, <2>1, <2>2 DEF Exchanges
<1>9. fds' \subseteq Fds
  BY <1>7 DEF IInv, ListenerType
<1>10. Moves(c, t)
  BY <1>1, <1>4, <1>6, <1>7, <1>8, <1>9 DEF Moves
<1>11. ListenerType' /\ SessType' /\ Live' = Live /\ (~odd' => OwnInv')
  BY <1>10, MovesInv
<1> QED BY <1>7, <1>11 DEF IInv, ConnType, HaveType

LEMMA TransferInv ==
  ASSUME IInv, NEW c \in Clients, Transfer(c)
  PROVE  IInv'
<1>1. sess[c] # NoSession /\ sess[c].pc \in {"retr", "stor"}
  BY DEF Transfer, Retrieve, RetrieveEnds, Receive, ReceiveEnds, At
<1>2. CASE \E ok \in BOOLEAN : Finishes(c, ok) /\ have' = have
  BY <1>1, <1>2, FinishesInv
<1>3. CASE /\ sess' = [sess EXCEPT ![c].pos = @ + 1]
           /\ have' = [have EXCEPT ![c] = Append(@, sess[c].pos + 1)]
           /\ UNCHANGED <<listener, fds, now, clients, stored, tree, history, idle, odd>>
  <2> DEFINE t == [sess[c] EXCEPT !.pos = @ + 1]
  <2>1. c \in Live /\ sess[c] \in Sessions /\ sess[c].tick_timeout < TickMod
    BY <1>1, LiveSession DEF IInv, SessType, Live
  <2>2. /\ t \in Sessions /\ t.pc = sess[c].pc /\ t.tick_timeout = sess[c].tick_timeout
        /\ t.fd = sess[c].fd /\ t.port_pasv_fd = sess[c].port_pasv_fd /\ t.file = sess[c].file
    BY <2>1 DEF Sessions
  <2>3. sess' = [sess EXCEPT ![c] = t] /\ UNCHANGED <<listener, now, odd>> /\ fds' = fds
    BY <1>3
  <2>4. Moves(c, t)
    BY <2>1, <2>2, <2>3, StaysMoves
  <2>5. ListenerType' /\ SessType' /\ Live' = Live /\ (~odd' => OwnInv')
    BY <2>4, MovesInv
  <2>6. HaveType'
    <3>1. sess[c].pos \in Nat
      BY <2>1 DEF Sessions
    <3>2. /\ Append(have[c], sess[c].pos + 1) \in Seq(Nat)
          /\ Len(Append(have[c], sess[c].pos + 1)) = Len(have[c]) + 1
      BY <3>1 DEF IInv, HaveType
    <3> QED BY <1>3, <3>2 DEF IInv, HaveType, history
  <2> QED BY <1>3, <2>5, <2>6 DEF IInv, ConnType, clients
<1>4. CASE UNCHANGED <<have, tree, listener, sess, fds, now, clients, history, idle, odd>>
  BY <1>4 DEF IInv, ListenerType, SessType, ConnType, HaveType, OwnInv, Live,
              listener, clients, history
<1> QED BY <1>2, <1>3, <1>4, Zenon
       DEF Transfer, Retrieve, RetrieveEnds, Receive, ReceiveEnds, transfer

LEMMA ExitInv ==
  ASSUME IInv, NEW c \in Clients, Exit(c)
  PROVE  IInv'
<1> DEFINE s == sess[c]
<1>1. c \in Live /\ s.pc = "exit" /\ s \in Sessions /\ FileOnly(s)
  BY AtLive, LiveSession DEF Exit, IInv, SessType
<1>2. /\ sess' = [sess EXCEPT ![c] = NoSession] /\ fds' = fds \ {s.fd, s.port_pasv_fd}
      /\ UNCHANGED <<listener, now, have, odd>>
      /\ asked' = [asked EXCEPT ![c] = 0]
      /\ conn' = [conn EXCEPT ![c] = "none"] /\ inbox' = [inbox EXCEPT ![c] = "none"]
  BY DEF Exit, transfer
<1>3. Live' = Live \ {c} /\ \A d \in Live' : sess'[d] = sess[d]
  BY <1>1, <1>2 DEF Live, IInv, SessType
<1>4. ListenerType' /\ SessType' /\ ConnType' /\ HaveType'
  BY <1>2, <1>3 DEF IInv, ListenerType, SessType, ConnType, HaveType, listener
<1>5. ASSUME ~odd' PROVE OwnInv'
  <2>1. OwnInv
    BY <1>2, <1>5 DEF IInv
  <2>2. Owns(s) = {s.fd, s.port_pasv_fd} \ {NoFd} /\ NoFd \notin fds
    BY <1>1 DEF Owns, FileOnly, IInv, ListenerType, Fds, NoFd
  <2>3. fds' = fds \ Owns(s) /\ 0 \notin Owns(s) /\ server_fd \notin Owns(s)
    BY <1>1, <1>2, <2>1, <2>2 DEF OwnInv
  <2>4. server_fd' = server_fd
    BY <1>2 DEF listener
  <2>5. 0 \in fds' /\ (server_fd # NoFd => server_fd \in fds' \ {0})
    BY <2>1, <2>3 DEF OwnInv
  <2>6. \A d \in Live' : /\ Apart(sess'[d]) /\ Owns(sess'[d]) = Owns(sess[d])
                         /\ Owns(sess[d]) \subseteq fds' \ {0, server_fd}
    BY <1>1, <1>3, <2>1, <2>3 DEF OwnInv
  <2>7. \A d, e \in Live' : d # e => Owns(sess'[d]) \cap Owns(sess'[e]) = {}
    BY <1>3, <2>1 DEF OwnInv
  <2>8. \A n \in fds' \ {0, server_fd} : \E d \in Live' : n \in Owns(sess'[d])
    BY <1>3, <2>1, <2>3 DEF OwnInv
  <2> QED BY <2>4, <2>5, <2>6, <2>7, <2>8 DEF OwnInv
<1> QED BY <1>4, <1>5 DEF IInv

LEMMA SessionInv ==
  ASSUME IInv, NEW c \in Clients, Session(c)
  PROVE  IInv'
  BY GoesInv, BeginInv, ProcessInv, TransferInv, ExitInv DEF Session

-----------------------------------------------------------------------------
(***************************************************************************)
(* The steps of the listener, the clients and the tick.                     *)
(***************************************************************************)
\* A step after which every session holds what it held.
Keeps ==
  /\ Live' = Live /\ sess' \in [Clients -> Sessions \cup {NoSession}]
  /\ \A c \in Live : /\ sess'[c].tick_timeout < TickMod /\ FileOnly(sess'[c])
                     /\ Owns(sess'[c]) = Owns(sess[c])
                     /\ Apart(sess[c]) => Apart(sess'[c])

LEMMA KeepsAll == ASSUME SessType, sess' = sess PROVE Keeps
  BY DEF Keeps, SessType, Live

\* The listener closes its socket.
LEMMA DownInv ==
  ASSUME IInv, Keeps, Down, UNCHANGED <<now, odd>>, force_restart' \in BOOLEAN
  PROVE  ListenerType' /\ SessType' /\ (~odd' => OwnInv')
<1>1. fds' = fds \ {server_fd} /\ server_fd' = NoFd /\ NoFd \notin fds
  BY DEF Down, IInv, ListenerType, Fds, NoFd
<1>2. ListenerType'
  BY <1>1 DEF Down, IInv, ListenerType
<1>3. SessType'
  BY DEF Keeps, SessType
<1>4. ASSUME ~odd' PROVE OwnInv'
  BY <1>1, <1>4 DEF IInv, OwnInv, Keeps
<1> QED BY <1>2, <1>3, <1>4

LEMMA LeaveQueueType ==
  ASSUME ConnType, Live' = Live, LeaveQueue, inbox' = inbox
  PROVE  ConnType'
  BY DEF ConnType, LeaveQueue, Live

LEMMA RestartInv == ASSUME IInv, Restart PROVE IInv'
<1>1. sess' = [c \in Clients |->
                 IF c \in Live THEN [sess[c] EXCEPT !.force_quit = TRUE] ELSE NoSession]
  BY DEF Restart
<1>2. \A c \in Live :
        /\ sess'[c] \in Sessions /\ sess'[c].tick_timeout = sess[c].tick_timeout
        /\ sess'[c].pc = sess[c].pc /\ sess'[c].fd = sess[c].fd
        /\ sess'[c].port_pasv_fd = sess[c].port_pasv_fd /\ sess'[c].file = sess[c].file
  <2> SUFFICES ASSUME NEW c \in Live
               PROVE  /\ sess'[c] \in Sessions /\ sess'[c].tick_timeout = sess[c].tick_timeout
                      /\ sess'[c].pc = sess[c].pc /\ sess'[c].fd = sess[c].fd
                      /\ sess'[c].port_pasv_fd = sess[c].port_pasv_fd
                      /\ sess'[c].file = sess[c].file
    OBVIOUS
  <2>1. sess[c] \in Sessions /\ sess'[c] = [sess[c] EXCEPT !.force_quit = TRUE]
    BY <1>1, LiveSession DEF IInv, Live
  <2> QED BY <2>1 DEF Sessions
<1>3. sess' \in [Clients -> Sessions \cup {NoSession}] /\ Live' = Live
  <2>1. \A c \in Clients : sess'[c] \in Sessions \cup {NoSession} /\ (c \in Live <=> sess'[c] # NoSession)
    BY <1>1, <1>2, FtpAssumption
  <2> QED BY <1>1, <2>1 DEF Live
<1>4. Keeps
  BY <1>2, <1>3 DEF Keeps, IInv, SessType, FileOnly, Owns, Apart
<1>5. UNCHANGED <<now, inbox, have, asked, odd>> /\ force_restart' \in BOOLEAN /\ Down /\ LeaveQueue
  BY DEF Restart, transfer, history
<1> QED BY <1>3, <1>4, <1>5, DownInv, LeaveQueueType DEF IInv, HaveType

LEMMA ListenerFailsInv == ASSUME IInv, ListenerFails PROVE IInv'
<1>1. UNCHANGED <<now, inbox, have, asked, odd, force_restart, sess>> /\ Down /\ LeaveQueue
  BY DEF ListenerFails, transfer, history
<1>2. Keeps
  BY <1>1, KeepsAll DEF IInv
<1>3. force_restart' \in BOOLEAN /\ Live' = Live
  BY <1>1 DEF IInv, ListenerType, Live
<1> QED BY <1>1, <1>2, <1>3, DownInv, LeaveQueueType DEF IInv, HaveType

LEMMA ListenInv == ASSUME IInv, Listen PROVE IInv'
<1>1. UNCHANGED <<force_restart, sess, now, conn, inbox, have, asked, odd>>
  BY DEF Listen, clients, transfer, history
<1>2. SessType' /\ ConnType' /\ HaveType' /\ Live' = Live
  BY <1>1 DEF IInv, SessType, ConnType, HaveType, Live
<1>3. server_fd = NoFd
  BY DEF Listen, IInv, ListenerType
<1>4. CASE lpc' = "delay" /\ UNCHANGED <<server_fd, fds>>
  BY <1>1, <1>2, <1>3, <1>4 DEF IInv, ListenerType, OwnInv
<1>5. CASE /\ \E fd \in Lowest(fds) : server_fd' = fd /\ fds' = fds \cup {fd}
           /\ lpc' = "top"
  <2>1. PICK fd \in Lowest(fds) : server_fd' = fd /\ fds' = fds \cup {fd}
    BY <1>5
  <2>2. fd \in Fds /\ fd \notin fds /\ fd # NoFd /\ NoFd \notin fds
    BY DEF Lowest, Free, Fds, NoFd, IInv, ListenerType
  <2>3. ListenerType'
    BY <1>1, <1>5, <2>1, <2>2 DEF IInv, ListenerType
  <2>4. ASSUME ~odd' PROVE OwnInv'
    <3>1. OwnInv
      BY <1>1, <2>4 DEF IInv
    <3>2. 0 \in fds' /\ server_fd' \in fds' \ {0}
      BY <2>1, <2>2, <3>1 DEF OwnInv
    <3>3. \A c \in Live : Apart(sess[c]) /\ Owns(sess[c]) \subseteq fds' \ {0, server_fd'}
      BY <2>1, <2>2, <3>1 DEF OwnInv
    <3>4. \A n \in fds' \ {0, server_fd'} : \E c \in Live : n \in Owns(sess[c])
      BY <1>3, <2>1, <2>2, <3>1 DEF OwnInv
    <3> QED BY <1>1, <1>2, <3>1, <3>2, <3>3, <3>4 DEF OwnInv
  <2> QED BY <1>2, <2>3, <2>4 DEF IInv
<1> QED BY <1>4, <1>5 DEF Listen

LEMMA AcceptInv ==
  ASSUME IInv, NEW c \in Clients, AcceptConnection(c)
  PROVE  IInv'
<1>1. UNCHANGED <<server_fd, force_restart, now, inbox, have, asked, odd>> /\ lpc' = "top"
      /\ lpc = "select"
  BY DEF AcceptConnection, transfer
<1>2. c \notin Live
  BY DEF AcceptConnection, IInv, ConnType
<1>3. CASE conn' = [conn EXCEPT ![c] = "none"] /\ UNCHANGED <<sess, fds>>
  BY <1>1, <1>2, <1>3 DEF IInv, ListenerType, SessType, ConnType, HaveType, OwnInv, Live
<1>4. CASE /\ \E fd \in Lowest(fds) :
                sess' = [sess EXCEPT ![c] = NewSession(fd)] /\ fds' = fds \cup {fd}
           /\ conn' = [conn EXCEPT ![c] = "open"]
  <2>1. PICK fd \in Lowest(fds) :
          sess' = [sess EXCEPT ![c] = NewSession(fd)] /\ fds' = fds \cup {fd}
    BY <1>4
  <2> DEFINE t == NewSession(fd)
  <2>2. fd \in Fds /\ fd \notin fds /\ 0 \in Fds
    BY FtpSizes DEF Lowest, Free, Fds
  <2>3. t \in Sessions /\ t.pc = "begin" /\ t.fd = fd /\ t.file = NoFd /\ t.tick_timeout = 0
    BY <2>2 DEF NewSession, Sessions, Dirs, Steps
  <2>4. Owns(t) = {fd} /\ Apart(t) /\ FileOnly(t) /\ t.tick_timeout < TickMod
    BY <2>3, FtpAssumption DEF Owns, Apart, FileOnly
  <2>5. /\ Live' = Live \cup {c} /\ sess'[c] = t
        /\ \A d \in Live : sess'[d] = sess[d]
    BY <1>2, <2>1, <2>3, FtpAssumption DEF Live, IInv, SessType
  <2>6. ListenerType'
    BY <1>1, <2>1, <2>2 DEF IInv, ListenerType
  <2>7. SessType'
    BY <2>1, <2>3, <2>4, <2>5 DEF IInv, SessType
  <2>8. ConnType' /\ HaveType'
    BY <1>1, <1>4, <2>5 DEF IInv, ConnType, HaveType
  <2>9. ASSUME ~odd' PROVE OwnInv'
    <3>1. OwnInv
      BY <1>1, <2>9 DEF IInv
    <3>2. fd # 0 /\ fd # server_fd
      BY <2>2, <3>1 DEF OwnInv, Fds, NoFd
    <3>3. 0 \in fds' /\ (server_fd # NoFd => server_fd \in fds' \ {0})
      BY <2>1, <3>1 DEF OwnInv
    <3>4. \A d \in Live' : Apart(sess'[d]) /\ Owns(sess'[d]) \subseteq fds' \ {0, server_fd}
      BY <2>1, <2>4, <2>5, <3>1, <3>2 DEF OwnInv
    <3>5. \A d \in Live : Owns(sess'[d]) \cap {fd} = {}
      BY <2>2, <2>5, <3>1 DEF OwnInv
    <3>6. \A d, e \in Live' : d # e => Owns(sess'[d]) \cap Owns(sess'[e]) = {}
      BY <2>4, <2>5, <3>1, <3>5 DEF OwnInv
    <3>7. \A n \in fds' \ {0, server_fd} : \E d \in Live' : n \in Owns(sess'[d])
      BY <2>1, <2>4, <2>5, <3>1 DEF OwnInv
    <3> QED BY <1>1, <3>3, <3>4, <3>6, <3>7 DEF OwnInv
  <2> QED BY <2>6, <2>7, <2>8, <2>9 DEF IInv
<1> QED BY <1>3, <1>4, Zenon DEF AcceptConnection

LEMMA TickInv == ASSUME IInv, Tick PROVE IInv'
<1>1. /\ UNCHANGED <<server_fd, force_restart, fds, conn, inbox, have, asked, odd>>
      /\ now' = (now + 1) % TickMod /\ lpc' = (IF lpc = "delay" THEN "start" ELSE "top")
      /\ lpc \in {"delay", "select"}
      /\ sess' = [c \in Clients |->
                    IF At(c, "select") THEN [sess[c] EXCEPT !.pc = "check"] ELSE sess[c]]
  BY DEF Tick, clients, transfer, history
<1>2. now' \in 0 .. TickMod - 1
  BY <1>1, FtpAssumption, SMT DEF IInv, ListenerType
<1>3. \A c \in Live :
        /\ sess'[c] \in Sessions /\ sess'[c].tick_timeout = sess[c].tick_timeout
        /\ sess'[c].pc = (IF sess[c].pc = "select" THEN "check" ELSE sess[c].pc)
        /\ sess'[c].fd = sess[c].fd
        /\ sess'[c].port_pasv_fd = sess[c].port_pasv_fd /\ sess'[c].file = sess[c].file
  <2> SUFFICES ASSUME NEW c \in Live
               PROVE  /\ sess'[c] \in Sessions /\ sess'[c].tick_timeout = sess[c].tick_timeout
                      /\ sess'[c].pc = (IF sess[c].pc = "select" THEN "check" ELSE sess[c].pc)
                      /\ sess'[c].fd = sess[c].fd
                      /\ sess'[c].port_pasv_fd = sess[c].port_pasv_fd
                      /\ sess'[c].file = sess[c].file
    OBVIOUS
  <2>1. /\ sess[c] \in Sessions
        /\ sess'[c] = IF sess[c].pc = "select" THEN [sess[c] EXCEPT !.pc = "check"] ELSE sess[c]
    BY <1>1, LiveSession DEF IInv, Live, At
  <2> QED BY <2>1 DEF Sessions, Steps
<1>4. sess' \in [Clients -> Sessions \cup {NoSession}] /\ Live' = Live
  <2>1. \A c \in Clients : sess'[c] \in Sessions \cup {NoSession} /\ (c \in Live <=> sess'[c] # NoSession)
    BY <1>1, <1>3, FtpAssumption DEF Live, At
  <2> QED BY <1>1, <2>1 DEF Live
<1>5. Keeps
  BY <1>3, <1>4 DEF Keeps, IInv, SessType, FileOnly, Owns, Apart
<1>6. ListenerType' /\ SessType'
  BY <1>1, <1>2, <1>5 DEF IInv, ListenerType, SessType, Keeps
<1>7. ConnType' /\ HaveType'
  BY <1>1, <1>4 DEF IInv, ConnType, HaveType
<1>8. ASSUME ~odd' PROVE OwnInv'
  BY <1>1, <1>5, <1>8 DEF IInv, OwnInv, Keeps
<1> QED BY <1>6, <1>7, <1>8 DEF IInv

LEMMA ClientInv ==
  ASSUME IInv, (\E c \in Clients : Client(c)) \/ Waits \/ ftp_force_restart
  PROVE  IInv'
<1>1. UNCHANGED <<server_fd, sess, fds, now, have, asked, odd>>
  BY DEF Client, Connect, SendCommand, Leave, Waits, ftp_force_restart, listener, transfer, history
<1>2. ListenerType'
  BY <1>1 DEF IInv, ListenerType, Client, Connect, SendCommand, Leave, Waits,
              ftp_force_restart, listener
<1>3. SessType' /\ HaveType' /\ Live' = Live /\ (~odd' => OwnInv')
  BY <1>1 DEF IInv, SessType, HaveType, OwnInv, Live
<1>4. ConnType'
  <2>1. \A d \in Live : conn[d] \in {"open", "closing"}
    BY DEF IInv, ConnType
  <2>2. CASE \E c \in Clients : Connect(c)
    BY <1>3, <2>1, <2>2 DEF IInv, ConnType, Connect
  <2>3. CASE \E c \in Clients : SendCommand(c)
    <3>1. \A c \in Clients : May[c] \subseteq Names
      BY FtpAssumption
    <3> QED BY <1>3, <2>3, <3>1 DEF IInv, ConnType, SendCommand
  <2>4. CASE \E c \in Clients : Leave(c)
    BY <1>3, <2>1, <2>4 DEF IInv, ConnType, Leave
  <2>5. CASE Waits \/ ftp_force_restart
    BY <1>3, <2>5 DEF IInv, ConnType, Waits, ftp_force_restart, clients
  <2> QED BY <2>2, <2>3, <2>4, <2>5 DEF Client
<1> QED BY <1>2, <1>3, <1>4 DEF IInv

-----------------------------------------------------------------------------
LEMMA InitInv == ASSUME Init PROVE IInv
<1>1. Live = {}
  BY DEF Init, Live, For
<1>2. ListenerType
  <2>1. 0 \in Fds /\ 0 \in 0 .. TickMod - 1
    BY FtpSizes, FtpAssumption DEF Fds
  <2> QED BY <2>1 DEF Init, ListenerType
<1>3. SessType
  BY <1>1 DEF Init, SessType, For
<1>4. ConnType
  BY <1>1 DEF Init, ConnType, For
<1>5. HaveType
  BY DEF Init, HaveType, For
<1>6. OwnInv
  BY <1>1 DEF Init, OwnInv, NoFd
<1> QED BY <1>2, <1>3, <1>4, <1>5, <1>6 DEF IInv

LEMMA NextInv == ASSUME IInv, [Next]_vars PROVE IInv'
<1>1. CASE Listener
  BY <1>1, ListenInv, RestartInv, ClientInv, ListenerFailsInv, AcceptInv DEF Listener
<1>2. CASE Tick
  BY <1>2, TickInv
<1>3. CASE ftp_force_restart
  BY <1>3, ClientInv
<1>4. ASSUME NEW c \in Clients, Session(c) \/ Client(c) PROVE IInv'
  BY <1>4, SessionInv, ClientInv
<1>5. CASE UNCHANGED vars
  BY <1>5 DEF vars, listener, clients, transfer, history, IInv, ListenerType, SessType,
              ConnType, HaveType, OwnInv, Live
<1> QED BY <1>1, <1>2, <1>3, <1>4, <1>5 DEF Next

LEMMA Invariance == Spec => []IInv
<1> QED BY InitInv, NextInv, PTL DEF Spec

(***************************************************************************)
(* The variables of the server have their types: ftp.c and ftp_session.c,   *)
(* for every number of clients, sessions and descriptors.                   *)
(***************************************************************************)
THEOREM TypeCorrect == Spec => []TypeOK
<1>1. IInv => TypeOK
  BY LiveSession DEF IInv, ListenerType, SessType, ConnType, TypeOK
<1> QED BY Invariance, <1>1, PTL

(***************************************************************************)
(* Whatever commands the clients send, and whichever call fails, every open *)
(* descriptor has one owner: port_cmd_fn, the transfers and                 *)
(* ftp_session_delete close what they hold, once, and nothing else, until a *)
(* setsockopt of ftp_client_entry fails.                                    *)
(***************************************************************************)
THEOREM DescriptorsKept == Spec => []DescriptorsOwned
<1>1. ASSUME IInv PROVE DescriptorsOwned
  <2> SUFFICES ASSUME ~odd PROVE
        /\ fds = {0} \cup ({server_fd} \ {NoFd}) \cup UNION {Owners[c] : c \in Live}
        /\ \A c \in Live : 0 \notin Owners[c] /\ server_fd \notin Owners[c]
        /\ \A c, d \in Live : c # d => Owners[c] \cap Owners[d] = {}
    BY DEF DescriptorsOwned
  <2>1. OwnInv
    BY <1>1 DEF IInv
  <2>2. \A c \in Live : Owners[c] = Owns(sess[c])
    BY DEF Owners, Owns, Held
  <2>3. \A n : n \in UNION {Owners[c] : c \in Live} <=> \E c \in Live : n \in Owns(sess[c])
    BY <2>2
  <2>4. \A n : n \in fds <=> \/ n = 0 \/ (n = server_fd /\ n # NoFd)
                             \/ \E c \in Live : n \in Owns(sess[c])
    <3>1. NoFd \notin fds
      BY <1>1 DEF IInv, ListenerType, Fds, NoFd
    <3> QED BY <2>1, <3>1 DEF OwnInv
  <2>5. fds = {0} \cup ({server_fd} \ {NoFd}) \cup UNION {Owners[c] : c \in Live}
    BY <2>3, <2>4
  <2> QED BY <2>1, <2>2, <2>5 DEF OwnInv
<1> QED BY Invariance, <1>1, PTL

-----------------------------------------------------------------------------
\* Only accept brings a session.
LEMMA LiveShrinks ==
  ASSUME SessType, [Next]_vars, \A c \in Clients : ~AcceptConnection(c)
  PROVE  Live' \subseteq Live
<1> SUFFICES ASSUME NEW d \in Clients, sess[d] = NoSession PROVE sess'[d] = NoSession
  BY DEF Live
<1>1. CASE sess' = sess
  BY <1>1
<1>2. CASE \E c \in Clients : Session(c) /\ sess' # sess
  <2>1. PICK c \in Clients : Session(c) /\ sess' # sess
    BY <1>2
  <2>2. sess[c] # NoSession
    BY <2>1 DEF Session, Begin, Loop, ReadFails, Process, Transfer, Retrieve, RetrieveEnds,
                Receive, ReceiveEnds, Check, Exit, At
  <2>3. \E t : sess' = [sess EXCEPT ![c] = t]
    <3>1. CASE Begin(c)
      BY <3>1 DEF Begin, Goes
    <3>2. CASE Loop(c) \/ ReadFails(c) \/ Check(c) \/ Exit(c)
      BY <3>2 DEF Loop, ReadFails, Check, Exit, Goes
    <3>3. CASE Process(c)
      BY <3>3 DEF Process
    <3>4. CASE Transfer(c)
      BY <2>1, <3>4 DEF Transfer, Retrieve, RetrieveEnds, Receive, ReceiveEnds, Finishes
    <3> QED BY <2>1, <3>1, <3>2, <3>3, <3>4 DEF Session
  <2> QED BY <2>2, <2>3 DEF SessType
<1>3. CASE Restart
  BY <1>3 DEF Restart, Live
<1>4. CASE Tick
  BY <1>4 DEF Tick, At
<1>5. sess' = sess \/ (\E c \in Clients : Session(c)) \/ Restart \/ Tick
  BY DEF Next, Listener, Listen, Waits, ListenerFails, ftp_force_restart, Client, Connect,
         SendCommand, Leave, vars
<1> QED BY <1>1, <1>2, <1>3, <1>4, <1>5

(***************************************************************************)
(* With finitely many clients the list never holds more sessions than       *)
(* ftp_max_session_num: what ftp_session_create measures before it appends. *)
(***************************************************************************)
THEOREM LimitKept == IsFiniteSet(Clients) => (Spec => []SessionLimit)
<1> SUFFICES ASSUME IsFiniteSet(Clients) PROVE Spec => []SessionLimit
  OBVIOUS
<1>1. IsFiniteSet(Live) /\ Cardinality(Live) \in Nat
  BY FS_Subset, FS_CardinalityType DEF Live
<1>2. Init => SessionLimit
  <2> SUFFICES ASSUME Init PROVE SessionLimit
    OBVIOUS
  <2>1. Live = {}
    BY DEF Init, Live, For
  <2> QED BY <2>1, FS_EmptySet, FtpAssumption DEF SessionLimit
<1>3. ASSUME IInv, SessionLimit, [Next]_vars PROVE SessionLimit'
  <2>1. CASE \A c \in Clients : ~AcceptConnection(c)
    <3>1. Live' \in SUBSET Live
      BY <1>3, <2>1, LiveShrinks DEF IInv
    <3>2. Cardinality(Live') <= Cardinality(Live) /\ Cardinality(Live') \in Nat
      BY <1>1, <3>1, FS_Subset, FS_CardinalityType
    <3> QED BY <1>1, <1>3, <3>2, FtpAssumption DEF SessionLimit
  <2>2. ASSUME NEW c \in Clients, AcceptConnection(c) PROVE SessionLimit'
    <3>1. CASE UNCHANGED sess
      BY <1>3, <3>1 DEF SessionLimit, Live
    <3>2. CASE Room /\ Live' \subseteq Live \cup {c}
      <4>1. /\ IsFiniteSet(Live \cup {c})
            /\ Cardinality(Live \cup {c}) = IF c \in Live THEN Cardinality(Live)
                                            ELSE Cardinality(Live) + 1
        BY <1>1, FS_AddElement, Zenon
      <4>2. Cardinality(Live') <= Cardinality(Live \cup {c}) /\ Cardinality(Live') \in Nat
        BY <3>2, <4>1, FS_Subset, FS_CardinalityType
      <4> QED BY <1>1, <3>2, <4>1, <4>2, FtpAssumption DEF SessionLimit, Room
    <3>3. ASSUME NEW fd, sess' = [sess EXCEPT ![c] = NewSession(fd)]
          PROVE Live' \subseteq Live \cup {c}
      <4> SUFFICES ASSUME NEW d \in Clients, d # c PROVE sess'[d] = sess[d]
        BY DEF Live
      <4> QED BY <1>3, <3>3 DEF IInv, SessType
    <3> QED BY <2>2, <3>1, <3>2, <3>3 DEF AcceptConnection
  <2> QED BY <2>1, <2>2
<1> QED BY Invariance, <1>2, <1>3, PTL DEF Spec

-----------------------------------------------------------------------------
(***************************************************************************)
(* Who is logged in, and where: what a command does to the login and to the *)
(* working directory of its session.                                        *)
(***************************************************************************)
Moving == {"CWD sub", "CDUP"}

LoginCodes == {230, 331}

\* The login and the directory of s stay, and the reply claims no other.
Stays(s, o) ==
  /\ o.s.state = s.state /\ o.s.is_anonymous = s.is_anonymous
  /\ o.s.currentdir = s.currentdir /\ o.s.pc \in {s.pc, "retr"}
  /\ o.reply \notin LoginCodes

Stores(s, o) ==
  /\ o.s.state = s.state /\ o.s.is_anonymous = s.is_anonymous /\ ~s.is_anonymous
  /\ o.s.currentdir = s.currentdir /\ o.s.pc = "stor" /\ o.reply \notin LoginCodes

Turns(s, there, o) ==
  /\ o.s.state = s.state /\ o.s.is_anonymous = s.is_anonymous /\ o.s.pc = s.pc
  /\ o.reply \notin LoginCodes
  /\ o.reply = 250 => o.s.currentdir \in Openable(there)

Names1(s, o, cmd) ==
  /\ o.reply = 331 /\ o.s.state = "PASSWD" /\ o.s.pc = s.pc
  /\ \/ cmd.name = "USER admin" /\ ~o.s.is_anonymous
     \/ cmd.name = "USER anonymous" /\ o.s.is_anonymous

Enters(s, o, cmd) ==
  /\ o.reply = 230 /\ o.s.state = "PROCESS" /\ o.s.currentdir = "root" /\ o.s.pc = s.pc
  /\ o.s.is_anonymous = s.is_anonymous /\ (s.is_anonymous \/ cmd.name = "PASS admin")

\* A session that is s but for its offset and its data connection.
Same(s, t) ==
  /\ t.state = s.state /\ t.is_anonymous = s.is_anonymous
  /\ t.currentdir = s.currentdir /\ t.pc = s.pc

LEMMA SameParts ==
  ASSUME NEW s \in Sessions
  PROVE  /\ Same(s, s) /\ Same(s, Reset(s)) /\ Same(s, DropData(s))
         /\ \A n : Same(s, [s EXCEPT !.port_pasv_fd = n]) /\ Same(s, [s EXCEPT !.offset = n])
  BY DEF Same, Reset, DropData, Sessions

LEMMA OutcomeStays ==
  ASSUME NEW s, NEW t, Same(s, t), NEW open, NEW reply, reply \notin LoginCodes, NEW ok
  PROVE  Stays(s, Outcome(t, open, reply, ok))
<1>1. Outcome(t, open, reply, ok).s = t /\ Outcome(t, open, reply, ok).reply = reply
  BY DEF Outcome
<1> QED BY <1>1 DEF Stays, Same

LEMMA RepliesStay ==
  ASSUME NEW s, NEW t, Same(s, t), NEW open, NEW codes, codes \cap LoginCodes = {},
         NEW o \in Replies(t, open, codes)
  PROVE  Stays(s, o)
  BY DEF Replies, Outcome, Stays, Same

LEMMA FailsStay ==
  ASSUME NEW s, NEW t, Same(s, t), NEW open, NEW o \in Fails(t, open)
  PROVE  Stays(s, o)
  BY DEF Fails, Outcome, Stays, Same, LoginCodes

LEMMA HandlersStay ==
  ASSUME NEW s \in Sessions, NEW open, NEW there, NEW name, NEW at \in Nat,
         NEW o \in port_cmd_fn(s, open) \cup list_cmd_fn(s, open, there)
                     \cup change_cmd_fn(s, open, there, name)
                     \cup rest_cmd_fn(s, open, at) \cup retr_cmd_fn(s, open, there)
  PROVE  Stays(s, o)
<1>0. /\ Same(s, s) /\ Same(s, Reset(s)) /\ Same(s, DropData(s))
      /\ \A n : Same(s, [s EXCEPT !.port_pasv_fd = n]) /\ Same(s, [s EXCEPT !.offset = n])
  BY SameParts
<1>1. \A codes \in SUBSET {150, 200, 213, 215, 221, 226, 250, 257, 350, 425, 502, 504, 550} :
        codes \cap LoginCodes = {}
  BY DEF LoginCodes
<1>2. CASE o \in port_cmd_fn(s, open)
  <2>1. CASE o \in Replies(DropData(s), open \ {s.port_pasv_fd}, {425, 504})
    BY <1>0, <1>1, <2>1, RepliesStay
  <2>2. CASE \E n, rest : o = Outcome([s EXCEPT !.port_pasv_fd = n], rest, 200, TRUE)
    <3>1. PICK n, rest : o = Outcome([s EXCEPT !.port_pasv_fd = n], rest, 200, TRUE)
      BY <2>2
    <3>2. Same(s, [s EXCEPT !.port_pasv_fd = n])
      BY <1>0, Zenon
    <3>3. 200 \notin LoginCodes
      BY DEF LoginCodes
    <3> QED BY <3>1, <3>2, <3>3, OutcomeStays
  <2> QED BY <1>2, <2>1, <2>2, ZenonT(60) DEF port_cmd_fn
<1>3. CASE o \in list_cmd_fn(s, open, there)
  <2>1. \/ o \in Replies(s, open, {502}) \/ o \in Replies(s, open, {550}) \/ o \in Fails(s, open)
        \/ o \in Replies(DropData(s), open \ {s.port_pasv_fd}, {226})
    BY <1>3 DEF list_cmd_fn
  <2> QED BY <1>0, <1>1, <2>1, RepliesStay, FailsStay
<1>4. CASE o \in change_cmd_fn(s, open, there, name)
  <2>1. \/ o \in Replies(s, open, {550}) \/ o \in Fails(s, open)
        \/ o \in Changed(s, open, there, name)
    BY <1>4 DEF change_cmd_fn
  <2>2. ASSUME o \in Changed(s, open, there, name) PROVE Stays(s, o)
    BY <2>2, ChangedParts DEF Stays, LoginCodes
  <2> QED BY <1>0, <1>1, <2>1, <2>2, RepliesStay, FailsStay
<1>5. CASE o \in rest_cmd_fn(s, open, at)
  <2>1. o \in Replies([s EXCEPT !.offset = at], open, {350})
    BY <1>5 DEF rest_cmd_fn
  <2>2. Same(s, [s EXCEPT !.offset = at])
    BY <1>0, Zenon
  <2> QED BY <1>1, <2>1, <2>2, RepliesStay
<1>6. CASE o \in retr_cmd_fn(s, open, there)
  <2>1. \/ o \in Replies(Reset(s), open, {502}) \/ o \in Replies(Reset(s), open, {550})
        \/ o \in Fails(s, open) \/ o \in Transfers(s, open, "retr", Start(s))
    BY <1>6, Zenon DEF retr_cmd_fn
  <2>2. ASSUME o \in Transfers(s, open, "retr", Start(s)) PROVE Stays(s, o)
    <3>1. PICK n : o = Outcome([s EXCEPT !.file = n, !.pos = Start(s), !.pc = "retr"],
                               open \cup {n}, 150, TRUE)
      BY <2>2 DEF Transfers
    <3> DEFINE t == [s EXCEPT !.file = n, !.pos = Start(s), !.pc = "retr"]
    <3>2. /\ t.state = s.state /\ t.is_anonymous = s.is_anonymous
          /\ t.currentdir = s.currentdir /\ t.pc = "retr"
      BY DEF Sessions
    <3>3. o.s = t /\ o.reply = 150
      BY <3>1 DEF Outcome
    <3> QED BY <3>2, <3>3 DEF Stays, LoginCodes
  <2> QED BY <1>0, <1>1, <2>1, <2>2, RepliesStay, FailsStay
<1> QED BY <1>2, <1>3, <1>4, <1>5, <1>6

LEMMA StoreStores ==
  ASSUME NEW s \in Sessions, NEW open, NEW there, NEW o \in stor_cmd_fn(s, open, there)
  PROVE  Stays(s, o) \/ Stores(s, o)
<1> DEFINE r == Reset(s)
<1>1. Same(s, r) /\ r \in Sessions
  BY SameParts DEF Reset, Sessions
<1>2. \/ o \in Replies(r, open, {502}) \/ o \in Replies(r, open, {550}) \/ o \in Fails(r, open)
      \/ o \in Transfers(r, open, "stor", 0) /\ ~s.is_anonymous
  BY Zenon DEF stor_cmd_fn
<1>3. {502} \cap LoginCodes = {} /\ {550} \cap LoginCodes = {}
  BY DEF LoginCodes
<1>4. ASSUME o \in Transfers(r, open, "stor", 0), ~s.is_anonymous PROVE Stores(s, o)
  <2>1. PICK n : o = Outcome([r EXCEPT !.file = n, !.pos = 0, !.pc = "stor"],
                             open \cup {n}, 150, TRUE)
    BY <1>4 DEF Transfers
  <2> DEFINE t == [r EXCEPT !.file = n, !.pos = 0, !.pc = "stor"]
  <2>2. /\ t.state = r.state /\ t.is_anonymous = r.is_anonymous
        /\ t.currentdir = r.currentdir /\ t.pc = "stor"
    BY <1>1 DEF Sessions
  <2>3. o.s = t /\ o.reply = 150
    BY <2>1 DEF Outcome
  <2> QED BY <1>1, <1>4, <2>2, <2>3 DEF Stores, LoginCodes, Same
<1> QED BY <1>1, <1>2, <1>3, <1>4, RepliesStay, FailsStay

LEMMA DirectoryTurns ==
  ASSUME NEW s \in Sessions, NEW open, NEW there, NEW dir \in Dirs,
         NEW o \in cwd_cmd_fn(s, open, there, dir)
  PROVE  Turns(s, there, o)
<1> DEFINE m == [s EXCEPT !.currentdir = dir]
<1>1. /\ m.state = s.state /\ m.is_anonymous = s.is_anonymous /\ m.pc = s.pc
      /\ m.currentdir = dir
  BY DEF Sessions
<1>2. \/ o = Outcome(m, open, 250, TRUE) /\ dir \in Openable(there)
      \/ o = Outcome(m, open, 550, TRUE) \/ o = Outcome(m, open, 0, FALSE)
  BY ZenonT(60) DEF cwd_cmd_fn, Replies, Fails
<1>3. o.s = m /\ (o.reply = 250 => dir \in Openable(there)) /\ o.reply \in {0, 250, 550}
  BY <1>2 DEF Outcome
<1> QED BY <1>1, <1>3 DEF Turns, LoginCodes

LEMMA CommandEffect ==
  ASSUME NEW s \in Sessions, NEW open, NEW cmd \in [name : Names, at : Nat],
         NEW there, NEW o \in ftp_session_process(s, open, there, cmd)
  PROVE  \/ Stays(s, o) /\ (s.state = "PROCESS" => cmd.name \notin Moving)
         \/ Stores(s, o) /\ s.state = "PROCESS" /\ cmd.name \notin Moving
         \/ Turns(s, there, o) /\ s.state = "PROCESS" /\ cmd.name \in Moving
         \/ Names1(s, o, cmd) /\ s.state = "USER"
         \/ Enters(s, o, cmd) /\ s.state = "PASSWD"
<1> DEFINE name == cmd.name
<1>0. s.state \in {"USER", "PASSWD", "PROCESS"} /\ Same(s, s) /\ cmd.at \in Nat
  BY SameParts DEF Sessions
<1>4. ASSUME o = Outcome(s, open, 530, FALSE) \/ o = Outcome(s, open, 502, TRUE)
      PROVE Stays(s, o)
  <2>1. o.s = s /\ o.reply \in {502, 530}
    BY <1>4 DEF Outcome
  <2> QED BY <2>1 DEF Stays, LoginCodes
<1>1. CASE s.state = "USER"
  <2>1. o \in user_cmd(s, open, name)
    BY <1>1 DEF ftp_session_process
  <2> DEFINE t(b) == [s EXCEPT !.is_anonymous = b, !.state = "PASSWD"]
  <2>2. \/ name = "USER anonymous" /\ o = Outcome(t(TRUE), open, 331, TRUE)
        \/ name = "USER admin" /\ o = Outcome(t(FALSE), open, 331, TRUE)
        \/ o = Outcome(s, open, 530, FALSE) \/ o = Outcome(s, open, 502, TRUE)
    BY <2>1, ZenonT(60) DEF user_cmd, Replies
  <2>3. \A b \in BOOLEAN : t(b).state = "PASSWD" /\ t(b).is_anonymous = b /\ t(b).pc = s.pc
    BY DEF Sessions
  <2>4. ASSUME NEW b \in BOOLEAN, o = Outcome(t(b), open, 331, TRUE)
        PROVE o.reply = 331 /\ o.s.state = "PASSWD" /\ o.s.pc = s.pc /\ o.s.is_anonymous = b
    <3>1. o.s = t(b) /\ o.reply = 331
      BY <2>4 DEF Outcome
    <3> QED BY <2>3, <3>1
  <2>5. CASE name = "USER anonymous" /\ o = Outcome(t(TRUE), open, 331, TRUE)
    BY <1>1, <2>4, <2>5, ZenonT(60) DEF Names1
  <2>6. CASE name = "USER admin" /\ o = Outcome(t(FALSE), open, 331, TRUE)
    BY <1>1, <2>4, <2>6 DEF Names1
  <2>8. CASE o = Outcome(s, open, 530, FALSE) \/ o = Outcome(s, open, 502, TRUE)
    BY <1>1, <1>4, <2>8
  <2> QED BY <2>2, <2>5, <2>6, <2>8
<1>2. CASE s.state = "PASSWD"
  <2>1. o \in pass_cmd(s, open, name)
    BY <1>2 DEF ftp_session_process
  <2> DEFINE t == [s EXCEPT !.currentdir = "root", !.state = "PROCESS"]
  <2>2. \/ (s.is_anonymous \/ name = "PASS admin") /\ o = Outcome(t, open, 230, TRUE)
        \/ o = Outcome(s, open, 530, FALSE) \/ o = Outcome(s, open, 502, TRUE)
    BY <2>1, ZenonT(60) DEF pass_cmd, Replies
  <2>3. /\ t.state = "PROCESS" /\ t.currentdir = "root" /\ t.pc = s.pc
        /\ t.is_anonymous = s.is_anonymous
    BY DEF Sessions
  <2>4. CASE (s.is_anonymous \/ name = "PASS admin") /\ o = Outcome(t, open, 230, TRUE)
    <3>1. o.s = t /\ o.reply = 230
      BY <2>4 DEF Outcome
    <3> QED BY <1>2, <2>3, <2>4, <3>1, ZenonT(60) DEF Enters
  <2>6. CASE o = Outcome(s, open, 530, FALSE) \/ o = Outcome(s, open, 502, TRUE)
    BY <1>2, <1>4, <2>6
  <2> QED BY <2>2, <2>4, <2>6
<1>3. CASE s.state = "PROCESS"
  <2>1. o \in ftp_session_cmd_process(s, open, there, cmd)
    BY <1>3 DEF ftp_session_process
  <2>2. CASE name \in Moving
    <3>1. o \in cwd_cmd_fn(s, open, there, "sub") \/ o \in cdup_cmd_fn(s, open, there)
      <4>1. CASE name = "CWD sub"
        BY <2>1, <4>1 DEF ftp_session_cmd_process, Listings, Changes, Queries, Constant
      <4>2. CASE name = "CDUP"
        BY <2>1, <4>2 DEF ftp_session_cmd_process, Listings, Changes, Queries, Constant
      <4> QED BY <2>2, <4>1, <4>2 DEF Moving
    <3>2. "sub" \in Dirs /\ Up(s.currentdir) \in Dirs
      BY DEF Dirs, Up
    <3>3. \E dir \in Dirs : o \in cwd_cmd_fn(s, open, there, dir)
      BY <3>1, <3>2, Zenon DEF cdup_cmd_fn
    <3> QED BY <1>3, <2>2, <3>3, DirectoryTurns
  <2>3. CASE name \notin Moving
    <3>1. \/ o \in port_cmd_fn(s, open) \/ o \in list_cmd_fn(s, open, there)
          \/ o \in change_cmd_fn(s, open, there, name) \/ o \in rest_cmd_fn(s, open, cmd.at)
          \/ o \in retr_cmd_fn(s, open, there) \/ o \in stor_cmd_fn(s, open, there)
          \/ o = Outcome(s, open, 221, FALSE)
          \/ o \in Replies(s, open, {213, 257, 550}) \/ o \in Fails(s, open)
          \/ o \in Replies(s, open, {200, 215}) \/ o \in Replies(s, open, {502})
      BY <2>1, <2>3, Zenon DEF ftp_session_cmd_process, Moving
    <3>2. /\ {213, 257, 550} \cap LoginCodes = {} /\ {200, 215} \cap LoginCodes = {}
          /\ {502} \cap LoginCodes = {}
      BY DEF LoginCodes
    <3>3. Stays(s, Outcome(s, open, 221, FALSE))
      <4>1. 221 \notin LoginCodes
        BY DEF LoginCodes
      <4> QED BY <1>0, <4>1, OutcomeStays, ZenonT(60)
    <3>5. CASE \/ o \in port_cmd_fn(s, open) \/ o \in list_cmd_fn(s, open, there)
               \/ o \in change_cmd_fn(s, open, there, name)
               \/ o \in rest_cmd_fn(s, open, cmd.at) \/ o \in retr_cmd_fn(s, open, there)
      <4>1. Stays(s, o)
        BY <1>0, <3>5, HandlersStay
      <4> QED BY <1>3, <2>3, <4>1
    <3>6. CASE o \in stor_cmd_fn(s, open, there)
      <4>1. Stays(s, o) \/ Stores(s, o)
        BY <3>6, StoreStores
      <4> QED BY <1>3, <2>3, <4>1
    <3>7. ASSUME \/ o \in Replies(s, open, {213, 257, 550}) \/ o \in Fails(s, open)
                 \/ o \in Replies(s, open, {200, 215}) \/ o \in Replies(s, open, {502})
          PROVE Stays(s, o)
      BY <1>0, <3>2, <3>7, RepliesStay, FailsStay
    <3> QED BY <1>3, <2>3, <3>1, <3>3, <3>5, <3>6, <3>7, ZenonT(60)
  <2> QED BY <2>2, <2>3
<1> QED BY <1>0, <1>1, <1>2, <1>3

(***************************************************************************)
(* The login of a session is the one its client gave, and only a session of *)
(* the administrator stores; its directory is the one it was told.          *)
(***************************************************************************)
AccessOf(s, who, told, there) ==
  /\ s.state = "PASSWD" /\ ~s.is_anonymous => who = "named"
  /\ s.state = "PROCESS" /\ ~s.is_anonymous => who = "admin"
  /\ s.pc = "stor" => s.state = "PROCESS" /\ ~s.is_anonymous
  /\ s.state = "PROCESS" /\ told => s.currentdir \in Openable(there)

AccessInv ==
  /\ login \in [Clients -> {"nobody", "named", "anonymous", "admin"}]
  /\ confirmed \in [Clients -> BOOLEAN]
  /\ stored \in [Clients -> Int]
  /\ \A c \in Live : AccessOf(sess[c], login[c], confirmed[c], tree)

\* What every step but a command leaves of a session.
Calm(s, t) ==
  /\ t.state = s.state /\ t.is_anonymous = s.is_anonymous /\ t.currentdir = s.currentdir
  /\ t.pc = "stor" => s.pc = "stor"

LEMMA CalmParts ==
  ASSUME NEW s \in Sessions
  PROVE  /\ \A pc \in {"loop", "select", "check", "exit"} : Calm(s, [s EXCEPT !.pc = pc])
         /\ \A n, m : Calm(s, [s EXCEPT !.pc = "loop", !.port_pasv_fd = n, !.tick_timeout = m])
         /\ \A n : Calm(s, [s EXCEPT !.pos = n]) /\ Calm(s, [s EXCEPT !.force_quit = TRUE])
         /\ Calm(s, s)
  BY DEF Calm, Sessions

LEMMA FinishedCalm ==
  ASSUME NEW s \in Sessions, NEW due
  PROVE  LET d == DropFile(DropData(s)) IN
         /\ Calm(s, [Reset(d) EXCEPT !.pc = "check", !.tick_timeout = due, !.pos = 0])
         /\ Calm(s, [d EXCEPT !.pc = "exit", !.pos = 0])
  BY DEF DropFile, DropData, Reset, Calm, Sessions

LEMMA SessionCalm ==
  ASSUME SessType, NEW c \in Clients, Session(c), ~Process(c)
  PROVE  Exit(c) \/ UNCHANGED sess \/ \E t : sess' = [sess EXCEPT ![c] = t] /\ Calm(sess[c], t)
<1>0. sess[c] \in Sessions
  <2>1. sess[c] # NoSession
    BY DEF Session, Begin, Loop, ReadFails, Process, Transfer, Retrieve, RetrieveEnds,
           Receive, ReceiveEnds, Check, Exit, At
  <2> QED BY <2>1 DEF SessType
<1>1. ASSUME NEW pc \in {"loop", "select", "check", "exit"}, Goes(c, pc)
      PROVE \E t : sess' = [sess EXCEPT ![c] = t] /\ Calm(sess[c], t)
  <2>1. sess' = [sess EXCEPT ![c] = [sess[c] EXCEPT !.pc = pc]]
    BY <1>1 DEF Goes
  <2>2. Calm(sess[c], [sess[c] EXCEPT !.pc = pc])
    BY <1>0, CalmParts, Zenon
  <2> QED BY <2>1, <2>2
<1>2. CASE Begin(c)
  <2>1. CASE sess' = [sess EXCEPT ![c] = [@ EXCEPT !.pc = "loop", !.port_pasv_fd = NoFd,
                                                 !.tick_timeout = Due]]
    <3>1. Calm(sess[c], [sess[c] EXCEPT !.pc = "loop", !.port_pasv_fd = NoFd,
                                        !.tick_timeout = Due])
      BY <1>0, CalmParts, Zenon
    <3> QED BY <2>1, <3>1
  <2> QED BY <1>1, <1>2, <2>1 DEF Begin
<1>3. CASE Loop(c) \/ ReadFails(c) \/ Check(c)
  BY <1>1, <1>3 DEF Loop, ReadFails, Check
<1>4. CASE Transfer(c)
  <2>1. ASSUME NEW ok \in BOOLEAN, Finishes(c, ok)
        PROVE \E t : sess' = [sess EXCEPT ![c] = t] /\ Calm(sess[c], t)
    <3> DEFINE d == DropFile(DropData(sess[c]))
               t == IF ok THEN [Reset(d) EXCEPT !.pc = "check", !.tick_timeout = Due, !.pos = 0]
                    ELSE [d EXCEPT !.pc = "exit", !.pos = 0]
    <3>1. sess' = [sess EXCEPT ![c] = t]
      BY <2>1 DEF Finishes
    <3>2. Calm(sess[c], t)
      BY <1>0, FinishedCalm
    <3> QED BY <3>1, <3>2
  <2>2. CASE sess' = [sess EXCEPT ![c].pos = @ + 1]
    <3>1. Calm(sess[c], [sess[c] EXCEPT !.pos = @ + 1])
      BY <1>0 DEF Calm, Sessions
    <3> QED BY <2>2, <3>1
  <2> QED BY <1>4, <2>1, <2>2 DEF Transfer, Retrieve, RetrieveEnds, Receive, ReceiveEnds
<1> QED BY <1>2, <1>3, <1>4 DEF Session

-----------------------------------------------------------------------------
\* A step that brings no session and leaves each what a Calm step leaves.
LEMMA CalmAccess ==
  ASSUME AccessInv, UNCHANGED <<login, confirmed, tree>>, stored' \in [Clients -> Int],
         Live' \subseteq Live, \A d \in Live' : Calm(sess[d], sess'[d])
  PROVE  AccessInv'
  BY DEF AccessInv, AccessOf, Calm

LEMMA StoredType ==
  ASSUME IInv, AccessInv, [Next]_vars
  PROVE  /\ stored' \in [Clients -> Int]
         /\ \A d \in Clients : stored'[d] # stored[d] => d \in Live /\ sess[d].pc = "stor"
<1>0. stored \in [Clients -> Int]
  BY DEF AccessInv
<1>1. CASE \E c \in Clients : Receive(c) \/ ReceiveEnds(c)
  <2>1. PICK c \in Clients : Receive(c) \/ ReceiveEnds(c)
    BY <1>1
  <2>2. c \in Live /\ sess[c].pc = "stor"
    BY <2>1, AtLive DEF Receive, ReceiveEnds
  <2>3. \E n \in Int : stored' = [stored EXCEPT ![c] = n]
    <3>1. CASE stored' = [stored EXCEPT ![c] = 0]
      <4>1. 0 \in Int
        OBVIOUS
      <4> QED BY <3>1, <4>1, Zenon
    <3>2. CASE \E n \in stored[c] + 1 .. Size : stored' = [stored EXCEPT ![c] = n]
      <4>1. stored[c] + 1 .. Size \subseteq Int
        OBVIOUS
      <4> QED BY <3>2, <4>1, Zenon
    <3> QED BY <2>1, <3>1, <3>2 DEF Receive, ReceiveEnds
  <2> QED BY <1>0, <2>2, <2>3
<1>2. stored' = stored \/ \E c \in Clients : Receive(c) \/ ReceiveEnds(c)
  BY DEF Next, Listener, Listen, Restart, Waits, ListenerFails, AcceptConnection, Tick,
         ftp_force_restart, Session, Begin, Loop, ReadFails, Process, Transfer, Retrieve,
         RetrieveEnds, Check, Exit, Client, Connect, SendCommand, Leave, vars, transfer
<1> QED BY <1>0, <1>1, <1>2

\* An outcome that makes and removes nothing.
Plain(q) == q.made = {} /\ q.removed = {}

\* Only MKD, RMD and DELE have others, and those only if the session is not anonymous.
LEMMA OnlyChanges ==
  ASSUME NEW s \in Sessions, NEW open, NEW there, NEW cmd \in [name : Names, at : Nat],
         NEW o \in ftp_session_process(s, open, there, cmd)
  PROVE  \/ Plain(o)
         \/ /\ s.state = "PROCESS" /\ ~s.is_anonymous /\ cmd.name \in Changes
            /\ o \in Changed(s, open, there, cmd.name)
<1>1. \A t, fd, reply, ok : Plain(Outcome(t, fd, reply, ok))
  BY DEF Outcome, Plain
<1>2. ASSUME NEW q, \E t, fd, reply, ok : q = Outcome(t, fd, reply, ok) PROVE Plain(q)
  BY <1>1, <1>2
<1>3. /\ \A t, fd, codes : \A q \in Replies(t, fd, codes) : Plain(q)
      /\ \A t, fd : \A q \in Fails(t, fd) : Plain(q)
      /\ \A t, fd, pc, pos : \A q \in Transfers(t, fd, pc, pos) : Plain(q)
  BY <1>2, Zenon DEF Replies, Fails, Transfers
<1>4. \/ o \in user_cmd(s, open, cmd.name) \/ o \in pass_cmd(s, open, cmd.name)
      \/ s.state = "PROCESS" /\ o \in ftp_session_cmd_process(s, open, there, cmd)
  <2>1. s.state \in {"USER", "PASSWD", "PROCESS"}
    BY DEF Sessions
  <2> QED BY <2>1 DEF ftp_session_process
<1>5. CASE o \in user_cmd(s, open, cmd.name) \/ o \in pass_cmd(s, open, cmd.name)
  <2>1. (\E t, codes : o \in Replies(t, open, codes)) \/ o = Outcome(s, open, 530, FALSE)
    BY <1>5, ZenonT(60) DEF user_cmd, pass_cmd
  <2>2. Plain(o)
    BY <1>2, <1>3, <2>1, Zenon
  <2> QED BY <2>2
<1>6. CASE s.state = "PROCESS" /\ o \in ftp_session_cmd_process(s, open, there, cmd)
  <2> DEFINE at == cmd.at
             name == cmd.name
  <2>1. \/ o \in port_cmd_fn(s, open) \/ o \in list_cmd_fn(s, open, there)
        \/ o \in cwd_cmd_fn(s, open, there, "sub") \/ o \in cdup_cmd_fn(s, open, there)
        \/ name \in Changes /\ o \in change_cmd_fn(s, open, there, name)
        \/ o \in rest_cmd_fn(s, open, at) \/ o \in retr_cmd_fn(s, open, there)
        \/ o \in stor_cmd_fn(s, open, there)
        \/ o = Outcome(s, open, 221, FALSE)
        \/ (\E codes : o \in Replies(s, open, codes)) \/ o \in Fails(s, open)
    BY <1>6, ZenonT(60) DEF ftp_session_cmd_process
  <2>2. CASE name \in Changes /\ o \in change_cmd_fn(s, open, there, name)
    <3>1. \/ \E codes : o \in Replies(s, open, codes)
          \/ o \in Fails(s, open)
          \/ ~s.is_anonymous /\ o \in Changed(s, open, there, name)
      BY <2>2, ZenonT(60) DEF change_cmd_fn
    <3>2. \/ Plain(o)
          \/ ~s.is_anonymous /\ o \in Changed(s, open, there, name)
      BY <1>3, <3>1
    <3> QED BY <1>6, <2>2, <3>2
  <2>3. CASE o \in port_cmd_fn(s, open)
    <3>1. \/ \E t, fd, codes : o \in Replies(t, fd, codes)
          \/ \E n, rest : o = Outcome([s EXCEPT !.port_pasv_fd = n], rest, 200, TRUE)
      BY <2>3, ZenonT(60) DEF port_cmd_fn
    <3> QED BY <1>2, <1>3, <3>1, Zenon
  <2>6. CASE o \in list_cmd_fn(s, open, there)
    <3>1. \/ o \in Replies(s, open, {502}) \/ o \in Replies(s, open, {550}) \/ o \in Fails(s, open)
          \/ o \in Replies(DropData(s), open \ {s.port_pasv_fd}, {226})
      BY <2>6 DEF list_cmd_fn
    <3>2. (\E t, fd, codes : o \in Replies(t, fd, codes)) \/ (\E t, fd : o \in Fails(t, fd))
      BY <3>1
    <3> QED BY <1>3, <3>2, Zenon
  <2>7. CASE \/ o \in cwd_cmd_fn(s, open, there, "sub") \/ o \in cdup_cmd_fn(s, open, there)
             \/ o \in rest_cmd_fn(s, open, at)
    <3>1. (\E t, codes : o \in Replies(t, open, codes)) \/ (\E t : o \in Fails(t, open))
      BY <2>7, ZenonT(60) DEF cwd_cmd_fn, cdup_cmd_fn, rest_cmd_fn
    <3> QED BY <1>3, <3>1, Zenon
  <2>4. CASE o \in retr_cmd_fn(s, open, there) \/ o \in stor_cmd_fn(s, open, there)
    <3>1. \/ \E t, fd, codes : o \in Replies(t, fd, codes)
          \/ \E t, fd : o \in Fails(t, fd)
          \/ \E t, fd, pc, pos : o \in Transfers(t, fd, pc, pos)
      BY <2>4, ZenonT(60) DEF retr_cmd_fn, stor_cmd_fn
    <3>2. Plain(o)
      BY <1>1, <1>3, <3>1
    <3> QED BY <3>2
  <2>5. CASE \/ o = Outcome(s, open, 221, FALSE)
             \/ (\E codes : o \in Replies(s, open, codes)) \/ o \in Fails(s, open)
    <3>1. Plain(o)
      BY <1>1, <1>3, <2>5
    <3> QED BY <3>1
  <2> QED BY <2>1, <2>2, <2>3, <2>4, <2>5, <2>6, <2>7
<1> QED BY <1>4, <1>5, <1>6

LEMMA StillOpen ==
  ASSUME NEW there, NEW made, NEW removed, NEW dir \in Openable(there), dir \notin removed
  PROVE  dir \in Openable((there \cup made) \ removed)
  BY DEF Openable

\* The answer to a command and what it left of the session agree.
LEMMA ProcessAccess ==
  ASSUME IInv, AccessInv, NEW c \in Clients, Process(c)
  PROVE  AccessInv'
<1> DEFINE s == sess[c]
           cmd == [name |-> inbox[c], at |-> Len(have[c])]
<1>1. /\ c \in Live /\ s.pc = "select" /\ s \in Sessions
      /\ AccessOf(s, login[c], confirmed[c], tree)
  BY AtLive, LiveSession, ZenonT(60) DEF Process, IInv, AccessInv
<1>2. cmd \in [name : Names, at : Nat]
  <2>1. inbox[c] \in Names
    BY DEF Process, IInv, ConnType
  <2>2. Len(have[c]) \in Nat
    BY DEF IInv, HaveType
  <2> QED BY <2>1, <2>2
<1>3. PICK o \in ftp_session_process(s, fds, tree, cmd) :
        LET busy == o.s.pc \in {"retr", "stor"} IN
        /\ sess' = [sess EXCEPT ![c] =
                      IF ~o.ok THEN [o.s EXCEPT !.pc = "exit"]
                      ELSE IF busy THEN o.s
                      ELSE [o.s EXCEPT !.pc = "check", !.tick_timeout = Due]]
        /\ login' = [login EXCEPT ![c] = LoginAfter(c, o, cmd)]
        /\ tree' = (tree \cup o.made) \ o.removed
        /\ confirmed' = [d \in Clients |->
             /\ IF d = c THEN ConfirmedAfter(c, o, cmd) ELSE confirmed[d]
             /\ d \in Live => sess[d].currentdir \notin o.removed]
  BY Zenon DEF Process
<1> DEFINE busy == o.s.pc \in {"retr", "stor"}
           t == IF ~o.ok THEN [o.s EXCEPT !.pc = "exit"]
                ELSE IF busy THEN o.s
                ELSE [o.s EXCEPT !.pc = "check", !.tick_timeout = Due]
           who == LoginAfter(c, o, cmd)
           told == ConfirmedAfter(c, o, cmd)
<1>4. /\ sess' = [sess EXCEPT ![c] = t] /\ login' = [login EXCEPT ![c] = who]
      /\ stored' = stored
  BY <1>3 DEF Process
<1>5. o.s \in Sessions
  <2>1. Before(s, fds)
    BY AtLive, LiveSession DEF Process, Before, IInv, ListenerType, SessType
  <2> QED BY <1>2, <2>1, CommandGood DEF Good
<1>6. Calm(o.s, t)
  BY <1>5 DEF Calm, Sessions
<1>7. /\ login \in [Clients -> {"nobody", "named", "anonymous", "admin"}]
      /\ confirmed \in [Clients -> BOOLEAN] /\ stored \in [Clients -> Int]
  BY DEF AccessInv
<1>8. who \in {"nobody", "named", "anonymous", "admin"} /\ told \in BOOLEAN
  BY <1>7 DEF LoginAfter, ConfirmedAfter
<1>9. AccessOf(o.s, who, told, tree)
  <2>1. CASE Stays(s, o) /\ (s.state = "PROCESS" => cmd.name \notin Moving)
    <3>1. who = login[c] /\ told = confirmed[c]
      BY <2>1 DEF Stays, LoginCodes, LoginAfter, ConfirmedAfter, Moving
    <3> QED BY <1>1, <2>1, <3>1 DEF Stays, AccessOf
  <2>2. CASE Stores(s, o) /\ s.state = "PROCESS" /\ cmd.name \notin Moving
    <3>1. who = login[c] /\ told = confirmed[c]
      BY <2>2 DEF Stores, LoginCodes, LoginAfter, ConfirmedAfter, Moving
    <3> QED BY <1>1, <2>2, <3>1 DEF Stores, AccessOf
  <2>3. CASE Turns(s, tree, o) /\ s.state = "PROCESS" /\ cmd.name \in Moving
    <3>1. who = login[c] /\ (told => o.reply = 250)
      BY <2>3 DEF Turns, LoginCodes, LoginAfter, ConfirmedAfter, Moving
    <3> QED BY <1>1, <2>3, <3>1 DEF Turns, AccessOf
  <2>4. CASE Names1(s, o, cmd) /\ s.state = "USER"
    <3>1. who = IF cmd.name = "USER admin" THEN "named" ELSE "anonymous"
      <4>1. o.reply = 331
        BY <2>4 DEF Names1
      <4> HIDE DEF cmd
      <4> QED BY <4>1 DEF LoginAfter
    <3> QED BY <1>1, <2>4, <3>1 DEF Names1, AccessOf
  <2>5. CASE Enters(s, o, cmd) /\ s.state = "PASSWD"
    <3>1. ASSUME ~s.is_anonymous PROVE who = "admin"
      <4>1. login[c] = "named" /\ cmd.name = "PASS admin"
        BY <1>1, <2>5, <3>1 DEF Enters, AccessOf
      <4>2. o.reply = 230
        BY <2>5 DEF Enters
      <4> HIDE DEF cmd
      <4>3. who = IF login[c] = "named" /\ cmd.name = "PASS admin" THEN "admin" ELSE login[c]
        BY <4>2 DEF LoginAfter
      <4> QED BY <4>1, <4>3
    <3>2. /\ o.s.state = "PROCESS" /\ o.s.currentdir = "root" /\ o.s.pc = "select"
          /\ (o.s.is_anonymous <=> s.is_anonymous)
      BY <1>1, <2>5, ZenonT(60) DEF Enters
    <3>3. "root" \in Openable(tree)
      BY DEF Openable
    <3> HIDE DEF who, told
    <3>4. o.s.pc # "stor" /\ o.s.state # "PASSWD"
      BY <3>2
    <3>5. o.s.currentdir \in Openable(tree)
      BY <3>2, <3>3
    <3>6. ~o.s.is_anonymous => who = "admin"
      BY <3>1, <3>2, Zenon
    <3> QED BY <3>4, <3>5, <3>6, Zenon DEF AccessOf
  <2> HIDE DEF cmd, who, told, s
  <2>6. \/ Stays(s, o) /\ (s.state = "PROCESS" => cmd.name \notin Moving)
        \/ Stores(s, o) /\ s.state = "PROCESS" /\ cmd.name \notin Moving
        \/ Turns(s, tree, o) /\ s.state = "PROCESS" /\ cmd.name \in Moving
        \/ Names1(s, o, cmd) /\ s.state = "USER"
        \/ Enters(s, o, cmd) /\ s.state = "PASSWD"
    BY <1>1, <1>2, <1>3, CommandEffect
  <2> QED BY <2>1, <2>2, <2>3, <2>4, <2>5, <2>6
<1>10. o.removed = {} \/ o.s = s
  BY <1>1, <1>2, <1>3, OnlyChanges, ChangedParts DEF Plain
<1>11. AccessOf(t, who, told /\ s.currentdir \notin o.removed, tree')
  <2>1. ASSUME o.s.state = "PROCESS", told, s.currentdir \notin o.removed
        PROVE  o.s.currentdir \in Openable(tree')
    <3>1. o.s.currentdir \in Openable(tree) /\ o.s.currentdir \notin o.removed
      BY <1>9, <1>10, <2>1 DEF AccessOf
    <3> QED BY <1>3, <3>1, StillOpen
  <2> HIDE DEF told, who, t
  <2> QED BY <1>6, <1>9, <2>1 DEF AccessOf, Calm
<1>12. Live' \subseteq Live
  BY <1>1, <1>4 DEF Live, IInv, SessType
<1>13. \A d \in Live' : AccessOf(sess'[d], login'[d], confirmed'[d], tree')
  <2> SUFFICES ASSUME NEW d \in Live'
               PROVE  AccessOf(sess'[d], login'[d], confirmed'[d], tree')
    OBVIOUS
  <2>1. d \in Live /\ d \in Clients /\ sess \in [Clients -> Sessions \cup {NoSession}]
    BY <1>12 DEF Live, IInv, SessType
  <2> HIDE DEF t, who, told
  <2>2. CASE d = c
    <3>1. sess'[d] = t /\ login'[d] = who
      BY <1>4, <1>7, <2>1, <2>2
    <3>2. confirmed'[d] = (told /\ s.currentdir \notin o.removed)
      BY <1>3, <2>1, <2>2 DEF told
    <3> QED BY <1>11, <3>1, <3>2
  <2>3. CASE d # c
    <3>1. sess'[d] = sess[d] /\ login'[d] = login[d]
      BY <1>4, <1>7, <2>1, <2>3
    <3>2. confirmed'[d] = (confirmed[d] /\ sess[d].currentdir \notin o.removed)
      BY <1>3, <2>1, <2>3
    <3>3. AccessOf(sess[d], login[d], confirmed[d], tree)
      BY <2>1 DEF AccessInv
    <3>4. ASSUME sess[d].state = "PROCESS", confirmed[d], sess[d].currentdir \notin o.removed
          PROVE  sess[d].currentdir \in Openable(tree')
      BY <1>3, <3>3, <3>4, StillOpen DEF AccessOf
    <3> QED BY <3>1, <3>2, <3>3, <3>4 DEF AccessOf
  <2> QED BY <2>2, <2>3
<1>14. confirmed' \in [Clients -> BOOLEAN]
  <2> HIDE DEF told
  <2>1. \A d \in Clients : (IF d = c THEN told ELSE confirmed[d]) \in BOOLEAN
    BY <1>7, <1>8
  <2> QED BY <1>3, <2>1 DEF told
<1> QED BY <1>4, <1>7, <1>8, <1>13, <1>14 DEF AccessInv

LEMMA ExitAccess ==
  ASSUME IInv, AccessInv, NEW c \in Clients, Exit(c)
  PROVE  AccessInv'
<1>1. /\ sess' = [sess EXCEPT ![c] = NoSession] /\ UNCHANGED <<login, stored, tree>>
      /\ confirmed' = [confirmed EXCEPT ![c] = TRUE]
  BY DEF Exit, transfer
<1>2. sess \in [Clients -> Sessions \cup {NoSession}]
  BY DEF IInv, SessType
<1>3. \A d \in Live' : d \in Live /\ d # c /\ sess'[d] = sess[d]
  BY <1>1, <1>2 DEF Live
<1> QED BY <1>1, <1>3 DEF AccessInv, Live

LEMMA AcceptAccess ==
  ASSUME IInv, AccessInv, NEW c \in Clients, AcceptConnection(c)
  PROVE  AccessInv'
<1>1. UNCHANGED <<confirmed, stored, tree>>
  BY DEF AcceptConnection, transfer
<1>2. CASE UNCHANGED <<sess, login>>
  BY <1>1, <1>2 DEF AccessInv, Live
<1>3. CASE /\ \E fd \in Lowest(fds) : sess' = [sess EXCEPT ![c] = NewSession(fd)]
           /\ login' = [login EXCEPT ![c] = "nobody"]
  <2>1. PICK fd : sess' = [sess EXCEPT ![c] = NewSession(fd)]
    BY <1>3
  <2> DEFINE t == NewSession(fd)
  <2>2. t.state = "USER" /\ t.pc = "begin"
    BY DEF NewSession
  <2>3. \A who, told, there : AccessOf(t, who, told, there)
    BY <2>2 DEF AccessOf
  <2>4. sess'[c] = t /\ \A d \in Clients \ {c} : sess'[d] = sess[d] /\ login'[d] = login[d]
    BY <1>3, <2>1 DEF IInv, SessType, AccessInv
  <2>5. \A d \in Live' : AccessOf(sess'[d], login'[d], confirmed'[d], tree')
    BY <1>1, <2>3, <2>4 DEF AccessInv, Live
  <2> QED BY <1>1, <1>3, <2>5 DEF AccessInv
<1> QED BY <1>2, <1>3 DEF AcceptConnection

LEMMA AllCalm ==
  ASSUME IInv, Restart \/ Tick
  PROVE  /\ UNCHANGED <<login, confirmed, tree>>
         /\ \A d \in Live : sess'[d] # NoSession => Calm(sess[d], sess'[d])
<1>1. UNCHANGED <<login, confirmed, tree>>
  BY DEF Restart, Tick, history, transfer
<1>2. ASSUME NEW d \in Live PROVE Calm(sess[d], sess'[d])
  <2>1. d \in Clients /\ sess[d] \in Sessions
    BY LiveSession DEF IInv
  <2>2. \/ sess'[d] = [sess[d] EXCEPT !.force_quit = TRUE]
        \/ sess'[d] = [sess[d] EXCEPT !.pc = "check"] \/ sess'[d] = sess[d]
    BY <2>1 DEF Restart, Tick
  <2>3. /\ Calm(sess[d], [sess[d] EXCEPT !.force_quit = TRUE])
        /\ Calm(sess[d], [sess[d] EXCEPT !.pc = "check"]) /\ Calm(sess[d], sess[d])
    BY <2>1, CalmParts, Zenon
  <2> QED BY <2>2, <2>3
<1> QED BY <1>1, <1>2

LEMMA AccessStep ==
  ASSUME IInv, AccessInv, [Next]_vars
  PROVE  AccessInv'
<1>1. stored' \in [Clients -> Int]
  BY StoredType
<1>2. CASE \E c \in Clients : Process(c) \/ Exit(c) \/ AcceptConnection(c)
  BY <1>2, ProcessAccess, ExitAccess, AcceptAccess
<1>3. CASE ~\E c \in Clients : Process(c) \/ Exit(c) \/ AcceptConnection(c)
  <2>1. Live' \subseteq Live
    BY <1>3, LiveShrinks DEF IInv
  <2>2. CASE \E c \in Clients : Session(c)
    <3>1. PICK c \in Clients : Session(c)
      BY <2>2
    <3>2. UNCHANGED <<login, confirmed, tree>>
      BY <1>3, <3>1 DEF Session, Begin, Loop, ReadFails, Transfer, Retrieve, RetrieveEnds,
                        Receive, ReceiveEnds, Finishes, Check, history, transfer
    <3>3. UNCHANGED sess \/ \E t : sess' = [sess EXCEPT ![c] = t] /\ Calm(sess[c], t)
      BY <1>3, <3>1, SessionCalm DEF IInv
    <3>4. \A d \in Live' : Calm(sess[d], sess'[d])
      <4>1. \A d \in Live : Calm(sess[d], sess[d]) /\ d \in Clients
        BY CalmParts, LiveSession DEF IInv
      <4>2. CASE UNCHANGED sess
        BY <2>1, <4>1, <4>2
      <4>3. ASSUME NEW t, sess' = [sess EXCEPT ![c] = t], Calm(sess[c], t), NEW d \in Live'
            PROVE  Calm(sess[d], sess'[d])
        <5>1. d \in Live /\ sess \in [Clients -> Sessions \cup {NoSession}]
          BY <2>1 DEF IInv, SessType
        <5>2. sess'[d] = IF d = c THEN t ELSE sess[d]
          BY <4>1, <4>3, <5>1
        <5> QED BY <4>1, <4>3, <5>1, <5>2
      <4> QED BY <3>3, <4>2, <4>3
    <3> QED BY <1>1, <2>1, <3>2, <3>4, CalmAccess
  <2>3. CASE Restart \/ Tick
    <3>1. \A d \in Live' : Calm(sess[d], sess'[d])
      BY <2>1, <2>3, AllCalm DEF Live
    <3> QED BY <1>1, <2>1, <2>3, <3>1, AllCalm, CalmAccess
  <2>4. CASE UNCHANGED <<sess, login, confirmed, tree>>
    BY <1>1, <2>4 DEF AccessInv, Live
  <2> QED BY <1>3, <2>2, <2>3, <2>4
      DEF Next, Listener, Listen, Waits, ListenerFails, ftp_force_restart, Client, Connect,
          SendCommand, Leave, vars, history, transfer
<1> QED BY <1>2, <1>3

LEMMA AccessInvariance == Spec => [](IInv /\ AccessInv)
<1>1. Init => IInv
  BY InitInv
<1>2. Init => AccessInv
  BY DEF Init, AccessInv, Live, For
<1> QED BY <1>1, <1>2, NextInv, AccessStep, PTL DEF Spec

(***************************************************************************)
(* A directory that CWD or CDUP confirmed with 250 can be opened until some *)
(* session removes it (cwd_cmd_fn, cdup_cmd_fn, rmd_cmd_fn), whatever       *)
(* commands came in between and whichever was refused, for every number of  *)
(* sessions: else only a refusal leaves the session in one that cannot.     *)
(***************************************************************************)
THEOREM DirectoryKept == Spec => []ConfirmedIsOpenable
<1>1. AccessInv => ConfirmedIsOpenable
  BY DEF AccessInv, AccessOf, ConfirmedIsOpenable
<1> QED BY AccessInvariance, <1>1, PTL

(***************************************************************************)
(* The tree changes with a command of the administrator, which is over then. *)
(***************************************************************************)
LEMMA TreeStep ==
  ASSUME IInv, AccessInv, [Next]_vars, tree' # tree
  PROVE  \E c \in Clients : inbox[c] \in Changes /\ inbox'[c] = "none" /\ login[c] = "admin"
<1>1. PICK c \in Clients : Process(c)
  BY DEF Next, Listener, Listen, Restart, Waits, ListenerFails, AcceptConnection, Tick,
         ftp_force_restart, Session, Begin, Loop, ReadFails, Transfer, Retrieve, Receive,
         ReceiveEnds, RetrieveEnds, Check, Exit, Client, Connect, SendCommand, Leave, vars, transfer
<1> DEFINE s == sess[c]
           cmd == [name |-> inbox[c], at |-> Len(have[c])]
<1>2. PICK o \in ftp_session_process(s, fds, tree, cmd) :
        /\ inbox' = [inbox EXCEPT ![c] = IF o.s.pc \in {"retr", "stor"} THEN @ ELSE "none"]
        /\ tree' = (tree \cup o.made) \ o.removed
  BY <1>1, Zenon DEF Process
<1>3. s \in Sessions /\ s.pc = "select" /\ AccessOf(s, login[c], confirmed[c], tree)
  BY <1>1, AtLive, LiveSession, ZenonT(60) DEF Process, IInv, AccessInv
<1>4. cmd \in [name : Names, at : Nat]
  <2>1. inbox[c] \in Names
    BY <1>1 DEF Process, IInv, ConnType
  <2>2. Len(have[c]) \in Nat
    BY DEF IInv, HaveType
  <2> QED BY <2>1, <2>2
<1>5. ~Plain(o)
  BY <1>2 DEF Plain
<1>6. /\ s.state = "PROCESS" /\ ~s.is_anonymous /\ cmd.name \in Changes
      /\ o \in Changed(s, fds, tree, cmd.name)
  BY <1>2, <1>3, <1>4, <1>5, OnlyChanges, Zenon
<1>7. o.s = s
  BY <1>6, ChangedParts
<1>8. inbox'[c] = "none"
  BY <1>2, <1>3, <1>7 DEF IInv, ConnType
<1> QED BY <1>3, <1>6, <1>8 DEF AccessOf

(***************************************************************************)
(* A file changes, is made or removed, and so a directory, only for a       *)
(* client that gave the administrator's name and password on the connection *)
(* it has now (stor_cmd_fn, mkd_cmd_fn, rmd_cmd_fn, dele_cmd_fn and the     *)
(* login of ftp_session_process), for every number of sessions.             *)
(***************************************************************************)
THEOREM LoginNeeded == Spec => ChangesNeedLogin
<1>1. ASSUME IInv, AccessInv, [Next]_vars
      PROVE  [/\ \A c \in Clients : stored'[c] # stored[c] => login[c] = "admin"
              /\ tree' # tree =>
                   \E c \in Clients : inbox[c] \in Changes /\ inbox'[c] = "none"
                                     /\ login[c] = "admin"]_vars
  <2>1. \A c \in Clients : stored'[c] # stored[c] => login[c] = "admin"
    BY <1>1, StoredType DEF AccessInv, AccessOf
  <2>2. tree' # tree =>
          \E c \in Clients : inbox[c] \in Changes /\ inbox'[c] = "none" /\ login[c] = "admin"
    BY <1>1, TreeStep
  <2> QED BY <2>1, <2>2
<1> QED BY AccessInvariance, <1>1, PTL DEF Spec, ChangesNeedLogin
=============================================================================
