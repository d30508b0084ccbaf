------------------------- MODULE FtpPromise_proofs --------------------------
(***************************************************************************)
(* What the FTP server promises a client, for any number of clients, a file *)
(* of any size and a tick of any width: the file it resumes is whole, and   *)
(* its session ends when its time is over.                                  *)
(***************************************************************************)
EXTENDS Ftp_proofs

-----------------------------------------------------------------------------
(***************************************************************************)
(* The offset: what a command leaves of it.                                 *)
(***************************************************************************)
\* The offset is the one asked for, and 0 before the login is complete; a
\* session that ends, or stores, does not need it any more.
Tracks(s, o) ==
  s.pc \notin {"exit", "stor"} => s.offset = o /\ (s.state # "PROCESS" => o = 0)

\* AskedAfter, of a session whose offset is o.
OffsetAfter(p, cmd, o) ==
  CASE p.reply = 350 -> cmd.at
    [] cmd.name \in {"RETR", "STOR"} /\ p.reply # 150 -> 0
    [] OTHER -> o

\* What an outcome p of command cmd, given to session s, does to the offset.
Placed(s, cmd, p) ==
  /\ p.ok /\ p.s.pc # "stor" =>
       /\ p.s.offset = OffsetAfter(p, cmd, s.offset)
       /\ p.s.state # "PROCESS" => s.state # "PROCESS" /\ p.s.offset = 0
  /\ p.reply = 350 => cmd.name = "REST"
  /\ p.s.pc = "retr" => cmd.name = "RETR" /\ p.s.pos = Start(s) /\ p.s.offset = s.offset

\* A session of the same offset that is as far.
Beside(s, t) ==
  t.offset = s.offset /\ t.pc = s.pc /\ (t.state # "PROCESS" => s.state # "PROCESS")

LEMMA BesideParts ==
  ASSUME NEW s \in Sessions
  PROVE  /\ Beside(s, s) /\ Beside(s, DropData(s))
         /\ \A n : Beside(s, [s EXCEPT !.port_pasv_fd = n]) /\ Beside(s, [s EXCEPT !.currentdir = n])
         /\ \A n : /\ Beside(s, [s EXCEPT !.currentdir = n, !.state = "PROCESS"])
                   /\ s.state = "USER" =>
                        Beside(s, [s EXCEPT !.is_anonymous = n, !.state = "PASSWD"])
  BY DEF Beside, DropData, Sessions

\* An outcome that leaves the offset, of a command that is no transfer or
\* comes before the login, or whose handler fails.
LEMMA BesidePlaced ==
  ASSUME NEW s, s.pc = "select", s.state # "PROCESS" => s.offset = 0,
         NEW p, Beside(s, p.s), p.reply # 350, NEW cmd,
         cmd.name \in {"RETR", "STOR"} => s.state # "PROCESS" \/ ~p.ok
  PROVE  Placed(s, cmd, p)
<1>1. p.ok => p.s.offset = OffsetAfter(p, cmd, s.offset)
  BY DEF OffsetAfter, Beside
<1> QED BY <1>1 DEF Placed, Beside

\* A transfer that is refused.
LEMMA RefusedPlaced ==
  ASSUME NEW s \in Sessions, s.pc = "select", s.state = "PROCESS",
         NEW p, p.s = Reset(s), p.reply \notin {150, 350},
         NEW cmd, cmd.name \in {"RETR", "STOR"}
  PROVE  Placed(s, cmd, p)
<1>1. Reset(s).offset = 0 /\ Reset(s).state = "PROCESS" /\ Reset(s).pc = "select"
  BY DEF Reset, Sessions
<1>2. OffsetAfter(p, cmd, s.offset) = 0
  BY DEF OffsetAfter
<1> QED BY <1>1, <1>2 DEF Placed

LEMMA ReplyParts ==
  ASSUME NEW t, NEW open, NEW codes, NEW p \in Replies(t, open, codes)
  PROVE  p.s = t /\ p.reply \in codes
  BY DEF Replies, Outcome

LEMMA FailsParts ==
  ASSUME NEW t, NEW open, NEW p \in Fails(t, open)
  PROVE  p.s = t /\ p.reply = 0 /\ ~p.ok
  BY DEF Fails, Outcome

\* The session and the reply of a transfer that starts.
LEMMA TransferParts ==
  ASSUME NEW t \in Sessions, NEW open, NEW pc, NEW pos, NEW p \in Transfers(t, open, pc, pos)
  PROVE  /\ p.s.offset = t.offset /\ p.s.state = t.state
         /\ p.s.pos = pos /\ p.s.pc = pc /\ p.reply = 150
<1>1. PICK n : p = Outcome([t EXCEPT !.file = n, !.pos = pos, !.pc = pc],
                           open \cup {n}, 150, TRUE)
  BY DEF Transfers
<1> DEFINE u == [t EXCEPT !.file = n, !.pos = pos, !.pc = pc]
<1>2. u.offset = t.offset /\ u.state = t.state /\ u.pos = pos /\ u.pc = pc
  BY DEF Sessions
<1>3. p.s = u /\ p.reply = 150
  BY <1>1 DEF Outcome
<1> QED BY <1>2, <1>3

LEMMA RetrievePlaced ==
  ASSUME NEW s \in Sessions, s.pc = "select", s.state = "PROCESS", NEW open,
         NEW there, NEW cmd, cmd.name = "RETR",
         NEW p \in retr_cmd_fn(s, open, there)
  PROVE  Placed(s, cmd, p)
<1>1. \/ p \in Replies(Reset(s), open, {502}) \/ p \in Replies(Reset(s), open, {550})
      \/ p \in Fails(s, open) \/ p \in Transfers(s, open, "retr", Start(s))
  BY Zenon DEF retr_cmd_fn
<1>2. ASSUME p \in Transfers(s, open, "retr", Start(s)) PROVE Placed(s, cmd, p)
  <2>1. /\ p.s.offset = s.offset /\ p.s.pos = Start(s) /\ p.s.pc = "retr"
        /\ p.s.state = "PROCESS" /\ p.reply = 150
    BY <1>2, TransferParts
  <2>2. OffsetAfter(p, cmd, s.offset) = s.offset
    BY <2>1 DEF OffsetAfter
  <2> QED BY <2>1, <2>2 DEF Placed
<1>3. ASSUME p \in Fails(s, open) PROVE Placed(s, cmd, p)
  <2>1. p.s = s /\ p.reply = 0 /\ ~p.ok
    BY <1>3, FailsParts
  <2>2. Beside(s, p.s) /\ p.reply # 350
    BY <2>1 DEF Beside
  <2> QED BY <2>1, <2>2, BesidePlaced
<1>4. ASSUME p \in Replies(Reset(s), open, {502}) \/ p \in Replies(Reset(s), open, {550})
      PROVE  Placed(s, cmd, p)
  <2>1. p.s = Reset(s) /\ p.reply \in {502, 550}
    BY <1>4, ReplyParts
  <2> QED BY <2>1, RefusedPlaced
<1> QED BY <1>1, <1>2, <1>3, <1>4

LEMMA StorePlaced ==
  ASSUME NEW s \in Sessions, s.pc = "select", s.state = "PROCESS", NEW open,
         NEW there, NEW cmd, cmd.name = "STOR",
         NEW p \in stor_cmd_fn(s, open, there)
  PROVE  Placed(s, cmd, p)
<1>1. \/ p \in Replies(Reset(s), open, {502}) \/ p \in Replies(Reset(s), open, {550})
      \/ p \in Fails(Reset(s), open) \/ p \in Transfers(Reset(s), open, "stor", 0)
  BY Zenon DEF stor_cmd_fn
<1>2. ASSUME p \in Transfers(Reset(s), open, "stor", 0) PROVE Placed(s, cmd, p)
  <2>1. Reset(s) \in Sessions
    BY DEF Reset, Sessions
  <2>2. p.s.pc = "stor" /\ p.reply = 150
    BY <1>2, <2>1, TransferParts
  <2> QED BY <2>2 DEF Placed
<1>3. ASSUME ~(p \in Transfers(Reset(s), open, "stor", 0)) PROVE Placed(s, cmd, p)
  <2>1. p.s = Reset(s) /\ p.reply \in {0, 502, 550}
    <3>1. ASSUME p \in Fails(Reset(s), open) PROVE p.s = Reset(s) /\ p.reply = 0
      BY <3>1, FailsParts
    <3>2. ASSUME p \in Replies(Reset(s), open, {502}) \/ p \in Replies(Reset(s), open, {550})
          PROVE  p.s = Reset(s) /\ p.reply \in {502, 550}
      BY <3>2, ReplyParts
    <3> QED BY <1>1, <1>3, <3>1, <3>2
  <2> QED BY <2>1, RefusedPlaced
<1> QED BY <1>2, <1>3

LEMMA RestPlaced ==
  ASSUME NEW s \in Sessions, s.pc = "select", s.state = "PROCESS", NEW open,
         NEW cmd, cmd.name = "REST", cmd.at \in Nat, NEW p \in rest_cmd_fn(s, open, cmd.at)
  PROVE  Placed(s, cmd, p)
<1> DEFINE t == [s EXCEPT !.offset = cmd.at]
<1>1. p \in Replies(t, open, {350})
  BY DEF rest_cmd_fn
<1>2. p.s = t /\ p.reply = 350
  BY <1>1, ReplyParts
<1>3. t.offset = cmd.at /\ t.state = "PROCESS" /\ t.pc = "select"
  BY DEF Sessions
<1>4. OffsetAfter(p, cmd, s.offset) = cmd.at
  BY <1>2 DEF OffsetAfter
<1> HIDE DEF t
<1> QED BY <1>2, <1>3, <1>4 DEF Placed

\* The outcomes of the handlers that leave the offset alone.
Aside(s, open, there, name, p) ==
  \/ p \in port_cmd_fn(s, open) \/ p \in list_cmd_fn(s, open, there)
  \/ \E dir \in Dirs : p \in cwd_cmd_fn(s, open, there, dir)
  \/ p \in change_cmd_fn(s, open, there, name)
  \/ p = Outcome(s, open, 221, FALSE) \/ p \in Fails(s, open)
  \/ p \in Replies(s, open, {213, 257, 550}) \/ p \in Replies(s, open, {200, 215})
  \/ p \in Replies(s, open, {502})

LEMMA AsideBeside ==
  ASSUME NEW s \in Sessions, NEW open, NEW there, NEW name, NEW p,
         Aside(s, open, there, name, p)
  PROVE  Beside(s, p.s) /\ p.reply # 350
<1>0. /\ Beside(s, s) /\ Beside(s, DropData(s))
      /\ \A n : Beside(s, [s EXCEPT !.port_pasv_fd = n]) /\ Beside(s, [s EXCEPT !.currentdir = n])
  BY BesideParts
<1>1. ASSUME NEW t, Beside(s, t), NEW codes, 350 \notin codes, NEW open1, p \in Replies(t, open1, codes)
      PROVE  Beside(s, p.s) /\ p.reply # 350
  BY <1>1, ReplyParts
<1>2. ASSUME NEW t, Beside(s, t), p \in Fails(t, open) PROVE Beside(s, p.s) /\ p.reply # 350
  BY <1>2, FailsParts
<1>3. CASE p \in port_cmd_fn(s, open)
  <2>1. CASE \E rest : p \in Replies(DropData(s), rest, {425, 504})
    <3>1. p.s = DropData(s) /\ p.reply \in {425, 504}
      BY <2>1, ReplyParts
    <3> QED BY <1>0, <3>1
  <2>2. CASE \E n, rest : p = Outcome([s EXCEPT !.port_pasv_fd = n], rest, 200, TRUE)
    <3>1. PICK n, rest : p = Outcome([s EXCEPT !.port_pasv_fd = n], rest, 200, TRUE)
      BY <2>2
    <3>2. p.s = [s EXCEPT !.port_pasv_fd = n] /\ p.reply = 200
      BY <3>1 DEF Outcome
    <3>3. Beside(s, [s EXCEPT !.port_pasv_fd = n])
      BY <1>0, Zenon
    <3> QED BY <3>2, <3>3
  <2> QED BY <1>3, <2>1, <2>2, ZenonT(60) DEF port_cmd_fn
<1>4. CASE p \in list_cmd_fn(s, open, there)
  <2>1. \/ p \in Replies(s, open, {502}) \/ p \in Replies(s, open, {550}) \/ p \in Fails(s, open)
        \/ p \in Replies(DropData(s), open \ {s.port_pasv_fd}, {226})
    BY <1>4 DEF list_cmd_fn
  <2> QED BY <1>0, <1>1, <1>2, <2>1
<1>5. ASSUME NEW dir, p \in cwd_cmd_fn(s, open, there, dir) PROVE Beside(s, p.s) /\ p.reply # 350
  <2> DEFINE m == [s EXCEPT !.currentdir = dir]
  <2> DEFINE codes == {550} \cup (IF dir \in Openable(there) THEN {250} ELSE {})
  <2>1. p \in Replies(m, open, codes) \/ p \in Fails(m, open)
    BY <1>5, ZenonT(60) DEF cwd_cmd_fn
  <2>2. Beside(s, m)
    BY <1>0, Zenon
  <2>3. 350 \notin codes
    OBVIOUS
  <2> HIDE DEF m, codes
  <2> QED BY <1>1, <1>2, <2>1, <2>2, <2>3
<1>6. CASE p \in change_cmd_fn(s, open, there, name)
  <2>1. \/ p \in Replies(s, open, {550}) \/ p \in Fails(s, open)
        \/ p \in Changed(s, open, there, name)
    BY <1>6 DEF change_cmd_fn
  <2>2. ASSUME p \in Changed(s, open, there, name) PROVE Beside(s, p.s) /\ p.reply # 350
    BY <1>0, <2>2, ChangedParts
  <2> QED BY <1>0, <1>1, <1>2, <2>1, <2>2
<1>7. CASE p = Outcome(s, open, 221, FALSE)
  BY <1>0, <1>7 DEF Outcome
<1>8. CASE \/ p \in Replies(s, open, {213, 257, 550}) \/ p \in Replies(s, open, {200, 215})
           \/ p \in Replies(s, open, {502})
  BY <1>0, <1>1, <1>8
<1>9. CASE p \in Fails(s, open)
  BY <1>0, <1>2, <1>9
<1> QED BY <1>3, <1>4, <1>5, <1>6, <1>7, <1>8, <1>9, ZenonT(60) DEF Aside

LEMMA CommandPlaced ==
  ASSUME NEW s \in Sessions, s.pc = "select", s.state # "PROCESS" => s.offset = 0,
         NEW open, NEW there, NEW cmd \in [name : Names, at : Nat],
         NEW p \in ftp_session_process(s, open, there, cmd)
  PROVE  Placed(s, cmd, p)
<1> DEFINE name == cmd.name
<1>1. CASE s.state = "USER"
  <2>1. p \in user_cmd(s, open, name)
    BY <1>1 DEF ftp_session_process
  <2> DEFINE t == [s EXCEPT !.is_anonymous = TRUE, !.state = "PASSWD"]
             u == [s EXCEPT !.is_anonymous = FALSE, !.state = "PASSWD"]
  <2>2. \/ p \in Replies(t, open, {331}) \/ p \in Replies(u, open, {331})
        \/ p = Outcome(s, open, 530, FALSE) \/ p \in Replies(s, open, {502})
    BY <2>1, ZenonT(60) DEF user_cmd
  <2>3. Beside(s, t) /\ Beside(s, u)
    BY <1>1 DEF Beside, Sessions
  <2> HIDE DEF t, u
  <2>4. Beside(s, p.s) /\ p.reply # 350
    <3>1. CASE p = Outcome(s, open, 530, FALSE)
      BY <3>1 DEF Beside, Outcome
    <3>2. CASE p \in Replies(s, open, {502})
      <4>1. p.s = s /\ p.reply \in {502}
        BY <3>2, ReplyParts
      <4> QED BY <4>1 DEF Beside
    <3>3. CASE p \in Replies(t, open, {331}) \/ p \in Replies(u, open, {331})
      <4>1. (p.s = t \/ p.s = u) /\ p.reply \in {331}
        BY <3>3, ReplyParts
      <4> QED BY <2>3, <4>1
    <3> QED BY <2>2, <3>1, <3>2, <3>3
  <2> QED BY <1>1, <2>4, BesidePlaced
<1>2. CASE s.state = "PASSWD"
  <2>1. p \in pass_cmd(s, open, name)
    BY <1>2 DEF ftp_session_process
  <2> DEFINE t == [s EXCEPT !.currentdir = "root", !.state = "PROCESS"]
  <2>2. \/ p \in Replies(t, open, {230})
        \/ p = Outcome(s, open, 530, FALSE) \/ p \in Replies(s, open, {502})
    BY <2>1, ZenonT(60) DEF pass_cmd
  <2>3. Beside(s, t)
    BY DEF Beside, Sessions
  <2> HIDE DEF t
  <2>4. Beside(s, p.s) /\ p.reply # 350
    <3>1. CASE p = Outcome(s, open, 530, FALSE)
      BY <3>1 DEF Beside, Outcome
    <3>2. CASE p \in Replies(s, open, {502})
      <4>1. p.s = s /\ p.reply \in {502}
        BY <3>2, ReplyParts
      <4> QED BY <4>1 DEF Beside
    <3>3. CASE p \in Replies(t, open, {230})
      <4>1. p.s = t /\ p.reply \in {230}
        BY <3>3, ReplyParts
      <4> QED BY <2>3, <4>1
    <3> QED BY <2>2, <3>1, <3>2, <3>3
  <2> QED BY <1>2, <2>4, BesidePlaced
<1>3. CASE s.state = "PROCESS"
  <2>1. p \in ftp_session_cmd_process(s, open, there, cmd)
    BY <1>3 DEF ftp_session_process
  <2>2. CASE name = "RETR"
    <3>1. p \in retr_cmd_fn(s, open, there)
      BY <2>1, <2>2 DEF ftp_session_cmd_process, Listings, Changes, Queries, Constant
    <3> QED BY <1>3, <2>2, <3>1, RetrievePlaced
  <2>3. CASE name = "STOR"
    <3>1. p \in stor_cmd_fn(s, open, there)
      BY <2>1, <2>3 DEF ftp_session_cmd_process, Listings, Changes, Queries, Constant
    <3> QED BY <1>3, <2>3, <3>1, StorePlaced
  <2>4. CASE name = "REST"
    <3>1. p \in rest_cmd_fn(s, open, cmd.at)
      BY <2>1, <2>4 DEF ftp_session_cmd_process, Listings, Changes, Queries, Constant
    <3> QED BY <1>3, <2>4, <3>1, RestPlaced
  <2>5. CASE name \notin {"RETR", "STOR", "REST"}
    <3>1. Beside(s, p.s) /\ p.reply # 350
      <4>1. \/ Aside(s, open, there, name, p)
            \/ p \in cwd_cmd_fn(s, open, there, "sub")
            \/ p \in cwd_cmd_fn(s, open, there, Up(s.currentdir))
        BY <2>1, <2>5, ZenonT(60) DEF ftp_session_cmd_process, cdup_cmd_fn, Aside
      <4>2. "sub" \in Dirs /\ Up(s.currentdir) \in Dirs
        BY DEF Dirs, Up
      <4>3. Aside(s, open, there, name, p)
        BY <4>1, <4>2, ZenonT(60) DEF Aside
      <4> QED BY <4>3, AsideBeside
    <3> QED BY <2>5, <3>1, BesidePlaced
  <2> QED BY <2>2, <2>3, <2>4, <2>5
<1> QED BY <1>1, <1>2, <1>3 DEF Sessions

-----------------------------------------------------------------------------
(***************************************************************************)
(* What a client has of the file is a part from its start, it will start    *)
(* within it, and its session knows where.                                  *)
(***************************************************************************)
Upto(n) == [i \in 1 .. n |-> i]

FileOf(c) ==
  /\ have[c] = Upto(Len(have[c])) /\ Len(have[c]) <= Size
  /\ asked[c] = 0 \/ asked[c] < Size
  /\ inbox[c] = "REST" => Len(have[c]) < Size
  /\ c \notin Live => asked[c] = 0
  /\ c \in Live => Tracks(sess[c], asked[c])
  /\ At(c, "retr") => inbox[c] = "RETR" /\ sess[c].pos = Len(have[c])

ResumeInv == \A c \in Clients : FileOf(c)

LEMMA UptoSeq ==
  ASSUME NEW n \in Nat
  PROVE  /\ Upto(n) \in Seq(Nat) /\ Len(Upto(n)) = n
         /\ Append(Upto(n), n + 1) = Upto(n + 1)
         /\ \A m \in 0 .. n : SubSeq(Upto(n), 1, m) = Upto(m)
<1>1. Upto(n) \in Seq(Nat) /\ Len(Upto(n)) = n
  BY DEF Upto
<1>2. Append(Upto(n), n + 1) = Upto(n + 1)
  BY <1>1 DEF Upto
<1>3. ASSUME NEW m \in 0 .. n PROVE SubSeq(Upto(n), 1, m) = Upto(m)
  BY <1>1 DEF Upto
<1> QED BY <1>1, <1>2, <1>3

\* A session that goes on with the same offset and place.
Follows(s, t) ==
  /\ t.offset = s.offset /\ t.state = s.state /\ t.pos = s.pos
  /\ \/ t.pc = s.pc
     \/ t.pc # "retr" /\ (t.pc = "exit" \/ s.pc \notin {"exit", "stor"})

LEMMA FollowsParts ==
  ASSUME NEW s \in Sessions
  PROVE  /\ Follows(s, s) /\ Follows(s, [s EXCEPT !.pc = "exit"])
         /\ Follows(s, [s EXCEPT !.force_quit = TRUE])
         /\ s.pc \notin {"exit", "stor"} =>
              /\ \A pc \in {"loop", "select", "check"} : Follows(s, [s EXCEPT !.pc = pc])
              /\ \A n, m : Follows(s, [s EXCEPT !.pc = "loop", !.port_pasv_fd = n,
                                                !.tick_timeout = m])
  BY DEF Follows, Sessions

LEMMA KeptFile ==
  ASSUME IInv, NEW c \in Clients, FileOf(c), have'[c] = have[c], asked'[c] = asked[c],
         inbox'[c] \in {inbox[c], "none"}, At(c, "retr")' => inbox'[c] = inbox[c],
         sess'[c] = sess[c] \/ (c \in Live /\ sess'[c] # NoSession /\ Follows(sess[c], sess'[c]))
  PROVE  FileOf(c)'
<1>1. c \in Live' <=> c \in Live
  BY DEF Live
<1>2. c \in Live => Tracks(sess[c], asked[c])'
  BY DEF FileOf, Tracks, Follows
<1>3. At(c, "retr")' => At(c, "retr") /\ sess'[c].pos = sess[c].pos
  BY DEF At, Follows, Live
<1>4. "none" # "REST"
  OBVIOUS
<1> QED BY <1>1, <1>2, <1>3, <1>4 DEF FileOf

\* The steps that leave the clients' files, and follow in every session.
LEMMA QuietFile ==
  ASSUME IInv, ResumeInv, UNCHANGED <<have, asked, inbox>>,
         \A c \in Clients :
           sess'[c] = sess[c] \/ (c \in Live /\ sess'[c] # NoSession /\ Follows(sess[c], sess'[c]))
  PROVE  ResumeInv'
<1> SUFFICES ASSUME NEW c \in Clients PROVE FileOf(c)'
  BY DEF ResumeInv
<1> QED BY KeptFile DEF ResumeInv

LEMMA ListenerFile ==
  ASSUME IInv, ResumeInv, IInv',
         Listen \/ Restart \/ Waits \/ ListenerFails \/ Tick \/ ftp_force_restart
         \/ (\E c \in Clients : Connect(c) \/ Leave(c)) \/ UNCHANGED vars
  PROVE  ResumeInv'
<1>1. UNCHANGED <<have, asked, inbox>>
  BY DEF Listen, Restart, Waits, ListenerFails, Tick, ftp_force_restart, Connect, Leave, vars,
         transfer, history, clients
<1>2. ASSUME Restart \/ Tick, NEW c \in Clients
      PROVE  sess'[c] = sess[c] \/ (c \in Live /\ sess'[c] # NoSession /\ Follows(sess[c], sess'[c]))
  <2>1. CASE sess[c] = NoSession
    <3>1. sess'[c] = NoSession
      BY <1>2, <2>1 DEF Restart, Tick, Live, At
    <3> QED BY <2>1, <3>1
  <2>2. CASE sess[c] # NoSession
    <3>1. c \in Live /\ sess[c] \in Sessions
      BY <2>2 DEF IInv, SessType, Live
    <3>2. \/ sess'[c] = [sess[c] EXCEPT !.force_quit = TRUE]
          \/ sess'[c] = [sess[c] EXCEPT !.pc = "check"] /\ sess[c].pc = "select"
          \/ sess'[c] = sess[c]
      BY <1>2, <3>1 DEF Restart, Tick, At
    <3>3. Follows(sess[c], sess'[c])
      BY <3>1, <3>2, FollowsParts
    <3>4. sess'[c] # NoSession
      <4>1. [sess[c] EXCEPT !.force_quit = TRUE] \in Sessions
            /\ [sess[c] EXCEPT !.pc = "check"] \in Sessions
        BY <3>1 DEF Sessions, Steps
      <4> QED BY <2>2, <3>2, <4>1, FtpAssumption
    <3> QED BY <3>1, <3>3, <3>4
  <2> QED BY <2>1, <2>2
<1>3. CASE Restart \/ Tick
  BY <1>1, <1>2, <1>3, QuietFile
<1>4. CASE sess' = sess
  BY <1>1, <1>4, QuietFile
<1> QED BY <1>3, <1>4 DEF Listen, Waits, ListenerFails, ftp_force_restart, Connect, Leave, vars

\* A step of one client, or of its session, that makes its record t.
LEMMA OneFile ==
  ASSUME IInv, ResumeInv, NEW c \in Clients, FileOf(c)',
         \E t : sess' = [sess EXCEPT ![c] = t], \E t : have' = [have EXCEPT ![c] = t],
         \E t : asked' = [asked EXCEPT ![c] = t], \E t : inbox' = [inbox EXCEPT ![c] = t]
  PROVE  ResumeInv'
<1> SUFFICES ASSUME NEW d \in Clients, d # c PROVE FileOf(d)'
  BY DEF ResumeInv
<1>1. sess'[d] = sess[d] /\ have'[d] = have[d] /\ asked'[d] = asked[d] /\ inbox'[d] = inbox[d]
  BY DEF IInv, SessType, HaveType, ConnType
<1> QED BY <1>1, KeptFile DEF ResumeInv

\* What does not change is changed at c to what it was.
LEMMA Unchanged ==
  ASSUME IInv, NEW c \in Clients
  PROVE  /\ sess' = sess => \E t : sess' = [sess EXCEPT ![c] = t]
         /\ have' = have => \E t : have' = [have EXCEPT ![c] = t]
         /\ asked' = asked => \E t : asked' = [asked EXCEPT ![c] = t]
         /\ inbox' = inbox => \E t : inbox' = [inbox EXCEPT ![c] = t]
<1>1. /\ sess = [sess EXCEPT ![c] = sess[c]] /\ have = [have EXCEPT ![c] = have[c]]
      /\ asked = [asked EXCEPT ![c] = asked[c]] /\ inbox = [inbox EXCEPT ![c] = inbox[c]]
  BY DEF IInv, SessType, HaveType, ConnType
<1> QED BY <1>1

LEMMA AcceptFile ==
  ASSUME IInv, ResumeInv, NEW c \in Clients, AcceptConnection(c)
  PROVE  ResumeInv'
<1>1. UNCHANGED <<have, asked, inbox>>
  BY DEF AcceptConnection, transfer
<1>2. CASE sess' = sess
  BY <1>1, <1>2, QuietFile
<1>3. ASSUME NEW fd, sess' = [sess EXCEPT ![c] = NewSession(fd)] PROVE ResumeInv'
  <2>1. c \notin Live
    BY DEF AcceptConnection, IInv, ConnType
  <2>2. sess'[c] = NewSession(fd) /\ asked[c] = 0
    BY <1>3, <2>1 DEF IInv, SessType, ResumeInv, FileOf
  <2>3. NewSession(fd).offset = 0 /\ NewSession(fd).pc = "begin"
    BY DEF NewSession
  <2>4. FileOf(c)'
    BY <1>1, <2>2, <2>3 DEF ResumeInv, FileOf, Tracks, At, Live
  <2> QED BY <1>1, <1>3, <2>4, OneFile, Unchanged
<1> QED BY <1>2, <1>3 DEF AcceptConnection

LEMMA SendFile ==
  ASSUME IInv, ResumeInv, NEW c \in Clients, SendCommand(c)
  PROVE  ResumeInv'
<1>1. PICK name : /\ name = "REST" => Len(have[c]) < Size
                  /\ inbox' = [inbox EXCEPT ![c] = name]
  BY DEF SendCommand
<1>2. UNCHANGED <<sess, have, asked>> /\ inbox'[c] = name /\ inbox[c] = "none"
  BY <1>1 DEF SendCommand, transfer, history, IInv, ConnType
<1>3. FileOf(c)'
  BY <1>1, <1>2 DEF ResumeInv, FileOf, Live, At
<1> QED BY <1>1, <1>2, <1>3, OneFile, Unchanged

\* The steps of a session but its commands and its transfers.
LEMMA CalmFile ==
  ASSUME IInv, ResumeInv, IInv', NEW c \in Clients,
         Begin(c) \/ Loop(c) \/ ReadFails(c) \/ Check(c) \/ Exit(c)
  PROVE  ResumeInv'
<1>0. have' = have /\ sess[c] \in Sessions /\ c \in Live /\ sess[c].pc \notin {"retr", "stor"}
  BY DEF Begin, Loop, ReadFails, Check, Exit, transfer, At, IInv, SessType, Live
<1>1. CASE Exit(c)
  <2>1. sess'[c] = NoSession /\ inbox'[c] = "none" /\ asked'[c] = 0
    BY <1>1 DEF Exit, IInv, SessType, HaveType, ConnType
  <2>2. FileOf(c)'
    BY <1>0, <2>1 DEF ResumeInv, FileOf, Live, At
  <2>3. /\ \E t : sess' = [sess EXCEPT ![c] = t]
        /\ \E t : asked' = [asked EXCEPT ![c] = t]
        /\ \E t : inbox' = [inbox EXCEPT ![c] = t]
    BY <1>1 DEF Exit
  <2> QED BY <1>0, <2>2, <2>3, OneFile, Unchanged
<1>2. CASE ~Exit(c)
  <2>1. asked' = asked /\ sess[c].pc # "exit" /\ inbox'[c] \in {inbox[c], "none"}
        /\ \E t : inbox' = [inbox EXCEPT ![c] = t]
    BY <1>2, Unchanged DEF Begin, Loop, ReadFails, Check, history, clients, At, IInv, ConnType
  <2>2. PICK t : /\ sess' = [sess EXCEPT ![c] = t] /\ t \in Sessions /\ Follows(sess[c], t)
                 /\ t.pc # "retr"
    <3>1. CASE Begin(c) /\ sess' = [sess EXCEPT ![c] = [@ EXCEPT !.pc = "loop",
                                           !.port_pasv_fd = NoFd, !.tick_timeout = Due]]
      <4> DEFINE t == [sess[c] EXCEPT !.pc = "loop", !.port_pasv_fd = NoFd, !.tick_timeout = Due]
      <4>1. Follows(sess[c], t)
        BY <1>0, <2>1, FollowsParts, Zenon
      <4>2. t \in Sessions /\ t.pc = "loop"
        <5>1. Due \in Nat
          BY DueType, FtpAssumption DEF IInv
        <5> QED BY <1>0, <5>1 DEF Sessions, Steps
      <4>3. sess' = [sess EXCEPT ![c] = t]
        BY <3>1
      <4> HIDE DEF t
      <4> QED BY <4>1, <4>2, <4>3
    <3>2. ASSUME NEW pc \in {"loop", "select", "exit"}, Goes(c, pc)
          PROVE  \E t : /\ sess' = [sess EXCEPT ![c] = t] /\ t \in Sessions
                        /\ Follows(sess[c], t) /\ t.pc # "retr"
      <4> DEFINE t == [sess[c] EXCEPT !.pc = pc]
      <4>1. Follows(sess[c], t)
        BY <1>0, <2>1 DEF Follows, Sessions
      <4>2. t \in Sessions /\ t.pc = pc
        BY <1>0 DEF Sessions, Steps
      <4>3. sess' = [sess EXCEPT ![c] = t]
        BY <3>2 DEF Goes
      <4> HIDE DEF t
      <4> QED BY <3>2, <4>1, <4>2, <4>3
    <3> QED BY <1>2, <3>1, <3>2 DEF Begin, Loop, ReadFails, Check
  <2>3. sess'[c] = t /\ t # NoSession
    BY <2>2, FtpAssumption DEF IInv, SessType
  <2>4. FileOf(c)'
    BY <1>0, <2>1, <2>2, <2>3, KeptFile DEF ResumeInv, At
  <2> QED BY <1>0, <2>1, <2>2, <2>4, OneFile, Unchanged
<1> QED BY <1>1, <1>2

\* The end of a transfer that leaves what the client has.
LEMMA FinishesFile ==
  ASSUME IInv, ResumeInv, NEW c \in Clients, c \in Live, sess[c].pc \in {"retr", "stor"},
         NEW ok \in BOOLEAN, Finishes(c, ok), have' = have
  PROVE  ResumeInv'
<1> DEFINE d == DropFile(DropData(sess[c]))
           t == IF ok THEN [Reset(d) EXCEPT !.pc = "check", !.tick_timeout = Due, !.pos = 0]
                ELSE [d EXCEPT !.pc = "exit", !.pos = 0]
<1>1. /\ sess' = [sess EXCEPT ![c] = t] /\ inbox' = [inbox EXCEPT ![c] = "none"]
      /\ asked' = [asked EXCEPT ![c] = IF ok THEN 0 ELSE @]
  BY DEF Finishes
<1>2. sess[c] \in Sessions /\ d \in Sessions
  BY LiveSession DEF IInv, DropFile, DropData, Sessions
<1>3. (IF ok THEN t.pc = "check" /\ t.offset = 0 ELSE t.pc = "exit") /\ t \in Sessions
  <2>1. Due \in Nat
    BY DueType, FtpAssumption DEF IInv
  <2>2. Reset(d) \in Sessions /\ Reset(d).offset = 0
    BY <1>2 DEF Reset, Sessions
  <2>3. CASE ok
    BY <2>1, <2>2, <2>3 DEF Sessions, Steps
  <2>4. CASE ~ok
    BY <1>2, <2>4 DEF Sessions, Steps
  <2> QED BY <2>3, <2>4
<1> HIDE DEF t
<1>4. sess'[c] = t /\ inbox'[c] = "none" /\ asked'[c] = IF ok THEN 0 ELSE asked[c]
  BY <1>1 DEF IInv, SessType, HaveType, ConnType
<1>5. Tracks(t, asked'[c]) /\ t.pc # "retr" /\ (asked'[c] = 0 \/ asked'[c] = asked[c])
  BY <1>3, <1>4 DEF Tracks
<1>6. FileOf(c)'
  BY <1>3, <1>4, <1>5, FtpAssumption DEF ResumeInv, FileOf, At, Live
<1> QED BY <1>1, <1>6, OneFile, Unchanged

LEMMA TransferFile ==
  ASSUME IInv, ResumeInv, NEW c \in Clients, Transfer(c)
  PROVE  ResumeInv'
<1>1. c \in Live /\ sess[c].pc \in {"retr", "stor"} /\ sess[c] \in Sessions
  BY AtLive, LiveSession DEF Transfer, Retrieve, RetrieveEnds, Receive, ReceiveEnds, IInv
<1>2. CASE \E ok \in BOOLEAN : Finishes(c, ok) /\ have' = have
  BY <1>1, <1>2, FinishesFile
<1>3. CASE UNCHANGED <<sess, have, asked, inbox>>
  BY <1>3, QuietFile
<1>4. CASE /\ At(c, "retr") /\ sess[c].pos < Size
           /\ sess' = [sess EXCEPT ![c].pos = @ + 1]
           /\ have' = [have EXCEPT ![c] = Append(@, sess[c].pos + 1)]
           /\ UNCHANGED <<asked, inbox>>
  <2> DEFINE n == Len(have[c])
             t == [sess[c] EXCEPT !.pos = @ + 1]
  <2>1. n \in Nat /\ n = sess[c].pos /\ have[c] = Upto(n) /\ inbox[c] = "RETR"
    BY <1>4 DEF IInv, HaveType, ResumeInv, FileOf
  <2>2. have'[c] = Upto(n + 1) /\ Len(have'[c]) = n + 1
    <3>1. have'[c] = Append(have[c], n + 1)
      BY <1>4, <2>1 DEF IInv, HaveType
    <3>2. Append(Upto(n), n + 1) = Upto(n + 1) /\ Len(Upto(n + 1)) = n + 1
      <4>1. n + 1 \in Nat
        BY <2>1
      <4> QED BY <2>1, <4>1, UptoSeq
    <3> QED BY <2>1, <3>1, <3>2
  <2>3. sess'[c] = t /\ t.pos = n + 1 /\ t.pc = "retr" /\ t.offset = sess[c].offset
        /\ t.state = sess[c].state
    BY <1>1, <1>4, <2>1 DEF IInv, SessType, Sessions, At
  <2>4. n + 1 <= Size
    BY <1>4, <2>1, FtpSizes
  <2>5. Tracks(t, asked[c])
    BY <1>1, <1>4, <2>3 DEF ResumeInv, FileOf, Tracks, At
  <2>8. t # NoSession
    <3>1. t \in Sessions
      BY <1>1, <2>1, <2>3 DEF Sessions
    <3> QED BY <3>1, FtpAssumption
  <2> HIDE DEF n, t
  <2>9. asked[c] = 0 \/ asked[c] < Size
    BY DEF ResumeInv, FileOf
  <2>6. FileOf(c)'
    BY <1>1, <1>4, <2>1, <2>2, <2>3, <2>4, <2>5, <2>8, <2>9 DEF FileOf, At, Live
  <2>7. \E u : sess' = [sess EXCEPT ![c] = u]
    BY <1>4
  <2> QED BY <1>4, <2>6, <2>7, OneFile, Unchanged
<1> QED BY <1>2, <1>3, <1>4 DEF Transfer, Retrieve, RetrieveEnds, Receive, ReceiveEnds,
           transfer, clients, history

LEMMA ProcessFile ==
  ASSUME IInv, ResumeInv, NEW c \in Clients, Process(c)
  PROVE  ResumeInv'
<1> DEFINE s == sess[c]
           n == Len(have[c])
           cmd == [name |-> inbox[c], at |-> n]
<1>1. c \in Live /\ s.pc = "select" /\ s \in Sessions
  <2>1. At(c, "select")
    BY DEF Process
  <2>2. c \in Live /\ s.pc = "select"
    BY <2>1, AtLive
  <2> QED BY <2>2, LiveSession DEF IInv
<1>2. n \in Nat /\ inbox[c] \in Names /\ cmd \in [name : Names, at : Nat]
  <2>1. inbox[c] \in Names
    BY DEF Process, IInv, ConnType
  <2>2. n \in Nat
    BY DEF IInv, HaveType
  <2> QED BY <2>1, <2>2
<1>3. s.offset = asked[c] /\ (s.state # "PROCESS" => s.offset = 0)
  BY <1>1 DEF ResumeInv, FileOf, Tracks
<1>4. PICK o \in ftp_session_process(s, fds, tree, cmd) :
        LET busy == o.s.pc \in {"retr", "stor"} IN
        /\ sess' = [sess EXCEPT ![c] =
                      IF ~o.ok THEN [o.s EXCEPT !.pc = "exit"]
                      ELSE IF busy THEN o.s
                      ELSE [o.s EXCEPT !.pc = "check", !.tick_timeout = Due]]
        /\ inbox' = [inbox EXCEPT ![c] = IF busy THEN @ ELSE "none"]
        /\ asked' = [asked EXCEPT ![c] = AskedAfter(c, o, cmd)]
        /\ have' = [have EXCEPT ![c] = IF o.s.pc = "retr" THEN SubSeq(@, 1, asked[c]) ELSE @]
  BY Zenon DEF Process
<1> DEFINE busy == o.s.pc \in {"retr", "stor"}
           t == IF ~o.ok THEN [o.s EXCEPT !.pc = "exit"]
                ELSE IF busy THEN o.s
                ELSE [o.s EXCEPT !.pc = "check", !.tick_timeout = Due]
           a == AskedAfter(c, o, cmd)
<1>5. /\ o.s \in Sessions /\ o.s.pc \in {"select", "retr", "stor"} /\ o.ok \in BOOLEAN
      /\ ~o.ok => o.s.pc = "select"
      /\ o.s.pc # "select" => o.reply = 150
  <2>1. Before(s, fds)
    BY <1>1 DEF Before, IInv, ListenerType, SessType
  <2> QED BY <1>2, <2>1, CommandGood DEF Good
<1>6. Placed(s, cmd, o)
  BY <1>1, <1>2, <1>3, CommandPlaced
<1>7. a = OffsetAfter(o, cmd, s.offset)
  BY <1>3 DEF AskedAfter, OffsetAfter
<1>8. /\ sess'[c] = t /\ inbox'[c] = (IF busy THEN inbox[c] ELSE "none") /\ asked'[c] = a
      /\ have'[c] = IF o.s.pc = "retr" THEN SubSeq(have[c], 1, asked[c]) ELSE have[c]
  BY <1>4 DEF IInv, SessType, HaveType, ConnType
<1>9. /\ t.pc = IF ~o.ok THEN "exit" ELSE IF busy THEN o.s.pc ELSE "check"
      /\ t.offset = o.s.offset /\ t.state = o.s.state /\ (busy => t.pos = o.s.pos)
  BY <1>5 DEF Sessions
<1>10. cmd.name = inbox[c] /\ cmd.at = n
  OBVIOUS
<1>11. /\ asked[c] \in 0 .. n /\ (asked[c] = 0 \/ asked[c] < Size) /\ n <= Size
       /\ have[c] = Upto(n) /\ (inbox[c] = "REST" => n < Size)
  BY DEF IInv, HaveType, ResumeInv, FileOf
<1>17. c \in Live'
  <2>1. Due \in Nat
    BY DueType, FtpAssumption DEF IInv
  <2>2. t \in Sessions
    <3>1. CASE ~o.ok
      BY <1>5, <3>1 DEF Sessions, Steps
    <3>2. CASE o.ok /\ busy
      BY <1>5, <3>2
    <3>3. CASE o.ok /\ ~busy
      BY <1>5, <2>1, <3>3 DEF Sessions, Steps
    <3> QED BY <3>1, <3>2, <3>3
  <2> QED BY <1>8, <2>2, FtpAssumption DEF Live
<1>18. /\ \E u : sess' = [sess EXCEPT ![c] = u]
       /\ \E u : have' = [have EXCEPT ![c] = u]
       /\ \E u : asked' = [asked EXCEPT ![c] = u]
       /\ \E u : inbox' = [inbox EXCEPT ![c] = u]
  BY <1>4
<1> HIDE DEF s, n, cmd, t, a
<1>12. a \in {0, asked[c], n} /\ (a = n => a = 0 \/ a = asked[c] \/ inbox[c] = "REST")
  BY <1>3, <1>6, <1>7, <1>10 DEF OffsetAfter, Placed
<1>13. a = 0 \/ a < Size
  BY <1>11, <1>12
<1>14. Tracks(t, a)
  BY <1>3, <1>5, <1>6, <1>7, <1>9 DEF Tracks, Placed
<1>15. ASSUME o.s.pc = "retr" PROVE FileOf(c)'
  <2>1. inbox[c] = "RETR" /\ t.pc = "retr" /\ t.pos = Start(s) /\ inbox'[c] = "RETR"
    BY <1>5, <1>6, <1>8, <1>9, <1>10, <1>15 DEF Placed
  <2>2. Start(s) = asked[c]
    BY <1>3, <1>11, FtpSizes DEF Start
  <2>3. have'[c] = Upto(asked[c]) /\ Len(have'[c]) = asked[c]
    <3>1. asked[c] \in Nat
      BY <1>2, <1>11
    <3>2. SubSeq(Upto(n), 1, asked[c]) = Upto(asked[c])
      BY <1>2, <1>11, UptoSeq
    <3> QED BY <1>8, <1>11, <1>15, <3>1, <3>2, UptoSeq
  <2>4. asked[c] <= Size
    BY <1>11, FtpSizes
  <2> QED BY <1>8, <1>13, <1>14, <1>17, <2>1, <2>2, <2>3, <2>4 DEF FileOf, At
<1>16. ASSUME o.s.pc # "retr" PROVE FileOf(c)'
  <2>1. have'[c] = have[c] /\ t.pc # "retr" /\ inbox'[c] \in {inbox[c], "none"}
    BY <1>5, <1>8, <1>9, <1>16
  <2> QED BY <1>8, <1>11, <1>13, <1>14, <1>17, <2>1 DEF FileOf, At, n
<1> QED BY <1>15, <1>16, <1>18, OneFile

LEMMA ResumeStep ==
  ASSUME IInv, ResumeInv, IInv', [Next]_vars
  PROVE  ResumeInv'
<1>1. CASE \E c \in Clients : Session(c)
  BY <1>1, CalmFile, ProcessFile, TransferFile DEF Session
<1>2. CASE \E c \in Clients : AcceptConnection(c) \/ SendCommand(c)
  BY <1>2, AcceptFile, SendFile
<1> QED BY <1>1, <1>2, ListenerFile DEF Next, Listener, Client

LEMMA ResumeInvariance == Spec => [](IInv /\ ResumeInv)
<1>1. Init => IInv
  BY InitInv
<1>2. ASSUME Init PROVE ResumeInv
  <2>1. \A c \in Clients : have[c] = <<>> /\ asked[c] = 0 /\ inbox[c] = "none" /\ c \notin Live
    BY <1>2 DEF Init, For, Live
  <2>2. <<>> = Upto(0) /\ Len(<<>>) = 0
    BY DEF Upto
  <2> QED BY <2>1, <2>2, FtpSizes DEF ResumeInv, FileOf, At, Live
<1> QED BY <1>1, <1>2, NextInv, ResumeStep, PTL DEF Spec

\* Only the end of a RETR leads from its transfer to the answer.
LEMMA RetrievalEnds ==
  ASSUME IInv, [Next]_vars, NEW c \in Clients, At(c, "retr"), At(c, "check")'
  PROVE  RetrieveEnds(c)
<1>1. c \in Live /\ sess[c].pc = "retr" /\ sess[c] \in Sessions
  BY AtLive, LiveSession DEF IInv
<1>2. sess'[c].pc = "check"
  BY DEF At
<1>3. ASSUME NEW d \in Clients, d # c, Session(d) \/ AcceptConnection(d) PROVE FALSE
  <2>1. sess' = sess \/ \E t : sess' = [sess EXCEPT ![d] = t]
    BY <1>3 DEF Session, Begin, Loop, ReadFails, Process, Transfer, Retrieve, RetrieveEnds,
                Receive, ReceiveEnds, Finishes, Check, Exit, Goes, AcceptConnection
  <2> QED BY <1>1, <1>2, <1>3, <2>1 DEF IInv, SessType
<1>4. ~AcceptConnection(c)
  BY <1>1 DEF AcceptConnection, IInv, ConnType
<1>5. CASE Session(c)
  <2>1. Transfer(c)
    BY <1>1, <1>5 DEF Session, Begin, Loop, ReadFails, Process, Check, Exit, At
  <2>2. ~Receive(c) /\ ~ReceiveEnds(c)
    BY <1>1 DEF Receive, ReceiveEnds, At
  <2>3. ~Retrieve(c)
    <3>1. ASSUME sess' = [sess EXCEPT ![c].pos = @ + 1] PROVE FALSE
      BY <1>1, <1>2, <3>1 DEF IInv, SessType, Sessions
    <3>2. ASSUME Finishes(c, FALSE) PROVE FALSE
      <4> DEFINE d == DropFile(DropData(sess[c]))
      <4>1. sess'[c] = [d EXCEPT !.pc = "exit", !.pos = 0]
        BY <1>1, <3>2 DEF Finishes, IInv, SessType, Live
      <4>2. [d EXCEPT !.pc = "exit", !.pos = 0].pc = "exit"
        BY <1>1 DEF DropFile, DropData, Sessions
      <4> QED BY <1>2, <4>1, <4>2
    <3> QED BY <3>1, <3>2 DEF Retrieve
  <2> QED BY <2>1, <2>2, <2>3 DEF Transfer
<1>6. CASE sess' = sess
  BY <1>1, <1>2, <1>6
<1>7. CASE Restart \/ Tick
  <2>1. sess'[c] = sess[c] \/ sess'[c] = [sess[c] EXCEPT !.force_quit = TRUE]
    BY <1>1, <1>7 DEF Restart, Tick, At, IInv, SessType, Live
  <2> QED BY <1>1, <1>2, <2>1 DEF Sessions
<1> QED BY <1>3, <1>4, <1>5, <1>6, <1>7
    DEF Next, Listener, Listen, Waits, ListenerFails, ftp_force_restart, Client, Connect,
        SendCommand, Leave, vars

(***************************************************************************)
(* A client that goes on where it was told to, after a transfer that broke, *)
(* has the whole file when its RETR is answered with 226 (rest_cmd_fn and   *)
(* retr_cmd_fn): whatever commands came in between and whichever failed,    *)
(* for a file of any size and any number of sessions.                       *)
(***************************************************************************)
THEOREM ResumeExact == Spec => ResumeIsExact
<1>1. ASSUME IInv, ResumeInv, [Next]_vars
      PROVE  [\A c \in Clients :
                At(c, "retr") /\ At(c, "check")' => have'[c] = [i \in 1 .. Size |-> i]]_vars
  <2> SUFFICES ASSUME NEW c \in Clients, At(c, "retr"), At(c, "check")'
               PROVE  have'[c] = [i \in 1 .. Size |-> i]
    OBVIOUS
  <2>1. RetrieveEnds(c)
    BY <1>1, RetrievalEnds
  <2>2. have' = have /\ sess[c].pos = Size
    BY <2>1 DEF RetrieveEnds, transfer
  <2>3. Len(have[c]) = Size /\ have[c] = Upto(Len(have[c]))
    BY <1>1, <2>2 DEF ResumeInv, FileOf
  <2> QED BY <2>2, <2>3 DEF Upto
<1> QED BY ResumeInvariance, <1>1, PTL DEF Spec, ResumeIsExact

-----------------------------------------------------------------------------
(***************************************************************************)
(* The timeout of a session, across the wrap of the tick.                   *)
(***************************************************************************)
\* The time-out is a part of the half of the ticks that counts as the past.
TimeoutFits == 0 < Timeout /\ 2 * Timeout <= TickMod /\ 3 <= TickMod

\* A session that has waited so long has this deadline now.
Deadline(waited) == (now + (Timeout - waited)) % TickMod

TimeOf(c) ==
  /\ idle[c] \in 0 .. Timeout
  /\ At(c, "begin") => idle[c] = 0
  /\ At(c, "loop") \/ At(c, "select") => idle[c] < Timeout
  /\ At(c, "loop") \/ At(c, "select") \/ At(c, "check") =>
       sess[c].tick_timeout = Deadline(idle[c])

TimeInv ==
  /\ idle \in [Clients -> Int]
  /\ \A c \in Clients : TimeOf(c)

LEMMA Remainders ==
  ASSUME NEW m \in Nat \ {0}
  PROVE  /\ \A x \in 0 .. m - 1 : x % m = x
         /\ \A x \in m .. 2 * m - 1 : x % m = x - m
         /\ \A x \in Int : -m <= x /\ x <= -1 => x % m = x + m
  OBVIOUS

\* At tick n the deadline that is r ticks away counts as past.
Past(n, m, r) == (n - ((n + r) % m)) % m < (m - 1) \div 2

\* The comparison of the ticks tells a session that has no time left.
LEMMA NoTimeLeft ==
  ASSUME NEW m \in Nat, 3 <= m, NEW n \in 0 .. m - 1, NEW r \in Nat, 2 * r <= m
  PROVE  Past(n, m, r) <=> r = 0
<1> USE DEF Past
<1> DEFINE h == (m - 1) \div 2
<1>1. h \in Nat /\ 1 <= h /\ 2 * h <= m - 1
  OBVIOUS
<1>2. CASE n + r < m
  <2>1. (n + r) % m = n + r
    BY <1>2, Remainders
  <2>2. n - ((n + r) % m) = 0 - r
    <3> DEFINE y == (n + r) % m
    <3>1. y = n + r
      BY <2>1
    <3> HIDE DEF y
    <3>2. n - y = 0 - r
      BY <3>1
    <3> QED BY <3>2 DEF y
  <2>3. CASE r = 0
    <3>1. n - ((n + r) % m) = 0 /\ 0 % m = 0
      BY <2>2, <2>3, Remainders
    <3> QED BY <1>1, <2>3, <3>1
  <2>4. CASE r # 0
    <3> DEFINE x == n - ((n + r) % m)
    <3>1. x \in Int /\ x = 0 - r /\ -m <= x /\ x <= -1
      BY <2>2, <2>4
    <3> HIDE DEF x
    <3>2. x % m = m - r
      <4>1. x % m = x + m
        <5>1. m \in Nat \ {0}
          OBVIOUS
        <5> QED BY <3>1, <5>1, Remainders, ZenonT(30)
      <4>2. x + m = m - r
        BY <3>1
      <4> QED BY <4>1, <4>2
    <3>3. ~(m - r < h)
      BY <1>1
    <3> QED BY <2>4, <3>2, <3>3 DEF x
  <2> QED BY <2>3, <2>4
<1>3. CASE n + r >= m
  <2>1. n + r \in m .. 2 * m - 1 /\ r # 0 /\ m - r \in 0 .. m - 1
    BY <1>3
  <2>2. (n + r) % m = n + r - m
    BY <2>1, Remainders
  <2>3. n - ((n + r) % m) = m - r
    BY <2>2
  <2>4. (m - r) % m = m - r
    <3> DEFINE x == m - r
    <3>1. x \in 0 .. m - 1
      BY <2>1
    <3> HIDE DEF x
    <3>2. x % m = x
      BY <3>1, Remainders
    <3> QED BY <3>2 DEF x
  <2>5. ~(m - r < h)
    BY <1>1
  <2> QED BY <2>1, <2>3, <2>4, <2>5
<1> QED BY <1>2, <1>3

\* A deadline stays where it is while its session waits for a tick.
LEMMA TickOn ==
  ASSUME NEW m \in Nat \ {0}, NEW n \in 0 .. m - 1, NEW r \in 1 .. m
  PROVE  (((n + 1) % m) + (r - 1)) % m = (n + r) % m
<1>1. CASE n + 1 < m
  <2>1. (n + 1) % m = n + 1
    BY <1>1, Remainders
  <2> QED BY <2>1
<1>2. CASE n + 1 = m
  <2>1. (n + 1) % m = 0
    BY <1>2, Remainders
  <2> DEFINE x == r - 1
             y == n + r
  <2>2. x \in 0 .. m - 1 /\ y \in m .. 2 * m - 1 /\ y - m = x
    BY <1>2
  <2> HIDE DEF x, y
  <2>3. x % m = x /\ y % m = y - m
    BY <2>2, Remainders
  <2>4. 0 + x = x
    BY <2>2
  <2> QED BY <2>1, <2>2, <2>3, <2>4 DEF x, y
<1> QED BY <1>1, <1>2

LEMMA ExpiredIs ==
  ASSUME IInv, TimeoutFits, NEW c \in Clients, TimeOf(c), At(c, "check")
  PROVE  Expired(c) <=> idle[c] = Timeout
<1> DEFINE r == Timeout - idle[c]
<1>1. /\ TickMod \in Nat /\ 3 <= TickMod /\ now \in 0 .. TickMod - 1
      /\ r \in Nat /\ 2 * r <= TickMod
  BY FtpAssumption DEF IInv, ListenerType, TimeoutFits, TimeOf
<1>2. sess[c].tick_timeout = (now + r) % TickMod
  BY DEF TimeOf, Deadline
<1>3. r = 0 <=> idle[c] = Timeout
  BY FtpAssumption DEF TimeOf
<1> HIDE DEF r
<1>4. Past(now, TickMod, r) <=> r = 0
  BY <1>1, NoTimeLeft
<1>5. Expired(c) <=> Past(now, TickMod, r)
  BY <1>2, Zenon DEF Expired, Past
<1> QED BY <1>3, <1>4, <1>5, Zenon

\* A session that goes on waiting, or ends.
LEMMA TimeKept ==
  ASSUME NEW c \in Clients, TimeOf(c), idle'[c] = idle[c], now' = now,
         \/ sess'[c] = NoSession
         \/ /\ sess[c] # NoSession /\ sess'[c].tick_timeout = sess[c].tick_timeout
            /\ \/ sess'[c].pc = sess[c].pc
               \/ sess'[c].pc = "exit"
               \/ sess[c].pc = "loop" /\ sess'[c].pc = "select"
  PROVE  TimeOf(c)'
  BY DEF TimeOf, At, Deadline

\* A session that starts to wait.
LEMMA TimeFresh ==
  ASSUME TimeoutFits, NEW c \in Clients, idle'[c] = 0, now' = now,
         \/ sess'[c] = NoSession
         \/ sess'[c].pc \in {"begin", "retr", "stor", "exit"}
         \/ sess'[c].tick_timeout = Due
  PROVE  TimeOf(c)'
<1>1. Timeout \in Nat /\ 0 < Timeout /\ Timeout - 0 = Timeout
  BY FtpAssumption DEF TimeoutFits
<1>2. Deadline(idle[c])' = Due
  BY <1>1 DEF Deadline, Due
<1> QED BY <1>1, <1>2 DEF TimeOf, At

\* A step of one session.
LEMMA OneTime ==
  ASSUME IInv, TimeInv, NEW c \in Clients, now' = now, TimeOf(c)',
         \E t : sess' = [sess EXCEPT ![c] = t],
         idle' = idle \/ idle' = [idle EXCEPT ![c] = 0]
  PROVE  TimeInv'
<1>1. idle' \in [Clients -> Int]
  BY DEF TimeInv
<1>2. ASSUME NEW d \in Clients, d # c PROVE TimeOf(d)'
  <2>1. sess'[d] = sess[d] /\ idle'[d] = idle[d]
    BY <1>2 DEF IInv, SessType, TimeInv
  <2> QED BY <2>1 DEF TimeInv, TimeOf, At, Deadline
<1> QED BY <1>1, <1>2 DEF TimeInv

LEMMA QuietTime ==
  ASSUME TimeInv, UNCHANGED <<sess, idle, now>>
  PROVE  TimeInv'
  BY DEF TimeInv, TimeOf, At, Deadline

LEMMA RestartTime ==
  ASSUME IInv, TimeInv, Restart
  PROVE  TimeInv'
<1>1. UNCHANGED <<idle, now>>
  BY DEF Restart
<1>2. ASSUME NEW c \in Clients PROVE TimeOf(c)'
  <2>1. CASE c \in Live
    <3>1. sess[c] \in Sessions /\ sess'[c] = [sess[c] EXCEPT !.force_quit = TRUE]
      BY <2>1, LiveSession DEF Restart, IInv
    <3>2. sess'[c].tick_timeout = sess[c].tick_timeout /\ sess'[c].pc = sess[c].pc
      BY <3>1 DEF Sessions
    <3> QED BY <1>1, <2>1, <3>2, TimeKept DEF TimeInv, Live
  <2>2. CASE c \notin Live
    <3>1. sess'[c] = NoSession
      BY <2>2 DEF Restart
    <3> QED BY <1>1, <3>1, TimeKept DEF TimeInv
  <2> QED BY <2>1, <2>2
<1> QED BY <1>1, <1>2 DEF TimeInv

LEMMA TickTime ==
  ASSUME IInv, TimeInv, Tick
  PROVE  TimeInv'
<1>1. /\ now' = (now + 1) % TickMod /\ now \in 0 .. TickMod - 1 /\ TickMod \in Nat \ {0}
      /\ Timeout \in Nat /\ Timeout < TickMod
      /\ idle \in [Clients -> Int]
      /\ idle' = [c \in Clients |-> IF At(c, "select") THEN idle[c] + 1 ELSE idle[c]]
  BY FtpAssumption DEF Tick, IInv, ListenerType, TimeInv
<1>2. ASSUME NEW c \in Clients, At(c, "select") PROVE TimeOf(c)'
  <2> DEFINE r == Timeout - idle[c]
  <2>1. /\ sess[c] \in Sessions /\ sess'[c] = [sess[c] EXCEPT !.pc = "check"]
        /\ idle'[c] = idle[c] + 1
    BY <1>1, <1>2, AtLive, LiveSession DEF Tick, IInv
  <2>2. sess'[c].pc = "check" /\ sess'[c].tick_timeout = sess[c].tick_timeout
    BY <2>1 DEF Sessions
  <2>3. idle[c] \in 0 .. Timeout /\ idle[c] < Timeout /\ idle'[c] \in 0 .. Timeout
    BY <1>1, <1>2, <2>1 DEF TimeInv, TimeOf
  <2>4. r \in 1 .. TickMod /\ Timeout - idle'[c] = r - 1
    BY <1>1, <2>1, <2>3
  <2>5. sess[c].tick_timeout = (now + r) % TickMod
    BY <1>2 DEF TimeInv, TimeOf, Deadline
  <2> HIDE DEF r
  <2>6. (((now + 1) % TickMod) + (r - 1)) % TickMod = (now + r) % TickMod
    BY <1>1, <2>4, TickOn
  <2>7. sess'[c].tick_timeout = Deadline(idle[c])'
    BY <1>1, <2>2, <2>4, <2>5, <2>6, Zenon DEF Deadline
  <2> QED BY <2>2, <2>3, <2>7 DEF TimeOf, At
<1>3. ASSUME NEW c \in Clients, ~At(c, "select") PROVE TimeOf(c)'
  <2>1. sess'[c] = sess[c] /\ idle'[c] = idle[c] /\ ~Busy(c)
    BY <1>1, <1>3 DEF Tick
  <2>2. ~At(c, "begin") /\ ~At(c, "loop") /\ ~At(c, "check")
    BY <2>1 DEF Busy, At
  <2> QED BY <1>3, <2>1, <2>2 DEF TimeInv, TimeOf, At
<1> QED BY <1>1, <1>2, <1>3 DEF TimeInv

LEMMA AcceptTime ==
  ASSUME IInv, TimeInv, TimeoutFits, NEW c \in Clients, AcceptConnection(c)
  PROVE  TimeInv'
<1>1. now' = now
  BY DEF AcceptConnection
<1>2. CASE UNCHANGED <<sess, idle>>
  BY <1>1, <1>2, QuietTime
<1>3. ASSUME NEW fd, sess' = [sess EXCEPT ![c] = NewSession(fd)],
             idle' = [idle EXCEPT ![c] = 0]
      PROVE  TimeInv'
  <2>1. sess'[c] = NewSession(fd) /\ idle'[c] = 0
    BY <1>3 DEF IInv, SessType, TimeInv
  <2>2. NewSession(fd).pc = "begin"
    BY DEF NewSession
  <2> QED BY <1>1, <1>3, <2>1, <2>2, TimeFresh, OneTime
<1> QED BY <1>2, <1>3 DEF AcceptConnection

LEMMA BeginTime ==
  ASSUME IInv, TimeInv, TimeoutFits, NEW c \in Clients, Begin(c)
  PROVE  TimeInv'
<1>1. /\ c \in Live /\ sess[c] \in Sessions /\ idle[c] = 0 /\ idle' = idle /\ now' = now
  BY AtLive, LiveSession DEF Begin, IInv, TimeInv, TimeOf
<1>2. CASE sess' = [sess EXCEPT ![c] = [@ EXCEPT !.pc = "loop", !.port_pasv_fd = NoFd,
                                                 !.tick_timeout = Due]]
  <2> DEFINE t == [sess[c] EXCEPT !.pc = "loop", !.port_pasv_fd = NoFd, !.tick_timeout = Due]
  <2>1. sess' = [sess EXCEPT ![c] = t] /\ t.tick_timeout = Due
    BY <1>1, <1>2 DEF Sessions
  <2> HIDE DEF t
  <2>2. sess'[c] = t
    BY <2>1 DEF IInv, SessType
  <2>3. TimeOf(c)'
    BY <1>1, <2>1, <2>2, TimeFresh
  <2> QED BY <1>1, <2>1, <2>3, OneTime
<1>3. CASE Goes(c, "exit")
  <2> DEFINE t == [sess[c] EXCEPT !.pc = "exit"]
  <2>1. sess' = [sess EXCEPT ![c] = t] /\ t.pc = "exit"
    BY <1>1, <1>3 DEF Goes, Sessions
  <2> HIDE DEF t
  <2>2. sess'[c] = t
    BY <2>1 DEF IInv, SessType
  <2>3. TimeOf(c)'
    BY <1>1, <2>1, <2>2, TimeFresh
  <2> QED BY <1>1, <2>1, <2>3, OneTime
<1> QED BY <1>2, <1>3 DEF Begin

\* A session is only ended where its time is over, and it is then.
LEMMA CheckTime ==
  ASSUME IInv, TimeInv, TimeoutFits, NEW c \in Clients, Check(c)
  PROVE  TimeInv' /\ (At(c, "exit")' => idle[c] = Timeout)
<1>1. /\ c \in Live /\ sess[c] \in Sessions /\ idle' = idle /\ now' = now
      /\ idle[c] \in 0 .. Timeout /\ sess[c].tick_timeout = Deadline(idle[c])
  BY AtLive, LiveSession DEF Check, IInv, TimeInv, TimeOf
<1>2. Expired(c) <=> idle[c] = Timeout
  BY ExpiredIs DEF Check, TimeInv
<1>3. PICK pc \in {"exit", "loop"} : Goes(c, pc) /\ (pc = "exit" <=> idle[c] = Timeout)
  BY <1>2 DEF Check
<1> DEFINE t == [sess[c] EXCEPT !.pc = pc]
<1>4. /\ sess' = [sess EXCEPT ![c] = t] /\ t.pc = pc
      /\ t.tick_timeout = sess[c].tick_timeout
  BY <1>1, <1>3 DEF Goes, Sessions
<1> HIDE DEF t
<1>5. sess'[c] = t
  BY <1>4 DEF IInv, SessType
<1>6. At(c, "exit")' => idle[c] = Timeout
  BY <1>3, <1>4, <1>5 DEF At
<1>7. TimeOf(c)'
  <2>1. Deadline(idle[c])' = Deadline(idle[c]) /\ idle'[c] = idle[c]
    BY <1>1 DEF Deadline
  <2>2. pc = "loop" => idle[c] < Timeout
    BY <1>1, <1>3, FtpAssumption
  <2> QED BY <1>1, <1>3, <1>4, <1>5, <2>1, <2>2 DEF TimeOf, At
<1> QED BY <1>1, <1>4, <1>6, <1>7, OneTime

LEMMA WaitTime ==
  ASSUME IInv, TimeInv, NEW c \in Clients, Loop(c) \/ ReadFails(c) \/ Exit(c)
  PROVE  TimeInv'
<1>1. /\ c \in Live /\ sess[c] \in Sessions /\ UNCHANGED <<idle, now>>
  BY LiveSession DEF Loop, ReadFails, Exit, At, Live, IInv
<1>2. CASE Exit(c)
  <2>1. sess' = [sess EXCEPT ![c] = NoSession] /\ sess'[c] = NoSession
    BY <1>2 DEF Exit, IInv, SessType
  <2>2. TimeOf(c)'
    BY <1>1, <2>1, TimeKept DEF TimeInv
  <2> QED BY <1>1, <2>1, <2>2, OneTime
<1>3. CASE Loop(c) \/ ReadFails(c)
  <2>1. PICK pc : Goes(c, pc) /\ (pc = "exit" \/ (sess[c].pc = "loop" /\ pc = "select"))
    BY <1>3 DEF Loop, ReadFails, At
  <2> DEFINE t == [sess[c] EXCEPT !.pc = pc]
  <2>2. /\ sess' = [sess EXCEPT ![c] = t] /\ t.pc = pc
        /\ t.tick_timeout = sess[c].tick_timeout
    BY <1>1, <2>1 DEF Goes, Sessions
  <2> HIDE DEF t
  <2>3. sess'[c] = t
    BY <2>2 DEF IInv, SessType
  <2>4. TimeOf(c)'
    BY <1>1, <2>1, <2>2, <2>3, TimeKept DEF TimeInv, Live
  <2> QED BY <1>1, <2>2, <2>4, OneTime
<1> QED BY <1>2, <1>3

LEMMA ProcessTime ==
  ASSUME IInv, TimeInv, TimeoutFits, NEW c \in Clients, Process(c)
  PROVE  TimeInv'
<1> DEFINE cmd == [name |-> inbox[c], at |-> Len(have[c])]
<1>1. c \in Live /\ sess[c].pc = "select" /\ sess[c] \in Sessions
  <2>1. At(c, "select")
    BY DEF Process
  <2>2. c \in Live /\ sess[c].pc = "select"
    BY <2>1, AtLive
  <2> QED BY <2>2, LiveSession DEF IInv
<1>2. cmd \in [name : Names, at : Nat]
  <2>1. inbox[c] \in Names
    BY DEF Process, IInv, ConnType
  <2>2. Len(have[c]) \in Nat
    BY DEF IInv, HaveType
  <2> QED BY <2>1, <2>2
<1>3. PICK o \in ftp_session_process(sess[c], fds, tree, cmd) :
        sess' = [sess EXCEPT ![c] =
                   IF ~o.ok THEN [o.s EXCEPT !.pc = "exit"]
                   ELSE IF o.s.pc \in {"retr", "stor"} THEN o.s
                   ELSE [o.s EXCEPT !.pc = "check", !.tick_timeout = Due]]
  BY Zenon DEF Process
<1> DEFINE t == IF ~o.ok THEN [o.s EXCEPT !.pc = "exit"]
                ELSE IF o.s.pc \in {"retr", "stor"} THEN o.s
                ELSE [o.s EXCEPT !.pc = "check", !.tick_timeout = Due]
<1>4. o.s \in Sessions
  <2>1. Before(sess[c], fds)
    BY <1>1 DEF Before, IInv, ListenerType, SessType
  <2> QED BY <1>2, <2>1, CommandGood DEF Good
<1>5. t.pc \in {"retr", "stor", "exit"} \/ t.tick_timeout = Due
  BY <1>4 DEF Sessions
<1>6. sess' = [sess EXCEPT ![c] = t] /\ idle' = [idle EXCEPT ![c] = 0] /\ now' = now
  BY <1>3 DEF Process
<1> HIDE DEF t, cmd
<1>7. sess'[c] = t /\ idle'[c] = 0
  BY <1>1, <1>6 DEF IInv, SessType, TimeInv
<1>8. TimeOf(c)'
  BY <1>5, <1>6, <1>7, TimeFresh
<1> QED BY <1>6, <1>8, OneTime

LEMMA TransferTime ==
  ASSUME IInv, TimeInv, TimeoutFits, NEW c \in Clients, Transfer(c)
  PROVE  TimeInv'
<1>1. c \in Live /\ sess[c] \in Sessions /\ now' = now
  BY AtLive, LiveSession DEF Transfer, Retrieve, RetrieveEnds, Receive, ReceiveEnds, Finishes, IInv
<1>2. ASSUME NEW ok \in BOOLEAN, Finishes(c, ok) PROVE TimeInv'
  <2> DEFINE d == DropFile(DropData(sess[c]))
             t == IF ok THEN [Reset(d) EXCEPT !.pc = "check", !.tick_timeout = Due, !.pos = 0]
                  ELSE [d EXCEPT !.pc = "exit", !.pos = 0]
  <2>1. sess' = [sess EXCEPT ![c] = t] /\ idle' = [idle EXCEPT ![c] = 0]
    BY <1>2 DEF Finishes
  <2>2. d \in Sessions
    BY <1>1 DEF DropFile, DropData, Sessions
  <2>3. t.pc = "exit" \/ t.tick_timeout = Due
    BY <2>2 DEF Reset, Sessions
  <2> HIDE DEF t
  <2>4. sess'[c] = t /\ idle'[c] = 0
    BY <2>1 DEF IInv, SessType, TimeInv
  <2>5. TimeOf(c)'
    BY <1>1, <2>3, <2>4, TimeFresh
  <2> QED BY <1>1, <2>1, <2>5, OneTime
<1>3. CASE sess' = [sess EXCEPT ![c].pos = @ + 1] /\ idle' = idle
  <2> DEFINE t == [sess[c] EXCEPT !.pos = @ + 1]
  <2>1. /\ sess' = [sess EXCEPT ![c] = t] /\ t.pc = sess[c].pc
        /\ t.tick_timeout = sess[c].tick_timeout
    BY <1>1, <1>3 DEF Sessions
  <2> HIDE DEF t
  <2>2. sess'[c] = t
    BY <2>1 DEF IInv, SessType
  <2>3. TimeOf(c)'
    BY <1>1, <1>3, <2>1, <2>2, TimeKept DEF TimeInv, Live
  <2> QED BY <1>1, <1>3, <2>1, <2>3, OneTime
<1>4. CASE UNCHANGED <<sess, idle>>
  BY <1>1, <1>4, QuietTime
<1> QED BY <1>2, <1>3, <1>4 DEF Transfer, Retrieve, RetrieveEnds, Receive, ReceiveEnds

LEMMA TimeStep ==
  ASSUME IInv, TimeInv, TimeoutFits, [Next]_vars
  PROVE  TimeInv'
<1>1. CASE \E c \in Clients : Session(c)
  BY <1>1, BeginTime, CheckTime, WaitTime, ProcessTime, TransferTime DEF Session
<1>2. CASE Restart \/ Tick \/ \E c \in Clients : AcceptConnection(c)
  BY <1>2, RestartTime, TickTime, AcceptTime
<1>3. CASE UNCHANGED <<sess, idle, now>>
  BY <1>3, QuietTime
<1> QED BY <1>1, <1>2, <1>3
    DEF Next, Listener, Listen, Waits, ListenerFails, ftp_force_restart, Client, Connect,
        SendCommand, Leave, vars

\* A session that was waiting is ended by its own comparison of the ticks.
LEMMA CheckEnds ==
  ASSUME IInv, [Next]_vars, NEW c \in Clients, At(c, "check"), At(c, "exit")'
  PROVE  Check(c)
<1>1. c \in Live /\ sess[c].pc = "check" /\ sess[c] \in Sessions
  BY AtLive, LiveSession DEF IInv
<1>2. sess'[c].pc = "exit"
  BY DEF At
<1>3. ASSUME NEW d \in Clients, d # c, Session(d) \/ AcceptConnection(d) PROVE FALSE
  <2>1. sess' = sess \/ \E t : sess' = [sess EXCEPT ![d] = t]
    BY <1>3 DEF Session, Begin, Loop, ReadFails, Process, Transfer, Retrieve, RetrieveEnds,
                Receive, ReceiveEnds, Finishes, Check, Exit, Goes, AcceptConnection
  <2> QED BY <1>1, <1>2, <1>3, <2>1 DEF IInv, SessType
<1>4. ~AcceptConnection(c)
  BY <1>1 DEF AcceptConnection, IInv, ConnType
<1>5. CASE Session(c)
  BY <1>1, <1>5 DEF Session, Begin, Loop, ReadFails, Process, Transfer, Retrieve,
                    RetrieveEnds, Receive, ReceiveEnds, Exit, At
<1>6. CASE sess' = sess
  BY <1>1, <1>2, <1>6
<1>7. CASE Restart \/ Tick
  <2>1. sess'[c] = sess[c] \/ sess'[c] = [sess[c] EXCEPT !.force_quit = TRUE]
    BY <1>1, <1>7 DEF Restart, Tick, At, IInv, SessType, Live
  <2> QED BY <1>1, <1>2, <2>1 DEF Sessions
<1> QED BY <1>3, <1>4, <1>5, <1>6, <1>7
    DEF Next, Listener, Listen, Waits, ListenerFails, ftp_force_restart, Client, Connect,
        SendCommand, Leave, vars

(***************************************************************************)
(* No session times out before its time and none stays behind it, across    *)
(* the wrap of the tick (ftp_client_entry), for every width of the tick of  *)
(* which the time-out is at most the half.  The server's is 3 seconds, of   *)
(* ticks that wrap at RT_TICK_MAX.                                          *)
(***************************************************************************)
THEOREM TimeoutKept == TimeoutFits => (Spec => EndsInTime)
<1> SUFFICES ASSUME TimeoutFits PROVE Spec => EndsInTime
  OBVIOUS
<1>1. Init => IInv
  BY InitInv
<1>2. Init => TimeInv
  BY FtpAssumption DEF Init, TimeInv, TimeOf, At, For
<1>3. ASSUME IInv, TimeInv, [Next]_vars
      PROVE  [\A c \in Clients :
                /\ At(c, "check") /\ At(c, "exit")' => idle[c] >= Timeout
                /\ idle'[c] <= Timeout]_vars
  <2> SUFFICES ASSUME NEW c \in Clients
               PROVE  /\ At(c, "check") /\ At(c, "exit")' => idle[c] >= Timeout
                      /\ idle'[c] <= Timeout
    OBVIOUS
  <2>1. idle'[c] \in 0 .. Timeout
    BY <1>3, TimeStep DEF TimeInv, TimeOf
  <2>2. At(c, "check") /\ At(c, "exit")' => idle[c] = Timeout
    BY <1>3, CheckEnds, CheckTime
  <2> QED BY <2>1, <2>2, FtpAssumption
<1> QED BY <1>1, <1>2, <1>3, NextInv, TimeStep, PTL DEF Spec, EndsInTime
=============================================================================
