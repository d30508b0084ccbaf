------------------------------ MODULE TftpPort ------------------------------
(***************************************************************************)
(* The file backend of the TFTP package, tftp_port.c: the functions         *)
(* tftp_file_read and tftp_file_write that client and server call with a    *)
(* handle, a position and a buffer.                                         *)
(*                                                                         *)
(* A file is a function from 1-based block positions to chunks, a chunk the *)
(* pair of the file it comes from and its position in it.  Transfer t       *)
(* copies file t: FullBlocks chunks of blksize bytes and, if HasTail, one   *)
(* shorter chunk.  Empty is what a read at the end of the file returns.     *)
(***************************************************************************)
EXTENDS Integers

CONSTANTS MaxTransfers,  \* transfers the client attempts, one after the other
          FullBlocks,    \* chunks of exactly blksize bytes in every source
          HasTail,       \* whether a shorter, non-empty chunk follows them
          OldBlocks,     \* chunks a destination holds before the transfer
          Positional,    \* does the backend honour the position it is given?
          NullOnFailure, \* does a failed open return NULL, as callers expect?
          Faults         \* calls that may fail, see FaultKinds

FaultKinds == {"open", "mem", "read", "write", "send", "select"}

ASSUME PortAssumption ==
  /\ MaxTransfers \in Nat
  /\ FullBlocks \in Nat
  /\ HasTail \in BOOLEAN
  /\ OldBlocks \in Nat
  /\ Positional \in BOOLEAN
  /\ NullOnFailure \in BOOLEAN
  /\ Faults \subseteq FaultKinds

Transfers == 1 .. MaxTransfers

FileLen == FullBlocks + (IF HasTail THEN 1 ELSE 0)

Empty == <<0, 0>>

Chunks == (0 .. MaxTransfers) \X Nat

\* Bytes in a chunk, counted in blocks: what pos and file_size advance by.
Size(c) == IF c = Empty THEN 0 ELSE 1

\* Mutant of IsShort: an empty last block is not taken for the end.
IsTail(c) == c[2] > FullBlocks

\* r_size < blksize
IsShort(c) == c = Empty \/ c[2] > FullBlocks

SourceFile(t) == [i \in 1 .. FileLen |-> <<t, i>>]

OldFile == [i \in 1 .. OldBlocks |-> <<0, i>>]

(***************************************************************************)
(* dst[t] is the destination of transfer t: a file of the client for a      *)
(* pull, of the server for a push.  open(O_WRONLY | O_CREAT) neither        *)
(* truncates nor fails for a file that is there.                            *)
(***************************************************************************)
VARIABLE dst

PortInit == dst = [t \in Transfers |-> OldFile]

tftp_file_read(t, p) == IF p < FileLen THEN <<t, p + 1>> ELSE Empty

\* Mutant of tftp_file_write: every chunk at the start of the file.
WriteAtStart(file, p, c) ==
  IF c = Empty
  THEN file
  ELSE [i \in DOMAIN file \cup {1} |-> IF i = 1 THEN c ELSE file[i]]

tftp_file_write(file, p, c) ==
  IF c = Empty
  THEN file
  ELSE [i \in DOMAIN file \cup {p + 1} |-> IF i = p + 1 THEN c ELSE file[i]]

\* Whether a call of this kind fails, when Faults lets it.
MayFail(kind) == IF kind \in Faults THEN BOOLEAN ELSE {FALSE}

(***************************************************************************)
(* tftp_file_open casts the result of open() to a pointer.  A failed open   *)
(* is the handle -1, which is not NULL: the caller goes on with it,         *)
(* and every read and write fails.  The functions are weak symbols: another *)
(* backend may return NULL and may honour pos.                              *)
(***************************************************************************)
OpenFailureSeen == "open" \in Faults /\ NullOnFailure
OpenFailureUnseen == "open" \in Faults /\ ~NullOnFailure
BadHandle == IF OpenFailureUnseen THEN BOOLEAN ELSE {FALSE}
=============================================================================
