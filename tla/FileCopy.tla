------------------------------ MODULE FileCopy ------------------------------
(***************************************************************************)
(* What a user of the TFTP package is promised: each of a number of files   *)
(* is copied front to back, and no call tells its caller of more chunks     *)
(* than are in the copy.  There is no network here and no protocol.         *)
(*                                                                         *)
(* That a copy is whole is promised only to a caller who knows its length:  *)
(* a call that gave up returns the chunks it has copied, and it may do so   *)
(* with client->err = TFTP_OK, just as one that is through.                 *)
(***************************************************************************)
EXTENDS Integers

CONSTANTS Files,   \* numbers of the calls, each of a file of its own
          Length,  \* chunks in each of them
          Source   \* Source[t][i]: chunk i of file t

VARIABLES copy,    \* copy[t]: the destination of file t
          call,    \* the last call, 0 before the first
          told     \* what it has returned, and client->err with it

Prefix(t, n) == [i \in 1 .. n |-> Source[t][i]]

\* A size is told; an error code in its place counts as no chunk.
Answers == [size : 0 .. Length, err : {"OK", "ERR"}]

NotYet == [size |-> -1, err |-> "none"]

Init == /\ copy = [t \in Files |-> Prefix(t, 0)]
        /\ call = 0 /\ told = NotYet

\* The next chunk is appended; a failed call may leave a writer behind.
Store(t) == \E n \in 0 .. Length - 1 :
              /\ copy[t] = Prefix(t, n)
              /\ copy' = [copy EXCEPT ![t] = Prefix(t, n + 1)]

\* The next call, which may fail at once.
Call == /\ call = 0 \/ told # NotYet
        /\ call + 1 \in Files /\ call' = call + 1
        /\ told' \in {NotYet, [size |-> 0, err |-> "ERR"]}
        /\ UNCHANGED copy

\* The step that stores the last chunk may be the one that tells of it.
Return == /\ call # 0 /\ told = NotYet
          /\ told' \in Answers
          /\ UNCHANGED copy \/ Store(call)
          /\ \E n \in told'.size .. Length : copy'[call] = Prefix(call, n)
          /\ UNCHANGED call

Next == \/ Call \/ Return
        \/ \E t \in Files : Store(t) /\ UNCHANGED <<call, told>>

Spec == Init /\ [][Next]_<<copy, call, told>>
=============================================================================
