------------------------------- MODULE Queue -------------------------------
(***************************************************************************)
(* What the readers of crates/h11r/src/connection.rs expect of the input   *)
(* buffer: a queue of bytes.  Received segments go in at the end; a reader *)
(* sees all of the queue and removes a prefix, discarding it (consume) or  *)
(* handing it to the application (take).                                   *)
(***************************************************************************)
EXTENDS Integers, Sequences

CONSTANT Segments      \* the non-empty segments the transport may deliver

VARIABLES queue,       \* bytes received and not yet removed
          taken        \* the bytes the last take returned

Remaining(count) == SubSeq(queue, count + 1, Len(queue))

Init == queue = <<>> /\ taken = <<>>

Put(data) == queue' = queue \o data /\ UNCHANGED taken

Drop(count) == queue' = Remaining(count) /\ UNCHANGED taken

Take(count) == taken' = SubSeq(queue, 1, count) /\ queue' = Remaining(count)

Next ==
    \/ \E data \in Segments : Put(data)
    \/ \E count \in 1..Len(queue) : Drop(count) \/ Take(count)

Spec == Init /\ [][Next]_<<queue, taken>>
============================================================================
