------------------------------- MODULE Buffer -------------------------------
(***************************************************************************)
(* The input buffer of crates/h11r/src/wire.rs: a byte vector whose live   *)
(* bytes begin at an offset.  Consuming only moves the offset; the dead    *)
(* prefix is reclaimed when more bytes arrive and it is at least as long   *)
(* as what would have to be moved.                                         *)
(***************************************************************************)
EXTENDS Integers, Sequences

CONSTANTS Octet,       \* the bytes
          Segments,    \* the non-empty segments the transport may deliver
          MaxReceived  \* bound on the bytes received in all

ASSUME BufferAssumption ==
    /\ Segments \subseteq Seq(Octet) \ {<<>>}
    /\ MaxReceived \in Nat

VARIABLES bytes, start,
          taken,       \* what the last take returned
          received,    \* history: bytes received in all,
          consumed,    \*          bytes consumed in all,
          moved        \*          bytes copied by compaction in all

history == <<received, consumed, moved>>
buffer == <<bytes, start, taken, history>>

as_slice == SubSeq(bytes, start + 1, Len(bytes))
live == Len(bytes) - start

BufferInit ==
    /\ bytes = <<>> /\ start = 0 /\ taken = <<>>
    /\ received = 0 /\ consumed = 0 /\ moved = 0

(* Mutant of Compacts: whenever there is a dead prefix.                    *)
CompactsAlways == start > 0

Compacts == start > 0 /\ start >= live

(* Mutant of extend: the offset survives the compaction.                   *)
ExtendKeepsStart(data) ==
    /\ bytes' = (IF Compacts THEN as_slice ELSE bytes) \o data
    /\ moved' = moved + (IF Compacts THEN live ELSE 0)
    /\ received' = received + Len(data)
    /\ UNCHANGED <<start, taken, consumed>>

extend(data) ==
    /\ bytes' = (IF Compacts THEN as_slice ELSE bytes) \o data
    /\ start' = IF Compacts THEN 0 ELSE start
    /\ moved' = moved + (IF Compacts THEN live ELSE 0)
    /\ received' = received + Len(data)
    /\ UNCHANGED <<taken, consumed>>

(* Callers pass a count they have read off as_slice.                       *)
consume(count) ==
    /\ start' = start + count
    /\ consumed' = consumed + count
    /\ UNCHANGED <<bytes, taken, received, moved>>

take(count) ==
    /\ taken' = SubSeq(as_slice, 1, count)
    /\ start' = start + count
    /\ consumed' = consumed + count
    /\ UNCHANGED <<bytes, received, moved>>

BufferNext ==
    \/ \E data \in Segments : received + Len(data) <= MaxReceived /\ extend(data)
    \/ \E count \in 1..live : consume(count) \/ take(count)

BufferSpec == BufferInit /\ [][BufferNext]_buffer

----------------------------------------------------------------------------

(* The offset stays inside the vector: as_slice cannot panic.              *)
BufferTypeOK ==
    /\ bytes \in Seq(Octet) /\ taken \in Seq(Octet)
    /\ start \in 0..Len(bytes)
    /\ received \in Nat /\ consumed \in Nat /\ moved \in Nat

(* The live bytes behave as a queue: whatever was compacted in between, a  *)
(* reader finds the bytes received and not yet consumed, each once and in  *)
(* order, and take returns the first of them.                              *)
Q == INSTANCE Queue WITH queue <- as_slice
IsQueue == Q!Spec

(* Over any sequence of receive boundaries compaction copies no more bytes *)
(* than were consumed, so that its cost is linear (the comment of          *)
(* `extend`, wire.rs:44).                                                  *)
CompactionIsAmortized == moved <= consumed

(* Right after bytes were appended less than half of the vector is dead:   *)
(* what is buffered, not what was ever received, bounds the memory.        *)
DeadSpaceIsBounded ==
    [][bytes' # bytes => start' = 0 \/ 2 * start' < Len(bytes')]_buffer
============================================================================
