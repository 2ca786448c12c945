----------------------------- MODULE ChunkScan -----------------------------
(***************************************************************************)
(* `read_chunked` of crates/h11r/src/connection.rs byte by byte, up to the *)
(* trailers (for which see SectionScan).  The bytes of a chunked body      *)
(* arrive in any segmentation, a line end split between two segments       *)
(* included; `scanned` remembers how far an incomplete chunk line has been *)
(* searched.  One call of next_event may run through several of the        *)
(* actions read_*.                                                         *)
(***************************************************************************)
EXTENDS ChunkLine

CONSTANTS Alphabet,    \* the bytes the transport may deliver
          MaxHead,     \* limits.max_head_bytes
          MaxInput,    \* bound on the unread bytes
          MaxStream    \* bound on the bytes received in all

ASSUME ChunkScanAssumption ==
    Alphabet \subseteq ChunkByte /\ {MaxHead, MaxInput, MaxStream} \subseteq Nat

VARIABLES stream,      \* all bytes received
          at,          \* how many of them have been consumed
          reader,      \* the Chunk variant k with its fields
          eof,
          mode,        \* call: in next_event; idle: not; otherwise its last answer
          chunks       \* history: the chunks delivered, from the events' marks

vars == <<stream, at, reader, eof, mode, chunks>>

AtSize(scanned) == [k |-> "Size", scanned |-> scanned, remaining |-> 0, first |-> FALSE]
AtData(n, first) == [k |-> "Data", scanned |-> 0, remaining |-> n, first |-> first]
At(k) == [k |-> k, scanned |-> 0, remaining |-> 0, first |-> FALSE]

input == SubSeq(stream, at + 1, Len(stream))

Init ==
    /\ stream = <<>> /\ at = 0
    /\ reader = AtSize(0)
    /\ eof = FALSE /\ mode = "idle"
    /\ chunks = <<>>

receive_data(segment) ==
    /\ mode \in {"idle", "asked"}
    /\ ~eof
    /\ stream' = stream \o segment
    /\ eof' = (segment = <<>>)
    /\ mode' = "idle"
    /\ UNCHANGED <<at, reader, chunks>>

next_event ==
    /\ mode \in {"idle", "asked"}
    /\ mode' = "call"
    /\ UNCHANGED <<stream, at, reader, eof, chunks>>

need_data_or_eof == mode' = IF eof THEN "failed" ELSE "asked"

----------------------------------------------------------------------------

(* The ends of the lines of data behind start; 0 if there is none.         *)
find_crlf(data, start) ==
    LET ends == {i \in (start + 2)..Len(data) : data[i - 1] = "CR" /\ data[i] = "LF"}
    IN IF ends = {} THEN 0 ELSE Min(ends)

incomplete_line_len(data) ==
    Len(data) - (IF data # <<>> /\ data[Len(data)] = "CR" THEN 1 ELSE 0)

(* Mutant of NextScan: all that is there has been searched.                *)
ScanFromEnd == Len(input)

(* Where the search goes on: the last byte may be half of the line end.    *)
NextScan == IF input = <<>> THEN 0 ELSE Len(input) - 1

read_size ==
    LET end == find_crlf(input, reader.scanned)
        size == parse_chunk_header(SubSeq(input, 1, end - 2))
    IN
    /\ mode = "call" /\ reader.k = "Size"
    /\ UNCHANGED <<stream, eof, chunks>>
    /\ IF end = 0
       THEN /\ UNCHANGED at
            /\ IF incomplete_line_len(input) > MaxHead
               THEN mode' = "failed" /\ UNCHANGED reader
               ELSE reader' = AtSize(NextScan) /\ need_data_or_eof
       ELSE IF end - 2 > MaxHead \/ size = None
            THEN mode' = "failed" /\ UNCHANGED <<at, reader>>
       ELSE /\ at' = at + end
            /\ reader' = IF size = 0 THEN At("Trailers") ELSE AtData(size, TRUE)
            /\ UNCHANGED mode

(* What a caller makes of a Data event by its marks.                       *)
Deliver(data, first, last) ==
    IF first THEN Append(chunks, [data |-> data, closed |-> last])
    ELSE [chunks EXCEPT ![Len(chunks)] = [data |-> @.data \o data, closed |-> last]]

read_data ==
    LET count == Min({reader.remaining, Len(input)})
        last == count = reader.remaining
    IN
    /\ mode = "call" /\ reader.k = "Data"
    /\ UNCHANGED <<stream, eof>>
    /\ IF count = 0
       THEN need_data_or_eof /\ UNCHANGED <<at, reader, chunks>>
       ELSE /\ reader' = IF last THEN At("DataEnd")
                         ELSE AtData(reader.remaining - count, FALSE)
            /\ at' = at + count
            /\ chunks' = Deliver(SubSeq(input, 1, count), reader.first, last)
            /\ mode' = "idle"

read_data_end ==
    /\ mode = "call" /\ reader.k = "DataEnd"
    /\ UNCHANGED <<stream, eof, chunks>>
    /\ IF Len(input) < 2
       THEN need_data_or_eof /\ UNCHANGED <<at, reader>>
       ELSE IF SubSeq(input, 1, 2) # <<"CR", "LF">>
            THEN mode' = "failed" /\ UNCHANGED <<at, reader>>
       ELSE at' = at + 2 /\ reader' = AtSize(0) /\ UNCHANGED mode

read_trailers ==
    /\ mode = "call" /\ reader.k = "Trailers"
    /\ mode' = "trailers"
    /\ UNCHANGED <<stream, at, reader, eof, chunks>>

Next ==
    \/ /\ Len(input) < MaxInput /\ Len(stream) < MaxStream
       /\ \E byte \in Alphabet : receive_data(<<byte>>)
    \/ receive_data(<<>>)
    \/ next_event \/ read_size \/ read_data \/ read_data_end \/ read_trailers

Spec == Init /\ [][Next]_vars

----------------------------------------------------------------------------
(* Reference: the body of a stream that is looked at as a whole.           *)

Stop(verdict, p, seen) == [verdict |-> verdict, at |-> p, chunks |-> seen]

(* What is at the chunk line at p, if f gives what is at the later ones.   *)
ChunkAt(s, p, f) ==
    LET left == SubSeq(s, p + 1, Len(s))
        end == find_crlf(left, 0)
        size == parse_chunk_header(SubSeq(left, 1, end - 2))
        data == p + end
        behind == data + size
        chunk == SubSeq(s, data + 1, Min({behind, Len(s)}))
        this == <<[data |-> chunk, closed |-> behind <= Len(s)]>>
        rest == f[behind + 2]
    IN IF end = 0
       THEN Stop(IF incomplete_line_len(left) > MaxHead THEN "bad" ELSE "more", p, <<>>)
       ELSE IF end - 2 > MaxHead \/ size = None THEN Stop("bad", p, <<>>)
       ELSE IF size = 0 THEN Stop("end", data, <<>>)
       ELSE IF behind + 2 > Len(s) THEN Stop("more", p, IF chunk = <<>> THEN <<>> ELSE this)
       ELSE IF s[behind + 1] # "CR" \/ s[behind + 2] # "LF" THEN Stop("bad", p, this)
       ELSE Stop(rest.verdict, rest.at, this \o rest.chunks)

From(s) == LET f[p \in 0..Len(s)] == ChunkAt(s, p, f) IN f

Body(s) == From(s)[0]

(* Whether a chunked body is complete, incomplete or malformed depends on  *)
(* its bytes and not on how the transport cut them, nor on when next_event *)
(* was called in between: no line end is missed, no limit is applied to    *)
(* another part of it.  So do the chunks that a caller puts together from  *)
(* the marks of the Data events: nothing is lost, repeated or left over.   *)
StreamDecides ==
    LET body == Body(stream) IN
    /\ mode = "asked" => body.verdict = "more"
    /\ mode = "failed" => body.verdict \in (IF eof THEN {"bad", "more"} ELSE {"bad"})
    /\ mode = "trailers" => body.verdict = "end" /\ body.at = at
    /\ mode \in {"asked", "failed", "trailers"} => chunks = body.chunks
============================================================================
