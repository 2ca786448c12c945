---------------------------- MODULE SectionScan ----------------------------
(***************************************************************************)
(* The retry hint of an incomplete field section, byte by byte:            *)
(* `SectionProgress` of crates/h11r/src/wire.rs as read_head and the       *)
(* trailer reader of connection.rs use it.  A section is parsed when it is *)
(* first met; while it is incomplete it is parsed again only once the scan *)
(* of the new bytes has met its blank line.  Connection abstracts this to  *)
(* SectionReady and WaitForSection.  The bytes are in the Buffer; the body *)
(* between two sections is taken from it.                                  *)
(***************************************************************************)
EXTENDS Buffer

CONSTANT MaxHead       \* limits.max_head_bytes

ASSUME ScanAssumption == MaxHead \in Nat \ {0}

VARIABLES skip,        \* leading blank lines are skipped: a head, no trailers
          progress,    \* SectionProgress, valid if tried
          tried,       \* progress is Some: the section was found incomplete
          eof,
          mode,        \* idle between polls of the reader; see the actions
          visited      \* history: bytes the scan has looked at in all

section == <<skip, progress, tried>>
vars == <<buffer, section, eof, mode, visited>>

data == as_slice       \* the unread input

NewProgress == [at |-> 0, line_start |-> 0, started |-> FALSE]

----------------------------------------------------------------------------
(* Reference: the blank line at which a section ends, from the whole data. *)

(* A line feed behind nothing, or behind nothing but a carriage return.    *)
BlankAt(d, i) ==
    /\ d[i] = "LF"
    /\ \/ i = 1
       \/ d[i - 1] = "LF"
       \/ d[i - 1] = "CR" /\ (i = 2 \/ d[i - 2] = "LF")

Begun(d, i) == \E j \in 1..i : d[j] = "LF" /\ ~BlankAt(d, j)

Ends(d, s) == {i \in 1..Len(d) : BlankAt(d, i) /\ (s => Begun(d, i - 1))}

IsFirstEnd(i) == i \in Ends(data, skip) /\ \A j \in Ends(data, skip) : i <= j

----------------------------------------------------------------------------

Init ==
    /\ BufferInit /\ skip \in BOOLEAN
    /\ progress = NewProgress /\ tried = FALSE
    /\ eof = FALSE /\ mode = "idle"
    /\ visited = 0

receive_data(segment) ==
    /\ mode \in {"idle", "asked", "body"}
    /\ ~eof
    /\ IF segment = <<>> THEN eof' = TRUE /\ UNCHANGED buffer
       ELSE extend(segment) /\ UNCHANGED eof
    /\ mode' = IF mode = "asked" THEN "idle" ELSE mode
    /\ UNCHANGED <<section, visited>>

(* next_event reaches the section: section_ready.                          *)
section_ready ==
    /\ mode \in {"idle", "asked"}
    /\ mode' = IF eof \/ ~tried THEN "parse" ELSE "retry"
    /\ UNCHANGED <<buffer, section, eof, visited>>

(* `SectionProgress::poll` looks at the next byte; line is what precedes   *)
(* it since line_start.                                                    *)
reached == progress.at + 1

(* Mutant of LineIsEmpty: a carriage return makes a line.                  *)
LineHasNoBytes == reached - 1 = progress.line_start

LineIsEmpty ==
    \/ reached - 1 = progress.line_start
    \/ reached - 2 = progress.line_start /\ data[reached - 1] = "CR"

AtLineEnd == data[reached] = "LF"

(* Mutant of FoundEnd: leading blank lines end a head.                     *)
FoundAnyBlank == AtLineEnd /\ LineIsEmpty

FoundEnd == AtLineEnd /\ LineIsEmpty /\ (progress.started \/ ~skip)

(* One iteration of the loop, on behalf of section_ready (retry) or of     *)
(* wait_for_section (wait), which drops what the loop returns.             *)
poll ==
    /\ mode \in {"retry", "wait"}
    /\ progress.at < Len(data)
    /\ progress' = [at |-> reached,
                    line_start |-> IF AtLineEnd THEN reached ELSE progress.line_start,
                    started |-> progress.started \/ (AtLineEnd /\ ~LineIsEmpty)]
    /\ visited' = visited + 1
    /\ mode' = IF ~FoundEnd THEN mode ELSE IF mode = "retry" THEN "parse" ELSE "answer"
    /\ UNCHANGED <<buffer, skip, tried, eof>>

(* Mutant of wait_for_section: the hint starts behind what is buffered.    *)
WaitSkipsBuffer ==
    IF Len(data) > MaxHead
    THEN mode' = "failed" /\ UNCHANGED <<progress, tried>>
    ELSE /\ mode' = "wait"
         /\ tried' = TRUE
         /\ progress' = [NewProgress EXCEPT !.at = Len(data)]

(* Mutant of wait_for_section: the hint starts over on every try.          *)
WaitStartsOver ==
    IF Len(data) > MaxHead
    THEN mode' = "failed" /\ UNCHANGED <<progress, tried>>
    ELSE mode' = "wait" /\ tried' = TRUE /\ progress' = NewProgress

wait_for_section ==
    IF Len(data) > MaxHead
    THEN mode' = "failed" /\ UNCHANGED <<progress, tried>>
    ELSE mode' = "wait" /\ tried' = TRUE /\ UNCHANGED progress

(* The loop has met no end: section_ready is false, or the section is      *)
(* reported incomplete.                                                    *)
poll_none ==
    /\ mode \in {"retry", "wait"}
    /\ progress.at >= Len(data)
    /\ IF mode = "retry" THEN wait_for_section
       ELSE mode' = "answer" /\ UNCHANGED <<progress, tried>>
    /\ UNCHANGED <<buffer, skip, eof, visited>>

need_data_or_eof ==
    /\ mode = "answer"
    /\ mode' = IF eof THEN "failed" ELSE "asked"
    /\ UNCHANGED <<buffer, section, eof, visited>>

(* httparse finds the section partial,                                     *)
parse_partial ==
    /\ mode = "parse"
    /\ Ends(data, skip) = {}
    /\ wait_for_section
    /\ UNCHANGED <<buffer, skip, eof, visited>>

(* or complete: the reader consumes it and goes on, to another one or to a *)
(* body,                                                                   *)
parse_complete ==
    /\ mode = "parse"
    /\ \E end \in 1..MaxHead : IsFirstEnd(end) /\ consume(end)
    /\ skip' \in BOOLEAN
    /\ progress' = NewProgress
    /\ tried' = FALSE
    /\ mode' \in {"idle", "body"}
    /\ UNCHANGED <<eof, visited>>

(* or malformed, or it is too long.                                        *)
parse_error ==
    /\ mode = "parse"
    /\ mode' = "failed"
    /\ UNCHANGED <<buffer, section, eof, visited>>

(* A body between two sections hands its bytes to the application.         *)
peer_data ==
    /\ mode = "body"
    /\ \E count \in 1..live : take(count)
    /\ UNCHANGED <<section, eof, mode, visited>>

finish_peer ==
    /\ mode = "body"
    /\ mode' = "idle"
    /\ UNCHANGED <<buffer, section, eof, visited>>

Reader == section_ready \/ poll \/ poll_none \/ need_data_or_eof \/ parse_partial
              \/ parse_complete \/ parse_error

Next ==
    \/ \E segment \in Segments \cup {<<>>} :
          received + Len(segment) <= MaxReceived /\ receive_data(segment)
    \/ Reader \/ peer_data \/ finish_peer

Spec == Init /\ [][Next]_vars
(* The application keeps polling.                                          *)
FairSpec == Spec /\ WF_vars(Reader)

----------------------------------------------------------------------------

TypeOK ==
    /\ BufferTypeOK
    /\ skip \in BOOLEAN /\ tried \in BOOLEAN /\ eof \in BOOLEAN
    /\ progress \in [at : 0..Len(data), line_start : Nat, started : BOOLEAN]
    /\ mode \in {"idle", "retry", "wait", "parse", "answer", "asked", "body", "failed"}
    /\ visited \in Nat

(* More data is asked for only while the section is incomplete: however    *)
(* its bytes were cut, and although each try scans only the new ones, the  *)
(* blank line that ends it is not missed.                                  *)
NoEndMissed == mode = "asked" => Ends(data, skip) = {}

(* An incomplete section is parsed again only if it is complete now (or    *)
(* the transport has ended): segments do not make parsing quadratic.       *)
RetryIsJustified == mode = "parse" /\ tried /\ ~eof => Ends(data, skip) # {}

(* Over all tries and sections the scan looks at each byte once.           *)
ScanIsLinear == visited <= received

(* A section that is complete is parsed.                                   *)
CompleteIsParsed ==
    mode # "body" /\ Ends(data, skip) # {} ~> mode \in {"parse", "failed"}
============================================================================
