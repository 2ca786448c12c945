--------------------------- MODULE Fragmentation ---------------------------
(***************************************************************************)
(* The same stream read whole and read in pieces, from                     *)
(* fuzz/fuzz_targets/h11r_fragmentation.rs: a fresh Connection receives    *)
(* the wire, is polled until it has nothing more to say, receives EOF and  *)
(* is polled again.  This is done twice, first with the wire in one piece  *)
(* and then with every segmentation of it, and the outcomes are compared.  *)
(***************************************************************************)
EXTENDS Connection

CONSTANT Wires         \* the streams to be read by a role

ASSUME FragmentationAssumption == Wires \in [Role -> SUBSET Seq(Unit)]

VARIABLES wire, opening,   \* the stream, and the request a client opens with
          left,            \* what is still to be received of the wire
          pass, phase,     \* "whole" or "fragmented", and the place in `run`
          events, body,    \* what this pass was told so far
          whole            \* the outcome of the first pass

harness == <<wire, opening, left, pass, phase, events, body, whole>>
fvars == <<vars, harness>>

(* What `finish` reports of a pass.                                        *)
outcome ==
    [error |-> ret.res = "RemoteError", status |-> ret.status,
     events |-> events, body |-> body,
     states |-> <<local_state, peer_state>>, trailing |-> input]

(* A client has to send its request before it reads.                       *)
Start == IF role = "client" THEN "request" ELSE "feed"

FInit ==
    /\ Init
    /\ wire \in Wires[role]
    /\ opening \in IF role = "client" THEN Requests ELSE {NoMessage}
    /\ left = wire /\ pass = "whole" /\ phase = Start
    /\ events = <<>> /\ body = <<>>
    /\ whole = outcome

request ==
    /\ phase = "request"
    /\ send_request(opening)
    /\ phase' = IF opening.upgrade # {} THEN "end_request" ELSE "feed"
    /\ UNCHANGED <<wire, opening, left, pass, events, body, whole>>

end_request ==
    /\ phase = "end_request"
    /\ end_of_message("none")
    /\ phase' = "feed"
    /\ UNCHANGED <<wire, opening, left, pass, events, body, whole>>

Pieces == IF pass = "whole" THEN {Len(left)} ELSE 1..Len(left)

feed ==
    /\ phase = "feed"
    /\ left # <<>>
    /\ \E n \in Pieces : receive_data(SubSeq(left, 1, n)) /\ left' = Rest(left, n)
    /\ phase' = "poll"
    /\ UNCHANGED <<wire, opening, pass, events, body, whole>>

feed_eof ==
    /\ phase = "feed"
    /\ left = <<>>
    /\ receive_data(<<>>)
    /\ phase' = "poll"
    /\ UNCHANGED <<wire, opening, left, pass, events, body, whole>>

poll ==
    /\ phase = "poll"
    /\ next_event
    /\ body' = IF ret'.res = "Data" THEN body \o ret'.out ELSE body
    /\ events' = IF ret'.res \in {"Data", "NeedData", "Paused", "RemoteError"} THEN events
                 ELSE Append(events, <<ret'.res, ret'.m>>)
    /\ phase' = IF ret'.res = "RemoteError" THEN "finish"
                ELSE IF ret'.res \notin {"NeedData", "Paused", "ConnectionClosed"} THEN "poll"
                ELSE IF eof THEN "finish" ELSE "feed"
    /\ UNCHANGED <<wire, opening, left, pass, whole>>

(* The second pass begins with a fresh connection.                         *)
again ==
    /\ phase = "finish" /\ pass = "whole"
    /\ whole' = outcome
    /\ pass' = "fragmented" /\ phase' = Start
    /\ left' = wire /\ events' = <<>> /\ body' = <<>>
    /\ state' = NewState /\ input' = <<>> /\ progress' = FALSE
    /\ reader' = ReaderAt("Head") /\ writer' = NoWriter /\ eof' = FALSE
    /\ peer_version' = None /\ request_kind' = None /\ upgrade_proposals' = {}
    /\ waiting_for_continue' = FALSE /\ continue_before_upgrade' = FALSE
    /\ ret' = Returned("new", "Ok")
    /\ UNCHANGED <<wire, opening>>

compare ==
    /\ phase = "finish" /\ pass = "fragmented"
    /\ phase' = "compare"
    /\ UNCHANGED <<vars, wire, opening, left, pass, events, body, whole>>

FNext ==
    /\ UNCHANGED role
    /\ request \/ end_request \/ feed \/ feed_eof \/ poll \/ again \/ compare

FSpec == FInit /\ [][FNext]_fvars
(* The harness runs to its end.                                            *)
FFairSpec == FSpec /\ WF_fvars(FNext)

----------------------------------------------------------------------------

SameOutcome(a, b) ==
    /\ a.error <=> b.error
    /\ a.events = b.events
    /\ a.body = b.body
    /\ a.states = b.states
    /\ ~a.error => a.trailing = b.trailing

(* `parse_trailers` of a client refuses a section whose blank line white   *)
(* space follows in the buffer, and accepts it when that has not arrived:  *)
(* a is told the end of the message and is left with the white space, b is *)
(* refused in the place of that event.                                     *)
DiffersBehindTrailers(a, b) ==
    LET end == Len(wire) - Len(a.trailing) IN
    /\ role = "client"
    /\ ~a.error /\ b.error
    /\ a.events = Append(b.events, <<"EndOfMessage", NoMessage>>)
    /\ a.body = b.body
    /\ end \in 1..(Len(wire) - 1)
    /\ wire[end].t \in {"crlf", "trailers"} /\ wire[end + 1].t = "space"

(* Segmentation is invisible to the application (tests/protocol.rs:206):   *)
(* a stream that is accepted in one piece is accepted in every             *)
(* segmentation, one that is refused is refused in all; before that the    *)
(* same events and the same body are delivered; and the connection is left *)
(* in the same states with the same bytes unread if it is accepted.  The   *)
(* code has one exception: white space right behind the trailer section of *)
(* a response, which a client must not meet in one piece with it.          *)
SegmentationIsInvisible ==
    phase = "compare" =>
        \/ SameOutcome(outcome, whole)
        \/ DiffersBehindTrailers(outcome, whole)

(* The status suggested for a refused stream does not depend on its        *)
(* segmentation either: "Transport segmentation cannot change a parser     *)
(* diagnosis." (tests/protocol.rs:110), asserted by                        *)
(* h11r_fragmentation.rs:56.                                               *)
OneDiagnosis == phase = "compare" => outcome.status = whole.status

(* Polling comes to an end after each segment: the fuzz targets call it a  *)
(* failure if "next_event made unbounded progress without new input"       *)
(* (fuzz/fuzz_targets/common/mod.rs:117).                                  *)
PollingEnds == <>(phase = "compare")
============================================================================
