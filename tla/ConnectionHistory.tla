------------------------- MODULE ConnectionHistory -------------------------
(***************************************************************************)
(* Connection with an observer that sees only what crosses the API: the    *)
(* heads and body data sent and received in the current cycle.  It keeps   *)
(* its own account of persistence, of switch negotiation and of the body   *)
(* still owed in each direction, against which the connection is checked.  *)
(***************************************************************************)
EXTENDS Connection

VARIABLE seen

Unseen == [request |-> NoMessage, requested |-> FALSE, continued |-> FALSE,
           answer |-> NoMessage, closing |-> FALSE,
           received |-> Fixed(0), sent |-> Fixed(0), open |-> FALSE]

AnswersHead(h) == h.requested /\ h.request.kind = "Head"
AnswersConnect(h) == h.requested /\ h.request.kind = "Connect"
AcceptsConnect(h, m) == AnswersConnect(h) /\ m.status \in 200..299

(* The body that head m announces after the heads seen so far.             *)
Announced(h, m) ==
    IF IsRequest(m) THEN FramingOf(m)
    ELSE IF m.status \in {204, 304} \/ AnswersHead(h) \/ AcceptsConnect(h, m)
    THEN Fixed(0) ELSE ResponseFraming(m)

(* What head m adds to the account of the cycle.                           *)
Observe(h, m) ==
    IF IsRequest(m)
    THEN [h EXCEPT !.request = m, !.requested = TRUE, !.closing = @ \/ ~Persistent(m)]
    ELSE IF IsInformational(m)
    THEN [h EXCEPT !.continued = @ \/ m.status = 100, !.answer = m]
    ELSE [h EXCEPT !.answer = m,
                   !.closing = \/ @
                               \/ ~Persistent(m)
                               \/ ~h.requested
                               \/ AnswersConnect(h) /\ ~AcceptsConnect(h, m)
                               \/ Announced(h, m) = CloseDelimited]

(* Only a declared length is counted down; such a body is sent and         *)
(* received as it is, so that its units are the body's.                    *)
Deduct(f, count) == IF f.k = "Fixed" THEN Fixed(f.n - count) ELSE f

(* r is what the call returned.                                            *)
Record(h, r) ==
    IF r.res \in {"Request", "Response"}
    THEN [Observe(h, r.m) EXCEPT !.received = Announced(h, r.m), !.open = FALSE]
    ELSE IF r.res = "InformationalResponse" THEN Observe(h, r.m)
    ELSE IF r.res = "Data"
    THEN [h EXCEPT !.received = Deduct(@, Len(r.out)), !.open = (@ \/ r.first) /\ ~r.last]
    ELSE IF r.call \in {"send_request", "send_response"}
    THEN [Observe(h, r.out[1].m) EXCEPT !.sent = Announced(h, r.out[1].m)]
    ELSE IF r.call = "send_informational_response" THEN Observe(h, r.out[1].m)
    ELSE IF r.call = "send_data" THEN [h EXCEPT !.sent = Deduct(@, Len(r.out))]
    ELSE IF r.call = "start_next_cycle" THEN Unseen
    ELSE h

hvars == <<vars, seen>>
Observed == seen' = Record(seen, ret')

HInit == Init /\ seen = Unseen
HNext == Next /\ Observed
HSpec == HInit /\ [][HNext]_hvars
HFairSpec == HSpec /\ WF_hvars(next_event /\ UNCHANGED role /\ Observed)

----------------------------------------------------------------------------

(* A connection is reusable only if no head of the cycle forbade it: no    *)
(* close token, no HTTP/1.0, no denied CONNECT, no response before its     *)
(* request, no body delimited by the end of the connection.                *)
ClosingForbidsReuse == seen.closing => ~Reusable(state)

(* HTTP ends only by agreement: the server switched because the request    *)
(* was CONNECT and it answered 2xx, or because it answered 101 with        *)
(* protocols the request offered, and then only after 100 Continue if the  *)
(* request waited for one.                                                 *)
SwitchIsNegotiated ==
    state.server = "SwitchedProtocol" =>
        \/ AcceptsConnect(seen, seen.answer)
        \/ /\ seen.answer.status = 101
           /\ seen.answer.upgrade # {}
           /\ seen.answer.upgrade \subseteq seen.request.upgrade
           /\ ExpectsContinue(seen.request, FramingOf(seen.request)) => seen.continued

(* A body with a declared length is exactly that long when its message     *)
(* ends, and never longer on the way: in the events `next_event` delivers  *)
(* whatever the segmentation, and in what send_data lets through before    *)
(* end_of_message accepts.  A body that is close-delimited or chunked owes *)
(* nothing.                                                                *)
DeclaredLengthIsExact ==
    /\ seen.received.n >= 0
    /\ seen.sent.n >= 0
    /\ ret.res = "EndOfMessage" => seen.received.n = 0
    /\ ret.call = "end_of_message" => seen.sent.n = 0

(* chunk_start and chunk_end bracket each chunk however its data was       *)
(* segmented: the first Data of a chunk, and no other, is its start; a     *)
(* message ends with no chunk open; other bodies carry no marks.           *)
ChunksAreBracketed ==
    [][/\ ret'.res = "Data"
             => /\ ret'.first = (seen.received.k = "Chunked" /\ ~seen.open)
                /\ ret'.last => seen.received.k = "Chunked"
       /\ ret'.res = "EndOfMessage" => ~seen.open]_hvars

(* A final response to a request that is no CONNECT tells the client on    *)
(* the wire when the connection will not persist: the head that            *)
(* send_response (connection.rs:664) writes is never persistent while the  *)
(* server has given up reuse.                                              *)
AnswerSignalsClose ==
    /\ ret.call = "send_response"
    /\ seen.requested
    /\ ~AnswersConnect(seen)
    /\ ~state.keep_alive
    => ~Persistent(seen.answer)
============================================================================
