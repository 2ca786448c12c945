------------------------------ MODULE Connection ------------------------------
(***************************************************************************)
(* One endpoint: `Connection` of crates/h11r/src/connection.rs, one action *)
(* per public method.  The application calls the methods in any order with *)
(* any argument of the sets below; the transport delivers any segments.    *)
(* ret holds what the last call returned.                                  *)
(***************************************************************************)
EXTENDS ConnectionState, Wire

CONSTANTS Roles,       \* the roles an endpoint may be made with
          MaxHead,     \* limits.max_head_bytes
          Requests,    \* heads the application may pass to send_request
          Responses,   \* heads it may pass to the two send-response methods
          BodySizes,   \* lengths it may pass to send_data
          Segments,    \* non-empty segments the transport may deliver to a role
          MaxInput     \* bound on the buffered input

ASSUME ConnectionAssumption ==
    /\ Roles \subseteq Role
    /\ MaxHead \in Nat \ {0}
    /\ Requests \subseteq {m \in Message : IsRequest(m)}
    /\ Responses \subseteq {m \in Message : ~IsRequest(m)}
    /\ BodySizes \subseteq Nat
    /\ Segments \in [Role -> SUBSET Seq(Unit)]
    /\ MaxInput \in Nat

VARIABLES role, state, input, progress, reader, writer, eof,
          peer_version, request_kind, upgrade_proposals,
          waiting_for_continue, continue_before_upgrade,
          ret

(* What a pending switch or 100-continue is negotiated with.               *)
negotiation == <<peer_version, request_kind, upgrade_proposals,
                 waiting_for_continue, continue_before_upgrade>>
core == <<state, input, progress, reader, writer, eof, negotiation>>
vars == <<role, core, ret>>

None == "None"         \* Rust's None for writer kind, peer_version, request_kind
NoWriter == [k |-> None, n |-> 0]

PeerRole == Peer(role)
local_state == state[role]
peer_state == state[PeerRole]

(* A returned value: the method, Ok or the event or error, a status code,  *)
(* a head, and the units written (send) or delivered (Data).               *)
Returned(call, res) ==
    [call |-> call, res |-> res, status |-> 0, m |-> NoMessage,
     out |-> <<>>, first |-> FALSE, last |-> FALSE]

Init ==
    /\ role \in Roles
    /\ state = NewState
    /\ input = <<>>
    /\ progress = FALSE
    /\ reader = ReaderAt("Head")
    /\ writer = NoWriter
    /\ eof = FALSE
    /\ peer_version = None
    /\ request_kind = None
    /\ upgrade_proposals = {}
    /\ waiting_for_continue = FALSE
    /\ continue_before_upgrade = FALSE
    /\ ret = Returned("new", "Ok")

(* A rejected local call returns LocalProtocolError and changes nothing.   *)
Reject == ret' = Returned("rejected", "LocalError") /\ UNCHANGED core

(* Mutant of ApplyPersistence: the version is ignored.                     *)
PersistenceByToken(s, m) == IF m.close THEN DisableKeepAlive(s) ELSE s

ApplyPersistence(s, m) == IF Persistent(m) THEN s ELSE DisableKeepAlive(s)

Proposals(m, upgrades) ==
    (IF m.kind = "Connect" THEN {"Connect"} ELSE {})
        \cup (IF upgrades # {} THEN {"Upgrade"} ELSE {})

ProposedUpgrades(m) ==
    IF m.version = "Http11" /\ m.connection_upgrade /\ ValidUpgradeField(m)
    THEN m.upgrade ELSE {}

(* Mutant of ValidUpgradeResponse: any protocol may be selected.           *)
AnyUpgradeResponse(m) ==
    m.version = "Http11" /\ m.connection_upgrade /\ ValidUpgradeField(m) /\ m.upgrade # {}

ValidUpgradeResponse(m) ==
    /\ m.version = "Http11"
    /\ m.connection_upgrade
    /\ ValidUpgradeField(m)
    /\ m.upgrade # {}
    /\ m.upgrade \subseteq upgrade_proposals

IsInformational(m) == m.status \in 100..199

SwitchesByConnect(m) == request_kind = "Connect" /\ m.status \in 200..299

(* Mutant of HasNoBody: the answer to HEAD has a body.                     *)
HeadHasBody(m) == m.status \in {204, 304} \/ SwitchesByConnect(m)

HasNoBody(m) ==
    m.status \in {204, 304} \/ request_kind = "Head" \/ SwitchesByConnect(m)

(* The state event of an informational and of a final response head.       *)
InformationalEvent(m) == IF m.status = 101 THEN "ProtocolSwitch" ELSE "InformationalResponse"
InformationalSwitch(m) == IF m.status = 101 THEN {"Upgrade"} ELSE {}
FinalEvent(m) == IF SwitchesByConnect(m) THEN "ProtocolSwitch" ELSE "Response"
FinalSwitch(m) == IF SwitchesByConnect(m) THEN {"Connect"} ELSE {}

----------------------------------------------------------------------------
(* Input.  An empty segment is transport EOF.                              *)

receive_data(segment) ==
    IF eof /\ segment # <<>> THEN Reject
    ELSE /\ eof' = (eof \/ segment = <<>>)
         /\ input' = input \o segment
         /\ ret' = Returned("receive_data", "Ok")
         /\ UNCHANGED <<state, progress, reader, writer, negotiation>>

(* The ways `next_event` returns.  s, in, rd and pg are the connection     *)
(* state, the unread input, the reader and the section progress it leaves. *)
Poll(s, in, rd, pg, r) ==
    /\ state' = s /\ input' = in /\ reader' = rd /\ progress' = pg
    /\ ret' = r

Stay(res) ==
    Poll(state, input, reader, progress, Returned("next_event", res)) /\ UNCHANGED negotiation

Fail(s, in, rd, pg, status) ==
    Poll(ProcessError(s, PeerRole), in, rd, pg,
         [Returned("next_event", "RemoteError")
            EXCEPT !.status = IF role = "server" THEN status ELSE 0])

FailHere(in, rd, pg, status) == Fail(state, in, rd, pg, status) /\ UNCHANGED negotiation

(* Mutant of NeedDataOrEof: EOF is not looked at.                          *)
AlwaysNeedData(in, rd, pg) ==
    Poll(state, in, rd, pg, Returned("next_event", "NeedData")) /\ UNCHANGED negotiation

(* Mutant of NeedDataOrEof: EOF ends a body.                               *)
EofEndsBody(in, rd, pg) ==
    /\ Poll(IF eof THEN ProcessEvent(state, PeerRole, "EndOfMessage", {}) ELSE state,
            in, IF eof THEN ReaderAt("Head") ELSE rd, pg,
            Returned("next_event", IF eof THEN "EndOfMessage" ELSE "NeedData"))
    /\ UNCHANGED negotiation

NeedDataOrEof(in, rd, pg) ==
    IF eof THEN FailHere(in, rd, pg, 400)
    ELSE Poll(state, in, rd, pg, Returned("next_event", "NeedData")) /\ UNCHANGED negotiation

AdvancePeer(ev) == ProcessEvent(state, PeerRole, ev, {})
PeerAccepts(ev) == Accepts(state, PeerRole, ev, {})

PeerData(in, count, rd, first, last) ==
    IF PeerAccepts("Data")
    THEN /\ Poll(AdvancePeer("Data"), Rest(in, count), rd, progress,
                 [Returned("next_event", "Data")
                    EXCEPT !.out = SubSeq(in, 1, count), !.first = first, !.last = last])
         /\ waiting_for_continue' = FALSE
         /\ UNCHANGED <<peer_version, request_kind, upgrade_proposals, continue_before_upgrade>>
    ELSE FailHere(Rest(in, count), rd, progress, 400)

(* Mutant of FinishPeer: the reader stays on the finished body.            *)
ReaderNotReset(in, pg) ==
    /\ Poll(AdvancePeer("EndOfMessage"), in, reader, pg, Returned("next_event", "EndOfMessage"))
    /\ UNCHANGED negotiation

FinishPeer(in, pg) ==
    IF PeerAccepts("EndOfMessage")
    THEN /\ Poll(AdvancePeer("EndOfMessage"), in, ReaderAt("Head"), pg,
                 Returned("next_event", "EndOfMessage"))
         /\ UNCHANGED negotiation
    ELSE FailHere(in, reader, pg, 400)

PeerClosed ==
    IF PeerAccepts("ConnectionClosed")
    THEN /\ Poll(AdvancePeer("ConnectionClosed"), input, reader, progress,
                 Returned("next_event", "ConnectionClosed"))
         /\ UNCHANGED negotiation
    ELSE FailHere(input, reader, progress, 400)

(* Mutant of SectionReady: what arrived since the last try is not looked   *)
(* at.                                                                     *)
ReadyOnce(in, pg, skip) == eof \/ ~pg

(* A section is retried only when it may have ended since the last try.    *)
SectionReady(in, pg, skip) == eof \/ ~pg \/ SectionEnds(in, skip) # {}

WaitForSection(in, rd, pg, skip) ==
    IF Len(in) > MaxHead THEN FailHere(in, rd, pg, IF skip THEN 431 ELSE 400)
    ELSE NeedDataOrEof(in, rd, TRUE)

----------------------------------------------------------------------------
(* Heads.  in is the input behind the head.                                *)

AcceptRequest(m, in) ==
    LET f == FramingOf(m)
        upgrades == ProposedUpgrades(m)
        p == Proposals(m, upgrades)
    IN  IF ~m.ok THEN FailHere(in, reader, FALSE, 400)
        ELSE IF f.k = "Error" THEN FailHere(in, reader, FALSE, f.n)
        ELSE IF ~Accepts(state, PeerRole, "Request", p) THEN FailHere(in, reader, FALSE, 400)
        ELSE /\ Poll(ApplyPersistence(ProcessEvent(state, PeerRole, "Request", p), m),
                     in, ReaderFor(f), FALSE,
                     [Returned("next_event", "Request") EXCEPT !.m = m])
             /\ request_kind' = m.kind
             /\ waiting_for_continue' = ExpectsContinue(m, f)
             /\ continue_before_upgrade' = (waiting_for_continue' /\ upgrades # {})
             /\ upgrade_proposals' = upgrades
             /\ peer_version' = m.version

AcceptInformational(m, in) ==
    IF \/ m.status = 101 /\ (continue_before_upgrade \/ ~ValidUpgradeResponse(m))
       \/ ~Accepts(state, PeerRole, InformationalEvent(m), InformationalSwitch(m))
    THEN FailHere(in, reader, FALSE, 400)
    ELSE /\ Poll(ProcessEvent(state, PeerRole, InformationalEvent(m), InformationalSwitch(m)),
                 in, reader, FALSE,
                 [Returned("next_event", "InformationalResponse") EXCEPT !.m = m])
         /\ waiting_for_continue' = (waiting_for_continue /\ m.status # 100)
         /\ continue_before_upgrade' = (continue_before_upgrade /\ m.status # 100)
         /\ peer_version' = m.version
         /\ UNCHANGED <<request_kind, upgrade_proposals>>

(* Mutant of AcceptFinal: the response may not forbid reuse.               *)
AcceptFinalPersistent(m, in) ==
    LET f == IF HasNoBody(m) THEN Fixed(0) ELSE ResponseFraming(m)
        s == ProcessEvent(state, PeerRole, FinalEvent(m), FinalSwitch(m))
    IN  IF ~Accepts(state, PeerRole, FinalEvent(m), FinalSwitch(m)) \/ f.k = "Error"
        THEN FailHere(in, reader, FALSE, 400)
        ELSE /\ Poll(s, in, ReaderFor(f), FALSE,
                     [Returned("next_event", "Response") EXCEPT !.m = m])
             /\ peer_version' = m.version
             /\ waiting_for_continue' = FALSE
             /\ continue_before_upgrade' = FALSE
             /\ upgrade_proposals' = {}
             /\ UNCHANGED request_kind

(* A framing error is met only after the state has advanced.               *)
AcceptFinal(m, in) ==
    LET f == IF HasNoBody(m) THEN Fixed(0) ELSE ResponseFraming(m)
        s == ApplyPersistence(ProcessEvent(state, PeerRole, FinalEvent(m), FinalSwitch(m)), m)
    IN  IF ~Accepts(state, PeerRole, FinalEvent(m), FinalSwitch(m))
        THEN FailHere(in, reader, FALSE, 400)
        ELSE /\ IF f.k = "Error" THEN Fail(s, in, reader, FALSE, f.n)
                ELSE Poll(IF f = CloseDelimited THEN DisableKeepAlive(s) ELSE s,
                          in, ReaderFor(f), FALSE,
                          [Returned("next_event", "Response") EXCEPT !.m = m])
             /\ peer_version' = m.version
             /\ waiting_for_continue' = FALSE
             /\ continue_before_upgrade' = FALSE
             /\ upgrade_proposals' = {}
             /\ UNCHANGED request_kind

(* The parser rejects a head of the wrong kind and an invalid status line. *)
Parses(m) == IF role = "server" THEN IsRequest(m) ELSE ~IsRequest(m) /\ m.ok

Accept(m, in) ==
    IF role = "server" THEN AcceptRequest(m, in)
    ELSE IF IsInformational(m) THEN AcceptInformational(m, in)
    ELSE AcceptFinal(m, in)

ReadHead ==
    IF ~SectionReady(input, progress, TRUE) \/ HeadPrefix(input, Len(input))
    THEN WaitForSection(input, reader, progress, TRUE)
    ELSE \/ /\ \A i \in CompleteHeads(input) : ~Parses(input[i].m)
            /\ FailHere(input, reader, progress, 400)
         \/ \E i \in CompleteHeads(input) :
              /\ Parses(input[i].m)
              /\ IF i > MaxHead THEN FailHere(input, reader, progress, 431)
                 ELSE Accept(input[i].m, Rest(input, i))

----------------------------------------------------------------------------
(* Bodies.                                                                 *)

Smaller(a, b) == IF a <= b THEN a ELSE b

(* Mutant of ReadFixed: an empty buffer gives an empty piece.              *)
ReadFixedEmpty ==
    LET count == Smaller(reader.n, Len(input)) IN
    IF reader.n = 0 THEN FinishPeer(input, progress)
    ELSE PeerData(input, count, FixedReader(reader.n - count), FALSE, FALSE)

ReadFixed ==
    LET count == Smaller(reader.n, Len(input)) IN
    IF reader.n = 0 THEN FinishPeer(input, progress)
    ELSE IF count = 0 THEN NeedDataOrEof(input, reader, progress)
    ELSE PeerData(input, count, FixedReader(reader.n - count), FALSE, FALSE)

(* Mutant of ReadToClose: EOF does not end the body.                       *)
ReadForEver ==
    IF input # <<>> THEN PeerData(input, Len(input), reader, FALSE, FALSE)
    ELSE Stay("NeedData")

ReadToClose ==
    IF input # <<>> THEN PeerData(input, Len(input), reader, FALSE, FALSE)
    ELSE IF eof THEN FinishPeer(input, progress)
    ELSE Stay("NeedData")

(* read_chunked calls itself through next_event_inner: behind chunk data   *)
(* it goes on to the size line, behind a size line to data or trailers.    *)
ReadTrailers(in, pg) ==
    LET ends == SectionEnds(in, FALSE)
        rd == ReaderAt("Trailers")
    IN  IF ~SectionReady(in, pg, FALSE) THEN WaitForSection(in, rd, pg, FALSE)
        ELSE IF IF ends = {} THEN Len(in) > MaxHead ELSE \A i \in ends : i > MaxHead
        THEN FailHere(in, rd, pg, 400)
        ELSE IF TrailerPrefix(in, Len(in)) THEN WaitForSection(in, rd, pg, FALSE)
        ELSE LET complete == CompleteTrailers(in, role = "client") IN
             \/ complete = {} /\ FailHere(in, rd, pg, 400)
             \/ \E i \in complete : FinishPeer(Rest(in, i), FALSE)

(* Mutant of ReadChunkData: every piece of a chunk may be its first.       *)
EveryPieceIsFirst(in, n, first) ==
    LET count == Smaller(n, Len(in)) IN
    IF count = 0 THEN NeedDataOrEof(in, DataReader(n, first), progress)
    ELSE PeerData(in, count,
                  IF count = n THEN ReaderAt("DataEnd") ELSE DataReader(n - count, first),
                  first, count = n)

ReadChunkData(in, n, first) ==
    LET count == Smaller(n, Len(in)) IN
    IF count = 0 THEN NeedDataOrEof(in, DataReader(n, first), progress)
    ELSE PeerData(in, count,
                  IF count = n THEN ReaderAt("DataEnd") ELSE DataReader(n - count, FALSE),
                  first, count = n)

(* Mutant of ReadSize: only an incomplete chunk line is limited.           *)
SizeLimitDropped(in) ==
    LET rd == ReaderAt("Size")
        ends == LineEnds(in)
    IN  \/ /\ ends = {}
           /\ IF Len(in) > MaxHead THEN FailHere(in, rd, progress, 400)
              ELSE NeedDataOrEof(in, rd, progress)
        \/ \E i \in ends :
             /\ \A j \in ends : i <= j
             /\ IF in[i].t # "size" \/ ~TrailerPrefix(in, i - 1)
                THEN FailHere(in, rd, progress, 400)
                ELSE IF in[i].n = 0 THEN ReadTrailers(Rest(in, i), FALSE)
                ELSE ReadChunkData(Rest(in, i), in[i].n, TRUE)

ReadSize(in) ==
    LET rd == ReaderAt("Size")
        ends == LineEnds(in)
        length(i) == IF in[i].t = "crlf" THEN i - 1 ELSE i
    IN  \/ /\ ends = {}
           /\ IF Len(in) > MaxHead THEN FailHere(in, rd, progress, 400)
              ELSE NeedDataOrEof(in, rd, progress)
        \/ \E i \in ends :
             /\ \A j \in ends : i <= j
             /\ IF \/ length(i) > MaxHead
                   \/ in[i].t # "size"
                   \/ ~TrailerPrefix(in, i - 1)
                THEN FailHere(in, rd, progress, 400)
                ELSE IF in[i].n = 0 THEN ReadTrailers(Rest(in, i), FALSE)
                ELSE ReadChunkData(Rest(in, i), in[i].n, TRUE)

ReadDataEnd ==
    IF input = <<>> THEN NeedDataOrEof(input, reader, progress)
    ELSE IF input[1].t # "crlf" THEN FailHere(input, reader, progress, 400)
    ELSE ReadSize(Rest(input, 1))

ReadBody ==
    \/ reader.k = "Head" /\ ReadHead
    \/ reader.k = "Fixed" /\ ReadFixed
    \/ reader.k = "CloseDelimited" /\ ReadToClose
    \/ reader.k = "Size" /\ ReadSize(input)
    \/ reader.k = "Data" /\ ReadChunkData(input, reader.n, reader.first)
    \/ reader.k = "DataEnd" /\ ReadDataEnd
    \/ reader.k = "Trailers" /\ ReadTrailers(input, progress)

next_event ==
    /\ \/ peer_state = "Closed" /\ Stay("ConnectionClosed")
       \/ peer_state \in {"MightSwitchProtocol", "SwitchedProtocol"} /\ Stay("Paused")
       \/ peer_state \in {"Done", "MustClose"} /\ input # <<>> /\ Stay("Paused")
       \/ peer_state \in {"Done", "MustClose"} /\ input = <<>> /\ ~eof /\ Stay("NeedData")
       \/ peer_state \in {"Idle", "Done", "MustClose"} /\ input = <<>> /\ eof /\ PeerClosed
       \/ peer_state = "Error" /\ FailHere(input, reader, progress, 0)
       \/ /\ peer_state \in {"Idle", "SendResponse", "SendBody"}
          /\ ~(peer_state = "Idle" /\ input = <<>> /\ eof)
          /\ ReadBody
    /\ UNCHANGED <<writer, eof>>

----------------------------------------------------------------------------
(* Output.                                                                 *)

LocalAccepts(ev, p) == Accepts(state, role, ev, p)

(* Mutant of AdvanceLocal: the end of the message is not recorded.         *)
EndNotRecorded(ev, p) == IF ev = "EndOfMessage" THEN state ELSE ProcessEvent(state, role, ev, p)

AdvanceLocal(ev, p) == ProcessEvent(state, role, ev, p)

Wrote(call, units) == ret' = [Returned(call, "Ok") EXCEPT !.out = units]

send_request(m) ==
    LET f == FramingOf(m)
        upgrades == IF m.version = "Http11" THEN m.upgrade ELSE {}
        p == Proposals(m, upgrades)
    IN  IF /\ role = "client"
           /\ m.ok
           /\ f.k # "Error"
           /\ ~(f = Fixed(0) /\ m.expect)
           /\ ValidUpgradeField(m)
           /\ m.connection_upgrade <=> m.upgrade # {}
           /\ LocalAccepts("Request", p)
        THEN /\ state' = ApplyPersistence(AdvanceLocal("Request", p), m)
             /\ request_kind' = m.kind
             /\ writer' = f
             /\ waiting_for_continue' = ExpectsContinue(m, f)
             /\ continue_before_upgrade' = (waiting_for_continue' /\ upgrades # {})
             /\ upgrade_proposals' = upgrades
             /\ Wrote("send_request", <<HeadUnit(m)>>)
             /\ UNCHANGED <<input, progress, reader, eof, peer_version>>
        ELSE Reject

send_informational_response(m) ==
    IF /\ role = "server"
       /\ IsInformational(m)
       /\ m.ok
       /\ ~HasFramingFields(m)
       /\ m.status = 101 => ~continue_before_upgrade /\ ValidUpgradeResponse(m)
       /\ LocalAccepts(InformationalEvent(m), InformationalSwitch(m))
    THEN /\ state' = AdvanceLocal(InformationalEvent(m), InformationalSwitch(m))
         /\ waiting_for_continue' = (waiting_for_continue /\ m.status # 100)
         /\ continue_before_upgrade' = (continue_before_upgrade /\ m.status # 100)
         /\ Wrote("send_informational_response", <<HeadUnit(m)>>)
         /\ UNCHANGED <<input, progress, reader, writer, eof,
                        peer_version, request_kind, upgrade_proposals>>
    ELSE Reject

(* The head `send_response` writes and the framing it selects.             *)
BothHttp11(m) == peer_version = "Http11" /\ m.version = "Http11"

Stripped(m) ==
    IF ~BothHttp11(m) /\ m.transfer # <<>>
    THEN [m EXCEPT !.transfer = <<>>, !.lengths = <<>>] ELSE m

SelectsFraming(m) == ~HasNoBody(m) /\ ~HasFramingFields(Stripped(m))

(* Mutant of SendFraming: the request method is forgotten.                 *)
FramingByFields(m) ==
    IF HasFramingFields(Stripped(m)) THEN FramingOf(Stripped(m))
    ELSE IF BothHttp11(m) THEN Chunked ELSE CloseDelimited

SendFraming(m) ==
    IF HasNoBody(m) THEN Fixed(0)
    ELSE IF ~SelectsFraming(m) THEN FramingOf(Stripped(m))
    ELSE IF BothHttp11(m) THEN Chunked ELSE CloseDelimited

(* Mutant of SignalsClose: what the request asked for is forgotten.        *)
SignalsOwnClose(m) == ~SwitchesByConnect(m) /\ (~BothHttp11(m) \/ m.close)

SignalsClose(m) ==
    /\ ~SwitchesByConnect(m)
    /\ ~state.keep_alive \/ ~BothHttp11(m) \/ m.close

Normalized(m) ==
    [Stripped(m) EXCEPT
        !.transfer = IF SelectsFraming(m) /\ BothHttp11(m) THEN <<"chunked">> ELSE @,
        !.close = @ \/ SignalsClose(m)]

send_response(m) ==
    IF /\ role = "server"
       /\ ~IsInformational(m)
       /\ m.ok
       /\ ~((m.status = 204 \/ SwitchesByConnect(m)) /\ HasFramingFields(m))
       /\ SendFraming(m).k # "Error"
       /\ LocalAccepts(FinalEvent(m), FinalSwitch(m))
    THEN /\ state' = ApplyPersistence(AdvanceLocal(FinalEvent(m), FinalSwitch(m)), Normalized(m))
         /\ writer' = SendFraming(m)
         /\ waiting_for_continue' = FALSE
         /\ continue_before_upgrade' = FALSE
         /\ upgrade_proposals' = {}
         /\ Wrote("send_response", <<HeadUnit(Normalized(m))>>)
         /\ UNCHANGED <<input, progress, reader, eof, peer_version, request_kind>>
    ELSE Reject

(* Mutant of FitsLength: what is still owed is not looked at.              *)
AnyLength(length) == TRUE

FitsLength(length) == writer.k = "Fixed" => length <= writer.n

(* send_data, send_data_parts and send_data_framing differ only in who     *)
(* joins prefix, body and suffix.                                          *)
send_data(length) ==
    IF /\ writer # NoWriter
       /\ FitsLength(length)
       /\ LocalAccepts("Data", {})
    THEN /\ state' = AdvanceLocal("Data", {})
         /\ writer' = IF writer.k = "Fixed" THEN Fixed(writer.n - length) ELSE writer
         /\ waiting_for_continue' = FALSE
         /\ Wrote("send_data", IF writer.k = "Chunked" /\ length > 0
                               THEN <<Size(length)>> \o Bytes(length) \o <<Plain("crlf")>>
                               ELSE Bytes(length))
         /\ UNCHANGED <<input, progress, reader, eof, peer_version, request_kind,
                        upgrade_proposals, continue_before_upgrade>>
    ELSE Reject

end_of_message(trailers) ==
    IF /\ writer # NoWriter
       /\ trailers # "forbidden"
       /\ writer.k = "Chunked" \/ (writer.n = 0 /\ trailers = "none")
       /\ LocalAccepts("EndOfMessage", {})
    THEN /\ state' = AdvanceLocal("EndOfMessage", {})
         /\ writer' = NoWriter
         /\ waiting_for_continue' = FALSE
         /\ Wrote("end_of_message", IF writer.k = "Chunked"
                    THEN <<Size(0), Plain(IF trailers = "none" THEN "crlf" ELSE "trailers")>>
                    ELSE <<>>)
         /\ UNCHANGED <<input, progress, reader, eof, peer_version, request_kind,
                        upgrade_proposals, continue_before_upgrade>>
    ELSE Reject

(* Mutant of start_next_cycle: buffered input is dropped with the cycle.   *)
NextCycleDropsInput ==
    /\ Reusable(state)
    /\ state' = NewState
    /\ input' = <<>>
    /\ reader' = ReaderAt("Head")
    /\ writer' = NoWriter
    /\ progress' = FALSE
    /\ ret' = Returned("start_next_cycle", "Ok")
    /\ UNCHANGED <<eof, negotiation>>

start_next_cycle ==
    IF Reusable(state)
    THEN /\ state' = NewState
         /\ reader' = ReaderAt("Head")
         /\ writer' = NoWriter
         /\ progress' = FALSE
         /\ request_kind' = None
         /\ upgrade_proposals' = {}
         /\ waiting_for_continue' = FALSE
         /\ continue_before_upgrade' = FALSE
         /\ ret' = Returned("start_next_cycle", "Ok")
         /\ UNCHANGED <<input, eof, peer_version>>
    ELSE Reject

close ==
    IF LocalAccepts("ConnectionClosed", {})
    THEN /\ state' = AdvanceLocal("ConnectionClosed", {})
         /\ writer' = NoWriter
         /\ ret' = Returned("close", "Ok")
         /\ UNCHANGED <<input, progress, reader, eof, negotiation>>
    ELSE Reject

----------------------------------------------------------------------------

(* No method assigns the role.                                             *)
Next ==
    /\ UNCHANGED role
    /\ \/ \E segment \in Segments[role] \cup {<<>>} :
             Len(input) + Len(segment) <= MaxInput /\ receive_data(segment)
       \/ next_event
       \/ \E m \in Requests : send_request(m)
       \/ \E m \in Responses : send_informational_response(m) \/ send_response(m)
       \/ \E length \in BodySizes : send_data(length)
       \/ \E trailers \in {"none", "valid", "forbidden"} : end_of_message(trailers)
       \/ start_next_cycle
       \/ close

Spec == Init /\ [][Next]_vars

----------------------------------------------------------------------------

Writer == Framing \cup {NoWriter}

Call == {"new", "rejected", "receive_data", "next_event", "send_request",
         "send_informational_response", "send_response", "send_data",
         "end_of_message", "start_next_cycle", "close"}

Outcome == {"Ok", "LocalError", "RemoteError", "NeedData", "Paused", "Request",
            "InformationalResponse", "Response", "Data", "EndOfMessage",
            "ConnectionClosed"}

Result == [call : Call, res : Outcome, status : Nat, m : Message,
           out : Seq(Unit), first : BOOLEAN, last : BOOLEAN]

(* Every field of `Connection` keeps its type.                             *)
TypeOK ==
    /\ role \in Role
    /\ state \in ConnState
    /\ input \in Seq(Unit)
    /\ progress \in BOOLEAN
    /\ reader \in Reader
    /\ writer \in Writer
    /\ eof \in BOOLEAN
    /\ peer_version \in Version \cup {None}
    /\ request_kind \in {"Other", "Head", "Connect", None}
    /\ upgrade_proposals \subseteq Protocol
    /\ waiting_for_continue \in BOOLEAN
    /\ continue_before_upgrade \in BOOLEAN
    /\ ret \in Result

(* The body reader is armed exactly while the peer is in a message body,   *)
(* so `peer_data` and `finish_peer` are never refused by the state and no  *)
(* head is parsed inside a body.  A poisoned or switched peer is not read  *)
(* again and may leave the reader where it was.                            *)
ReaderFollowsPeer ==
    /\ peer_state = "SendBody" => reader.k # "Head"
    /\ reader.k # "Head" => peer_state \in {"SendBody", "SwitchedProtocol", "Error"}

(* The local side has a framing to write with exactly while its message    *)
(* body is open: send_data can neither write outside a message nor find    *)
(* an open message without framing.  (A CONNECT tunnel keeps Fixed(0).)    *)
WriterFollowsLocal ==
    /\ local_state = "SendBody" => writer # NoWriter
    /\ writer # NoWriter => local_state \in {"SendBody", "SwitchedProtocol"}

(* Between two calls the lifecycle record is stable: no joint rule of      *)
(* `stabilize` is left to apply, on error paths included.                  *)
StateIsStable == StabilizePass(state) = state

(* Once EOF is recorded `next_event` never asks for more data: every       *)
(* reader ends in an event, a pause or an error.  A caller that waited for *)
(* the transport would wait for ever.                                      *)
NoNeedDataAfterEof == ret.res = "NeedData" => ~eof

(* `trailing_data`: what arrived behind a finished message is kept, whole  *)
(* and in order, for the next cycle or the next protocol, whichever calls  *)
(* are made in between.                                                    *)
TrailingInputKept ==
    [][peer_state \notin {"Idle", "SendResponse", "SendBody"}
         => /\ Len(input) <= Len(input')
            /\ SubSeq(input', 1, Len(input)) = input]_vars

(* Closed, switched and poisoned actors stay so: no later call, error or   *)
(* joint rule revives or re-labels them.                                   *)
TerminalStatesAreFinal ==
    [][\A r \in Role : state[r] \in {"Closed", "SwitchedProtocol", "Error"}
                        => state'[r] = state[r]]_vars

(* An application that keeps polling learns of the end of the transport:   *)
(* after EOF the peer is reported closed or in error, unless polling is    *)
(* paused for a protocol switch or in front of a buffered message.         *)
EofIsReported ==
    eof ~> \/ peer_state \in {"Closed", "Error", "MightSwitchProtocol", "SwitchedProtocol"}
           \/ peer_state \in {"Done", "MustClose"} /\ input # <<>>

(* A final response after which the connection will not persist says so on *)
(* the wire (tests/protocol.rs:839), so that the client does not reuse it. *)
CloseIsSignalled ==
    /\ ret.call = "send_response"
    /\ ret.res = "Ok"
    /\ ~state.keep_alive
    /\ state.server # "SwitchedProtocol"
    => ~Persistent(ret.out[1].m)

(* client_is_waiting_for_100_continue is "whether the client is waiting    *)
(* for `100 Continue`" (api.rs:727): a client that has sent its complete   *)
(* request is not.                                                         *)
WaitingClientHasNotFinished ==
    waiting_for_continue
        => state.client \notin {"Done", "MightSwitchProtocol", "MustClose"}
============================================================================
