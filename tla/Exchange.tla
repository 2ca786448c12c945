------------------------------ MODULE Exchange ------------------------------
(***************************************************************************)
(* A client and a server Connection joined by a transport, as the round    *)
(* trips of fuzz/fuzz_targets/h11r_send.rs join them: what one endpoint    *)
(* returns from a send is what the other receives, in pieces of any size,  *)
(* and possibly cut off.  The applications make any call the library       *)
(* accepts; a server only answers a request it was told of.                *)
(***************************************************************************)
EXTENDS ConnectionState, Wire, SequencesExt

CONSTANTS MaxHead, BodySizes,
          Scenarios    \* what the applications and the transport may do

(* A scenario: the heads the applications send, how they call              *)
(* end_of_message, a bound on what each of them says, and whether the      *)
(* transport may fail.                                                     *)
ASSUME ExchangeAssumption ==
    Scenarios \subseteq [requests : SUBSET {m \in Message : IsRequest(m)},
                         responses : SUBSET {m \in Message : ~IsRequest(m)},
                         trailers : SUBSET {"none", "valid"},
                         said : Nat, cut : BOOLEAN]

VARIABLES
    scenario,
    c_state, c_input, c_progress, c_reader, c_writer, c_eof, c_peer_version,
    c_request_kind, c_upgrade_proposals, c_waiting, c_continue_first, c_ret,
    s_state, s_input, s_progress, s_reader, s_writer, s_eof, s_peer_version,
    s_request_kind, s_upgrade_proposals, s_waiting, s_continue_first, s_ret,
    to_server, to_client,    \* the two directions of the transport
    c_said, s_heard,         \* requests as sent, and as the server was told
    s_said, c_heard          \* responses as sent, and as the client was told

c_vars == <<c_state, c_input, c_progress, c_reader, c_writer, c_eof, c_peer_version,
            c_request_kind, c_upgrade_proposals, c_waiting, c_continue_first, c_ret>>
s_vars == <<s_state, s_input, s_progress, s_reader, s_writer, s_eof, s_peer_version,
            s_request_kind, s_upgrade_proposals, s_waiting, s_continue_first, s_ret>>
vars == <<scenario, c_vars, s_vars, to_server, to_client, c_said, s_heard, s_said, c_heard>>

(* What an endpoint receives comes from the transport below.               *)
NoSegments == [r \in Role |-> {}]

C == INSTANCE Connection WITH
       role <- "client", Roles <- {"client"}, Requests <- {}, Responses <- {}, Segments <- NoSegments, MaxInput <- 0,
       state <- c_state, input <- c_input, progress <- c_progress, reader <- c_reader,
       writer <- c_writer, eof <- c_eof, peer_version <- c_peer_version,
       request_kind <- c_request_kind, upgrade_proposals <- c_upgrade_proposals,
       waiting_for_continue <- c_waiting, continue_before_upgrade <- c_continue_first,
       ret <- c_ret

S == INSTANCE Connection WITH
       role <- "server", Roles <- {"server"}, Requests <- {}, Responses <- {}, Segments <- NoSegments, MaxInput <- 0,
       state <- s_state, input <- s_input, progress <- s_progress, reader <- s_reader,
       writer <- s_writer, eof <- s_eof, peer_version <- s_peer_version,
       request_kind <- s_request_kind, upgrade_proposals <- s_upgrade_proposals,
       waiting_for_continue <- s_waiting, continue_before_upgrade <- s_continue_first,
       ret <- s_ret

----------------------------------------------------------------------------
(* One direction of the transport: what is in transit, whether its sender  *)
(* has shut it down, and whether it failed.                                *)

Open == [units |-> <<>>, shut |-> FALSE, cut |-> FALSE]

Carry(channel, units) ==
    IF channel.shut THEN channel ELSE [channel EXCEPT !.units = @ \o units]

(* A failure loses the end of what is in transit.                          *)
Cuts(channel) ==
    {[units |-> SubSeq(channel.units, 1, n), shut |-> TRUE, cut |-> TRUE] :
        n \in 0..Len(channel.units)}

(* A message in the terms of the API: its head, its body bytes, its end.   *)
(* A message of declared length ends with its last byte, another one with  *)
(* end_of_message.  A tunnel does not end.                                 *)
End == Plain("end")

Completes(r, local, before, after) ==
    IF r.call = "end_of_message" THEN before.k # "Fixed"
    ELSE local = "SendBody" /\ after = Fixed(0) /\ before # Fixed(0)

Said(r, local, before, after) ==
    SelectSeq(r.out, LAMBDA u : u.t \in {"head", "byte"})
        \o IF Completes(r, local, before, after) THEN <<End>> ELSE <<>>

Heard(r) ==
    IF r.res \in {"Request", "InformationalResponse", "Response"} THEN <<HeadUnit(r.m)>>
    ELSE IF r.res = "Data" THEN r.out
    ELSE IF r.res = "EndOfMessage" THEN <<End>> ELSE <<>>

----------------------------------------------------------------------------

Init ==
    /\ scenario \in Scenarios
    /\ C!Init /\ S!Init
    /\ to_server = Open /\ to_client = Open
    /\ c_said = <<>> /\ s_heard = <<>> /\ s_said = <<>> /\ c_heard = <<>>

(* An accepted send: its bytes go to the transport.                        *)
client_sends(call) ==
    /\ call
    /\ c_ret'.res = "Ok"
    /\ to_server' = Carry(to_server, c_ret'.out)
    /\ c_said' = c_said \o Said(c_ret', c_state'.client, c_writer, c_writer')
    /\ Len(c_said') <= scenario.said
    /\ UNCHANGED <<s_vars, to_client, s_heard, s_said, c_heard>>

server_sends(call) ==
    /\ call
    /\ s_ret'.res = "Ok"
    /\ to_client' = Carry(to_client, s_ret'.out)
    /\ s_said' = s_said \o Said(s_ret', s_state'.server, s_writer, s_writer')
    /\ Len(s_said') <= scenario.said
    /\ UNCHANGED <<c_vars, to_server, s_heard, c_said, c_heard>>

send_request == \E m \in scenario.requests : client_sends(C!send_request(m))

(* The server application answers a request it was told of.                *)
send_response ==
    /\ s_state.client # "Idle"
    /\ \E m \in scenario.responses :
          server_sends(S!send_informational_response(m)) \/ server_sends(S!send_response(m))

send_data ==
    \E length \in BodySizes :
        client_sends(C!send_data(length)) \/ server_sends(S!send_data(length))

end_of_message ==
    \E trailers \in scenario.trailers :
        client_sends(C!end_of_message(trailers)) \/ server_sends(S!end_of_message(trailers))

client_next_cycle == client_sends(C!start_next_cycle)
server_next_cycle == server_sends(S!start_next_cycle)

(* An endpoint that has closed shuts its direction down.                   *)
client_close ==
    /\ ~to_server.shut
    /\ C!close
    /\ c_ret'.res = "Ok"
    /\ to_server' = [to_server EXCEPT !.shut = TRUE]
    /\ UNCHANGED <<s_vars, to_client, c_said, s_heard, s_said, c_heard>>

server_close ==
    /\ ~to_client.shut
    /\ S!close
    /\ s_ret'.res = "Ok"
    /\ to_client' = [to_client EXCEPT !.shut = TRUE]
    /\ UNCHANGED <<c_vars, to_server, c_said, s_heard, s_said, c_heard>>

(* The transport delivers a segment, or EOF behind the last one.           *)
deliver_to_server ==
    /\ \/ \E n \in 1..Len(to_server.units) :
             /\ S!receive_data(SubSeq(to_server.units, 1, n))
             /\ to_server' = [to_server EXCEPT !.units = Rest(@, n)]
       \/ /\ to_server.units = <<>> /\ to_server.shut /\ ~s_eof
          /\ S!receive_data(<<>>)
          /\ UNCHANGED to_server
    /\ UNCHANGED <<c_vars, to_client, c_said, s_heard, s_said, c_heard>>

deliver_to_client ==
    /\ \/ \E n \in 1..Len(to_client.units) :
             /\ C!receive_data(SubSeq(to_client.units, 1, n))
             /\ to_client' = [to_client EXCEPT !.units = Rest(@, n)]
       \/ /\ to_client.units = <<>> /\ to_client.shut /\ ~c_eof
          /\ C!receive_data(<<>>)
          /\ UNCHANGED to_client
    /\ UNCHANGED <<s_vars, to_server, c_said, s_heard, s_said, c_heard>>

cut ==
    /\ scenario.cut /\ ~to_server.cut /\ ~to_client.cut
    /\ \/ ~to_server.shut /\ to_server' \in Cuts(to_server) /\ UNCHANGED to_client
       \/ ~to_client.shut /\ to_client' \in Cuts(to_client) /\ UNCHANGED to_server
    /\ UNCHANGED <<c_vars, s_vars, c_said, s_heard, s_said, c_heard>>

(* A poll that is told to wait and leaves the connection as it was is no   *)
(* step of the exchange.                                                   *)
Waits(r) == r.res \in {"NeedData", "Paused"}

server_polls ==
    /\ S!next_event
    /\ Waits(s_ret') => s_progress' # s_progress
    /\ s_heard' = s_heard \o Heard(s_ret')
    /\ UNCHANGED <<c_vars, to_server, to_client, c_said, s_said, c_heard>>

client_polls ==
    /\ C!next_event
    /\ Waits(c_ret') => c_progress' # c_progress
    /\ c_heard' = c_heard \o Heard(c_ret')
    /\ UNCHANGED <<s_vars, to_server, to_client, c_said, s_said, s_heard>>

Next ==
    /\ UNCHANGED scenario
    /\ \/ send_request \/ send_response \/ send_data \/ end_of_message
       \/ client_next_cycle \/ server_next_cycle \/ client_close \/ server_close
       \/ deliver_to_server \/ deliver_to_client \/ cut
       \/ server_polls \/ client_polls

Spec == Init /\ [][Next]_vars

(* Each endpoint has a loop that waits for the transport and polls; a      *)
(* server that may start the next cycle or must close does so there.       *)
client_loop == UNCHANGED scenario /\ (deliver_to_client \/ client_polls)
server_loop ==
    /\ UNCHANGED scenario
    /\ \/ deliver_to_server \/ server_polls \/ server_next_cycle
       \/ s_state.server = "MustClose" /\ server_close

FairSpec == Spec /\ WF_vars(client_loop) /\ WF_vars(server_loop)

----------------------------------------------------------------------------

Failed == to_server.cut \/ to_client.cut

Count(parts, t) == Len(SelectSeq(parts, LAMBDA u : u.t = t))

(* The server closed an idle connection while a request was on its way.    *)
RequestMissed ==
    s_state.server = "Closed" /\ Count(c_said, "head") > Count(s_said, "end")

(* Two endpoints of this library never report each other as broken: over a *)
(* transport that does not fail no order of accepted calls, deliveries and *)
(* polls makes `next_event` return a RemoteProtocolError, except to a      *)
(* client whose request met a server that had just closed.                 *)
NobodyIsBlamed ==
    ~Failed => /\ s_ret.res # "RemoteError"
               /\ c_ret.res = "RemoteError" => RequestMissed

(* Each application is told a prefix of what the other one said: the heads *)
(* in order, the body bytes with none added or lost, and the end of a      *)
(* message only when the sender ended it, however the transport segments   *)
(* or cuts the stream.  A close-delimited response has no other end than   *)
(* EOF.                                                                    *)
HeardIsSaid ==
    /\ IsPrefix(s_heard, c_said)
    /\ \/ IsPrefix(c_heard, s_said)
       \/ /\ to_client.cut /\ c_eof
          /\ c_heard # <<>> /\ Last(c_heard) = End
          /\ IsPrefix(Front(c_heard), s_said)

(* Both endpoints hand the connection to the same protocol at the same     *)
(* byte: a client has switched only if the server has, neither has HTTP    *)
(* input left in front of the new protocol, and no message of the old one  *)
(* is still to come.                                                       *)
SwitchIsAgreed ==
    /\ "SwitchedProtocol" \in {c_state.client, c_state.server}
         => s_state.server = "SwitchedProtocol" /\ c_heard = s_said
    /\ s_state.client = "SwitchedProtocol" => s_heard = c_said

(* When a client goes on to its next cycle the server has not given up the *)
(* connection: both decide from the same heads, in whatever order they     *)
(* finished the exchange.                                                  *)
ReuseIsAgreed ==
    [][c_state # c_state' /\ c_ret'.call = "start_next_cycle" /\ ~Failed
         => s_state.keep_alive]_vars

(* What is said is heard: with both loops running the client again and     *)
(* again has been told all the server said, unless the transport failed,   *)
(* and the server all the client said, unless it has closed.               *)
SaidIsHeard ==
    /\ []<>(c_heard = s_said \/ Failed)
    /\ []<>(s_heard = c_said \/ Failed \/ s_state.server = "Closed")
============================================================================
