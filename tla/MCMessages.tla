----------------------------- MODULE MCMessages -----------------------------
(***************************************************************************)
(* Heads and wire units the TLC instances are built from.                  *)
(***************************************************************************)
EXTENDS ConnectionState, Wire

Get == NoMessage
Post == [Get EXCEPT !.lengths = <<2>>]
Reply(status) == [Get EXCEPT !.kind = "Response", !.status = status]
Upgrading(m) == [m EXCEPT !.connection_upgrade = TRUE, !.upgrade = {"ws"}]

ChunkedPost == [Get EXCEPT !.transfer = <<"chunked">>]
ExpectingPost == [ChunkedPost EXCEPT !.expect = TRUE]
OldGet == [Get EXCEPT !.version = "Http10"]
ClosingGet == [Get EXCEPT !.close = TRUE]
Connect == [Get EXCEPT !.kind = "Connect"]
HeadRequest == [Get EXCEPT !.kind = "Head"]
AmbiguousPost == [Post EXCEPT !.transfer = <<"chunked">>]
NoHostGet == [Get EXCEPT !.ok = FALSE]

(* Methods, versions, framings, switches and 100-continue.                 *)
PeerRequests ==
    {Get, Post, ExpectingPost, OldGet, ClosingGet, Connect, HeadRequest,
     Upgrading(Get), Upgrading(ExpectingPost), AmbiguousPost, NoHostGet}

LocalRequests ==
    {Get, Post, ExpectingPost, OldGet, Connect, HeadRequest,
     Upgrading(ExpectingPost), AmbiguousPost}

SizedReply(status) == [Reply(status) EXCEPT !.lengths = <<2>>]
ChunkedReply(status) == [Reply(status) EXCEPT !.transfer = <<"chunked">>]
OldReply(status) == [Reply(status) EXCEPT !.version = "Http10"]
AmbiguousReply(status) == [SizedReply(status) EXCEPT !.transfer = <<"chunked">>]

OtherSwitch == [Upgrading(Reply(101)) EXCEPT !.upgrade = {"h2c"}]

LocalResponses ==
    {Reply(100), Upgrading(Reply(101)), OtherSwitch, Reply(200), SizedReply(403),
     Reply(204), OldReply(200), ChunkedReply(204)}

PeerResponses ==
    {Reply(100), Upgrading(Reply(101)), OtherSwitch, Reply(200), SizedReply(403),
     ChunkedReply(200), Reply(204), OldReply(200), AmbiguousReply(200)}

Single(units) == {<<u>> : u \in units}
Heads(messages) == Single({HeadUnit(m) : m \in messages})

(* The ends of chunked bodies, and stray body units.                       *)
ShortBodies == Single({Size(0), Plain("crlf"), Plain("byte")})

(* Every kind of unit.                                                     *)
AnyBodies ==
    Single({Plain(t) : t \in {"part", "crlf", "byte", "trailers"}} \cup {Size(0), Size(2)})

PeerHeads(r) == IF r = "server" THEN PeerRequests ELSE PeerResponses
LifecycleSegments == [r \in Role |-> Heads(PeerHeads(r)) \cup ShortBodies]

BodyHeads(r) == IF r = "server" THEN {Post, ChunkedPost} ELSE {ChunkedReply(200), Reply(200)}
BodyUnits(r) == IF r = "server" THEN AnyBodies ELSE ShortBodies \cup Single({Size(2)})
BodySegments == [r \in Role |-> Heads(BodyHeads(r)) \cup BodyUnits(r)]

(* One request, where the question is about input.                         *)
OneRequest == {Get}
============================================================================
