-------------------------- MODULE MCFragmentation --------------------------
(***************************************************************************)
(* Streams for Fragmentation: every short sequence of units, and longer    *)
(* ones behind a head.                                                     *)
(***************************************************************************)
EXTENDS Fragmentation, MCMessages

LineUnit == {Plain(t) : t \in {"part", "crlf", "byte"}} \cup {Size(0), Size(2)}
BodyUnit == LineUnit \cup {Plain("trailers"), Plain("space")}

UpTo(units, n) == UNION {[1..k -> units] : k \in 0..n}

Any(heads, n) == UpTo(BodyUnit \cup {HeadUnit(m) : m \in heads}, n)
After(heads, units, n) == {<<HeadUnit(m)>> \o b : m \in heads, b \in UpTo(units, n)}

ServerHeads == {Post, ChunkedPost, Get}
ServerWires ==
    Any(ServerHeads, 3) \cup After(ServerHeads, BodyUnit, 3)
        \cup After({ChunkedPost}, LineUnit, 5)

ClientHeads == {ChunkedReply(200), Reply(200), Upgrading(Reply(101))}
ClientWires ==
    Any(ClientHeads, 3) \cup After(ClientHeads, BodyUnit, 3)

MCWires == [r \in Role |-> IF r = "server" THEN ServerWires ELSE ClientWires]
NoSegments == [r \in Role |-> {}]

ClientRequests == {Get, HeadRequest, Connect, Upgrading(Get)}
============================================================================
