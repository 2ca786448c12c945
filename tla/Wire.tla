-------------------------------- MODULE Wire --------------------------------
(***************************************************************************)
(* Message framing and incremental parsing, from crates/h11r/src/wire.rs.  *)
(*                                                                         *)
(* A parsed or outgoing head is a Message: the fields the connection looks *)
(* at, with everything else (target, reason, other headers) reduced to the *)
(* flag `ok`: they pass validation.  The byte stream is a sequence of      *)
(* units; lengths and limits are counted in units:                         *)
(*   part      bytes of an unfinished line of a section or chunk line; an  *)
(*             end of line right behind them leaves the line malformed     *)
(*   head      the bytes that complete head m, blank line included         *)
(*   size      the bytes that complete a chunk line announcing n units     *)
(*   crlf      an empty line or the line end after chunk data              *)
(*   trailers  the bytes that complete a non-empty trailer section         *)
(*   byte      a body unit; no head, chunk line or trailer may contain it  *)
(*   space     a body unit that begins with white space                    *)
(* The syntax authority (the external crate httparse) then accepts a head  *)
(* exactly when it is crlf* part* head.                                    *)
(***************************************************************************)
EXTENDS Integers, Sequences

CONSTANTS Protocol     \* protocol names an Upgrade field may list

Version == {"Http10", "Http11"}

BadLength == -1        \* a Content-Length member that is no number
BadProtocol == "?"     \* an Upgrade member that is no protocol

(* kind is the request method class, or "Response"; transfer and lengths   *)
(* are the comma-separated members of Transfer-Encoding and                *)
(* Content-Length over all fields; close and connection_upgrade are the    *)
(* tokens of Connection; expect is Expect: 100-continue.                   *)
Message == [kind : {"Other", "Head", "Connect", "Response"}, status : Nat,
            version : Version,
            transfer : Seq({"chunked", "other", ""}),
            lengths : Seq(Nat \cup {BadLength}),
            close : BOOLEAN, connection_upgrade : BOOLEAN,
            upgrade : SUBSET (Protocol \cup {BadProtocol}),
            expect : BOOLEAN, ok : BOOLEAN]

NoMessage == [kind |-> "Other", status |-> 0, version |-> "Http11",
              transfer |-> <<>>, lengths |-> <<>>, close |-> FALSE,
              connection_upgrade |-> FALSE, upgrade |-> {},
              expect |-> FALSE, ok |-> TRUE]

Unit == [t : {"part", "head", "size", "crlf", "trailers", "byte", "space"},
         n : Nat, m : Message]

Plain(t) == [t |-> t, n |-> 0, m |-> NoMessage]
Size(n) == [t |-> "size", n |-> n, m |-> NoMessage]
HeadUnit(m) == [t |-> "head", n |-> 0, m |-> m]
Bytes(n) == [i \in 1..n |-> Plain("byte")]

IsRequest(m) == m.kind # "Response"

----------------------------------------------------------------------------
(* Framing.  A failure carries its status code in n.                       *)

Framing == [k : {"Fixed", "Chunked", "CloseDelimited"}, n : Nat]
Fixed(n) == [k |-> "Fixed", n |-> n]
Chunked == [k |-> "Chunked", n |-> 0]
CloseDelimited == [k |-> "CloseDelimited", n |-> 0]
FramingError(status) == [k |-> "Error", n |-> status]

(* Mutant of TransferFraming: the codings before the last one are ignored. *)
LastCoding(te) ==
    IF \E i \in 1..Len(te) : te[i] = "" THEN FramingError(400)
    ELSE IF te[Len(te)] = "chunked" THEN Chunked ELSE FramingError(501)

TransferFraming(te) ==
    LET last == Len(te) IN
    IF \E i \in 1..last : te[i] = "" THEN FramingError(400)
    ELSE IF last = 1
         THEN IF te[1] = "chunked" THEN Chunked ELSE FramingError(501)
    ELSE IF te[last] # "chunked" \/ \E i \in 1..(last - 1) : te[i] = "chunked"
         THEN FramingError(400)
    ELSE FramingError(501)

LengthFraming(lengths) ==
    IF lengths = <<>> THEN Fixed(0)
    ELSE IF lengths[1] = BadLength \/ \E i \in 1..Len(lengths) : lengths[i] # lengths[1]
         THEN FramingError(400)
    ELSE Fixed(lengths[1])

FramingOf(m) ==
    IF m.transfer = <<>> THEN LengthFraming(m.lengths)
    ELSE IF m.lengths # <<>> \/ m.version = "Http10" THEN FramingError(400)
    ELSE TransferFraming(m.transfer)

HasFramingFields(m) == m.transfer # <<>> \/ m.lengths # <<>>

ResponseFraming(m) == IF HasFramingFields(m) THEN FramingOf(m) ELSE CloseDelimited

ExpectsContinue(m, f) == m.version = "Http11" /\ f # Fixed(0) /\ m.expect

(* `upgrade_protocols` gives None for a field with an invalid member or    *)
(* with none; both are BadProtocol.                                        *)
ValidUpgradeField(m) == BadProtocol \notin m.upgrade

Persistent(m) == m.version = "Http11" /\ ~m.close

----------------------------------------------------------------------------
(* Body reader.  k names the `Reader` variant, the four `Chunk` variants   *)
(* included; n is what remains of a Fixed body or of a chunk's data.       *)

Reader == [k : {"Head", "Fixed", "Size", "Data", "DataEnd", "Trailers",
                "CloseDelimited"}, n : Nat, first : BOOLEAN]
ReaderAt(k) == [k |-> k, n |-> 0, first |-> FALSE]
FixedReader(n) == [k |-> "Fixed", n |-> n, first |-> FALSE]
DataReader(n, first) == [k |-> "Data", n |-> n, first |-> first]

ReaderFor(f) ==
    IF f.k = "Fixed" THEN FixedReader(f.n)
    ELSE ReaderAt(IF f.k = "Chunked" THEN "Size" ELSE "CloseDelimited")

----------------------------------------------------------------------------
(* Scanning the buffered units.                                            *)

Rest(in, i) == SubSeq(in, i + 1, Len(in))

LineEnds(in) == {i \in 1..Len(in) : in[i].t \in {"crlf", "size", "head", "trailers"}}

(* Where `SectionProgress::poll` finds the blank line that ends a section; *)
(* leading blank lines do not end a head (skip).                           *)
SectionEnds(in, skip) ==
    {i \in 1..Len(in) :
        \/ in[i].t \in {"head", "trailers"}
        \/ /\ in[i].t = "crlf"
           /\ i = 1 \/ i - 1 \in LineEnds(in)
           /\ skip => \E j \in 1..(i - 1) : in[j].t # "crlf"}

(* Units 1..i of the input are the beginning of a head httparse accepts.   *)
HeadPrefix(in, i) ==
    \A j \in 1..i : \/ in[j].t = "part"
                    \/ in[j].t = "crlf" /\ \A l \in 1..j : in[l].t = "crlf"

CompleteHeads(in) == {i \in 1..Len(in) : in[i].t = "head" /\ HeadPrefix(in, i - 1)}

(* A trailer section is crlf, or part* trailers.                           *)
TrailerPrefix(in, i) == \A j \in 1..i : in[j].t = "part"

(* `normalize_obs_fold` looks at everything that is buffered: white space  *)
(* behind the section continues its blank line, which then ends nothing.   *)
FoldsOver(in, i) == i < Len(in) /\ in[i + 1].t = "space"

(* Where `parse_trailers` finds the section complete.                      *)
CompleteTrailers(in, normalize_folding) ==
    {i \in 1..Len(in) :
        /\ \/ in[i].t = "trailers" /\ TrailerPrefix(in, i - 1)
           \/ in[i].t = "crlf" /\ i = 1
        /\ ~(normalize_folding /\ FoldsOver(in, i))}
============================================================================
