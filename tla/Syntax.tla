------------------------------- MODULE Syntax -------------------------------
(***************************************************************************)
(* The parsers and field operations of crates/h11r/src/wire.rs against     *)
(* their grammars.  A subject is a kind of text; its texts are grown one   *)
(* element at a time, so that every short text is looked at.  The subject  *)
(* "body" is the state machine of ChunkScan.                               *)
(***************************************************************************)
EXTENDS ChunkScan, Trailers, Authority, Fields

CONSTANT Texts         \* subject |-> the texts to begin with, the elements to
                       \* append, and a bound on how many are appended

Grammars == {"chunk line", "trailers", "host", "headers"}

(* What a text of the subject consists of.                                 *)
Element(g) ==
    CASE g = "chunk line" -> ChunkByte
      [] g = "trailers" -> Octet
      [] g = "host" -> HostByte
      [] g = "headers" -> FieldLine(Name)

ASSUME SyntaxAssumption ==
    /\ DOMAIN Texts = Grammars
    /\ \A g \in Grammars : /\ Texts[g].seeds \subseteq Seq(Element(g))
                           /\ Texts[g].elements \subseteq Element(g)
                           /\ Texts[g].more \in Nat

VARIABLES subject,
          text,        \* the text looked at, if the subject is a grammar
          more         \* how many elements may still be appended to it

svars == <<vars, subject, text, more>>

SyntaxInit ==
    /\ Init
    /\ \/ subject = "body" /\ text = <<>> /\ more = 0
       \/ subject \in Grammars /\ text \in Texts[subject].seeds /\ more = Texts[subject].more

grow ==
    /\ subject \in Grammars
    /\ more > 0
    /\ more' = more - 1
    /\ \E element \in Texts[subject].elements : text' = Append(text, element)
    /\ UNCHANGED <<vars, subject>>

SyntaxNext == grow \/ (subject = "body" /\ Next /\ UNCHANGED <<subject, text, more>>)

SyntaxSpec == SyntaxInit /\ [][SyntaxNext]_svars

----------------------------------------------------------------------------

(* White space between a name without a value and what follows it.         *)
SpaceBehindName(line) ==
    \E i, j \in 1..Len(line) :
        /\ i < j /\ line[i] = ";" /\ line[j] = ";"
        /\ line[j - 1] \in Ows
        /\ All(line, i + 1, j, is_token_byte \cup Ows)

(* parse_chunk_header accepts the chunk lines of RFC 9112 whose size fits  *)
(* a usize, with the size they state, and nothing else; parse_number never *)
(* wraps, in neither radix.  One exception: white space behind an          *)
(* extension name without a value, which the grammar allows in front of    *)
(* the next semicolon, is refused, although "RFC 9112 Section 7.1.1        *)
(* requires recipients to ignore unknown chunk extensions"                 *)
(* (tests/protocol.rs:1098).                                               *)
ChunkLinesAreExact ==
    subject = "chunk line" =>
        LET Number(s, radix) ==
                IF s # <<>> /\ (\A i \in DOMAIN s : to_digit(s[i], radix) # None)
                     /\ NumberOf(s, radix) <= UsizeMax
                THEN NumberOf(s, radix) ELSE None
            sizes == {Number(SubSeq(text, 1, k), 16) : k \in SizeDigits(text)} \ {None}
            size == parse_chunk_header(text)
        IN /\ \A radix \in {10, 16} : parse_number(text, radix) = Number(text, radix)
           /\ size # None => size \in sizes
           /\ sizes # {} /\ ~SpaceBehindName(text) => size # None

(* A trailer section is decided by its own bytes: once it has been         *)
(* accepted or refused, what the transport delivers behind it does not     *)
(* change that ("A complete section and every transport segmentation of it *)
(* must have one decision.", tests/protocol.rs:206); it is consumed to its *)
(* last byte; and for a client a folded line is one line.  One exception:  *)
(* a client that finds white space directly behind the section takes the   *)
(* blank line for a fold.                                                  *)
TrailersAreDecided ==
    subject = "trailers" => \A client \in BOOLEAN :
        LET parsed == parse_trailers(text, client)
            end == SectionEnd(text)
            swallowed == client /\ end # 0 /\ Octet_at(text, end + 1) = "SP"
            folded == {i \in DOMAIN text : i > 1 /\ IsFold(text, i - 1)}
            bad == Malformed(text) \ (IF client THEN folded ELSE {})
        IN /\ ~swallowed => \A n \in 0..Len(text) :
                 LET before == parse_trailers(SubSeq(text, 1, n), client) IN
                 before.status # "partial" => parsed = before
           /\ parsed.status = "complete" => parsed.end = end
           /\ end = Len(text) /\ end \in 1..MaxBytes =>
                 (parsed.status = "complete" <=> bad = {})

(* "RFC 9110 Section 7.2 defines Host as uri-host plus optional port."     *)
(* (tests/protocol.rs:928): exactly one such field passes, in either       *)
(* version, and none only in HTTP/1.0.                                     *)
HostIsUriHost ==
    subject = "host" => \A version \in Version :
        /\ valid_host(version, <<text>>) <=> HostGrammar(text)
        /\ ~valid_host(version, <<text, text>>)
        /\ valid_host(version, <<>>) <=> version = "Http10"

(* A list of fields gives a body length only if every reader of it would   *)
(* find the same: the one coding chunked, in HTTP/1.1 and without a        *)
(* length; or lengths that all denote one number, without a coding.        *)
(* Nothing that is clear in this sense is refused.                         *)
FramingIsUnambiguous ==
    subject = "headers" => \A version \in Version :
        LET f == framing(text, version)
            te == header_values(text, "transfer-encoding")
            cl == header_values(text, "content-length")
            clear_chunked == te = <<"chunked">> /\ cl = <<>> /\ version = "Http11"
            clear_length(n) == te = <<>> /\ \A i \in DOMAIN cl : Length(cl[i]) = n
        IN /\ f.k = "Chunked" <=> clear_chunked
           /\ f.k = "Fixed" <=> \E n \in {1, 2} : clear_length(n)
           /\ f.k = "Fixed" /\ cl # <<>> => clear_length(f.n)
           /\ f = FramingError(501) => te # <<>> /\ cl = <<>> /\ version = "Http11"

(* The rewritten list says close and no longer keep-alive, in whatever     *)
(* case and however often they stood there; it loses no other option and   *)
(* no other field, means the same body and the same upgrade, and is not    *)
(* changed by a second rewriting.                                          *)
CloseReplacesKeepAlive ==
    subject = "headers" =>
        LET h == set_connection_close(text)
            others(l) == Select(l, FieldLine(Name \ {"connection"}))
        IN /\ has_token(h, "connection", "close")
           /\ ~has_token(h, "connection", "keep-alive")
           /\ has_token(h, "connection", "upgrade") <=> has_token(text, "connection", "upgrade")
           /\ count_header(h, "connection") = 1 /\ others(h) = others(text)
           /\ set_connection_close(h) = h
           /\ upgrade_protocols(h) = upgrade_protocols(text)
           /\ \A version \in Version : framing(h, version) = framing(text, version)
============================================================================
