------------------------------- MODULE Fields -------------------------------
(***************************************************************************)
(* The operations of crates/h11r/src/wire.rs on a list of header fields:   *)
(* the members of a comma-separated field over all its lines, body framing *)
(* (on top of Wire), Upgrade, and the Connection field that                *)
(* `set_connection_close` writes.  A member is its trimmed text, "" if     *)
(* nothing is left; names and members differ in case only where the        *)
(* module says so.                                                         *)
(***************************************************************************)
EXTENDS Wire

Name == {"connection", "upgrade", "transfer-encoding", "content-length", "x-other"}
Member == {"", "close", "CLOSE", "keep-alive", "upgrade", "chunked", "gzip",
           "1", "01", "2", "-1", "websocket", "a/b/c"}

----------------------------------------------------------------------------

Lower(member) == IF member = "CLOSE" THEN "close" ELSE member

(* The elements of s that are in S, in their order.                        *)
Select(s, S) ==
    LET Selected[n \in 0..Len(s)] ==
            IF n = 0 THEN <<>>
            ELSE IF s[n] \in S THEN Append(Selected[n - 1], s[n]) ELSE Selected[n - 1]
    IN Selected[Len(s)]

(* The lines of a field; a list of them is a list of headers.              *)
FieldLine(names) == [name : names, members : Seq(Member)]

(* The members that the lines of the field list, one line after the other. *)
header_values(h, name) ==
    LET Values[n \in 0..Len(h)] ==
            IF n = 0 THEN <<>>
            ELSE IF h[n].name = name THEN Values[n - 1] \o h[n].members ELSE Values[n - 1]
    IN Values[Len(h)]

count_header(h, name) == Len(Select(h, FieldLine({name})))

has_token(h, name, token) ==
    \E i \in DOMAIN header_values(h, name) : Lower(header_values(h, name)[i]) = token

(* None, or the protocols offered.                                         *)
NoProtocols == <<"invalid">>
upgrade_protocols(h) ==
    LET listed == Select(header_values(h, "upgrade"), Member \ {""}) IN
    IF \/ \E i \in DOMAIN listed : listed[i] = "a/b/c"
       \/ count_header(h, "upgrade") > 0 /\ listed = <<>>
    THEN NoProtocols ELSE listed

(* Numbers by what they denote; see ChunkLine for how they are parsed.     *)
Length(member) ==
    IF member \in {"1", "01"} THEN 1 ELSE IF member = "2" THEN 2 ELSE BadLength

Coding(member) == IF member \in {"chunked", ""} THEN member ELSE "other"

(* What the connection looks at, as a Message of module Wire.              *)
FramingFields(h, version) ==
    LET te == header_values(h, "transfer-encoding")
        cl == header_values(h, "content-length")
    IN [NoMessage EXCEPT !.version = version,
                         !.transfer = [i \in DOMAIN te |-> Coding(te[i])],
                         !.lengths = [i \in DOMAIN cl |-> Length(cl[i])]]

framing(h, version) == FramingOf(FramingFields(h, version))

(* The options that set_connection_close keeps, and the line it writes.    *)
OtherOption == {m \in Member : Lower(m) \notin {"", "close", "keep-alive"}}
ConnectionLine(options) == [name |-> "connection", members |-> Append(options, "close")]

(* Mutant of set_connection_close: the old options are not looked at.      *)
AddsClose(h) ==
    Append(Select(h, FieldLine(Name \ {"connection"})),
           ConnectionLine(Select(header_values(h, "connection"), Member \ {""})))

set_connection_close(h) ==
    Append(Select(h, FieldLine(Name \ {"connection"})),
           ConnectionLine(Select(header_values(h, "connection"), OtherOption)))
============================================================================
