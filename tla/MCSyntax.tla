------------------------------ MODULE MCSyntax ------------------------------
(***************************************************************************)
(* Syntax for TLC.  The seeds lead into the parts of a grammar that a few  *)
(* appended bytes would not reach.                                         *)
(***************************************************************************)
EXTENDS Syntax

Line(name, members) == [name |-> name, members |-> members]

FieldLines ==
    {Line("connection", m) : m \in {<<"close">>, <<"keep-alive", "upgrade">>, <<"", "CLOSE">>}}
    \cup {Line("transfer-encoding", m) :
             m \in {<<"chunked">>, <<"gzip", "chunked">>, <<"gzip">>, <<"">>}}
    \cup {Line("content-length", m) : m \in {<<"1">>, <<"01", "1">>, <<"2">>, <<"-1">>}}
    \cup {Line("upgrade", m) : m \in {<<"websocket">>, <<"", "a/b/c">>, <<"">>}}
    \cup {Line("x-other", <<"1">>)}

MCTexts ==
    [g \in Grammars |->
        CASE g = "chunk line" ->
               [seeds |-> {<<>>, <<"1">>, <<"1", ";", "t">>, <<"1", ";", "t", "=", "DQ">>},
                elements |-> {"0", "F", "t", "SP", ";", "=", "DQ", "BS"}, more |-> 5]
          [] g = "trailers" -> [seeds |-> {<<>>}, elements |-> Octet, more |-> 8]
          [] g = "host" ->
               [seeds |-> {<<>>, <<"[", ":", ":">>, <<"[", "v", "7", ".">>},
                elements |-> HostByte, more |-> 5]
          [] g = "headers" -> [seeds |-> {<<>>}, elements |-> FieldLines, more |-> 4]]
============================================================================
