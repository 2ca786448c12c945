----------------------------- MODULE MCExchange -----------------------------
(***************************************************************************)
(* Scenarios for Exchange.                                                 *)
(***************************************************************************)
EXTENDS Exchange, MCMessages

OneByte(m) == [m EXCEPT !.lengths = <<1>>]

(* Two exchanges after each other, with and without persistence.           *)
Reuse ==
    [requests |-> {ChunkedPost, HeadRequest},
     responses |-> {Reply(200), OldReply(204)},
     trailers |-> {"none"}, said |-> 4, cut |-> FALSE]

(* Every framing in one direction or the other, over a transport that      *)
(* fails.                                                                  *)
Cut ==
    [requests |-> {ChunkedPost},
     responses |-> {OneByte(Reply(200)), OldReply(200)},
     trailers |-> {"valid"}, said |-> 3, cut |-> TRUE]

(* CONNECT and Upgrade, accepted and denied, with and without 100-continue. *)
Switch ==
    [requests |-> {Connect, Upgrading(Get), Upgrading(ExpectingPost)},
     responses |-> {Reply(100), Upgrading(Reply(101)), Reply(200), Reply(403)},
     trailers |-> {"none"}, said |-> 3, cut |-> FALSE]

(* One exchange, where the question is whether it comes to its end.        *)
Live ==
    [requests |-> {ChunkedPost}, responses |-> {Reply(200), OldReply(200)},
     trailers |-> {"none"}, said |-> 3, cut |-> FALSE]

SafetyScenarios == {Reuse, Cut, Switch}
LiveScenarios == {Live}
============================================================================
