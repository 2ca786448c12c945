-------------------------- MODULE ConnectionState --------------------------
(***************************************************************************)
(* The request/response lifecycle of crates/h11r/src/state.rs as pure      *)
(* operators on the `ConnectionState` record.  "client" and "server" are   *)
(* protocol actors, not endpoints.  A `SwitchProposals` value is the set   *)
(* of the switch kinds it contains.                                        *)
(*                                                                         *)
(* An event is a pair (ev, p): ev names the `StateEvent` variant and p is  *)
(* the set of proposals of a Request, the singleton {kind} of a            *)
(* ProtocolSwitch, and {} otherwise.                                       *)
(***************************************************************************)

Role == {"client", "server"}

Peer(role) == IF role = "client" THEN "server" ELSE "client"

State == {"Idle", "SendResponse", "SendBody", "Done", "MightSwitchProtocol",
          "SwitchedProtocol", "MustClose", "Closed", "Error"}

SwitchKind == {"Connect", "Upgrade"}

StateEvent == {"Request", "InformationalResponse", "Response", "Data",
               "EndOfMessage", "ProtocolSwitch", "ConnectionClosed"}

(* "Each role reaches only the states meaningful to its half of the        *)
(* exchange" (state.rs:41).                                                *)
ClientState == State \ {"SendResponse"}
ServerState == State \ {"MightSwitchProtocol"}

ConnState == [client : ClientState, server : ServerState,
              keep_alive : BOOLEAN, proposals : SUBSET SwitchKind]

NewState == [client |-> "Idle", server |-> "Idle",
             keep_alive |-> TRUE, proposals |-> {}]

----------------------------------------------------------------------------
(* Direct transitions.  Every accepted event has one target state; a role  *)
(* accepts it in the states listed and rejects it in all others.           *)

ClientAccepts == [Request               |-> {"Idle"},
                  InformationalResponse |-> {},
                  Response              |-> {},
                  Data                  |-> {"SendBody"},
                  EndOfMessage          |-> {"SendBody"},
                  ProtocolSwitch        |-> {},
                  ConnectionClosed      |-> {"Idle", "Done", "MustClose", "Closed"}]

ServerAccepts == [Request               |-> {},
                  InformationalResponse |-> {"SendResponse"},
                  Response              |-> {"Idle", "SendResponse"},
                  Data                  |-> {"SendBody"},
                  EndOfMessage          |-> {"SendBody"},
                  ProtocolSwitch        |-> {"SendResponse"},
                  ConnectionClosed      |-> {"Idle", "Done", "MustClose", "Closed"}]

Target == [Request               |-> "SendBody",
           InformationalResponse |-> "SendResponse",
           Response              |-> "SendBody",
           Data                  |-> "SendBody",
           EndOfMessage          |-> "Done",
           ProtocolSwitch        |-> "SwitchedProtocol",
           ConnectionClosed      |-> "Closed"]

(* `process_event` returns Ok: the role has the transition, a request      *)
(* finds the server idle, a switch was proposed.                           *)
Accepts(s, role, ev, p) ==
    /\ IF role = "client" THEN s.client \in ClientAccepts[ev]
                          ELSE s.server \in ServerAccepts[ev]
    /\ ev = "Request" => s.server = "Idle"
    /\ ev = "ProtocolSwitch" => p \subseteq s.proposals

(* The copy that `process_event` builds before it calls `stabilize`.       *)
Advance(s, role, ev, p) ==
    [client     |-> IF role = "client" THEN Target[ev] ELSE s.client,
     server     |-> IF role = "server" THEN Target[ev]
                    ELSE IF ev = "Request" THEN "SendResponse" ELSE s.server,
     keep_alive |-> /\ s.keep_alive
                    /\ ev = "Response" => /\ "Connect" \notin s.proposals
                                          /\ s.server # "Idle",
     proposals  |-> IF ev = "Request" THEN p
                    ELSE IF ev = "Response" THEN {} ELSE s.proposals]

----------------------------------------------------------------------------
(* One pass of the loop in `stabilize`: its five rules in source order.    *)

AwaitSwitch(s) ==
    IF s.client = "Done" /\ s.proposals # {}
    THEN [s EXCEPT !.client = "MightSwitchProtocol"] ELSE s

(* Mutant of DecideSwitch: a denied switch does not release the client.    *)
DenialForgotten(s) ==
    IF s.client = "MightSwitchProtocol" /\ s.server = "SwitchedProtocol"
    THEN [s EXCEPT !.client = "SwitchedProtocol"] ELSE s

(* Mutant of DecideSwitch: an unfinished client switches too.              *)
SwitchAtOnce(s) ==
    IF s.server = "SwitchedProtocol" THEN [s EXCEPT !.client = "SwitchedProtocol"]
    ELSE IF s.client = "MightSwitchProtocol" /\ s.proposals = {}
    THEN [s EXCEPT !.client = "Done"] ELSE s

DecideSwitch(s) ==
    IF s.client # "MightSwitchProtocol" THEN s
    ELSE IF s.server = "SwitchedProtocol"
    THEN [s EXCEPT !.client = "SwitchedProtocol"]
    ELSE IF s.proposals = {} THEN [s EXCEPT !.client = "Done"] ELSE s

SettleSwitch(s) ==
    IF s.client = "SwitchedProtocol" /\ s.server = "SwitchedProtocol"
    THEN [s EXCEPT !.proposals = {}] ELSE s

ForbidReuse(s) ==
    IF s.keep_alive THEN s
    ELSE [s EXCEPT !.client = IF @ = "Done" THEN "MustClose" ELSE @,
                   !.server = IF @ = "Done" THEN "MustClose" ELSE @]

(* Mutants of CoupleClose: only the server is told to close; a closed or   *)
(* poisoned client closes the server whatever the server is doing.         *)
CoupleServerOnly(s) ==
    IF \/ s.client = "Closed" /\ s.server \in {"Done", "Idle"}
       \/ s.client = "Error" /\ s.server = "Done"
    THEN [s EXCEPT !.server = "MustClose"] ELSE s

CoupleAnyServer(s) ==
    IF s.client \in {"Closed", "Error"} THEN [s EXCEPT !.server = "MustClose"]
    ELSE IF s.server \in {"Closed", "Error"} THEN [s EXCEPT !.client = "MustClose"]
    ELSE s

CoupleClose(s) ==
    IF \/ s.client = "Closed" /\ s.server \in {"Done", "Idle"}
       \/ s.client = "Error" /\ s.server = "Done"
    THEN [s EXCEPT !.server = "MustClose"]
    ELSE IF \/ s.client \in {"Done", "Idle"} /\ s.server = "Closed"
            \/ s.client = "Done" /\ s.server = "Error"
    THEN [s EXCEPT !.client = "MustClose"] ELSE s

(* Mutant of StabilizePass: closing is decided before switching.           *)
ClosingFirst(s) ==
    SettleSwitch(DecideSwitch(AwaitSwitch(CoupleClose(ForbidReuse(s)))))

StabilizePass(s) ==
    CoupleClose(ForbidReuse(SettleSwitch(DecideSwitch(AwaitSwitch(s)))))

(* `stabilize` repeats the pass until it changes nothing.  The first pass  *)
(* already reaches the fixed point from every state: this is the theorem   *)
(* OnePassIsFixedPoint, and module StateMachine runs the loop itself and   *)
(* compares its result with this operator.  Stable is the table of all     *)
(* passes.                                                                 *)
Stable == [s \in ConnState |-> StabilizePass(s)]
Stabilize(s) == Stable[s]

----------------------------------------------------------------------------
(* The operations of `ConnectionState`.                                    *)

ProcessEvent(s, role, ev, p) == Stabilize(Advance(s, role, ev, p))

DisableKeepAlive(s) == Stabilize([s EXCEPT !.keep_alive = FALSE])

(* Mutant of ProcessError: the joint rules are not applied.                *)
ErrorUnstabilized(s, role) ==
    IF role = "client" THEN [s EXCEPT !.client = "Error"]
                       ELSE [s EXCEPT !.server = "Error"]

ProcessError(s, role) ==
    Stabilize(IF role = "client" THEN [s EXCEPT !.client = "Error"]
                                 ELSE [s EXCEPT !.server = "Error"])

Reusable(s) ==
    /\ s.client = "Done" /\ s.server = "Done"
    /\ s.keep_alive /\ s.proposals = {}
============================================================================
