------------------------- MODULE StateMachineProofs -------------------------
(***************************************************************************)
(* Safety of the lifecycle state machine: the loop of `stabilize` computes *)
(* Stabilize, a switch wins over closing, and an actor whose peer has      *)
(* ended starts no further message.                                        *)
(***************************************************************************)
EXTENDS StateMachine, ConnectionStateProofs

(* What holds of the record while the loop may still be running: a pending *)
(* proposal belongs to an unfinished decision, and a server that switched  *)
(* did so on a proposal the client has yet to follow.                      *)
Negotiating(s) ==
    /\ s.proposals # {} => /\ s.client \in {"SendBody", "Done", "MightSwitchProtocol", "Error"}
                           /\ s.server \in {"SendResponse", "SwitchedProtocol", "Error"}
    /\ s.server = "SwitchedProtocol"
         => /\ s.client \in {"SendBody", "Done", "MightSwitchProtocol",
                             "SwitchedProtocol", "Error"}
            /\ s.client \in {"SendBody", "Done", "MightSwitchProtocol"} => s.proposals # {}

(* The inductive invariant.  The last conjunct bounds the loop: it is on   *)
(* its first or its second pass.                                           *)
IInv ==
    /\ TypeOK
    /\ Negotiating(cs)
    /\ pc = "ready" => cs = Stabilize(entry)
    /\ cs = entry \/ cs = Stabilize(entry)

(* The pass of the loop keeps the negotiation facts.                       *)
LEMMA PassKeepsNegotiating ==
    ASSUME NEW s \in ConnState, Negotiating(s)
    PROVE  Negotiating(StabilizePass(s))
<1> DEFINE a == AwaitSwitch(s)
           d == DecideSwitch(a)
           w == SettleSwitch(d)
           f == ForbidReuse(w)
           c == CoupleClose(f)
<1>0. /\ a \in ConnState /\ d \in ConnState /\ w \in ConnState
      /\ f \in ConnState /\ c \in ConnState
  BY RuleTypes
<1>1. Negotiating(a) /\ ~(a.client = "Done" /\ a.proposals # {})
  BY <1>0 DEF AwaitSwitch, ConnState, Negotiating
<1>2. /\ d.proposals # {}
           => /\ d.client \in {"SendBody", "MightSwitchProtocol", "SwitchedProtocol", "Error"}
              /\ d.server \in {"SendResponse", "SwitchedProtocol", "Error"}
              /\ d.client = "SwitchedProtocol" => d.server = "SwitchedProtocol"
      /\ d.server = "SwitchedProtocol"
           => /\ d.client \in {"SendBody", "SwitchedProtocol", "Error"}
              /\ d.client = "SendBody" => d.proposals # {}
  BY <1>0, <1>1 DEF DecideSwitch, ConnState, Negotiating
<1>3. /\ w.proposals # {}
           => /\ w.client \in {"SendBody", "MightSwitchProtocol", "Error"}
              /\ w.server \in {"SendResponse", "SwitchedProtocol", "Error"}
      /\ w.server = "SwitchedProtocol"
           => /\ w.client \in {"SendBody", "SwitchedProtocol", "Error"}
              /\ w.client = "SendBody" => w.proposals # {}
  BY <1>0, <1>2 DEF SettleSwitch, ConnState
<1>4. /\ f.proposals # {}
           => /\ f.client \in {"SendBody", "MightSwitchProtocol", "Error"}
              /\ f.server \in {"SendResponse", "SwitchedProtocol", "Error"}
      /\ f.server = "SwitchedProtocol"
           => /\ f.client \in {"SendBody", "SwitchedProtocol", "Error"}
              /\ f.client = "SendBody" => f.proposals # {}
  BY <1>0, <1>3 DEF ForbidReuse, ConnState
<1>5. Negotiating(c)
  BY <1>0, <1>4 DEF CoupleClose, ConnState, Negotiating
<1> QED BY <1>5 DEF StabilizePass

(* An event that is accepted in a settled record produces a record of the  *)
(* right type that keeps the negotiation facts.                            *)
LEMMA AdvanceKeepsNegotiating ==
    ASSUME NEW s \in ConnState, Settled(s), Negotiating(s),
           NEW role \in Role, NEW ev \in StateEvent, NEW p \in SUBSET SwitchKind,
           ev = "ProtocolSwitch" => p # {},
           Accepts(s, role, ev, p)
    PROVE  /\ Advance(s, role, ev, p) \in ConnState
           /\ Negotiating(Advance(s, role, ev, p))
<1> DEFINE t == Advance(s, role, ev, p)
<1>1. CASE role = "client"
  <2>1. /\ ev \in {"Request", "Data", "EndOfMessage", "ConnectionClosed"}
        /\ ev = "Request" => s.client = "Idle" /\ s.server = "Idle"
        /\ ev \in {"Data", "EndOfMessage"} => s.client = "SendBody"
        /\ ev = "ConnectionClosed" => s.client \in {"Idle", "Done", "MustClose", "Closed"}
    BY <1>1 DEF Accepts, ClientAccepts, StateEvent
  <2>2. t \in ConnState
    BY <1>1, <2>1 DEF Advance, Target, ConnState, ClientState, ServerState, State
  <2>3. Negotiating(t)
    BY <1>1, <2>1 DEF Advance, Target, ConnState, Negotiating, Settled
  <2> QED BY <2>2, <2>3
<1>2. CASE role = "server"
  <2>1. /\ ev \in StateEvent \ {"Request"}
        /\ ev \in {"InformationalResponse", "ProtocolSwitch"} => s.server = "SendResponse"
        /\ ev = "Response" => s.server \in {"Idle", "SendResponse"}
        /\ ev \in {"Data", "EndOfMessage"} => s.server = "SendBody"
        /\ ev = "ConnectionClosed" => s.server \in {"Idle", "Done", "MustClose", "Closed"}
        /\ ev = "ProtocolSwitch" => s.proposals # {}
    BY <1>2 DEF Accepts, ServerAccepts, StateEvent
  <2>2. t \in ConnState
    BY <1>2, <2>1 DEF Advance, Target, ConnState, ClientState, ServerState, State, StateEvent
  <2>3. Negotiating(t)
    BY <1>2, <2>1 DEF Advance, Target, ConnState, Negotiating, Settled, StateEvent
  <2> QED BY <2>2, <2>3
<1> QED BY <1>1, <1>2 DEF Role

(* The initial record satisfies the invariant.                             *)
LEMMA InitEstablishes == Init => IInv
<1> SUFFICES ASSUME Init PROVE IInv
  OBVIOUS
<1>1. NewState \in ConnState /\ Settled(NewState) /\ Negotiating(NewState)
  BY DEF NewState, ConnState, ClientState, ServerState, State, Settled, Negotiating
<1>2. Stabilize(NewState) = NewState
  BY <1>1, SettledIsFixed, StabilizeIsPass
<1> QED BY <1>1, <1>2 DEF Init, IInv, TypeOK

(* Between two calls the record is settled.                                *)
LEMMA ReadyIsSettled ==
    ASSUME IInv, pc = "ready"
    PROVE  Settled(cs)
BY PassSettles, StabilizeIsPass DEF IInv, TypeOK

(* An operation that enters the loop with a good record keeps the          *)
(* invariant.                                                              *)
LEMMA EnterLoopKeeps ==
    ASSUME IInv, NEW s \in ConnState, Negotiating(s), EnterLoop(s)
    PROVE  IInv'
BY DEF IInv, TypeOK, EnterLoop

(* Every step keeps the invariant: one step per operation of state.rs.     *)
LEMMA NextKeeps == IInv /\ [Next]_vars => IInv'
<1> SUFFICES ASSUME IInv, [Next]_vars PROVE IInv'
  OBVIOUS
<1>1. ASSUME NEW role \in Role, NEW ev \in StateEvent, NEW p \in SUBSET SwitchKind,
             ev = "ProtocolSwitch" => p \in {{"Connect"}, {"Upgrade"}},
             Event(role, ev, p)
      PROVE  IInv'
  <2>1. Settled(cs) /\ cs \in ConnState /\ Negotiating(cs)
    BY <1>1, ReadyIsSettled DEF Event, IInv, TypeOK
  <2>2. ev = "ProtocolSwitch" => p # {}
    BY <1>1
  <2>3. Advance(cs, role, ev, p) \in ConnState /\ Negotiating(Advance(cs, role, ev, p))
    BY <1>1, <2>1, <2>2, AdvanceKeepsNegotiating DEF Event
  <2> QED BY <1>1, <2>3, EnterLoopKeeps DEF Event
<1>2. CASE Disable
  <2> DEFINE s == [cs EXCEPT !.keep_alive = FALSE]
  <2>1. s \in ConnState /\ Negotiating(s)
    BY Zenon DEF IInv, TypeOK, ConnState, Negotiating
  <2> QED BY <1>2, <2>1, EnterLoopKeeps DEF Disable
<1>3. CASE Poison
  <2> DEFINE s == IF local = "server" THEN [cs EXCEPT !.client = "Error"]
                                      ELSE [cs EXCEPT !.server = "Error"]
  <2>1. s \in ConnState /\ Negotiating(s)
    BY DEF IInv, TypeOK, ConnState, ClientState, ServerState, State, Negotiating
  <2> QED BY <1>3, <2>1, EnterLoopKeeps DEF Poison
<1>4. CASE StartNextCycle
  <2>1. NewState \in ConnState /\ Settled(NewState) /\ Negotiating(NewState)
    BY DEF NewState, ConnState, ClientState, ServerState, State, Settled, Negotiating
  <2>2. Stabilize(NewState) = NewState
    BY <2>1, SettledIsFixed, StabilizeIsPass
  <2> QED BY <1>4, <2>1, <2>2 DEF StartNextCycle, IInv, TypeOK
<1>5. CASE Loop
  <2>1. cs' = StabilizePass(cs) /\ entry' = entry /\ local' = local
    BY <1>5 DEF Loop
  <2>2. cs' \in ConnState /\ Negotiating(cs')
    BY <2>1, PassType, PassKeepsNegotiating DEF IInv, TypeOK
  <2>3. cs' = Stabilize(entry)
    BY <2>1, OnePassIsFixedPoint, StabilizeIsPass DEF IInv, TypeOK
  <2>4. pc' \in {"ready", "loop"}
    BY <1>5 DEF Loop
  <2>5. Stabilize(entry') = Stabilize(entry)
    BY <2>1
  <2> QED BY <2>1, <2>2, <2>3, <2>4, <2>5 DEF IInv, TypeOK
<1>6. CASE UNCHANGED vars
  BY <1>6 DEF vars, IInv, TypeOK
<1> QED BY <1>1, <1>2, <1>3, <1>4, <1>5, <1>6 DEF Next

(* The invariant holds in every reachable state.                           *)
THEOREM Invariance == Spec => []IInv
BY InitEstablishes, NextKeeps, PTL DEF Spec

(* The record keeps its type, and each actor stays in the states of its    *)
(* role (state.rs:41), whatever the calls.                                 *)
THEOREM TypeCorrect == Spec => []TypeOK
<1>1. IInv => TypeOK
  BY DEF IInv
<1> QED BY <1>1, Invariance, PTL

(* The loop of `stabilize` computes the operator Stabilize, and what it    *)
(* returns is a fixed point of the joint rules.                            *)
THEOREM LoopCorrect == Spec => []LoopComputesStabilize
<1>1. IInv => LoopComputesStabilize
  BY OnePassIsFixedPoint, StabilizeIsPass DEF IInv, TypeOK, LoopComputesStabilize
<1> QED BY <1>1, Invariance, PTL

(* "Switching must win over closing" (state.rs:240) in every history of    *)
(* calls: no order of events and keep-alive decisions leaves a client that *)
(* followed a switch in a closing state.                                   *)
THEOREM SwitchWins == Spec => []SwitchWinsOverClosing
<1>1. IInv => SwitchWinsOverClosing
  <2> SUFFICES ASSUME IInv, pc = "ready", cs.server = "SwitchedProtocol"
               PROVE  cs.client \in {"SendBody", "SwitchedProtocol", "Error"}
    BY DEF SwitchWinsOverClosing
  <2> QED BY ReadyIsSettled DEF IInv, Negotiating, Settled
<1> QED BY <1>1, Invariance, PTL

(* A client waits for a switch decision only while one is owed.            *)
THEOREM SwitchUndecided == Spec => []MightSwitchIsUndecided
<1>1. IInv => MightSwitchIsUndecided
  <2> SUFFICES ASSUME IInv, pc = "ready", cs.client = "MightSwitchProtocol"
               PROVE  cs.proposals # {} /\ cs.server \in {"SendResponse", "Error"}
    BY DEF MightSwitchIsUndecided
  <2> QED BY ReadyIsSettled DEF IInv, Negotiating, Settled
<1> QED BY <1>1, Invariance, PTL

(* An actor whose message is complete when its peer closes or is poisoned  *)
(* starts no other (state.rs:268): it can only close.                      *)
THEOREM NoMessageAfter == Spec => NoMessageAfterEnd
<1> DEFINE Ended(r) == /\ pc = "ready"
                       /\ cs[Peer(r)] \in {"Closed", "Error"}
                       /\ cs[r] \in {"Done", "MustClose", "Closed"}
           OnlyCloses == \A r \in Role : Ended(r) => cs'[r] \in {"MustClose", "Closed"}
<1>1. IInv /\ [Next]_vars => [OnlyCloses]_vars
  <2> SUFFICES ASSUME IInv, Next, NEW r \in Role, Ended(r)
               PROVE  cs'[r] \in {"MustClose", "Closed"}
    OBVIOUS
  <2>1. Settled(cs) /\ cs \in ConnState
    BY ReadyIsSettled DEF IInv, TypeOK
  <2>2. cs[r] \in {"MustClose", "Closed"}
    BY <2>1 DEF Settled, Peer, Role
  <2>3. ASSUME NEW role \in Role, NEW ev \in StateEvent, NEW p \in SUBSET SwitchKind,
               Event(role, ev, p)
        PROVE  cs'[r] \in {"MustClose", "Closed"}
    <3>1. cs' = Advance(cs, role, ev, p) /\ Accepts(cs, role, ev, p)
      BY <2>3 DEF Event, EnterLoop
    <3>2. CASE role = r
      <4>1. ev = "ConnectionClosed"
        BY <2>2, <3>1, <3>2 DEF Accepts, ClientAccepts, ServerAccepts, StateEvent, Role
      <4> QED BY <3>1, <3>2, <4>1 DEF Advance, Target, Role
    <3>3. CASE role # r
      <4>1. ev = "Request" => role = "client" /\ cs.server = "Idle"
        BY <3>1 DEF Accepts, ServerAccepts, Role
      <4> QED BY <2>2, <3>1, <3>3, <4>1 DEF Advance, Role
    <3> QED BY <3>2, <3>3
  <2>4. CASE Disable
    BY <2>1, <2>2, <2>4 DEF Disable, EnterLoop, ConnState, Role
  <2>5. CASE Poison
    BY <2>1, <2>2, <2>5 DEF Poison, EnterLoop, ConnState, Role, Peer, IInv, TypeOK
  <2>6. CASE StartNextCycle
    BY <2>6 DEF StartNextCycle, Reusable, Peer, Role
  <2>7. CASE Loop
    BY <2>7 DEF Loop
  <2> QED BY <2>3, <2>4, <2>5, <2>6, <2>7 DEF Next
<1> QED BY <1>1, Invariance, PTL DEF Spec, NoMessageAfterEnd
============================================================================
