----------------------- MODULE ConnectionStateProofs -----------------------
(***************************************************************************)
(* What the joint rules of `stabilize` (state.rs:241) establish on every   *)
(* lifecycle record, reachable or not.                                     *)
(***************************************************************************)
EXTENDS ConnectionState, TLAPS

(* No joint rule has anything left to do.                                  *)
Settled(s) ==
    /\ ~(s.client = "Done" /\ s.proposals # {})
    /\ s.client = "MightSwitchProtocol"
         => s.server # "SwitchedProtocol" /\ s.proposals # {}
    /\ s.client = "SwitchedProtocol" /\ s.server = "SwitchedProtocol" => s.proposals = {}
    /\ ~s.keep_alive => s.client # "Done" /\ s.server # "Done"
    /\ s.client = "Closed" => s.server \notin {"Done", "Idle"}
    /\ s.server = "Closed" => s.client \notin {"Done", "Idle"}
    /\ s.client = "Error" => s.server # "Done"
    /\ s.server = "Error" => s.client # "Done"

(* Each rule keeps a lifecycle record a lifecycle record.                  *)
LEMMA RuleTypes ==
    ASSUME NEW s \in ConnState
    PROVE  /\ AwaitSwitch(s) \in ConnState
           /\ DecideSwitch(s) \in ConnState
           /\ SettleSwitch(s) \in ConnState
           /\ ForbidReuse(s) \in ConnState
           /\ CoupleClose(s) \in ConnState
<1>1. AwaitSwitch(s) \in ConnState
  BY DEF AwaitSwitch, ConnState, ClientState, ServerState, State
<1>2. DecideSwitch(s) \in ConnState
  BY DEF DecideSwitch, ConnState, ClientState, ServerState, State
<1>3. SettleSwitch(s) \in ConnState
  BY DEF SettleSwitch, ConnState
<1>4. ForbidReuse(s) \in ConnState
  BY Zenon DEF ForbidReuse, ConnState, ClientState, ServerState, State
<1>5. CoupleClose(s) \in ConnState
  BY DEF CoupleClose, ConnState, ClientState, ServerState, State
<1> QED BY <1>1, <1>2, <1>3, <1>4, <1>5

(* A pass of the loop keeps a lifecycle record a lifecycle record.         *)
LEMMA PassType ==
    ASSUME NEW s \in ConnState
    PROVE  StabilizePass(s) \in ConnState
BY RuleTypes DEF StabilizePass

(* A settled record is left alone by every rule, hence by the pass.        *)
LEMMA SettledIsFixed ==
    ASSUME NEW s \in ConnState, Settled(s)
    PROVE  StabilizePass(s) = s
<1>1. AwaitSwitch(s) = s
  BY DEF AwaitSwitch, Settled
<1>2. DecideSwitch(s) = s
  BY DEF DecideSwitch, Settled
<1>3. SettleSwitch(s) = s
  BY DEF SettleSwitch, Settled, ConnState
<1>4. ForbidReuse(s) = s
  BY Zenon DEF ForbidReuse, Settled, ConnState
<1>5. CoupleClose(s) = s
  BY DEF CoupleClose, Settled
<1> QED BY <1>1, <1>2, <1>3, <1>4, <1>5 DEF StabilizePass

(* One pass settles every record.  The five rules in source order each     *)
(* establish their own clause and keep the clauses before it.              *)
LEMMA PassSettles ==
    ASSUME NEW s \in ConnState
    PROVE  Settled(StabilizePass(s))
<1> DEFINE a == AwaitSwitch(s)
           d == DecideSwitch(a)
           w == SettleSwitch(d)
           f == ForbidReuse(w)
           c == CoupleClose(f)
           Switching(r) ==
             /\ ~(r.client = "Done" /\ r.proposals # {})
             /\ r.client = "MightSwitchProtocol"
                  => r.server # "SwitchedProtocol" /\ r.proposals # {}
<1>0. /\ a \in ConnState /\ d \in ConnState /\ w \in ConnState
      /\ f \in ConnState /\ c \in ConnState
  BY RuleTypes
<1>1. ~(a.client = "Done" /\ a.proposals # {})
  BY <1>0 DEF AwaitSwitch, ConnState
<1>2. Switching(d)
  BY <1>0, <1>1 DEF DecideSwitch, ConnState
<1>3. /\ Switching(w)
      /\ w.client = "SwitchedProtocol" /\ w.server = "SwitchedProtocol" => w.proposals = {}
  BY <1>0, <1>2 DEF SettleSwitch, ConnState
<1>4. /\ Switching(f)
      /\ f.client = "SwitchedProtocol" /\ f.server = "SwitchedProtocol" => f.proposals = {}
      /\ ~f.keep_alive => f.client # "Done" /\ f.server # "Done"
  BY <1>0, <1>3 DEF ForbidReuse, ConnState
<1>5. Settled(c)
  BY <1>0, <1>4 DEF CoupleClose, ConnState, Settled
<1> QED BY <1>5 DEF StabilizePass

(* `stabilize` (state.rs:241) reaches its fixed point in one pass from     *)
(* every record, so its loop runs the rules at most twice.                 *)
THEOREM OnePassIsFixedPoint ==
    ASSUME NEW s \in ConnState
    PROVE  StabilizePass(StabilizePass(s)) = StabilizePass(s)
BY PassType, PassSettles, SettledIsFixed

----------------------------------------------------------------------------

(* An accepted event advances a lifecycle record to a lifecycle record.    *)
LEMMA AdvanceType ==
    ASSUME NEW s \in ConnState,
           NEW role \in Role, NEW ev \in StateEvent, NEW p \in SUBSET SwitchKind,
           Accepts(s, role, ev, p)
    PROVE  Advance(s, role, ev, p) \in ConnState
<1>1. CASE role = "client"
  <2>1. ev \in {"Request", "Data", "EndOfMessage", "ConnectionClosed"}
    BY <1>1 DEF Accepts, ClientAccepts, StateEvent
  <2> QED BY <1>1, <2>1 DEF Advance, Target, ConnState, ClientState, ServerState, State
<1>2. CASE role = "server"
  <2>1. ev \in StateEvent \ {"Request"}
    BY <1>2 DEF Accepts, ServerAccepts
  <2> QED BY <1>2, <2>1
          DEF Advance, Target, ConnState, ClientState, ServerState, State, StateEvent
<1> QED BY <1>1, <1>2 DEF Role

(* The joint rules never interrupt an actor inside a body, never revive    *)
(* one that switched, closed or was poisoned, and put no actor into a      *)
(* body.                                                                   *)
LEMMA PassKeepsBodies ==
    ASSUME NEW s \in ConnState, NEW r \in Role
    PROVE  /\ s[r] \in {"SendBody", "SwitchedProtocol", "Closed", "Error"}
                => StabilizePass(s)[r] = s[r]
           /\ StabilizePass(s)[r] = "SendBody" => s[r] = "SendBody"
<1> DEFINE Kept(x, y) == /\ x[r] \in {"SendBody", "SwitchedProtocol", "Closed", "Error"}
                              => y[r] = x[r]
                         /\ y[r] = "SendBody" => x[r] = "SendBody"
           a == AwaitSwitch(s)
           d == DecideSwitch(a)
           w == SettleSwitch(d)
           f == ForbidReuse(w)
           c == CoupleClose(f)
<1>0. /\ a \in ConnState /\ d \in ConnState /\ w \in ConnState
      /\ f \in ConnState /\ c \in ConnState
  BY RuleTypes
<1>1. Kept(s, a)
  BY <1>0 DEF AwaitSwitch, ConnState, Role
<1>2. Kept(a, d)
  BY <1>0 DEF DecideSwitch, ConnState, Role
<1>3. Kept(d, w)
  BY <1>0 DEF SettleSwitch, ConnState, Role
<1>4. Kept(w, f)
  BY <1>0, Zenon DEF ForbidReuse, ConnState, Role
<1>5. Kept(f, c)
  BY <1>0 DEF CoupleClose, ConnState, Role
<1> QED BY <1>1, <1>2, <1>3, <1>4, <1>5 DEF StabilizePass

(* The table Stable holds the pass of every lifecycle record.              *)
LEMMA StabilizeIsPass ==
    ASSUME NEW s \in ConnState
    PROVE  Stabilize(s) = StabilizePass(s)
BY DEF Stabilize, Stable

(* The operations of `ConnectionState` return settled lifecycle records.   *)
LEMMA OperationTypes ==
    ASSUME NEW s \in ConnState, NEW role \in Role
    PROVE  /\ Stabilize(s) \in ConnState
           /\ StabilizePass(Stabilize(s)) = Stabilize(s)
           /\ DisableKeepAlive(s) \in ConnState
           /\ StabilizePass(DisableKeepAlive(s)) = DisableKeepAlive(s)
           /\ ProcessError(s, role) \in ConnState
           /\ StabilizePass(ProcessError(s, role)) = ProcessError(s, role)
           /\ ProcessError(s, role)[role] = "Error"
<1>1. ASSUME NEW t \in ConnState
      PROVE  Stabilize(t) \in ConnState /\ StabilizePass(Stabilize(t)) = Stabilize(t)
  BY PassType, OnePassIsFixedPoint, StabilizeIsPass
<1>2. [s EXCEPT !.keep_alive = FALSE] \in ConnState
  BY Zenon DEF ConnState
<1> DEFINE e == IF role = "client" THEN [s EXCEPT !.client = "Error"]
                                   ELSE [s EXCEPT !.server = "Error"]
<1>3. e \in ConnState /\ e[role] = "Error"
  BY DEF ConnState, ClientState, ServerState, State, Role
<1>4. Stabilize(e)[role] = "Error"
  BY <1>3, PassKeepsBodies, StabilizeIsPass
<1> QED BY <1>1, <1>2, <1>3, <1>4 DEF DisableKeepAlive, ProcessError

(* How an operation moves an actor in or out of a body: r leaves or enters *)
(* a body only by its own event.                                           *)
BodyKept(s, t, r) ==
    /\ s[r] \in {"SendBody", "SwitchedProtocol", "Closed", "Error"} => t[r] = s[r]
    /\ t[r] = "SendBody" => s[r] = "SendBody"

(* Giving up keep-alive and poisoning the peer leave an actor's body open. *)
LEMMA OperationsKeepBodies ==
    ASSUME NEW s \in ConnState, NEW r \in Role
    PROVE  /\ BodyKept(s, DisableKeepAlive(s), r)
           /\ BodyKept(s, ProcessError(s, Peer(r)), r)
<1> DEFINE k == [s EXCEPT !.keep_alive = FALSE]
           e == IF Peer(r) = "client" THEN [s EXCEPT !.client = "Error"]
                                      ELSE [s EXCEPT !.server = "Error"]
<1>1. k \in ConnState /\ k[r] = s[r]
  BY Zenon DEF ConnState, Role
<1>2. e \in ConnState /\ e[r] = s[r]
  BY DEF ConnState, ClientState, ServerState, State, Role, Peer
<1> HIDE DEF k, e
<1>3. BodyKept(s, Stabilize(k), r)
  BY <1>1, PassKeepsBodies, StabilizeIsPass DEF BodyKept
<1>4. BodyKept(s, Stabilize(e), r)
  BY <1>2, PassKeepsBodies, StabilizeIsPass DEF BodyKept
<1> QED BY <1>3, <1>4 DEF DisableKeepAlive, ProcessError, k, e

(* An accepted event returns a settled record, leaves the other actor's    *)
(* body alone, and moves its own actor to the event's target: into a body  *)
(* with a head or data, out of it at the end of the message.  The only     *)
(* event a terminal actor accepts is a second close.                       *)
LEMMA EventMoves ==
    ASSUME NEW s \in ConnState,
           NEW role \in Role, NEW ev \in StateEvent, NEW p \in SUBSET SwitchKind,
           Accepts(s, role, ev, p)
    PROVE  LET t == ProcessEvent(s, role, ev, p) IN
           /\ t \in ConnState
           /\ StabilizePass(t) = t
           /\ BodyKept(s, t, Peer(role))
           /\ ev \in {"Request", "Response", "Data"} => t[role] = "SendBody"
           /\ ev = "ProtocolSwitch" => t[role] = "SwitchedProtocol"
           /\ ev \in {"InformationalResponse", "EndOfMessage", "ConnectionClosed"}
                => t[role] # "SendBody"
           /\ s[role] \in {"SwitchedProtocol", "Closed", "Error"} => t[role] = s[role]
<1> DEFINE a == Advance(s, role, ev, p)
<1>1. a \in ConnState
  BY AdvanceType
<1>2. a[role] = Target[ev]
  BY DEF Advance, Role
<1>3. /\ a[Peer(role)] = s[Peer(role)] \/ (s[Peer(role)] = "Idle" /\ a[Peer(role)] = "SendResponse")
      /\ Peer(role) \in Role
  BY DEF Advance, Accepts, ServerAccepts, Role, Peer
<1>4. s[role] \in {"SwitchedProtocol", "Closed", "Error"}
        => s[role] = "Closed" /\ Target[ev] = "Closed"
  BY DEF Accepts, ClientAccepts, ServerAccepts, Target, Role, StateEvent
<1> HIDE DEF a
<1>5. s[role] \in {"SwitchedProtocol", "Closed", "Error"} => Stabilize(a)[role] = s[role]
  BY <1>1, <1>2, <1>4, PassKeepsBodies, StabilizeIsPass
<1>6. BodyKept(s, Stabilize(a), Peer(role))
  BY <1>1, <1>3, PassKeepsBodies, StabilizeIsPass DEF BodyKept
<1>7. /\ Target[ev] \in {"SendBody", "SwitchedProtocol"} => Stabilize(a)[role] = Target[ev]
      /\ Stabilize(a)[role] = "SendBody" => Target[ev] = "SendBody"
  BY <1>1, <1>2, PassKeepsBodies, StabilizeIsPass
<1>8. Stabilize(a) \in ConnState /\ StabilizePass(Stabilize(a)) = Stabilize(a)
  BY <1>1, OperationTypes
<1> QED BY <1>6, <1>7, <1>8, <1>5 DEF ProcessEvent, Target, a
============================================================================
