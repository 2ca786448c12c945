---------------------------- MODULE StateMachine ----------------------------
(***************************************************************************)
(* The operations of `ConnectionState` (crates/h11r/src/state.rs) driven   *)
(* in every order in which connection.rs can call them, with the loop of   *)
(* `stabilize` run pass by pass.  Both actors emit events in any order;    *)
(* only the actor opposite to the endpoint's own role is ever poisoned.    *)
(***************************************************************************)
EXTENDS ConnectionState

VARIABLES local,      \* the role of the endpoint that owns the state
          cs,         \* the ConnectionState record
          pc,         \* "loop" while `stabilize` runs, "ready" between calls
          entry       \* history: the record on which `stabilize` was called

vars == <<local, cs, pc, entry>>

Init ==
    /\ local \in Role
    /\ cs = NewState /\ pc = "ready" /\ entry = NewState

(* Every operation but start_next_cycle edits the record and then enters   *)
(* the loop.                                                               *)
EnterLoop(s) == cs' = s /\ entry' = s /\ pc' = "loop" /\ UNCHANGED local

Event(role, ev, p) ==
    /\ pc = "ready"
    /\ Accepts(cs, role, ev, p)
    /\ EnterLoop(Advance(cs, role, ev, p))

(* connection.rs disables keep-alive only right after it has accepted a    *)
(* request or a final response head.                                       *)
Disable ==
    /\ pc = "ready"
    /\ cs.client = "SendBody" \/ cs.server \in {"SendBody", "SwitchedProtocol"}
    /\ EnterLoop([cs EXCEPT !.keep_alive = FALSE])

(* `next_event` poisons the peer after any error; it returns no error      *)
(* while the peer is finished, closed or switching.                        *)
Poison ==
    /\ pc = "ready"
    /\ cs[Peer(local)] \in {"Idle", "SendResponse", "SendBody", "Error"}
    /\ EnterLoop(IF local = "server" THEN [cs EXCEPT !.client = "Error"]
                                     ELSE [cs EXCEPT !.server = "Error"])

StartNextCycle ==
    /\ pc = "ready"
    /\ Reusable(cs)
    /\ cs' = NewState
    /\ entry' = NewState
    /\ pc' = "ready"
    /\ UNCHANGED local

(* Mutant of Loop: the copy it compares with is taken before the loop.     *)
LoopFromEntry ==
    /\ pc = "loop"
    /\ cs' = StabilizePass(cs)
    /\ pc' = IF cs' = entry THEN "ready" ELSE "loop"
    /\ UNCHANGED <<local, entry>>

Loop ==
    /\ pc = "loop"
    /\ cs' = StabilizePass(cs)
    /\ pc' = IF cs' = cs THEN "ready" ELSE "loop"
    /\ UNCHANGED <<local, entry>>

Next ==
    \/ \E role \in Role, ev \in StateEvent, p \in SUBSET SwitchKind :
          /\ ev \notin {"Request", "ProtocolSwitch"} => p = {}
          /\ ev = "ProtocolSwitch" => p \in {{"Connect"}, {"Upgrade"}}
          /\ Event(role, ev, p)
    \/ Disable
    \/ Poison
    \/ StartNextCycle
    \/ Loop

Spec == Init /\ [][Next]_vars

(* The loop is straight-line code of one call: once entered it runs on.    *)
FairSpec == Spec /\ WF_vars(Loop)

----------------------------------------------------------------------------

(* The record and the loop flag stay in their types, and each actor in the *)
(* states of its own role.                                                 *)
TypeOK ==
    /\ local \in Role
    /\ cs \in ConnState
    /\ entry \in ConnState
    /\ pc \in {"ready", "loop"}

(* What the loop of `stabilize` (state.rs:241) computes is what the        *)
(* operator Stabilize says: whenever a call returns, the record is the     *)
(* stabilised entry record and no rule of the loop applies to it.          *)
LoopComputesStabilize ==
    pc = "ready" => cs = Stabilize(entry) /\ StabilizePass(cs) = cs

(* The loop returns: no pair of joint rules undoes the other for ever.     *)
LoopTerminates == pc = "loop" ~> pc = "ready"

(* "Switching must win over closing" (state.rs:240): once the server has   *)
(* switched protocols, a client that finished its request has switched     *)
(* too, whatever happened to keep-alive; it is never told to close.        *)
SwitchWinsOverClosing ==
    pc = "ready" /\ cs.server = "SwitchedProtocol"
        => cs.client \in {"SendBody", "SwitchedProtocol", "Error"}

(* The client waits for a switch decision exactly as long as the server    *)
(* has not decided: an undecided proposal is pending, and the server owes  *)
(* a response or was poisoned before giving one.                           *)
MightSwitchIsUndecided ==
    pc = "ready" /\ cs.client = "MightSwitchProtocol"
        => cs.proposals # {} /\ cs.server \in {"SendResponse", "Error"}

(* "Closing or poisoning one actor prevents the peer from starting another *)
(* message once its current work is complete" (state.rs:268): from then on *)
(* the finished actor can only close.                                      *)
NoMessageAfterEnd ==
    [][\A r \in Role :
         /\ pc = "ready"
         /\ cs[Peer(r)] \in {"Closed", "Error"}
         /\ cs[r] \in {"Done", "MustClose", "Closed"}
         => cs'[r] \in {"MustClose", "Closed"}]_vars
============================================================================
