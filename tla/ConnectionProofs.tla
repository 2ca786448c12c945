-------------------------- MODULE ConnectionProofs --------------------------
(***************************************************************************)
(* Safety of one endpoint for all roles, limits, heads, segments and       *)
(* buffer sizes.                                                           *)
(***************************************************************************)
EXTENDS Connection, ConnectionStateProofs

----------------------------------------------------------------------------
(* Wire.                                                                   *)

(* The placeholder head of results without one is a request head.          *)
LEMMA NoMessageType == NoMessage \in Message /\ ~(NoMessage.kind = "Response")
BY DEF NoMessage, Message, Version

(* A head's framing is a framing or an error with a status code.           *)
LEMMA FramingType ==
    ASSUME NEW m \in Message
    PROVE  /\ FramingOf(m).n \in Nat
           /\ FramingOf(m).k # "Error" => FramingOf(m) \in Framing
           /\ ResponseFraming(m).n \in Nat
           /\ ResponseFraming(m).k # "Error" => ResponseFraming(m) \in Framing
<1>1. /\ TransferFraming(m.transfer).n \in Nat
      /\ TransferFraming(m.transfer).k # "Error" => TransferFraming(m.transfer) \in Framing
  <2>1. TransferFraming(m.transfer) \in {FramingError(400), FramingError(501), Chunked}
    <3> DEFINE te == m.transfer
               last == Len(te)
               Empty == \E i \in 1..last : te[i] = ""
               Misplaced == te[last] # "chunked" \/ \E i \in 1..(last - 1) : te[i] = "chunked"
    <3>1. TransferFraming(te) = IF Empty THEN FramingError(400)
                                ELSE IF last = 1
                                     THEN IF te[1] = "chunked" THEN Chunked ELSE FramingError(501)
                                ELSE IF Misplaced THEN FramingError(400) ELSE FramingError(501)
      BY DEF TransferFraming
    <3> HIDE DEF Empty, Misplaced, last, te
    <3> QED BY <3>1 DEF te
  <2> QED BY <2>1 DEF FramingError, Chunked, Framing
<1>2. m.lengths \in Seq(Nat \cup {BadLength})
  BY Zenon DEF Message
<1>3. /\ LengthFraming(m.lengths).n \in Nat
      /\ LengthFraming(m.lengths).k # "Error" => LengthFraming(m.lengths) \in Framing
  BY <1>2 DEF LengthFraming, FramingError, Fixed, Framing, BadLength
<1>4. /\ FramingOf(m).n \in Nat
      /\ FramingOf(m).k # "Error" => FramingOf(m) \in Framing
  BY <1>1, <1>3 DEF FramingOf, FramingError
<1> QED BY <1>4 DEF ResponseFraming, CloseDelimited, Framing

(* The reader of a body is never the head reader.                          *)
LEMMA ReaderForType ==
    ASSUME NEW f \in Framing
    PROVE  ReaderFor(f) \in Reader /\ ReaderFor(f).k # "Head"
BY DEF ReaderFor, ReaderAt, FixedReader, Reader, Framing

(* The framing of a message without a body is a framing.                   *)
LEMMA FixedType == Fixed(0) \in Framing
BY DEF Fixed, Framing

(* What is left of the input, and what was taken from it, is input.        *)
LEMMA RestType ==
    ASSUME NEW in \in Seq(Unit), NEW i \in 0..Len(in)
    PROVE  Rest(in, i) \in Seq(Unit) /\ SubSeq(in, 1, i) \in Seq(Unit)
BY DEF Rest

(* A returned outcome is a result.                                         *)
LEMMA ReturnedType ==
    ASSUME NEW call \in Call, NEW res \in Outcome
    PROVE  Returned(call, res) \in Result /\ Returned(call, res).res = res
BY NoMessageType DEF Returned, Result

----------------------------------------------------------------------------
(* The ways next_event returns.                                            *)

NegotiationOK ==
    /\ peer_version \in Version \cup {None}
    /\ request_kind \in {"Other", "Head", "Connect", None}
    /\ upgrade_proposals \subseteq Protocol
    /\ waiting_for_continue \in BOOLEAN
    /\ continue_before_upgrade \in BOOLEAN

(* The inductive invariant of an endpoint.                                 *)
CInv ==
    /\ TypeOK
    /\ StateIsStable
    /\ ReaderFollowsPeer
    /\ WriterFollowsLocal
    /\ NoNeedDataAfterEof

(* What every return of next_event guarantees.                             *)
GoodPoll ==
    /\ state' \in ConnState /\ StabilizePass(state') = state'
    /\ input' \in Seq(Unit) /\ progress' \in BOOLEAN
    /\ reader' \in Reader /\ ret' \in Result
    /\ NegotiationOK'
    /\ ReaderFollowsPeer'
    /\ BodyKept(state, state', role)
    /\ ret'.res = "NeedData" => ~eof

(* The status codes errors carry are numbers.                              *)
LEMMA StatusCodes == 0 \in Nat /\ 400 \in Nat /\ 431 \in Nat
OBVIOUS

(* The two actors are the local one and its peer.                          *)
LEMMA TwoRoles ==
    ASSUME role \in Role
    PROVE  /\ PeerRole \in Role /\ Peer(PeerRole) = role
           /\ \A r \in Role : r = role \/ r = PeerRole
BY DEF Role, Peer, PeerRole

(* What is not negotiated keeps its type.                                  *)
LEMMA NegotiationUnchanged ==
    ASSUME role \in Role, role' = role,
           TypeOK, UNCHANGED negotiation
    PROVE  NegotiationOK'
BY DEF TypeOK, NegotiationOK, negotiation

(* Two operations in a row leave an open body open if each does.           *)
LEMMA BodyKeptTransitive ==
    ASSUME NEW s, NEW t, NEW u, NEW r, BodyKept(s, t, r), BodyKept(t, u, r)
    PROVE  BodyKept(s, u, r)
BY DEF BodyKept

(* An error poisons the peer, so that any reader will do.                  *)
LEMMA FailIsGood ==
    ASSUME role \in Role, role' = role,
           NEW s \in ConnState, BodyKept(state, s, role),
           NEW in \in Seq(Unit), NEW rd \in Reader, NEW pg \in BOOLEAN, NEW status \in Nat,
           Fail(s, in, rd, pg, status), NegotiationOK'
    PROVE  GoodPoll
<1>1. /\ state' = ProcessError(s, PeerRole) /\ input' = in /\ reader' = rd /\ progress' = pg
      /\ ret' = [Returned("next_event", "RemoteError")
                   EXCEPT !.status = IF role = "server" THEN status ELSE 0]
  BY DEF Fail, Poll
<1>2. /\ state' \in ConnState /\ StabilizePass(state') = state'
      /\ state'[PeerRole] = "Error"
  BY <1>1, OperationTypes, TwoRoles, Zenon
<1>3. BodyKept(s, state', role)
  BY <1>1, OperationsKeepBodies, TwoRoles DEF PeerRole
<1>4. BodyKept(state, state', role)
  BY <1>3, BodyKeptTransitive
<1>5. ret' \in Result /\ ret'.res # "NeedData"
  <2>1. /\ Returned("next_event", "RemoteError") \in Result
        /\ Returned("next_event", "RemoteError").res = "RemoteError"
    BY ReturnedType DEF Call, Outcome
  <2> QED BY <1>1, <2>1 DEF Result
<1>6. ReaderFollowsPeer'
  BY <1>2 DEF ReaderFollowsPeer, peer_state, PeerRole
<1> QED BY <1>1, <1>2, <1>4, <1>5, <1>6 DEF GoodPoll

(* An error with the lifecycle record as it is.                            *)
LEMMA FailHereIsGood ==
    ASSUME role \in Role, role' = role,
           TypeOK,
           NEW in \in Seq(Unit), NEW rd \in Reader, NEW pg \in BOOLEAN, NEW status \in Nat,
           FailHere(in, rd, pg, status)
    PROVE  GoodPoll
<1>1. NegotiationOK' /\ Fail(state, in, rd, pg, status)
  BY NegotiationUnchanged DEF FailHere
<1>2. BodyKept(state, state, role) /\ state \in ConnState
  BY DEF BodyKept, TypeOK
<1> QED BY <1>1, <1>2, FailIsGood

(* Polling without an event keeps the record; the reader stays on the same *)
(* side of the head.                                                       *)
LEMMA IdlePollIsGood ==
    ASSUME role \in Role, role' = role,
           TypeOK, StateIsStable, ReaderFollowsPeer,
           NEW in \in Seq(Unit), NEW rd \in Reader, NEW pg \in BOOLEAN, NEW res \in Outcome,
           (rd.k = "Head") <=> (reader.k = "Head"),
           res = "NeedData" => ~eof,
           Poll(state, in, rd, pg, Returned("next_event", res)), UNCHANGED negotiation
    PROVE  GoodPoll
<1>1. /\ state' = state /\ input' = in /\ reader' = rd /\ progress' = pg
      /\ ret' = Returned("next_event", res)
  BY DEF Poll
<1>2. NegotiationOK'
  BY NegotiationUnchanged
<1>3. ret' \in Result /\ ret'.res = res
  BY <1>1, ReturnedType DEF Call
<1>4. ReaderFollowsPeer'
  BY <1>1 DEF ReaderFollowsPeer, peer_state, PeerRole
<1> QED BY <1>1, <1>2, <1>3, <1>4 DEF GoodPoll, TypeOK, StateIsStable, BodyKept

(* `need_data_or_eof` asks for data only before EOF.                       *)
LEMMA NeedDataOrEofIsGood ==
    ASSUME role \in Role, role' = role,
           TypeOK, StateIsStable, ReaderFollowsPeer,
           NEW in \in Seq(Unit), NEW rd \in Reader, NEW pg \in BOOLEAN,
           (rd.k = "Head") <=> (reader.k = "Head"),
           NeedDataOrEof(in, rd, pg)
    PROVE  GoodPoll
<1>1. CASE eof
  BY <1>1, FailHereIsGood DEF NeedDataOrEof
<1>2. CASE ~eof
  BY <1>2, IdlePollIsGood DEF NeedDataOrEof, Outcome
<1> QED BY <1>1, <1>2

(* `wait_for_section` asks for data or fails.                              *)
LEMMA WaitForSectionIsGood ==
    ASSUME role \in Role, role' = role,
           TypeOK, StateIsStable, ReaderFollowsPeer,
           NEW in \in Seq(Unit), NEW rd \in Reader, NEW pg \in BOOLEAN, NEW skip \in BOOLEAN,
           (rd.k = "Head") <=> (reader.k = "Head"),
           WaitForSection(in, rd, pg, skip)
    PROVE  GoodPoll
<1>1. CASE Len(in) > MaxHead
  <2>1. FailHere(in, rd, pg, IF skip THEN 431 ELSE 400)
    BY <1>1 DEF WaitForSection
  <2> QED BY <2>1, FailHereIsGood
<1>2. CASE ~(Len(in) > MaxHead)
  BY <1>2, NeedDataOrEofIsGood, Zenon DEF WaitForSection
<1> QED BY <1>1, <1>2

(* An event of the peer with no proposals, as peer_data, finish_peer and   *)
(* peer_closed report it.                                                  *)
LEMMA PeerEventMoves ==
    ASSUME role \in Role, role' = role,
           TypeOK, NEW ev \in StateEvent, PeerAccepts(ev)
    PROVE  /\ AdvancePeer(ev) \in ConnState
           /\ StabilizePass(AdvancePeer(ev)) = AdvancePeer(ev)
           /\ BodyKept(state, AdvancePeer(ev), role)
           /\ ev = "Data" => AdvancePeer(ev)[PeerRole] = "SendBody"
           /\ ev \in {"EndOfMessage", "ConnectionClosed"} => AdvancePeer(ev)[PeerRole] # "SendBody"
<1>1. state \in ConnState /\ {} \in SUBSET SwitchKind
  BY DEF TypeOK
<1>2. Accepts(state, PeerRole, ev, {})
  BY DEF PeerAccepts
<1> QED BY <1>1, <1>2, EventMoves, TwoRoles DEF AdvancePeer

(* `peer_data` leaves the peer in its body and the reader on it.           *)
LEMMA PeerDataIsGood ==
    ASSUME role \in Role, role' = role,
           TypeOK, NEW in \in Seq(Unit), NEW count \in 0..Len(in),
           NEW rd \in Reader, rd.k # "Head", NEW first \in BOOLEAN, NEW last \in BOOLEAN,
           PeerData(in, count, rd, first, last)
    PROVE  GoodPoll
<1>0. Rest(in, count) \in Seq(Unit) /\ SubSeq(in, 1, count) \in Seq(Unit)
  BY RestType
<1>1. CASE PeerAccepts("Data")
  <2> DEFINE r == [Returned("next_event", "Data")
                     EXCEPT !.out = SubSeq(in, 1, count), !.first = first, !.last = last]
  <2>1. /\ Poll(AdvancePeer("Data"), Rest(in, count), rd, progress, r)
        /\ waiting_for_continue' = FALSE
        /\ UNCHANGED <<peer_version, request_kind, upgrade_proposals, continue_before_upgrade>>
    BY <1>1 DEF PeerData
  <2>2. r \in Result /\ r.res = "Data"
    <3>1. Returned("next_event", "Data") \in Result /\ Returned("next_event", "Data").res = "Data"
      BY ReturnedType DEF Call, Outcome
    <3> QED BY <1>0, <3>1, Zenon DEF Result
  <2> HIDE DEF r
  <2>3. /\ state' = AdvancePeer("Data") /\ input' = Rest(in, count)
        /\ reader' = rd /\ progress' = progress /\ ret' = r
    BY <2>1 DEF Poll
  <2>4. /\ state' \in ConnState /\ StabilizePass(state') = state'
        /\ BodyKept(state, state', role) /\ state'[PeerRole] = "SendBody"
    BY <1>1, <2>3, PeerEventMoves DEF StateEvent
  <2>5. ReaderFollowsPeer'
    BY <2>3, <2>4 DEF ReaderFollowsPeer, peer_state, PeerRole
  <2>6. NegotiationOK'
    BY <2>1, Zenon DEF TypeOK, NegotiationOK
  <2> QED BY <1>0, <2>2, <2>3, <2>4, <2>5, <2>6 DEF GoodPoll, TypeOK
<1>2. CASE ~PeerAccepts("Data")
  BY <1>0, <1>2, FailHereIsGood DEF PeerData, TypeOK
<1> QED BY <1>1, <1>2

(* `finish_peer` takes peer and reader out of the body together.           *)
LEMMA FinishPeerIsGood ==
    ASSUME role \in Role, role' = role,
           TypeOK, NEW in \in Seq(Unit), NEW pg \in BOOLEAN, FinishPeer(in, pg)
    PROVE  GoodPoll
<1>1. CASE PeerAccepts("EndOfMessage")
  <2>1. /\ state' = AdvancePeer("EndOfMessage") /\ input' = in
        /\ reader' = ReaderAt("Head") /\ progress' = pg
        /\ ret' = Returned("next_event", "EndOfMessage")
        /\ UNCHANGED negotiation
    BY <1>1 DEF FinishPeer, Poll
  <2>2. /\ state' \in ConnState /\ StabilizePass(state') = state'
        /\ BodyKept(state, state', role) /\ state'[PeerRole] # "SendBody"
    BY <1>1, <2>1, PeerEventMoves DEF StateEvent
  <2>3. reader' \in Reader /\ reader'.k = "Head"
    BY <2>1 DEF ReaderAt, Reader
  <2>4. ReaderFollowsPeer'
    BY <2>2, <2>3 DEF ReaderFollowsPeer, peer_state, PeerRole
  <2>5. ret' \in Result /\ ret'.res = "EndOfMessage"
    BY <2>1, ReturnedType DEF Call, Outcome
  <2> QED BY <2>1, <2>2, <2>3, <2>4, <2>5, NegotiationUnchanged DEF GoodPoll
<1>2. CASE ~PeerAccepts("EndOfMessage")
  BY <1>2, FailHereIsGood DEF FinishPeer, TypeOK
<1> QED BY <1>1, <1>2

(* `peer_closed` happens between messages, with the reader on heads.       *)
LEMMA PeerClosedIsGood ==
    ASSUME role \in Role, role' = role,
           TypeOK, ReaderFollowsPeer, PeerClosed
    PROVE  GoodPoll
<1>1. CASE PeerAccepts("ConnectionClosed")
  <2>1. /\ state' = AdvancePeer("ConnectionClosed")
        /\ input' = input /\ reader' = reader /\ progress' = progress
        /\ ret' = Returned("next_event", "ConnectionClosed")
        /\ UNCHANGED negotiation
    BY <1>1 DEF PeerClosed, Poll
  <2>2. /\ state' \in ConnState /\ StabilizePass(state') = state'
        /\ BodyKept(state, state', role) /\ state'[PeerRole] # "SendBody"
    BY <1>1, <2>1, PeerEventMoves DEF StateEvent
  <2>3. state[PeerRole] \in {"Idle", "Done", "MustClose", "Closed"}
    BY <1>1, TwoRoles DEF PeerAccepts, Accepts, ClientAccepts, ServerAccepts, Role
  <2>4. reader'.k = "Head"
    BY <2>1, <2>3 DEF ReaderFollowsPeer, peer_state, TypeOK, Reader
  <2>5. ReaderFollowsPeer'
    BY <2>2, <2>4 DEF ReaderFollowsPeer, peer_state, PeerRole
  <2>6. ret' \in Result /\ ret'.res = "ConnectionClosed"
    BY <2>1, ReturnedType DEF Call, Outcome
  <2> QED BY <2>1, <2>2, <2>5, <2>6, NegotiationUnchanged DEF GoodPoll, TypeOK
<1>2. CASE ~PeerAccepts("ConnectionClosed")
  BY <1>2, FailHereIsGood DEF PeerClosed, TypeOK
<1> QED BY <1>1, <1>2

----------------------------------------------------------------------------
(* Heads.                                                                  *)

(* `apply_persistence` leaves the record settled and bodies open.          *)
LEMMA PersistenceKeeps ==
    ASSUME NEW s \in ConnState, StabilizePass(s) = s, NEW m, NEW r \in Role
    PROVE  /\ ApplyPersistence(s, m) \in ConnState
           /\ StabilizePass(ApplyPersistence(s, m)) = ApplyPersistence(s, m)
           /\ BodyKept(s, ApplyPersistence(s, m), r)
<1>1. CASE Persistent(m)
  BY <1>1 DEF ApplyPersistence, BodyKept
<1>2. CASE ~Persistent(m)
  BY <1>2, OperationTypes, OperationsKeepBodies DEF ApplyPersistence
<1> QED BY <1>1, <1>2

(* What a head proposes is a set of switch kinds and of protocols.         *)
LEMMA ProposalsType ==
    ASSUME NEW m \in Message
    PROVE  /\ ProposedUpgrades(m) \subseteq Protocol
           /\ ValidUpgradeField(m) => m.upgrade \subseteq Protocol
           /\ \A u : Proposals(m, u) \in SUBSET SwitchKind
<1>1. m.upgrade \subseteq Protocol \cup {BadProtocol}
  BY Zenon DEF Message
<1>2. ValidUpgradeField(m) => m.upgrade \subseteq Protocol
  BY <1>1 DEF ValidUpgradeField
<1> QED BY <1>2 DEF ProposedUpgrades, Proposals, SwitchKind

(* A parsed head is a result.                                              *)
LEMMA HeadResultType ==
    ASSUME NEW m \in Message, NEW res \in {"Request", "Response", "InformationalResponse"}
    PROVE  /\ [Returned("next_event", res) EXCEPT !.m = m] \in Result
           /\ [Returned("next_event", res) EXCEPT !.m = m].res = res
<1>1. Returned("next_event", res) \in Result /\ Returned("next_event", res).res = res
  BY ReturnedType DEF Call, Outcome
<1> QED BY <1>1 DEF Result

(* `expects_continue` is a Boolean.                                        *)
LEMMA ContinueType ==
    ASSUME NEW m, NEW f
    PROVE  ExpectsContinue(m, f) \in BOOLEAN
BY DEF ExpectsContinue

(* `accept_request` arms the reader when the client enters its body.       *)
LEMMA AcceptRequestIsGood ==
    ASSUME role \in Role, role' = role,
           TypeOK, NEW m \in Message, IsRequest(m), NEW in \in Seq(Unit), AcceptRequest(m, in)
    PROVE  GoodPoll
<1> DEFINE f == FramingOf(m)
           upgrades == ProposedUpgrades(m)
           p == Proposals(m, upgrades)
           s == ProcessEvent(state, PeerRole, "Request", p)
<1>1. reader \in Reader /\ state \in ConnState /\ FALSE \in BOOLEAN
  BY DEF TypeOK
<1>2. CASE ~m.ok
  <2>1. FailHere(in, reader, FALSE, 400)
    BY <1>2, Zenon DEF AcceptRequest
  <2> QED BY <1>1, <2>1, FailHereIsGood, StatusCodes, Zenon
<1>3. CASE m.ok /\ f.k = "Error"
  BY <1>1, <1>3, FramingType, FailHereIsGood, Zenon DEF AcceptRequest
<1>4. CASE m.ok /\ f.k # "Error" /\ ~Accepts(state, PeerRole, "Request", p)
  <2>1. FailHere(in, reader, FALSE, 400)
    BY <1>4, Zenon DEF AcceptRequest
  <2> QED BY <1>1, <2>1, FailHereIsGood, StatusCodes, Zenon
<1>5. CASE m.ok /\ f.k # "Error" /\ Accepts(state, PeerRole, "Request", p)
  <2>1. /\ Poll(ApplyPersistence(s, m), in, ReaderFor(f), FALSE,
                 [Returned("next_event", "Request") EXCEPT !.m = m])
        /\ request_kind' = m.kind
        /\ waiting_for_continue' = ExpectsContinue(m, f)
        /\ continue_before_upgrade' = (waiting_for_continue' /\ upgrades # {})
        /\ upgrade_proposals' = upgrades
        /\ peer_version' = m.version
    BY <1>5, Zenon DEF AcceptRequest
  <2>2. /\ s \in ConnState /\ StabilizePass(s) = s
        /\ BodyKept(state, s, role) /\ s[PeerRole] = "SendBody"
    BY <1>1, <1>5, EventMoves, ProposalsType, TwoRoles DEF StateEvent
  <2> HIDE DEF s
  <2>3. /\ state' = ApplyPersistence(s, m) /\ input' = in /\ reader' = ReaderFor(f)
        /\ progress' = FALSE /\ ret' = [Returned("next_event", "Request") EXCEPT !.m = m]
    BY <2>1 DEF Poll
  <2>4. /\ state' \in ConnState /\ StabilizePass(state') = state'
        /\ BodyKept(s, state', role) /\ BodyKept(s, state', PeerRole)
    BY <2>2, <2>3, PersistenceKeeps, TwoRoles
  <2>5. BodyKept(state, state', role)
    BY <2>2, <2>4, BodyKeptTransitive
  <2>6. reader' \in Reader /\ reader'.k # "Head"
    BY <1>5, <2>3, FramingType, ReaderForType
  <2>7. ReaderFollowsPeer'
    BY <2>2, <2>4, <2>6 DEF ReaderFollowsPeer, peer_state, PeerRole, BodyKept
  <2>8. ret' \in Result /\ ret'.res = "Request"
    BY <2>3, HeadResultType, Zenon
  <2>9. NegotiationOK'
    <3>1. m.kind \in {"Other", "Head", "Connect"} /\ m.version \in Version
      BY Zenon DEF Message, IsRequest
    <3>2. upgrades \subseteq Protocol
      BY ProposalsType
    <3>3. waiting_for_continue' \in BOOLEAN
      BY <2>1, ContinueType
    <3>4. continue_before_upgrade' \in BOOLEAN
      BY <2>1, Zenon
    <3> QED BY <2>1, <3>1, <3>2, <3>3, <3>4 DEF NegotiationOK
  <2> QED BY <2>3, <2>4, <2>5, <2>6, <2>7, <2>8, <2>9, Zenon DEF GoodPoll
<1> QED BY <1>2, <1>3, <1>4, <1>5

(* An informational head leaves its actor outside a body.                  *)
LEMMA InformationalEventMoves ==
    ASSUME role \in Role, role' = role,
           TypeOK, NEW m, NEW r \in Role,
           Accepts(state, r, InformationalEvent(m), InformationalSwitch(m))
    PROVE  LET s == ProcessEvent(state, r, InformationalEvent(m), InformationalSwitch(m)) IN
           /\ s \in ConnState /\ StabilizePass(s) = s
           /\ BodyKept(state, s, Peer(r)) /\ s[r] # "SendBody"
           /\ state[r] = "SendResponse"
<1> DEFINE ev == InformationalEvent(m)
           p == InformationalSwitch(m)
<1>1. ev \in {"ProtocolSwitch", "InformationalResponse"} /\ p \in SUBSET SwitchKind
  BY DEF InformationalEvent, InformationalSwitch, SwitchKind
<1>2. ev \in StateEvent /\ state \in ConnState
  BY <1>1 DEF StateEvent, TypeOK
<1>3. state[r] = "SendResponse"
  BY <1>1 DEF Accepts, ClientAccepts, ServerAccepts, Role
<1> QED BY <1>1, <1>2, <1>3, EventMoves

(* A final head takes its actor into a body or a tunnel.                   *)
LEMMA FinalEventMoves ==
    ASSUME role \in Role, role' = role,
           TypeOK, NEW m, NEW r \in Role,
           Accepts(state, r, FinalEvent(m), FinalSwitch(m))
    PROVE  LET s == ProcessEvent(state, r, FinalEvent(m), FinalSwitch(m)) IN
           /\ s \in ConnState /\ StabilizePass(s) = s
           /\ BodyKept(state, s, Peer(r))
           /\ s[r] \in {"SendBody", "SwitchedProtocol"}
<1> DEFINE ev == FinalEvent(m)
           p == FinalSwitch(m)
<1>1. ev \in {"ProtocolSwitch", "Response"} /\ p \in SUBSET SwitchKind
  BY DEF FinalEvent, FinalSwitch, SwitchKind
<1>2. ev \in StateEvent /\ state \in ConnState
  BY <1>1 DEF StateEvent, TypeOK
<1> QED BY <1>1, <1>2, EventMoves

(* An informational response leaves the reader on heads.                   *)
LEMMA AcceptInformationalIsGood ==
    ASSUME role \in Role, role' = role,
           TypeOK, ReaderFollowsPeer,
           NEW m \in Message, NEW in \in Seq(Unit), AcceptInformational(m, in)
    PROVE  GoodPoll
<1> DEFINE Refused == \/ m.status = 101 /\ (continue_before_upgrade \/ ~ValidUpgradeResponse(m))
                      \/ ~Accepts(state, PeerRole, InformationalEvent(m), InformationalSwitch(m))
           s == ProcessEvent(state, PeerRole, InformationalEvent(m), InformationalSwitch(m))
<1>1. reader \in Reader
  BY DEF TypeOK
<1>2. CASE Refused
  <2>1. FailHere(in, reader, FALSE, 400)
    BY <1>2, Zenon DEF AcceptInformational
  <2> QED BY <1>1, <2>1, FailHereIsGood, StatusCodes, Zenon
<1>3. CASE ~Refused
  <2>1. /\ Poll(s, in, reader, FALSE,
                 [Returned("next_event", "InformationalResponse") EXCEPT !.m = m])
        /\ waiting_for_continue' = (waiting_for_continue /\ m.status # 100)
        /\ continue_before_upgrade' = (continue_before_upgrade /\ m.status # 100)
        /\ peer_version' = m.version
        /\ UNCHANGED <<request_kind, upgrade_proposals>>
    BY <1>3, Zenon DEF AcceptInformational
  <2>2. /\ s \in ConnState /\ StabilizePass(s) = s
        /\ BodyKept(state, s, role) /\ s[PeerRole] # "SendBody"
        /\ state[PeerRole] = "SendResponse"
    BY <1>3, InformationalEventMoves, TwoRoles
  <2> HIDE DEF s
  <2>3. /\ state' = s /\ input' = in /\ reader' = reader /\ progress' = FALSE
        /\ ret' = [Returned("next_event", "InformationalResponse") EXCEPT !.m = m]
    BY <2>1 DEF Poll
  <2>4. reader.k = "Head"
    BY <2>2 DEF ReaderFollowsPeer, peer_state
  <2>5. ReaderFollowsPeer'
    BY <2>2, <2>3, <2>4 DEF ReaderFollowsPeer, peer_state, PeerRole
  <2>6. ret' \in Result /\ ret'.res = "InformationalResponse"
    BY <2>3, HeadResultType, Zenon
  <2>7. NegotiationOK'
    <3>1. m.version \in Version
      BY Zenon DEF Message
    <3>2. waiting_for_continue' \in BOOLEAN /\ continue_before_upgrade' \in BOOLEAN
      BY <2>1, Zenon
    <3> QED BY <2>1, <3>1, <3>2 DEF NegotiationOK, TypeOK
  <2> QED BY <1>1, <2>2, <2>3, <2>5, <2>6, <2>7, Zenon DEF GoodPoll
<1> QED BY <1>2, <1>3

(* A final response arms the reader, or fails with the record advanced.    *)
LEMMA AcceptFinalIsGood ==
    ASSUME role \in Role, role' = role,
           TypeOK, ReaderFollowsPeer,
           NEW m \in Message, NEW in \in Seq(Unit), AcceptFinal(m, in)
    PROVE  GoodPoll
<1> DEFINE f == IF HasNoBody(m) THEN Fixed(0) ELSE ResponseFraming(m)
           q == ProcessEvent(state, PeerRole, FinalEvent(m), FinalSwitch(m))
           s == ApplyPersistence(q, m)
           t == IF f = CloseDelimited THEN DisableKeepAlive(s) ELSE s
           Taken == Accepts(state, PeerRole, FinalEvent(m), FinalSwitch(m))
<1>1. reader \in Reader /\ f.n \in Nat /\ (f.k # "Error" => f \in Framing)
  BY FramingType, FixedType DEF TypeOK, Framing
<1>2. CASE ~Taken
  <2>1. FailHere(in, reader, FALSE, 400)
    BY <1>2, Zenon DEF AcceptFinal
  <2> QED BY <1>1, <2>1, FailHereIsGood, StatusCodes, Zenon
<1>3. CASE Taken
  <2>1. /\ f.k = "Error" => Fail(s, in, reader, FALSE, f.n)
        /\ f.k # "Error" => Poll(t, in, ReaderFor(f), FALSE,
                                 [Returned("next_event", "Response") EXCEPT !.m = m])
        /\ peer_version' = m.version
        /\ waiting_for_continue' = FALSE
        /\ continue_before_upgrade' = FALSE
        /\ upgrade_proposals' = {}
        /\ UNCHANGED request_kind
    BY <1>3, Zenon DEF AcceptFinal
  <2>2. NegotiationOK'
    BY <2>1, Zenon DEF NegotiationOK, TypeOK, Message
  <2>3. /\ q \in ConnState /\ StabilizePass(q) = q
        /\ BodyKept(state, q, role) /\ q[PeerRole] \in {"SendBody", "SwitchedProtocol"}
    BY <1>3, FinalEventMoves, TwoRoles
  <2> HIDE DEF q
  <2>4. /\ s \in ConnState /\ StabilizePass(s) = s
        /\ BodyKept(q, s, role) /\ BodyKept(q, s, PeerRole)
    BY <2>3, PersistenceKeeps, TwoRoles
  <2>5. BodyKept(state, s, role) /\ s[PeerRole] \in {"SendBody", "SwitchedProtocol"}
    BY <2>3, <2>4, BodyKeptTransitive DEF BodyKept
  <2> HIDE DEF s, f
  <2>6. CASE f.k = "Error"
    BY <1>1, <2>1, <2>2, <2>4, <2>5, <2>6, FailIsGood, Zenon
  <2>7. CASE f.k # "Error"
    <3>1. /\ t \in ConnState /\ StabilizePass(t) = t
          /\ BodyKept(s, t, role) /\ BodyKept(s, t, PeerRole)
      BY <2>4, OperationTypes, OperationsKeepBodies, TwoRoles DEF BodyKept
    <3>2. BodyKept(state, t, role) /\ t[PeerRole] \in {"SendBody", "SwitchedProtocol"}
      BY <2>5, <3>1, BodyKeptTransitive DEF BodyKept
    <3> HIDE DEF t
    <3>3. /\ state' = t /\ input' = in /\ reader' = ReaderFor(f) /\ progress' = FALSE
          /\ ret' = [Returned("next_event", "Response") EXCEPT !.m = m]
      BY <2>1, <2>7 DEF Poll
    <3>4. reader' \in Reader /\ reader'.k # "Head"
      BY <1>1, <2>7, <3>3, ReaderForType
    <3>5. ReaderFollowsPeer'
      BY <3>2, <3>3, <3>4 DEF ReaderFollowsPeer, peer_state, PeerRole
    <3>6. ret' \in Result /\ ret'.res = "Response"
      BY <3>3, HeadResultType, Zenon
    <3> QED BY <2>2, <3>1, <3>2, <3>3, <3>4, <3>5, <3>6, Zenon DEF GoodPoll
  <2> QED BY <2>6, <2>7
<1> QED BY <1>2, <1>3

(* `read_head` waits, fails, or accepts a head.                            *)
LEMMA ReadHeadIsGood ==
    ASSUME role \in Role, role' = role,
           TypeOK, StateIsStable, ReaderFollowsPeer, ReadHead
    PROVE  GoodPoll
<1> DEFINE Waits == ~SectionReady(input, progress, TRUE) \/ HeadPrefix(input, Len(input))
<1>0. /\ input \in Seq(Unit) /\ reader \in Reader /\ progress \in BOOLEAN
      /\ TRUE \in BOOLEAN
  BY DEF TypeOK
<1>1. CASE Waits
  <2>1. WaitForSection(input, reader, progress, TRUE)
    BY <1>1, Zenon DEF ReadHead
  <2> QED BY <1>0, <2>1, WaitForSectionIsGood, Zenon
<1>2. CASE ~Waits /\ FailHere(input, reader, progress, 400)
  BY <1>0, <1>2, FailHereIsGood, StatusCodes
<1>3. CASE ~Waits /\ ~FailHere(input, reader, progress, 400)
  <2>1. PICK i \in CompleteHeads(input) :
          /\ Parses(input[i].m)
          /\ IF i > MaxHead THEN FailHere(input, reader, progress, 431)
             ELSE Accept(input[i].m, Rest(input, i))
    BY <1>3 DEF ReadHead
  <2>2. i \in 0..Len(input) /\ input[i] \in Unit
    BY <1>0 DEF CompleteHeads
  <2>3. input[i].m \in Message /\ Rest(input, i) \in Seq(Unit)
    BY <1>0, <2>2, RestType, Zenon DEF Unit
  <2>4. CASE i > MaxHead
    BY <1>0, <2>1, <2>4, FailHereIsGood, StatusCodes
  <2>5. CASE ~(i > MaxHead)
    <3>1. Accept(input[i].m, Rest(input, i))
      BY <2>1, <2>5
    <3>2. role = "server" => IsRequest(input[i].m)
      BY <2>1 DEF Parses
    <3> QED BY <2>3, <3>1, <3>2, AcceptRequestIsGood, AcceptInformationalIsGood,
               AcceptFinalIsGood DEF Accept
  <2> QED BY <2>4, <2>5
<1> QED BY <1>1, <1>2, <1>3, Zenon

----------------------------------------------------------------------------
(* Bodies.                                                                 *)

(* The readers inside a body are readers and not the head reader.          *)
LEMMA ReaderTypes ==
    ASSUME NEW n \in Nat, NEW first \in BOOLEAN
    PROVE  /\ FixedReader(n) \in Reader /\ FixedReader(n).k # "Head"
           /\ DataReader(n, first) \in Reader /\ DataReader(n, first).k # "Head"
           /\ \A k \in {"Size", "DataEnd", "Trailers"} :
                ReaderAt(k) \in Reader /\ ReaderAt(k).k # "Head"
BY DEF FixedReader, DataReader, ReaderAt, Reader

(* What is taken from the input is there, and in the body.                 *)
LEMMA SmallerType ==
    ASSUME NEW n \in Nat, NEW in \in Seq(Unit)
    PROVE  /\ Smaller(n, Len(in)) \in 0..Len(in)
           /\ n - Smaller(n, Len(in)) \in Nat
BY DEF Smaller

(* A Fixed body ends, waits, or delivers no more than remains of it.       *)
LEMMA ReadFixedIsGood ==
    ASSUME role \in Role, role' = role,
           TypeOK, StateIsStable, ReaderFollowsPeer, reader.k # "Head", ReadFixed
    PROVE  GoodPoll
<1> DEFINE count == Smaller(reader.n, Len(input))
<1>0. /\ input \in Seq(Unit) /\ reader \in Reader /\ progress \in BOOLEAN /\ reader.n \in Nat
      /\ FALSE \in BOOLEAN
  BY DEF TypeOK, Reader
<1>1. count \in 0..Len(input) /\ reader.n - count \in Nat
  BY <1>0, SmallerType, Zenon
<1>2. FixedReader(reader.n - count) \in Reader /\ FixedReader(reader.n - count).k # "Head"
  BY <1>0, <1>1, ReaderTypes
<1>3. \/ FinishPeer(input, progress)
      \/ NeedDataOrEof(input, reader, progress)
      \/ PeerData(input, count, FixedReader(reader.n - count), FALSE, FALSE)
  BY Zenon DEF ReadFixed
<1> HIDE DEF count
<1> QED BY <1>0, <1>1, <1>2, <1>3, FinishPeerIsGood, NeedDataOrEofIsGood, PeerDataIsGood, Zenon

(* A close-delimited body delivers what there is and ends with EOF.        *)
LEMMA ReadToCloseIsGood ==
    ASSUME role \in Role, role' = role,
           TypeOK, StateIsStable, ReaderFollowsPeer, reader.k # "Head", ReadToClose
    PROVE  GoodPoll
<1>0. /\ input \in Seq(Unit) /\ reader \in Reader /\ progress \in BOOLEAN
      /\ Len(input) \in 0..Len(input) /\ FALSE \in BOOLEAN
  BY DEF TypeOK
<1>1. CASE input # <<>>
  BY <1>0, <1>1, PeerDataIsGood, Zenon DEF ReadToClose
<1>2. CASE input = <<>> /\ eof
  BY <1>0, <1>2, FinishPeerIsGood, Zenon DEF ReadToClose
<1>3. CASE input = <<>> /\ ~eof
  <2>1. Poll(state, input, reader, progress, Returned("next_event", "NeedData"))
          /\ UNCHANGED negotiation
    BY <1>3 DEF ReadToClose, Stay
  <2>2. "NeedData" \in Outcome
    BY DEF Outcome
  <2> QED BY <1>0, <1>3, <2>1, <2>2, IdlePollIsGood, Zenon
<1> QED BY <1>1, <1>2, <1>3

(* A trailer section waits, fails, or ends the message.                    *)
LEMMA ReadTrailersIsGood ==
    ASSUME role \in Role, role' = role,
           TypeOK, StateIsStable, ReaderFollowsPeer, reader.k # "Head",
           NEW in \in Seq(Unit), NEW pg \in BOOLEAN, ReadTrailers(in, pg)
    PROVE  GoodPoll
<1> DEFINE rd == ReaderAt("Trailers")
<1>0. rd \in Reader /\ rd.k # "Head" /\ FALSE \in BOOLEAN
  BY DEF ReaderAt, Reader
<1>1. \/ WaitForSection(in, rd, pg, FALSE)
      \/ FailHere(in, rd, pg, 400)
      \/ \E i \in CompleteTrailers(in, role = "client") : FinishPeer(Rest(in, i), FALSE)
  BY Zenon DEF ReadTrailers
<1>2. CASE WaitForSection(in, rd, pg, FALSE)
  BY <1>0, <1>2, WaitForSectionIsGood, Zenon
<1>3. CASE FailHere(in, rd, pg, 400)
  BY <1>0, <1>3, FailHereIsGood, StatusCodes
<1>4. CASE \E i \in CompleteTrailers(in, role = "client") : FinishPeer(Rest(in, i), FALSE)
  <2>1. PICK i \in CompleteTrailers(in, role = "client") : FinishPeer(Rest(in, i), FALSE)
    BY <1>4, Zenon
  <2>2. i \in 0..Len(in)
    BY DEF CompleteTrailers
  <2> QED BY <1>0, <2>1, <2>2, RestType, FinishPeerIsGood, Zenon
<1> QED BY <1>1, <1>2, <1>3, <1>4, Zenon

(* Chunk data waits or delivers no more than remains of the chunk.         *)
LEMMA ReadChunkDataIsGood ==
    ASSUME role \in Role, role' = role,
           TypeOK, StateIsStable, ReaderFollowsPeer, reader.k # "Head",
           NEW in \in Seq(Unit), NEW n \in Nat, NEW first \in BOOLEAN,
           ReadChunkData(in, n, first)
    PROVE  GoodPoll
<1> DEFINE count == Smaller(n, Len(in))
           rd == IF count = n THEN ReaderAt("DataEnd") ELSE DataReader(n - count, FALSE)
           last == count = n
<1>0. /\ progress \in BOOLEAN /\ FALSE \in BOOLEAN
      /\ DataReader(n, first) \in Reader /\ DataReader(n, first).k # "Head"
  BY ReaderTypes DEF TypeOK
<1>1. count \in 0..Len(in) /\ n - count \in Nat
  BY SmallerType
<1>2. rd \in Reader /\ rd.k # "Head"
  BY <1>1, ReaderTypes, Zenon
<1>3. last \in BOOLEAN
  OBVIOUS
<1>4. \/ NeedDataOrEof(in, DataReader(n, first), progress)
      \/ PeerData(in, count, rd, first, last)
  BY Zenon DEF ReadChunkData
<1> HIDE DEF count, rd, last
<1> QED BY <1>0, <1>1, <1>2, <1>3, <1>4, NeedDataOrEofIsGood, PeerDataIsGood

(* A chunk line waits, fails, or leads to data or trailers.                *)
LEMMA ReadSizeIsGood ==
    ASSUME role \in Role, role' = role,
           TypeOK, StateIsStable, ReaderFollowsPeer, reader.k # "Head",
           NEW in \in Seq(Unit), ReadSize(in)
    PROVE  GoodPoll
<1> DEFINE rd == ReaderAt("Size")
<1>0. /\ rd \in Reader /\ rd.k # "Head" /\ progress \in BOOLEAN
      /\ FALSE \in BOOLEAN /\ TRUE \in BOOLEAN
  BY DEF ReaderAt, Reader, TypeOK
<1>1. \/ FailHere(in, rd, progress, 400)
      \/ NeedDataOrEof(in, rd, progress)
      \/ \E i \in LineEnds(in) : \/ ReadTrailers(Rest(in, i), FALSE)
                                  \/ ReadChunkData(Rest(in, i), in[i].n, TRUE)
  BY Zenon DEF ReadSize
<1>2. CASE FailHere(in, rd, progress, 400)
  BY <1>0, <1>2, FailHereIsGood, StatusCodes
<1>3. CASE NeedDataOrEof(in, rd, progress)
  BY <1>0, <1>3, NeedDataOrEofIsGood
<1>4. ASSUME NEW i \in LineEnds(in),
             \/ ReadTrailers(Rest(in, i), FALSE)
             \/ ReadChunkData(Rest(in, i), in[i].n, TRUE)
      PROVE  GoodPoll
  <2>1. i \in 0..Len(in) /\ in[i] \in Unit
    BY DEF LineEnds
  <2>2. Rest(in, i) \in Seq(Unit) /\ in[i].n \in Nat
    BY <2>1, RestType, Zenon DEF Unit
  <2> QED BY <1>0, <1>4, <2>2, ReadTrailersIsGood, ReadChunkDataIsGood, Zenon
<1> QED BY <1>1, <1>2, <1>3, <1>4, Zenon

(* The line end behind a chunk waits, fails, or leads to a chunk line.     *)
LEMMA ReadDataEndIsGood ==
    ASSUME role \in Role, role' = role,
           TypeOK, StateIsStable, ReaderFollowsPeer, reader.k # "Head", ReadDataEnd
    PROVE  GoodPoll
<1>0. input \in Seq(Unit) /\ reader \in Reader /\ progress \in BOOLEAN
  BY DEF TypeOK
<1>1. CASE input = <<>>
  BY <1>0, <1>1, NeedDataOrEofIsGood, Zenon DEF ReadDataEnd
<1>2. CASE input # <<>> /\ input[1].t # "crlf"
  BY <1>0, <1>2, FailHereIsGood, StatusCodes DEF ReadDataEnd
<1>3. CASE input # <<>> /\ input[1].t = "crlf"
  <2>1. Rest(input, 1) \in Seq(Unit)
    BY <1>0, <1>3, RestType
  <2> QED BY <1>3, <2>1, ReadSizeIsGood DEF ReadDataEnd
<1> QED BY <1>1, <1>2, <1>3

(* Every arm of `next_event` is one of the returns above.                  *)
LEMMA NextEventIsGood ==
    ASSUME role \in Role, role' = role,
           TypeOK, StateIsStable, ReaderFollowsPeer, next_event
    PROVE  GoodPoll
<1>0. input \in Seq(Unit) /\ reader \in Reader /\ progress \in BOOLEAN
  BY DEF TypeOK
<1>1. ASSUME NEW res \in {"ConnectionClosed", "Paused", "NeedData"}, Stay(res),
             res = "NeedData" => ~eof
      PROVE  GoodPoll
  <2>1. res \in Outcome
    BY DEF Outcome
  <2> QED BY <1>0, <1>1, <2>1, IdlePollIsGood DEF Stay
<1>2. CASE PeerClosed
  BY <1>2, PeerClosedIsGood
<1>3. CASE FailHere(input, reader, progress, 0)
  BY <1>0, <1>3, FailHereIsGood, StatusCodes
<1>4. CASE ReadBody
  <2>1. CASE reader.k = "Data" /\ ReadChunkData(input, reader.n, reader.first)
    <3>1. reader.n \in Nat /\ reader.first \in BOOLEAN /\ reader.k # "Head"
      BY <1>0, <2>1 DEF Reader
    <3> QED BY <1>0, <2>1, <3>1, ReadChunkDataIsGood
  <2>2. CASE reader.k = "Head" /\ ReadHead
    BY <2>2, ReadHeadIsGood
  <2>3. CASE reader.k = "Fixed" /\ ReadFixed
    BY <2>3, ReadFixedIsGood
  <2>4. CASE reader.k = "CloseDelimited" /\ ReadToClose
    BY <2>4, ReadToCloseIsGood
  <2>5. CASE reader.k = "Size" /\ ReadSize(input)
    BY <1>0, <2>5, ReadSizeIsGood
  <2>6. CASE reader.k = "DataEnd" /\ ReadDataEnd
    BY <2>6, ReadDataEndIsGood
  <2>7. CASE reader.k = "Trailers" /\ ReadTrailers(input, progress)
    BY <1>0, <2>7, ReadTrailersIsGood
  <2> QED BY <1>4, <2>1, <2>2, <2>3, <2>4, <2>5, <2>6, <2>7 DEF ReadBody
<1> QED BY <1>1, <1>2, <1>3, <1>4 DEF next_event

(* Polling does not touch the local half of the exchange.                  *)
LEMMA NextEventKeeps ==
    ASSUME role \in Role, role' = role,
           CInv, next_event
    PROVE  CInv'
<1>1. GoodPoll /\ UNCHANGED <<writer, eof>>
  BY NextEventIsGood DEF CInv, next_event
<1>2. TypeOK'
  BY <1>1 DEF GoodPoll, NegotiationOK, CInv, TypeOK
<1>3. WriterFollowsLocal'
  BY <1>1 DEF GoodPoll, BodyKept, CInv, WriterFollowsLocal, local_state
<1> QED BY <1>1, <1>2, <1>3 DEF GoodPoll, CInv, StateIsStable, NoNeedDataAfterEof

----------------------------------------------------------------------------
(* role calls.                                                            *)

(* What an accepted local call has to guarantee: it moves only the local   *)
(* actor, and the writer moves with it.                                    *)
LocalMove ==
    /\ state' \in ConnState /\ StabilizePass(state') = state'
    /\ BodyKept(state, state', PeerRole)
    /\ UNCHANGED <<input, progress, reader, eof>>
    /\ writer' \in Writer
    /\ WriterFollowsLocal'
    /\ NegotiationOK'
    /\ ret' \in Result /\ ret'.res # "NeedData"

(* Such a call keeps the invariant.                                        *)
LEMMA LocalMoveKeeps ==
    ASSUME role \in Role, role' = role,
           CInv, LocalMove
    PROVE  CInv'
<1>1. TypeOK'
  BY DEF LocalMove, NegotiationOK, CInv, TypeOK
<1>2. ReaderFollowsPeer'
  BY DEF LocalMove, BodyKept, CInv, ReaderFollowsPeer, peer_state, PeerRole
<1> QED BY <1>1, <1>2 DEF LocalMove, CInv, StateIsStable, NoNeedDataAfterEof

(* A rejected call changes nothing but what was returned.                  *)
LEMMA RejectKeeps ==
    ASSUME role \in Role, role' = role,
           CInv, Reject
    PROVE  CInv'
<1>1. /\ UNCHANGED <<state, input, progress, reader, writer, eof>> /\ UNCHANGED negotiation
      /\ ret' = Returned("rejected", "LocalError")
  BY DEF Reject, core
<1>2. ret' \in Result /\ ret'.res = "LocalError"
  BY <1>1, ReturnedType DEF Call, Outcome
<1>3. TypeOK'
  BY <1>1, <1>2 DEF CInv, TypeOK, negotiation
<1> QED BY <1>1, <1>2, <1>3 DEF CInv, StateIsStable, ReaderFollowsPeer, peer_state, PeerRole,
                                WriterFollowsLocal, local_state, NoNeedDataAfterEof

(* Written units are a valid result.                                       *)
LEMMA WroteType ==
    ASSUME NEW call \in Call, NEW units \in Seq(Unit), Wrote(call, units)
    PROVE  ret' \in Result /\ ret'.res = "Ok"
<1>1. Returned(call, "Ok") \in Result /\ Returned(call, "Ok").res = "Ok"
  BY ReturnedType DEF Outcome
<1> QED BY <1>1 DEF Wrote, Result

(* A written head is one unit.                                             *)
LEMMA HeadUnitType ==
    ASSUME NEW m \in Message
    PROVE  <<HeadUnit(m)>> \in Seq(Unit)
<1>1. HeadUnit(m) \in Unit
  BY DEF HeadUnit, Unit
<1> QED BY <1>1

(* A framing to write with is not NoWriter.                                *)
LEMMA FramingIsWriter ==
    ASSUME NEW f \in Framing
    PROVE  f \in Writer /\ f # NoWriter
BY DEF Framing, Writer, NoWriter, None

(* `receive_data` appends to the input; only EOF can turn eof on, and it   *)
(* does not ask for data.                                                  *)
LEMMA ReceiveKeeps ==
    ASSUME role \in Role, role' = role,
           CInv, NEW segment \in Segments[role] \cup {<<>>}, receive_data(segment)
    PROVE  CInv'
<1>1. CASE eof /\ segment # <<>>
  BY <1>1, RejectKeeps DEF receive_data
<1>2. CASE ~(eof /\ segment # <<>>)
  <2>1. /\ eof' = (eof \/ segment = <<>>)
        /\ input' = input \o segment
        /\ ret' = Returned("receive_data", "Ok")
        /\ UNCHANGED <<state, progress, reader, writer>> /\ UNCHANGED negotiation
    BY <1>2 DEF receive_data
  <2>2. segment \in Seq(Unit) /\ input \in Seq(Unit)
    <3>1. <<>> \in Seq(Unit) /\ Segments[role] \subseteq Seq(Unit)
      BY ConnectionAssumption
    <3> QED BY <3>1, Zenon DEF CInv, TypeOK
  <2>3. input' \in Seq(Unit)
    BY <2>1, <2>2
  <2>4. eof' \in BOOLEAN
    BY <2>1, Zenon
  <2>5. ret' \in Result /\ ret'.res = "Ok"
    BY <2>1, ReturnedType DEF Call, Outcome
  <2>6. TypeOK'
    BY <2>1, <2>3, <2>4, <2>5 DEF CInv, TypeOK, negotiation
  <2> QED BY <2>1, <2>5, <2>6 DEF CInv, StateIsStable, ReaderFollowsPeer, peer_state, PeerRole,
                                  WriterFollowsLocal, local_state, NoNeedDataAfterEof
<1> QED BY <1>1, <1>2

(* An event of the local actor settles, leaves the peer's body alone, and  *)
(* moves the local actor like the peer's events move the peer.             *)
LEMMA LocalEventMoves ==
    ASSUME role \in Role, role' = role,
           TypeOK, NEW ev \in StateEvent, NEW p \in SUBSET SwitchKind, LocalAccepts(ev, p)
    PROVE  LET t == AdvanceLocal(ev, p) IN
           /\ t \in ConnState /\ StabilizePass(t) = t
           /\ BodyKept(state, t, PeerRole)
           /\ ev \in {"Request", "Response", "Data"} => t[role] = "SendBody"
           /\ ev \in {"EndOfMessage", "ConnectionClosed"} => t[role] # "SendBody"
           /\ state[role] \in {"SwitchedProtocol", "Closed", "Error"} => t[role] = state[role]
<1>1. state \in ConnState
  BY DEF TypeOK
<1>2. Accepts(state, role, ev, p)
  BY DEF LocalAccepts
<1> QED BY <1>1, <1>2, EventMoves, TwoRoles DEF AdvanceLocal, PeerRole

(* `send_request`: the client enters its body together with the framing    *)
(* of the head it wrote.                                                   *)
LEMMA SendRequestKeeps ==
    ASSUME role \in Role, role' = role,
           CInv, NEW m \in Requests, send_request(m)
    PROVE  CInv'
<1> DEFINE f == FramingOf(m)
           upgrades == IF m.version = "Http11" THEN m.upgrade ELSE {}
           p == Proposals(m, upgrades)
           Sends == /\ role = "client"
                    /\ m.ok
                    /\ f.k # "Error"
                    /\ ~(f = Fixed(0) /\ m.expect)
                    /\ ValidUpgradeField(m)
                    /\ m.connection_upgrade <=> m.upgrade # {}
                    /\ LocalAccepts("Request", p)
           s == AdvanceLocal("Request", p)
<1>1. m \in Message /\ IsRequest(m)
  BY ConnectionAssumption
<1>2. CASE ~Sends
  BY <1>2, RejectKeeps, Zenon DEF send_request
<1>3. CASE Sends
  <2>1. /\ state' = ApplyPersistence(s, m)
        /\ request_kind' = m.kind
        /\ writer' = f
        /\ waiting_for_continue' = ExpectsContinue(m, f)
        /\ continue_before_upgrade' = (waiting_for_continue' /\ upgrades # {})
        /\ upgrade_proposals' = upgrades
        /\ Wrote("send_request", <<HeadUnit(m)>>)
        /\ UNCHANGED <<input, progress, reader, eof, peer_version>>
    BY <1>3, Zenon DEF send_request
  <2>2. p \in SUBSET SwitchKind /\ upgrades \subseteq Protocol
    BY <1>1, <1>3, ProposalsType, Zenon
  <2>3. /\ s \in ConnState /\ StabilizePass(s) = s
        /\ BodyKept(state, s, PeerRole) /\ s[role] = "SendBody"
    BY <1>3, <2>2, LocalEventMoves DEF CInv, StateEvent
  <2>4. f \in Writer /\ f # NoWriter
    BY <1>1, <1>3, FramingType, FramingIsWriter
  <2> HIDE DEF s, f, p
  <2>5. /\ state' \in ConnState /\ StabilizePass(state') = state'
        /\ BodyKept(state, state', PeerRole) /\ state'[role] = "SendBody"
    <3>1. /\ state' \in ConnState /\ StabilizePass(state') = state'
          /\ BodyKept(s, state', PeerRole) /\ BodyKept(s, state', role)
      BY <2>1, <2>3, PersistenceKeeps, TwoRoles, Zenon
    <3> QED BY <2>3, <3>1, BodyKeptTransitive DEF BodyKept
  <2>6. WriterFollowsLocal'
    BY <2>1, <2>4, <2>5, Zenon DEF WriterFollowsLocal, local_state
  <2>7. ret' \in Result /\ ret'.res = "Ok"
    BY <1>1, <2>1, HeadUnitType, WroteType, Zenon DEF Call
  <2>8. NegotiationOK'
    <3>1. m.kind \in {"Other", "Head", "Connect"}
      BY <1>1, Zenon DEF Message, IsRequest
    <3>2. waiting_for_continue' \in BOOLEAN
      BY <2>1, ContinueType, Zenon
    <3>3. continue_before_upgrade' \in BOOLEAN
      BY <2>1, Zenon
    <3> QED BY <2>1, <2>2, <3>1, <3>2, <3>3 DEF NegotiationOK, CInv, TypeOK
  <2>9. LocalMove
    BY <2>1, <2>4, <2>5, <2>6, <2>7, <2>8, Zenon DEF LocalMove
  <2> QED BY <2>9, LocalMoveKeeps
<1> QED BY <1>2, <1>3, Zenon

(* `send_informational_response`: the server has no open body before it    *)
(* and none after it.                                                      *)
LEMMA SendInformationalKeeps ==
    ASSUME role \in Role, role' = role,
           CInv, NEW m \in Responses, send_informational_response(m)
    PROVE  CInv'
<1> DEFINE s == AdvanceLocal(InformationalEvent(m), InformationalSwitch(m))
<1>1. m \in Message
  BY ConnectionAssumption
<1>2. CASE ~Reject
  <2>1. /\ LocalAccepts(InformationalEvent(m), InformationalSwitch(m))
        /\ state' = s
        /\ waiting_for_continue' = (waiting_for_continue /\ m.status # 100)
        /\ continue_before_upgrade' = (continue_before_upgrade /\ m.status # 100)
        /\ Wrote("send_informational_response", <<HeadUnit(m)>>)
        /\ UNCHANGED <<input, progress, reader, writer, eof,
                       peer_version, request_kind, upgrade_proposals>>
    BY <1>2 DEF send_informational_response
  <2>2. /\ s \in ConnState /\ StabilizePass(s) = s
        /\ BodyKept(state, s, PeerRole) /\ s[role] # "SendBody"
        /\ state[role] = "SendResponse"
    BY <2>1, InformationalEventMoves, TwoRoles, Zenon DEF CInv, LocalAccepts, AdvanceLocal, PeerRole
  <2> HIDE DEF s
  <2>3. writer = NoWriter
    BY <2>2 DEF CInv, WriterFollowsLocal, local_state
  <2>4. WriterFollowsLocal' /\ writer' \in Writer
    BY <2>1, <2>2, <2>3, Zenon DEF WriterFollowsLocal, local_state, Writer
  <2>5. ret' \in Result /\ ret'.res = "Ok"
    BY <1>1, <2>1, HeadUnitType, WroteType, Zenon DEF Call
  <2>6. waiting_for_continue' \in BOOLEAN /\ continue_before_upgrade' \in BOOLEAN
    BY <2>1, Zenon
  <2>7. NegotiationOK'
    BY <2>1, <2>6 DEF NegotiationOK, CInv, TypeOK
  <2>8. LocalMove
    BY <2>1, <2>2, <2>4, <2>5, <2>7, Zenon DEF LocalMove
  <2> QED BY <2>8, LocalMoveKeeps
<1> QED BY <1>2, RejectKeeps

(* The head and the framing `send_response` makes up are well formed.      *)
LEMMA ResponseTypes ==
    ASSUME NEW m \in Message
    PROVE  /\ Stripped(m) \in Message
           /\ Normalized(m) \in Message
           /\ SendFraming(m).k # "Error" => SendFraming(m) \in Framing
<1>1. Stripped(m) \in Message
  <2>1. <<>> \in Seq({"chunked", "other", ""}) /\ <<>> \in Seq(Nat \cup {BadLength})
    OBVIOUS
  <2> QED BY <2>1, Zenon DEF Stripped, Message
<1>2. Normalized(m) \in Message
  <2>1. <<"chunked">> \in Seq({"chunked", "other", ""})
    OBVIOUS
  <2>2. SignalsClose(m) \in BOOLEAN
    BY DEF SignalsClose
  <2>3. Stripped(m).close \/ SignalsClose(m) \in BOOLEAN
    BY <1>1, <2>2, Zenon DEF Message
  <2> QED BY <1>1, <2>1, <2>3, Zenon DEF Normalized, Message
<1>3. SendFraming(m).k # "Error" => SendFraming(m) \in Framing
  BY <1>1, FramingType, FixedType DEF SendFraming, Chunked, CloseDelimited, Framing
<1> QED BY <1>1, <1>2, <1>3

(* `send_response`: the server enters its body, or the tunnel of an        *)
(* accepted CONNECT, together with the framing of the head it wrote.       *)
LEMMA SendResponseKeeps ==
    ASSUME role \in Role, role' = role,
           CInv, NEW m \in Responses, send_response(m)
    PROVE  CInv'
<1> DEFINE f == SendFraming(m)
           s == AdvanceLocal(FinalEvent(m), FinalSwitch(m))
<1>1. m \in Message
  BY ConnectionAssumption
<1>2. CASE ~Reject
  <2>1. /\ f.k # "Error"
        /\ LocalAccepts(FinalEvent(m), FinalSwitch(m))
        /\ state' = ApplyPersistence(s, Normalized(m))
        /\ writer' = f
        /\ waiting_for_continue' = FALSE
        /\ continue_before_upgrade' = FALSE
        /\ upgrade_proposals' = {}
        /\ Wrote("send_response", <<HeadUnit(Normalized(m))>>)
        /\ UNCHANGED <<input, progress, reader, eof, peer_version, request_kind>>
    BY <1>2 DEF send_response
  <2>2. /\ s \in ConnState /\ StabilizePass(s) = s
        /\ BodyKept(state, s, PeerRole) /\ s[role] \in {"SendBody", "SwitchedProtocol"}
    BY <2>1, FinalEventMoves, TwoRoles DEF CInv, LocalAccepts, AdvanceLocal, PeerRole
  <2>3. f \in Writer /\ f # NoWriter
    BY <1>1, <2>1, ResponseTypes, FramingIsWriter
  <2> HIDE DEF s, f
  <2>4. /\ state' \in ConnState /\ StabilizePass(state') = state'
        /\ BodyKept(state, state', PeerRole)
        /\ state'[role] \in {"SendBody", "SwitchedProtocol"}
    <3>1. /\ state' \in ConnState /\ StabilizePass(state') = state'
          /\ BodyKept(s, state', PeerRole) /\ BodyKept(s, state', role)
      BY <2>1, <2>2, PersistenceKeeps, TwoRoles
    <3> QED BY <2>2, <3>1, BodyKeptTransitive DEF BodyKept
  <2>5. WriterFollowsLocal'
    BY <2>1, <2>3, <2>4 DEF WriterFollowsLocal, local_state
  <2>6. ret' \in Result /\ ret'.res = "Ok"
    BY <1>1, <2>1, ResponseTypes, HeadUnitType, WroteType, Zenon DEF Call
  <2>7. NegotiationOK'
    BY <2>1, Zenon DEF NegotiationOK, CInv, TypeOK
  <2>8. LocalMove
    BY <2>1, <2>3, <2>4, <2>5, <2>6, <2>7 DEF LocalMove
  <2> QED BY <2>8, LocalMoveKeeps
<1> QED BY <1>2, RejectKeeps

(* Chunk lines, body bytes and the end of a body are units.                *)
LEMMA BodyUnitTypes ==
    ASSUME NEW n \in Nat
    PROVE  /\ Bytes(n) \in Seq(Unit)
           /\ <<Size(n)>> \o Bytes(n) \o <<Plain("crlf")>> \in Seq(Unit)
           /\ \A t \in {"crlf", "trailers"} : <<Size(n), Plain(t)>> \in Seq(Unit)
<1>1. Size(n) \in Unit /\ \A t \in {"byte", "crlf", "trailers"} : Plain(t) \in Unit
  BY NoMessageType DEF Size, Plain, Unit
<1>2. Bytes(n) \in Seq(Unit)
  BY <1>1 DEF Bytes
<1>3. <<Size(n)>> \in Seq(Unit) /\ <<Plain("crlf")>> \in Seq(Unit)
  BY <1>1
<1>4. \A t \in {"crlf", "trailers"} : <<Size(n), Plain(t)>> \in Seq(Unit)
  BY <1>1
<1> QED BY <1>2, <1>3, <1>4

(* `send_data` stays in the body; what it deducts from a declared length   *)
(* is there.                                                               *)
LEMMA SendDataKeeps ==
    ASSUME role \in Role, role' = role,
           CInv, NEW length \in BodySizes, send_data(length)
    PROVE  CInv'
<1> DEFINE units == IF writer.k = "Chunked" /\ length > 0
                    THEN <<Size(length)>> \o Bytes(length) \o <<Plain("crlf")>>
                    ELSE Bytes(length)
           w == IF writer.k = "Fixed" THEN Fixed(writer.n - length) ELSE writer
<1>1. length \in Nat
  BY ConnectionAssumption
<1>2. CASE ~Reject
  <2>1. /\ writer # NoWriter
        /\ writer.k = "Fixed" => length <= writer.n
        /\ LocalAccepts("Data", {})
        /\ state' = AdvanceLocal("Data", {})
        /\ writer' = w
        /\ waiting_for_continue' = FALSE
        /\ Wrote("send_data", units)
        /\ UNCHANGED <<input, progress, reader, eof, peer_version, request_kind,
                       upgrade_proposals, continue_before_upgrade>>
    BY <1>2 DEF send_data, FitsLength
  <2>2. /\ state' \in ConnState /\ StabilizePass(state') = state'
        /\ BodyKept(state, state', PeerRole) /\ state'[role] = "SendBody"
    BY <2>1, LocalEventMoves DEF CInv, StateEvent
  <2>3. w \in Framing
    <3>1. writer \in Framing
      BY <2>1 DEF CInv, TypeOK, Writer
    <3> QED BY <1>1, <2>1, <3>1 DEF Framing, Fixed
  <2>4. units \in Seq(Unit)
    BY <1>1, BodyUnitTypes
  <2> HIDE DEF units, w
  <2>5. writer' \in Writer /\ WriterFollowsLocal'
    BY <2>1, <2>2, <2>3, FramingIsWriter DEF WriterFollowsLocal, local_state
  <2>6. ret' \in Result /\ ret'.res = "Ok"
    BY <2>1, <2>4, WroteType DEF Call
  <2>7. NegotiationOK'
    BY <2>1, Zenon DEF NegotiationOK, CInv, TypeOK
  <2>8. LocalMove
    BY <2>1, <2>2, <2>5, <2>6, <2>7 DEF LocalMove
  <2> QED BY <2>8, LocalMoveKeeps
<1> QED BY <1>2, RejectKeeps

(* `end_of_message` and `close` leave the body and drop the writer.        *)
LEMMA EndOfMessageKeeps ==
    ASSUME role \in Role, role' = role,
           CInv, NEW trailers \in {"none", "valid", "forbidden"}, end_of_message(trailers)
    PROVE  CInv'
<1> DEFINE units == IF writer.k = "Chunked"
                    THEN <<Size(0), Plain(IF trailers = "none" THEN "crlf" ELSE "trailers")>>
                    ELSE <<>>
<1>1. units \in Seq(Unit)
  BY BodyUnitTypes, StatusCodes
<1>2. CASE ~Reject
  <2>1. /\ LocalAccepts("EndOfMessage", {})
        /\ state' = AdvanceLocal("EndOfMessage", {})
        /\ writer' = NoWriter
        /\ waiting_for_continue' = FALSE
        /\ Wrote("end_of_message", units)
        /\ UNCHANGED <<input, progress, reader, eof, peer_version, request_kind,
                       upgrade_proposals, continue_before_upgrade>>
    BY <1>2 DEF end_of_message
  <2> HIDE DEF units
  <2>2. /\ state' \in ConnState /\ StabilizePass(state') = state'
        /\ BodyKept(state, state', PeerRole) /\ state'[role] # "SendBody"
    BY <2>1, LocalEventMoves DEF CInv, StateEvent
  <2>3. writer' \in Writer /\ WriterFollowsLocal'
    BY <2>1, <2>2 DEF WriterFollowsLocal, local_state, Writer
  <2>4. ret' \in Result /\ ret'.res = "Ok"
    BY <1>1, <2>1, WroteType DEF Call
  <2>5. NegotiationOK'
    BY <2>1, Zenon DEF NegotiationOK, CInv, TypeOK
  <2>6. LocalMove
    BY <2>1, <2>2, <2>3, <2>4, <2>5 DEF LocalMove
  <2> QED BY <2>6, LocalMoveKeeps
<1> QED BY <1>2, RejectKeeps

(* See EndOfMessageKeeps.                                                  *)
LEMMA CloseKeeps ==
    ASSUME role \in Role, role' = role,
           CInv, close
    PROVE  CInv'
<1>1. CASE ~Reject
  <2>1. /\ LocalAccepts("ConnectionClosed", {})
        /\ state' = AdvanceLocal("ConnectionClosed", {})
        /\ writer' = NoWriter
        /\ ret' = Returned("close", "Ok")
        /\ UNCHANGED <<input, progress, reader, eof>> /\ UNCHANGED negotiation
    BY <1>1 DEF close
  <2>2. /\ state' \in ConnState /\ StabilizePass(state') = state'
        /\ BodyKept(state, state', PeerRole) /\ state'[role] # "SendBody"
    BY <2>1, LocalEventMoves DEF CInv, StateEvent
  <2>3. writer' \in Writer /\ WriterFollowsLocal'
    BY <2>1, <2>2 DEF WriterFollowsLocal, local_state, Writer
  <2>4. ret' \in Result /\ ret'.res = "Ok"
    BY <2>1, ReturnedType DEF Call, Outcome
  <2>5. NegotiationOK'
    BY <2>1, NegotiationUnchanged DEF CInv
  <2>6. LocalMove
    BY <2>1, <2>2, <2>3, <2>4, <2>5 DEF LocalMove
  <2> QED BY <2>6, LocalMoveKeeps
<1> QED BY <1>1, RejectKeeps

(* A new record is settled, with both actors outside a body.               *)
LEMMA NewStateIsGood ==
    /\ NewState \in ConnState /\ StabilizePass(NewState) = NewState
    /\ \A r \in Role : NewState[r] = "Idle"
<1>1. NewState \in ConnState
  BY DEF NewState, ConnState, ClientState, ServerState, State, SwitchKind
<1>2. StabilizePass(NewState) = NewState
  BY <1>1, SettledIsFixed DEF Settled, NewState
<1> QED BY <1>1, <1>2 DEF NewState, Role

(* `start_next_cycle` resets reader and writer with the record.            *)
LEMMA NextCycleKeeps ==
    ASSUME role \in Role, role' = role,
           CInv, start_next_cycle
    PROVE  CInv'
<1>1. CASE ~Reject
  <2>1. /\ state' = NewState /\ reader' = ReaderAt("Head") /\ writer' = NoWriter
        /\ progress' = FALSE /\ request_kind' = None /\ upgrade_proposals' = {}
        /\ waiting_for_continue' = FALSE /\ continue_before_upgrade' = FALSE
        /\ ret' = Returned("start_next_cycle", "Ok")
        /\ UNCHANGED <<input, eof, peer_version>>
    BY <1>1 DEF start_next_cycle
  <2>2. ret' \in Result /\ ret'.res = "Ok"
    BY <2>1, ReturnedType DEF Call, Outcome
  <2>3. reader' \in Reader /\ reader'.k = "Head"
    BY <2>1 DEF ReaderAt, Reader
  <2>4. TypeOK'
    BY <2>1, <2>2, <2>3, NewStateIsGood, Zenon DEF CInv, TypeOK, Writer
  <2> QED BY <2>1, <2>2, <2>3, <2>4, NewStateIsGood, TwoRoles
          DEF CInv, StateIsStable, ReaderFollowsPeer, peer_state, PeerRole,
              WriterFollowsLocal, local_state, NoNeedDataAfterEof
<1> QED BY <1>1, RejectKeeps

----------------------------------------------------------------------------

(* `Connection::new` establishes the invariant.                            *)
LEMMA InitEstablishesCInv == Init => CInv
<1> SUFFICES ASSUME Init PROVE CInv
  OBVIOUS
<1>0. role \in Role
  BY ConnectionAssumption DEF Init
<1>1. ret \in Result /\ ret.res = "Ok"
  BY ReturnedType DEF Init, Call, Outcome
<1>2. reader \in Reader /\ reader.k = "Head"
  BY DEF Init, ReaderAt, Reader
<1>3. TypeOK
  <2>1. input \in Seq(Unit)
    BY DEF Init
  <2> QED BY <1>0, <1>1, <1>2, <2>1, NewStateIsGood, Zenon DEF Init, TypeOK, Writer
<1> QED BY <1>0, <1>1, <1>2, <1>3, NewStateIsGood, TwoRoles
        DEF Init, CInv, StateIsStable, ReaderFollowsPeer, peer_state,
            WriterFollowsLocal, local_state, NoNeedDataAfterEof

(* Every call keeps it.                                                    *)
LEMMA NextKeepsCInv == CInv /\ [Next]_vars => CInv'
<1> SUFFICES ASSUME CInv, [Next]_vars PROVE CInv'
  OBVIOUS
<1>1. CASE UNCHANGED vars
  <2>1. TypeOK'
    BY <1>1 DEF vars, core, negotiation, CInv, TypeOK
  <2>2. StateIsStable' /\ NoNeedDataAfterEof'
    BY <1>1 DEF vars, core, negotiation, CInv, StateIsStable, NoNeedDataAfterEof
  <2>3. ReaderFollowsPeer' /\ WriterFollowsLocal'
    BY <1>1 DEF vars, core, negotiation, CInv, ReaderFollowsPeer, peer_state, PeerRole,
                WriterFollowsLocal, local_state
  <2> QED BY <2>1, <2>2, <2>3, Zenon DEF CInv
<1>2. CASE Next
  <2>0. role \in Role /\ role' = role
    BY <1>2, Zenon DEF CInv, TypeOK, Next
  <2>1. ASSUME NEW segment \in Segments[role] \cup {<<>>}, receive_data(segment) PROVE CInv'
    BY <2>0, <2>1, ReceiveKeeps
  <2>2. CASE next_event
    BY <2>0, <2>2, NextEventKeeps
  <2>3. ASSUME NEW m \in Requests, send_request(m) PROVE CInv'
    BY <2>0, <2>3, SendRequestKeeps
  <2>4. ASSUME NEW m \in Responses, send_informational_response(m) PROVE CInv'
    BY <2>0, <2>4, SendInformationalKeeps
  <2>5. ASSUME NEW m \in Responses, send_response(m) PROVE CInv'
    BY <2>0, <2>5, SendResponseKeeps
  <2>6. ASSUME NEW length \in BodySizes, send_data(length) PROVE CInv'
    BY <2>0, <2>6, SendDataKeeps
  <2>7. ASSUME NEW trailers \in {"none", "valid", "forbidden"}, end_of_message(trailers)
        PROVE  CInv'
    BY <2>0, <2>7, EndOfMessageKeeps
  <2>8. CASE start_next_cycle
    BY <2>0, <2>8, NextCycleKeeps
  <2>9. CASE close
    BY <2>0, <2>9, CloseKeeps
  <2> QED BY <1>2, <2>1, <2>2, <2>3, <2>4, <2>5, <2>6, <2>7, <2>8, <2>9, Zenon DEF Next
<1> QED BY <1>1, <1>2

(* The invariant of an endpoint, for every role, limit, set of heads and   *)
(* segments the application and the transport may use.                     *)
THEOREM EndpointInvariance == Spec => []CInv
BY InitEstablishesCInv, NextKeepsCInv, PTL DEF Spec

(* Every field of `Connection` keeps its type.                             *)
THEOREM EndpointTypeCorrect == Spec => []TypeOK
<1>1. CInv => TypeOK
  BY DEF CInv
<1> QED BY <1>1, EndpointInvariance, PTL

(* Between two calls no joint rule of `stabilize` is left to apply.        *)
THEOREM EndpointStable == Spec => []StateIsStable
<1>1. CInv => StateIsStable
  BY DEF CInv
<1> QED BY <1>1, EndpointInvariance, PTL

(* `reader` is on a body exactly while the peer is: `peer_data` and        *)
(* `finish_peer` are never refused and no head is parsed inside a body.    *)
THEOREM ReaderAgreement == Spec => []ReaderFollowsPeer
<1>1. CInv => ReaderFollowsPeer
  BY DEF CInv
<1> QED BY <1>1, EndpointInvariance, PTL

(* `writer` is armed exactly while the local message body is open.         *)
THEOREM WriterAgreement == Spec => []WriterFollowsLocal
<1>1. CInv => WriterFollowsLocal
  BY DEF CInv
<1> QED BY <1>1, EndpointInvariance, PTL

(* Once EOF is recorded, `next_event` never returns NeedData.              *)
THEOREM NoWaitAfterEof == Spec => []NoNeedDataAfterEof
<1>1. CInv => NoNeedDataAfterEof
  BY DEF CInv
<1> QED BY <1>1, EndpointInvariance, PTL

----------------------------------------------------------------------------
(* Action properties.                                                      *)

Terminal == {"Closed", "SwitchedProtocol", "Error"}

(* No terminal actor of state is anything else in t.                       *)
Final(t) == \A r \in Role : state[r] \in Terminal => t[r] = state[r]

(* An event of the local actor, with the persistence of its head applied,  *)
(* leaves both actors' terminal states alone.                              *)
LEMMA LocalEventIsFinal ==
    ASSUME role \in Role, role' = role,
           TypeOK, NEW ev \in StateEvent, NEW p \in SUBSET SwitchKind, LocalAccepts(ev, p), NEW m
    PROVE  /\ Final(AdvanceLocal(ev, p))
           /\ Final(ApplyPersistence(AdvanceLocal(ev, p), m))
<1> DEFINE t == AdvanceLocal(ev, p)
<1>1. /\ t \in ConnState /\ StabilizePass(t) = t
      /\ BodyKept(state, t, PeerRole)
      /\ state[role] \in Terminal => t[role] = state[role]
  BY LocalEventMoves, Zenon DEF Terminal
<1>2. \A r \in Role : r = role \/ r = PeerRole
  BY TwoRoles
<1> HIDE DEF t
<1>3. \A r \in Role : state[r] \in Terminal => t[r] = state[r]
  BY <1>1, <1>2, Zenon DEF BodyKept, Terminal
<1>4. \A r \in Role : BodyKept(t, ApplyPersistence(t, m), r)
  BY <1>1, PersistenceKeeps
<1>5. \A r \in Role : state[r] \in Terminal => ApplyPersistence(t, m)[r] = state[r]
  BY <1>3, <1>4 DEF BodyKept, Terminal
<1> QED BY <1>3, <1>5, Zenon DEF Final, t

(* Polling never moves a terminal peer, and its effect on the local actor  *)
(* is that of the joint rules.                                             *)
LEMMA NextEventIsFinal ==
    ASSUME role \in Role, role' = role,
           CInv, next_event
    PROVE  Final(state')
<1>1. BodyKept(state, state', role)
  BY NextEventIsGood DEF CInv, GoodPoll
<1>2. state[PeerRole] \in Terminal => state'[PeerRole] = state[PeerRole]
  <2>1. CASE peer_state = "Closed" \/ peer_state = "SwitchedProtocol"
    BY <2>1 DEF next_event, Stay, Poll, peer_state, PeerRole
  <2>2. CASE peer_state = "Error"
    <3>1. state' = ProcessError(state, PeerRole)
      BY <2>2 DEF next_event, FailHere, Fail, Poll
    <3>2. state'[PeerRole] = "Error"
      BY <3>1, OperationTypes, TwoRoles, Zenon DEF CInv, TypeOK
    <3> QED BY <2>2, <3>2 DEF peer_state
  <2> QED BY <2>1, <2>2 DEF Terminal, peer_state
<1>3. \A r \in Role : r = role \/ r = PeerRole
  BY TwoRoles
<1> QED BY <1>1, <1>2, <1>3 DEF Final, BodyKept, Terminal

(* A call that leaves the record alone is final.                           *)
LEMMA SameStateIsFinal ==
    ASSUME state' = state
    PROVE  Final(state')
BY DEF Final

(* No call, error or joint rule revives or re-labels an actor that closed, *)
(* switched protocols or was poisoned.                                     *)
THEOREM TerminalIsFinal == Spec => TerminalStatesAreFinal
<1> DEFINE Keeps == \A r \in Role : state[r] \in {"Closed", "SwitchedProtocol", "Error"}
                                      => state'[r] = state[r]
<1>1. ASSUME CInv, Next PROVE Final(state')
  <2>r. role \in Role /\ role' = role
    BY <1>1, Zenon DEF CInv, TypeOK, Next
  <2> USE <1>1, <2>r DEF CInv
  <2>0. ASSUME Reject PROVE Final(state')
    BY <2>0, SameStateIsFinal DEF Reject, core
  <2>1. ASSUME NEW segment \in Segments[role] \cup {<<>>}, receive_data(segment) PROVE Final(state')
    BY <2>0, <2>1, SameStateIsFinal DEF receive_data
  <2>2. CASE next_event
    BY <2>2, NextEventIsFinal
  <2>3. ASSUME NEW m \in Requests, send_request(m) PROVE Final(state')
    <3> DEFINE upgrades == IF m.version = "Http11" THEN m.upgrade ELSE {}
               p == Proposals(m, upgrades)
    <3>1. p \in SUBSET SwitchKind
      BY ConnectionAssumption, ProposalsType
    <3>2. \/ Reject
          \/ /\ LocalAccepts("Request", p)
             /\ state' = ApplyPersistence(AdvanceLocal("Request", p), m)
      BY <2>3, Zenon DEF send_request
    <3> HIDE DEF p
    <3> QED BY <2>0, <3>1, <3>2, LocalEventIsFinal DEF StateEvent
  <2>4. ASSUME NEW m \in Responses, send_informational_response(m) PROVE Final(state')
    <3>1. InformationalEvent(m) \in StateEvent /\ InformationalSwitch(m) \in SUBSET SwitchKind
      BY DEF InformationalEvent, InformationalSwitch, StateEvent, SwitchKind
    <3>2. \/ Reject
          \/ /\ LocalAccepts(InformationalEvent(m), InformationalSwitch(m))
             /\ state' = AdvanceLocal(InformationalEvent(m), InformationalSwitch(m))
      BY <2>4 DEF send_informational_response
    <3> QED BY <2>0, <3>1, <3>2, LocalEventIsFinal
  <2>5. ASSUME NEW m \in Responses, send_response(m) PROVE Final(state')
    <3>1. FinalEvent(m) \in StateEvent /\ FinalSwitch(m) \in SUBSET SwitchKind
      BY DEF FinalEvent, FinalSwitch, StateEvent, SwitchKind
    <3>2. \/ Reject
          \/ /\ LocalAccepts(FinalEvent(m), FinalSwitch(m))
             /\ state' = ApplyPersistence(AdvanceLocal(FinalEvent(m), FinalSwitch(m)),
                                          Normalized(m))
      BY <2>5 DEF send_response
    <3> QED BY <2>0, <3>1, <3>2, LocalEventIsFinal
  <2>6. ASSUME NEW ev \in StateEvent, LocalAccepts(ev, {}), state' = AdvanceLocal(ev, {})
        PROVE  Final(state')
    BY <2>6, LocalEventIsFinal
  <2>7. ASSUME NEW length \in BodySizes, send_data(length) PROVE Final(state')
    BY <2>0, <2>6, <2>7 DEF send_data, StateEvent
  <2>8. ASSUME NEW trailers \in {"none", "valid", "forbidden"}, end_of_message(trailers)
        PROVE  Final(state')
    BY <2>0, <2>6, <2>8 DEF end_of_message, StateEvent
  <2>9. CASE start_next_cycle
    BY <2>0, <2>9 DEF start_next_cycle, Reusable, Final, Terminal, Role
  <2>10. CASE close
    BY <2>0, <2>6, <2>10 DEF close, StateEvent
  <2> QED BY <2>1, <2>2, <2>3, <2>4, <2>5, <2>7, <2>8, <2>9, <2>10, Zenon DEF Next
<1>2. CInv /\ [Next]_vars => [Keeps]_vars
  BY <1>1 DEF Final, Terminal
<1> QED BY <1>2, EndpointInvariance, PTL DEF Spec, TerminalStatesAreFinal

(* `trailing_data`: what is buffered behind a message that has ended, by   *)
(* its end, a close, a switch or an error, stays there whole.              *)
THEOREM TrailingInput == Spec => TrailingInputKept
<1> DEFINE Ended == peer_state \notin {"Idle", "SendResponse", "SendBody"}
           Prefix == /\ Len(input) <= Len(input')
                     /\ SubSeq(input', 1, Len(input)) = input
<1>1. ASSUME CInv, Next, Ended PROVE Prefix
  <2>1. input \in Seq(Unit) /\ role \in Role
    BY <1>1 DEF CInv, TypeOK
  <2>2. ASSUME input' = input PROVE Prefix
    BY <2>1, <2>2
  <2>3. ASSUME NEW segment \in Segments[role] \cup {<<>>}, receive_data(segment) PROVE Prefix
    <3>1. segment \in Seq(Unit)
      <4>1. <<>> \in Seq(Unit) /\ Segments[role] \subseteq Seq(Unit)
        BY <2>1, ConnectionAssumption
      <4> QED BY <4>1, Zenon
    <3>2. input' = input \/ input' = input \o segment
      BY <2>3 DEF receive_data, Reject, core
    <3>3. ASSUME input' = input \o segment PROVE Prefix
      BY <2>1, <3>1, <3>3
    <3> QED BY <2>2, <3>2, <3>3
  <2>4. CASE next_event
    <3>1. input' = input
      BY <1>1, <2>4 DEF next_event, Stay, PeerClosed, FailHere, Fail, Poll
    <3> QED BY <2>2, <3>1
  <2>5. ASSUME NEW m, send_request(m) \/ send_informational_response(m) \/ send_response(m)
        PROVE  Prefix
    <3>1. input' = input
      BY <2>5, Zenon DEF send_request, send_informational_response, send_response, Reject, core
    <3> QED BY <2>2, <3>1
  <2>6. ASSUME NEW n, send_data(n) \/ end_of_message(n) \/ start_next_cycle \/ close
        PROVE  Prefix
    <3>1. input' = input
      BY <2>6, Zenon DEF send_data, end_of_message, start_next_cycle, close, Reject, core
    <3> QED BY <2>2, <3>1
  <2> QED BY <1>1, <2>3, <2>4, <2>5, <2>6 DEF Next
<1>2. CInv /\ [Next]_vars => [Ended => Prefix]_vars
  BY <1>1
<1> QED BY <1>2, EndpointInvariance, PTL DEF Spec, TrailingInputKept
============================================================================
