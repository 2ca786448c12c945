---------------------- MODULE ConnectionHistoryProofs ----------------------
(***************************************************************************)
(* What an endpoint does agrees with the account of an observer who sees   *)
(* only its API: persistence, protocol switches, declared lengths, chunk   *)
(* marks and the closing signal of an answer, for all roles, limits,       *)
(* heads, segments and buffer sizes.                                       *)
(***************************************************************************)
EXTENDS ConnectionHistory, ConnectionProofs

----------------------------------------------------------------------------
(* The inductive invariant.                                                *)

(* A body still owed: only a declared length has a number.                 *)
Owed == {f \in Framing : f.k # "Fixed" => f.n = 0}

Account == [request : Message, requested : BOOLEAN, continued : BOOLEAN,
            answer : Message, closing : BOOLEAN,
            received : Owed, sent : Owed, open : BOOLEAN]

(* What the endpoint remembers of the heads is what the observer saw: the  *)
(* lifecycle record and the negotiation fields against the account.        *)
HeadAccount ==
    /\ seen.closing => ~state.keep_alive
    /\ seen.requested <=> request_kind # None
    /\ seen.requested => request_kind = seen.request.kind
    /\ state.server = "Idle" => ~seen.requested
    /\ state.server = "SendResponse"
         => /\ seen.requested
            /\ "Connect" \in state.proposals <=> request_kind = "Connect"
            /\ upgrade_proposals \subseteq seen.request.upgrade
            /\ /\ upgrade_proposals # {}
               /\ ExpectsContinue(seen.request, FramingOf(seen.request))
               => seen.continued \/ continue_before_upgrade
    /\ SwitchIsNegotiated

(* Reader rd stands in the body that account h says is being received, and *)
(* a chunk is open exactly behind its first piece.                         *)
ReaderAccount(rd, h) ==
    /\ rd.k = "Fixed" => h.received = Fixed(rd.n) /\ ~h.open
    /\ rd.k = "CloseDelimited" => h.received = CloseDelimited /\ ~h.open
    /\ rd.k \in {"Size", "DataEnd", "Trailers"} => h.received = Chunked /\ ~h.open
    /\ rd.k = "Data" => h.received = Chunked /\ (h.open <=> ~rd.first)

HInv ==
    /\ CInv
    /\ seen \in Account
    /\ HeadAccount
    /\ ReaderAccount(reader, seen)
    /\ writer # NoWriter => seen.sent = writer
    /\ DeclaredLengthIsExact
    /\ AnswerSignalsClose

----------------------------------------------------------------------------
(* The lifecycle record.                                                   *)

(* A move of the record that the account of the heads survives.            *)
Quiet(s, t) ==
    /\ t.keep_alive => s.keep_alive
    /\ t.server = "Idle" => s.server = "Idle"
    /\ t.server = "SendResponse" => s.server = "SendResponse" /\ t.proposals = s.proposals
    /\ t.server = "SwitchedProtocol" => s.server = "SwitchedProtocol"

(* Two such moves in a row are one.                                        *)
LEMMA QuietTransitive ==
    ASSUME NEW s, NEW t, NEW u, Quiet(s, t), Quiet(t, u)
    PROVE  Quiet(s, u)
BY DEF Quiet

(* The joint rules decide nothing about persistence, and bring no server   *)
(* back in front of its response or into a tunnel.                         *)
LEMMA PassIsQuiet ==
    ASSUME NEW s \in ConnState
    PROVE  LET t == StabilizePass(s) IN
           /\ Quiet(s, t)
           /\ t.keep_alive = s.keep_alive
           /\ s.server = "SendResponse" => t.server = "SendResponse"
<1> DEFINE a == AwaitSwitch(s)
           d == DecideSwitch(a)
           w == SettleSwitch(d)
           f == ForbidReuse(w)
           c == CoupleClose(f)
           Good(x, y) == /\ Quiet(x, y) /\ y.keep_alive = x.keep_alive
                         /\ x.server = "SendResponse" => y.server = "SendResponse"
<1>0. /\ a \in ConnState /\ d \in ConnState /\ w \in ConnState
      /\ f \in ConnState /\ c \in ConnState
  BY RuleTypes
<1>1. Good(s, a)
  BY <1>0 DEF AwaitSwitch, ConnState, Quiet
<1>2. Good(a, d)
  BY <1>0 DEF DecideSwitch, ConnState, Quiet
<1>3. Good(d, w)
  BY <1>0 DEF SettleSwitch, ConnState, Quiet
<1>4. Good(w, f)
  BY <1>0 DEF ForbidReuse, ConnState, Quiet
<1>5. Good(f, c)
  BY <1>0 DEF CoupleClose, ConnState, Quiet
<1> HIDE DEF a, d, w, f, c
<1>6. Good(s, c)
  BY <1>1, <1>2, <1>3, <1>4, <1>5 DEF Quiet
<1> QED BY <1>6 DEF StabilizePass, a, d, w, f, c

(* Poisoning an actor and giving up keep-alive are quiet.                  *)
LEMMA OperationsAreQuiet ==
    ASSUME NEW s \in ConnState, NEW r \in Role
    PROVE  /\ Quiet(s, ProcessError(s, r))
           /\ Quiet(s, DisableKeepAlive(s))
           /\ ~DisableKeepAlive(s).keep_alive
<1> DEFINE e == IF r = "client" THEN [s EXCEPT !.client = "Error"]
                                ELSE [s EXCEPT !.server = "Error"]
           k == [s EXCEPT !.keep_alive = FALSE]
<1>1. e \in ConnState /\ Quiet(s, e)
  BY DEF ConnState, ClientState, ServerState, State, Role, Quiet
<1>2. k \in ConnState /\ Quiet(s, k) /\ ~k.keep_alive
  BY Zenon DEF ConnState, Quiet
<1> HIDE DEF e, k
<1>3. Quiet(s, Stabilize(e))
  BY <1>1, PassIsQuiet, StabilizeIsPass, QuietTransitive
<1>4. Quiet(s, Stabilize(k)) /\ ~Stabilize(k).keep_alive
  BY <1>2, PassIsQuiet, StabilizeIsPass, QuietTransitive
<1> QED BY <1>3, <1>4 DEF ProcessError, DisableKeepAlive, e, k

(* A head that does not persist gives up keep-alive.                       *)
LEMMA PersistenceIsQuiet ==
    ASSUME NEW s \in ConnState, NEW m
    PROVE  /\ Quiet(s, ApplyPersistence(s, m))
           /\ ~Persistent(m) => ~ApplyPersistence(s, m).keep_alive
           /\ Persistent(m) => ApplyPersistence(s, m) = s
<1>1. CASE Persistent(m)
  BY <1>1 DEF ApplyPersistence, Quiet
<1>2. CASE ~Persistent(m)
  BY <1>2, OperationsAreQuiet DEF ApplyPersistence, Role
<1> QED BY <1>1, <1>2

(* What each event does to the part of the record the heads account for.   *)
Moved(s, t, ev, p) ==
    /\ ev \notin {"Request", "ProtocolSwitch"} => Quiet(s, t)
    /\ ev = "Request" => /\ t.keep_alive => s.keep_alive
                         /\ t.server = "SendResponse" /\ t.proposals = p
    /\ ev = "ProtocolSwitch" => /\ t.keep_alive => s.keep_alive
                                /\ s.server = "SendResponse"
                                /\ t.server = "SwitchedProtocol"
    /\ ev = "Response" => /\ s.server \in {"Idle", "SendResponse"}
                          /\ t.server = "SendBody"
                          /\ t.keep_alive <=> /\ s.keep_alive
                                              /\ "Connect" \notin s.proposals
                                              /\ s.server # "Idle"
    /\ ev = "InformationalResponse" => s.server = "SendResponse"

(* `ConnectionState::process_event` on an accepted event.                  *)
LEMMA EventIsQuiet ==
    ASSUME NEW s \in ConnState,
           NEW r \in Role, NEW ev \in StateEvent, NEW p \in SUBSET SwitchKind,
           Accepts(s, r, ev, p)
    PROVE  Moved(s, ProcessEvent(s, r, ev, p), ev, p)
<1> DEFINE a == Advance(s, r, ev, p)
<1>1. a \in ConnState
  BY AdvanceType
<1>2. Stabilize(a) = StabilizePass(a)
  BY <1>1, StabilizeIsPass
<1>3. CASE ev = "Request"
  <2>1. a.keep_alive = s.keep_alive /\ a.server = "SendResponse" /\ a.proposals = p
    BY <1>3, Zenon DEF Advance, Accepts, ServerAccepts, ConnState, Role
  <2> HIDE DEF a
  <2>2. Stabilize(a).server = "SendResponse" /\ Stabilize(a).keep_alive = a.keep_alive
        /\ Quiet(a, Stabilize(a))
    BY <1>1, <1>2, <2>1, PassIsQuiet
  <2> QED BY <1>3, <2>1, <2>2 DEF Moved, Quiet, ProcessEvent, a
<1>4. CASE ev = "ProtocolSwitch"
  <2>1. a.keep_alive = s.keep_alive /\ a.server = "SwitchedProtocol" /\ s.server = "SendResponse"
    BY <1>4, Zenon DEF Advance, Accepts, ClientAccepts, ServerAccepts, Target, ConnState, Role
  <2> HIDE DEF a
  <2>2. Stabilize(a).keep_alive = a.keep_alive /\ Stabilize(a).server = "SwitchedProtocol"
    BY <1>1, <1>2, <2>1, PassIsQuiet, PassKeepsBodies DEF Role
  <2> QED BY <1>4, <2>1, <2>2 DEF Moved, ProcessEvent, a
<1>5. CASE ev = "Response"
  <2>1. /\ s.server \in {"Idle", "SendResponse"} /\ a.server = "SendBody"
        /\ a.keep_alive <=> /\ s.keep_alive
                            /\ "Connect" \notin s.proposals
                            /\ s.server # "Idle"
    BY <1>5 DEF Advance, Accepts, ClientAccepts, ServerAccepts, Target, ConnState, Role
  <2> HIDE DEF a
  <2>2. Stabilize(a).keep_alive = a.keep_alive /\ Stabilize(a).server = "SendBody"
    BY <1>1, <1>2, <2>1, PassIsQuiet, PassKeepsBodies DEF Role
  <2> QED BY <1>5, <2>1, <2>2 DEF Moved, ProcessEvent, Quiet, a
<1>6. CASE ev \in {"InformationalResponse", "Data", "EndOfMessage", "ConnectionClosed"}
  <2>1. Quiet(s, a) /\ (ev = "InformationalResponse" => s.server = "SendResponse")
    BY <1>6 DEF Advance, Accepts, ClientAccepts, ServerAccepts, Target, ConnState, Role, Quiet
  <2> HIDE DEF a
  <2>2. Quiet(s, Stabilize(a))
    BY <1>1, <1>2, <2>1, PassIsQuiet, QuietTransitive
  <2> QED BY <1>6, <2>1, <2>2 DEF Moved, ProcessEvent, a
<1> QED BY <1>3, <1>4, <1>5, <1>6 DEF StateEvent

----------------------------------------------------------------------------
(* The account.                                                            *)

(* A step that moves the record quietly and negotiates nothing.            *)
QuietStep ==
    /\ Quiet(state, state')
    /\ request_kind' = request_kind
    /\ state'.server = "SendResponse"
         => UNCHANGED <<upgrade_proposals, continue_before_upgrade>>

(* A step that shows the observer no head.                                 *)
SameHeads ==
    /\ seen'.request = seen.request /\ seen'.requested = seen.requested
    /\ seen'.continued = seen.continued /\ seen'.answer = seen.answer
    /\ seen'.closing = seen.closing

(* The account of the heads survives such a step.                          *)
LEMMA QuietKeepsHeads ==
    ASSUME HeadAccount, QuietStep, SameHeads
    PROVE  HeadAccount'
<1>1. SwitchIsNegotiated'
  BY DEF HeadAccount, QuietStep, SameHeads, Quiet, SwitchIsNegotiated, AcceptsConnect,
         AnswersConnect
<1> QED BY <1>1 DEF HeadAccount, QuietStep, SameHeads, Quiet

(* What a call without head or body data returned is not recorded.         *)
LEMMA NothingRecorded ==
    ASSUME Observed,
           ret'.res \notin {"Request", "Response", "InformationalResponse", "Data"},
           ret'.call \notin {"send_request", "send_response", "send_informational_response",
                             "send_data", "start_next_cycle"}
    PROVE  seen' = seen
BY DEF Observed, Record

(* A framing that is no error is a body to be owed.                        *)
LEMMA OwedType ==
    ASSUME NEW m \in Message
    PROVE  /\ FramingOf(m).k # "Error" => FramingOf(m) \in Owed
           /\ ResponseFraming(m).k # "Error" => ResponseFraming(m) \in Owed
<1>1. FramingOf(m).k # "Error" => FramingOf(m) \in Framing
  BY FramingType
<1>2. FramingOf(m).k \notin {"Error", "Fixed"} => FramingOf(m).n = 0
  BY Zenon DEF FramingOf, LengthFraming, TransferFraming, FramingError, Fixed, Chunked
<1>3. FramingOf(m).k # "Error" => FramingOf(m) \in Owed
  BY <1>1, <1>2 DEF Owed
<1>4. CloseDelimited \in Owed
  BY DEF CloseDelimited, Owed, Framing
<1> QED BY <1>3, <1>4 DEF ResponseFraming

(* What a head adds to the account.                                        *)
LEMMA ObserveType ==
    ASSUME NEW h \in Account, NEW m \in Message
    PROVE  LET g == Observe(h, m) IN
           /\ g \in Account
           /\ g.received = h.received /\ g.sent = h.sent /\ g.open = h.open
           /\ IsRequest(m) => /\ g.request = m /\ g.requested
                              /\ g.continued = h.continued /\ g.answer = h.answer
                              /\ g.closing <=> h.closing \/ ~Persistent(m)
           /\ ~IsRequest(m) => /\ g.request = h.request /\ g.requested = h.requested
                               /\ g.answer = m
           /\ ~IsRequest(m) /\ IsInformational(m)
                => /\ g.continued <=> h.continued \/ m.status = 100
                   /\ g.closing = h.closing
           /\ ~IsRequest(m) /\ ~IsInformational(m)
                => /\ g.continued = h.continued
                   /\ g.closing <=> \/ h.closing
                                    \/ ~Persistent(m)
                                    \/ ~h.requested
                                    \/ AnswersConnect(h) /\ ~AcceptsConnect(h, m)
                                    \/ Announced(h, m) = CloseDelimited
<1>1. CASE IsRequest(m)
  <2>1. Observe(h, m) = [h EXCEPT !.request = m, !.requested = TRUE,
                                  !.closing = h.closing \/ ~Persistent(m)]
    BY <1>1 DEF Observe, Account
  <2>2. (h.closing \/ ~Persistent(m)) \in BOOLEAN
    BY Zenon
  <2> QED BY <1>1, <2>1, <2>2, Zenon DEF Account
<1>2. CASE ~IsRequest(m) /\ IsInformational(m)
  <2>1. Observe(h, m) = [h EXCEPT !.continued = h.continued \/ m.status = 100, !.answer = m]
    BY <1>2 DEF Observe, Account
  <2>2. (h.continued \/ m.status = 100) \in BOOLEAN
    BY Zenon
  <2> QED BY <1>2, <2>1, <2>2, ZenonT(60) DEF Account
<1>3. CASE ~IsRequest(m) /\ ~IsInformational(m)
  <2> DEFINE c == \/ h.closing
                  \/ ~Persistent(m)
                  \/ ~h.requested
                  \/ AnswersConnect(h) /\ ~AcceptsConnect(h, m)
                  \/ Announced(h, m) = CloseDelimited
  <2>1. Observe(h, m) = [h EXCEPT !.answer = m, !.closing = c]
    BY <1>3 DEF Observe, Account
  <2>2. c \in BOOLEAN
    BY Zenon
  <2>3. /\ [h EXCEPT !.answer = m, !.closing = c] \in Account
        /\ [h EXCEPT !.answer = m, !.closing = c].closing = c
    <3> HIDE DEF c
    <3> QED BY <2>2, Zenon DEF Account
  <2> QED BY <1>3, <2>1, <2>3, Zenon DEF Account
<1> QED BY <1>1, <1>2, <1>3, Zenon

----------------------------------------------------------------------------
(* The ways next_event returns, to the observer.                           *)

(* Piece r of a body is marked as the account says.                        *)
Marked(r) == /\ r.first = (seen.received.k = "Chunked" /\ ~seen.open)
             /\ r.last => seen.received.k = "Chunked"

Heard ==
    /\ HeadAccount'
    /\ seen' \in Account
    /\ ReaderAccount(reader', seen')
    /\ seen'.sent = seen.sent
    /\ ret'.call = "next_event"
    /\ ret'.res = "EndOfMessage" => seen' = seen /\ seen.received.n = 0 /\ ~seen.open
    /\ ret'.res = "Data" => Marked(ret')

(* A return that is not recorded only has to leave the reader in place.    *)
LEMMA QuietIsHeard ==
    ASSUME HInv, Observed, QuietStep, ret'.call = "next_event",
           ret'.res \in {"NeedData", "Paused", "ConnectionClosed", "RemoteError", "EndOfMessage"},
           ret'.res = "EndOfMessage" => seen.received.n = 0 /\ ~seen.open,
           ReaderAccount(reader', seen)
    PROVE  Heard
<1>1. seen' = seen
  BY NothingRecorded
<1>2. HeadAccount'
  BY <1>1, QuietKeepsHeads DEF HInv, SameHeads
<1> QED BY <1>1, <1>2 DEF Heard, HInv

(* See FailHereIsHeard; s is the record the error is met in.               *)
LEMMA FailIsHeard ==
    ASSUME role \in Role, HInv, Observed,
           NEW s \in ConnState, Quiet(state, s), NEW in, NEW rd, NEW pg, NEW status,
           Fail(s, in, rd, pg, status), ReaderAccount(rd, seen), request_kind' = request_kind,
           s.server = "SendResponse" => UNCHANGED <<upgrade_proposals, continue_before_upgrade>>
    PROVE  Heard
<1>1. /\ state' = ProcessError(s, PeerRole) /\ reader' = rd
      /\ ret'.call = "next_event" /\ ret'.res = "RemoteError"
  BY DEF Fail, Poll, Returned
<1>2. Quiet(s, state') /\ Quiet(state, state')
  BY <1>1, OperationsAreQuiet, TwoRoles, QuietTransitive
<1>3. QuietStep
  BY <1>2 DEF QuietStep, Quiet
<1> QED BY <1>1, <1>3, QuietIsHeard

(* An error is not recorded.                                               *)
LEMMA FailHereIsHeard ==
    ASSUME role \in Role, HInv, Observed,
           NEW in, NEW rd, NEW pg, NEW status,
           FailHere(in, rd, pg, status), ReaderAccount(rd, seen)
    PROVE  Heard
<1>1. Fail(state, in, rd, pg, status) /\ UNCHANGED negotiation
  BY DEF FailHere
<1>2. state \in ConnState /\ Quiet(state, state)
  BY DEF HInv, CInv, TypeOK, Quiet
<1> QED BY <1>1, <1>2, FailIsHeard DEF negotiation

(* Neither is a poll that moves nothing.                                   *)
LEMMA IdlePollIsHeard ==
    ASSUME HInv, Observed, NEW in, NEW rd, NEW pg,
           NEW res \in {"NeedData", "Paused", "ConnectionClosed"},
           Poll(state, in, rd, pg, Returned("next_event", res)), UNCHANGED negotiation,
           ReaderAccount(rd, seen)
    PROVE  Heard
<1>1. /\ state' = state /\ reader' = rd
      /\ ret'.call = "next_event" /\ ret'.res = res
  BY DEF Poll, Returned
<1>2. QuietStep
  BY <1>1 DEF QuietStep, Quiet, negotiation
<1> QED BY <1>1, <1>2, QuietIsHeard

(* Waiting for data, or failing for the lack of it, is not recorded.       *)
LEMMA NeedDataOrEofIsHeard ==
    ASSUME role \in Role, HInv, Observed, NEW in, NEW rd, NEW pg,
           NeedDataOrEof(in, rd, pg), ReaderAccount(rd, seen)
    PROVE  Heard
<1>1. CASE eof
  BY <1>1, FailHereIsHeard DEF NeedDataOrEof
<1>2. CASE ~eof
  BY <1>2, IdlePollIsHeard DEF NeedDataOrEof
<1> QED BY <1>1, <1>2

(* Neither is waiting for the end of a section.                            *)
LEMMA WaitForSectionIsHeard ==
    ASSUME role \in Role, HInv, Observed, NEW in, NEW rd, NEW pg, NEW skip,
           WaitForSection(in, rd, pg, skip), ReaderAccount(rd, seen)
    PROVE  Heard
<1>1. CASE Len(in) > MaxHead
  BY <1>1, FailHereIsHeard DEF WaitForSection
<1>2. CASE ~(Len(in) > MaxHead)
  BY <1>2, NeedDataOrEofIsHeard, Zenon DEF WaitForSection
<1> QED BY <1>1, <1>2

(* An accepted event of the peer that is no head is a quiet step.          *)
LEMMA PeerEventIsQuiet ==
    ASSUME role \in Role, HInv, NEW ev \in {"Data", "EndOfMessage", "ConnectionClosed"},
           PeerAccepts(ev)
    PROVE  Quiet(state, AdvancePeer(ev))
<1>1. state \in ConnState /\ {} \in SUBSET SwitchKind /\ ev \in StateEvent
  BY DEF HInv, CInv, TypeOK, StateEvent
<1>2. Moved(state, AdvancePeer(ev), ev, {})
  BY <1>1, EventIsQuiet, TwoRoles, Zenon DEF PeerAccepts, AdvancePeer
<1> QED BY <1>2 DEF Moved

(* In a body the peer's data and its end are accepted.                     *)
LEMMA BodyIsAccepted ==
    ASSUME role \in Role, peer_state = "SendBody"
    PROVE  PeerAccepts("Data") /\ PeerAccepts("EndOfMessage")
BY TwoRoles DEF PeerAccepts, Accepts, ClientAccepts, ServerAccepts, peer_state, Role

(* The account behind a piece of count units.                              *)
Less(count, first, last) ==
    [seen EXCEPT !.received = Deduct(@, count), !.open = (@ \/ first) /\ ~last]

(* A piece of a body is deducted from what is owed; the reader it leaves   *)
(* has to agree with the rest.                                             *)
LEMMA PeerDataIsHeard ==
    ASSUME role \in Role, HInv, Observed, peer_state = "SendBody",
           NEW in \in Seq(Unit), NEW count \in 0..Len(in), NEW rd, NEW first, NEW last,
           PeerData(in, count, rd, first, last),
           first = (seen.received.k = "Chunked" /\ ~seen.open),
           last => seen.received.k = "Chunked",
           Deduct(seen.received, count) \in Owed,
           ReaderAccount(rd, Less(count, first, last))
    PROVE  Heard
<1>1. /\ state' = AdvancePeer("Data") /\ reader' = rd
      /\ ret' = [Returned("next_event", "Data")
                   EXCEPT !.out = SubSeq(in, 1, count), !.first = first, !.last = last]
      /\ UNCHANGED <<request_kind, upgrade_proposals, continue_before_upgrade>>
  BY BodyIsAccepted DEF PeerData, Poll
<1>2. /\ ret'.call = "next_event" /\ ret'.res = "Data" /\ ret'.out = SubSeq(in, 1, count)
      /\ ret'.first = first /\ ret'.last = last
  BY <1>1 DEF Returned
<1>3. Len(ret'.out) = count
  BY <1>2
<1>4. seen' = Less(count, first, last)
  BY <1>2, <1>3, Zenon DEF Observed, Record, Less
<1>5. seen \in Account /\ ((seen.open \/ first) /\ ~last) \in BOOLEAN
  BY Zenon DEF HInv
<1>6. seen' \in Account /\ SameHeads /\ seen'.sent = seen.sent
  BY <1>4, <1>5, Zenon DEF Less, Account, SameHeads
<1>7. QuietStep
  BY <1>1, BodyIsAccepted, PeerEventIsQuiet DEF QuietStep
<1>8. HeadAccount'
  BY <1>6, <1>7, QuietKeepsHeads DEF HInv
<1> QED BY <1>1, <1>2, <1>4, <1>6, <1>8 DEF Heard, Marked

(* The end of a message is heard when nothing is owed and no chunk is open.*)
LEMMA FinishPeerIsHeard ==
    ASSUME role \in Role, HInv, Observed, peer_state = "SendBody", NEW in, NEW pg,
           FinishPeer(in, pg), seen.received.n = 0, ~seen.open
    PROVE  Heard
<1>1. /\ state' = AdvancePeer("EndOfMessage") /\ reader' = ReaderAt("Head")
      /\ ret' = Returned("next_event", "EndOfMessage")
      /\ UNCHANGED negotiation
  BY BodyIsAccepted DEF FinishPeer, Poll
<1>2. /\ ret'.call = "next_event" /\ ret'.res = "EndOfMessage"
      /\ ReaderAccount(reader', seen)
  BY <1>1 DEF Returned, ReaderAccount, ReaderAt
<1>3. QuietStep
  BY <1>1, BodyIsAccepted, PeerEventIsQuiet DEF QuietStep, negotiation
<1> QED BY <1>2, <1>3, QuietIsHeard

(* The end of the connection between messages is not recorded.             *)
LEMMA PeerClosedIsHeard ==
    ASSUME role \in Role, HInv, Observed, PeerClosed
    PROVE  Heard
<1>1. ReaderAccount(reader, seen)
  BY DEF HInv
<1>2. CASE PeerAccepts("ConnectionClosed")
  <2>1. /\ state' = AdvancePeer("ConnectionClosed") /\ reader' = reader
        /\ ret' = Returned("next_event", "ConnectionClosed")
        /\ UNCHANGED negotiation
    BY <1>2 DEF PeerClosed, Poll
  <2>2. ret'.call = "next_event" /\ ret'.res = "ConnectionClosed"
    BY <2>1 DEF Returned
  <2>3. QuietStep
    BY <1>2, <2>1, PeerEventIsQuiet DEF QuietStep, negotiation
  <2> QED BY <1>1, <2>1, <2>2, <2>3, QuietIsHeard
<1>3. CASE ~PeerAccepts("ConnectionClosed")
  BY <1>1, <1>3, FailHereIsHeard DEF PeerClosed
<1> QED BY <1>2, <1>3

----------------------------------------------------------------------------
(* Bodies, to the observer.                                                *)

(* A body of declared length delivers no more than it owes, and ends when  *)
(* it owes nothing.                                                        *)
LEMMA ReadFixedIsHeard ==
    ASSUME role \in Role, HInv, Observed, peer_state = "SendBody",
           reader.k = "Fixed", ReadFixed
    PROVE  Heard
<1> DEFINE count == Smaller(reader.n, Len(input))
<1>0. /\ input \in Seq(Unit) /\ reader.n \in Nat /\ ReaderAccount(reader, seen)
      /\ seen \in Account
  BY DEF HInv, CInv, TypeOK, Reader
<1>1. seen.received = Fixed(reader.n) /\ ~seen.open
  BY <1>0 DEF ReaderAccount
<1>2. count \in 0..Len(input) /\ reader.n - count \in Nat
  BY <1>0, SmallerType, Zenon
<1>3. CASE reader.n = 0
  BY <1>1, <1>3, FinishPeerIsHeard DEF ReadFixed, Fixed
<1>4. CASE reader.n # 0 /\ count = 0
  BY <1>0, <1>4, NeedDataOrEofIsHeard DEF ReadFixed
<1>5. CASE reader.n # 0 /\ count # 0
  <2>1. PeerData(input, count, FixedReader(reader.n - count), FALSE, FALSE)
    BY <1>5, Zenon DEF ReadFixed
  <2> HIDE DEF count
  <2>2. /\ seen.received.k = "Fixed"
        /\ Deduct(seen.received, count) = Fixed(reader.n - count)
    BY <1>1 DEF Deduct, Fixed
  <2>3. Deduct(seen.received, count) \in Owed
    BY <1>2, <2>2 DEF Owed, Framing, Fixed
  <2>4. ReaderAccount(FixedReader(reader.n - count), Less(count, FALSE, FALSE))
    BY <1>0, <1>1, <2>2 DEF ReaderAccount, FixedReader, Less, Account
  <2> QED BY <1>0, <1>2, <2>1, <2>2, <2>3, <2>4, PeerDataIsHeard, Zenon
<1> QED BY <1>3, <1>4, <1>5

(* A close-delimited body has no marks and owes nothing.                   *)
LEMMA ReadToCloseIsHeard ==
    ASSUME role \in Role, HInv, Observed, peer_state = "SendBody",
           reader.k = "CloseDelimited", ReadToClose
    PROVE  Heard
<1>0. /\ input \in Seq(Unit) /\ Len(input) \in 0..Len(input)
      /\ ReaderAccount(reader, seen) /\ seen \in Account
  BY DEF HInv, CInv, TypeOK
<1>1. seen.received = CloseDelimited /\ ~seen.open
  BY <1>0 DEF ReaderAccount
<1>2. CASE input # <<>>
  <2>1. PeerData(input, Len(input), reader, FALSE, FALSE)
    BY <1>2, Zenon DEF ReadToClose
  <2>2. /\ seen.received.k # "Chunked"
        /\ Deduct(seen.received, Len(input)) = seen.received
    BY <1>1 DEF Deduct, CloseDelimited
  <2>3. Deduct(seen.received, Len(input)) \in Owed
    BY <1>0, <2>2 DEF Account
  <2>4. ReaderAccount(reader, Less(Len(input), FALSE, FALSE))
    BY <1>0, <1>1, <2>2 DEF ReaderAccount, Less, Account
  <2> QED BY <1>0, <2>1, <2>2, <2>3, <2>4, PeerDataIsHeard, Zenon
<1>3. CASE input = <<>> /\ eof
  BY <1>1, <1>3, FinishPeerIsHeard DEF ReadToClose, CloseDelimited
<1>4. CASE input = <<>> /\ ~eof
  BY <1>0, <1>4, IdlePollIsHeard DEF ReadToClose, Stay
<1> QED BY <1>2, <1>3, <1>4

(* A trailer section ends a message with no chunk open.                    *)
LEMMA ReadTrailersIsHeard ==
    ASSUME role \in Role, HInv, Observed, peer_state = "SendBody",
           seen.received = Chunked, ~seen.open, NEW in, NEW pg, ReadTrailers(in, pg)
    PROVE  Heard
<1> DEFINE rd == ReaderAt("Trailers")
<1>0. ReaderAccount(rd, seen)
  BY DEF ReaderAccount, ReaderAt
<1>1. \/ WaitForSection(in, rd, pg, FALSE)
      \/ FailHere(in, rd, pg, 400)
      \/ \E i \in CompleteTrailers(in, role = "client") : FinishPeer(Rest(in, i), FALSE)
  BY Zenon DEF ReadTrailers
<1>2. seen.received.n = 0
  BY DEF Chunked
<1> HIDE DEF rd
<1>3. CASE \E i \in CompleteTrailers(in, role = "client") : FinishPeer(Rest(in, i), FALSE)
  BY <1>2, <1>3, FinishPeerIsHeard, Zenon
<1> QED BY <1>0, <1>1, <1>3, WaitForSectionIsHeard, FailHereIsHeard, Zenon

(* A piece of a chunk is its first exactly if no piece came before it, and *)
(* its last exactly if the chunk is complete.                              *)
LEMMA ReadChunkDataIsHeard ==
    ASSUME role \in Role, HInv, Observed, peer_state = "SendBody",
           NEW in \in Seq(Unit), NEW n \in Nat, NEW first \in BOOLEAN,
           seen.received = Chunked, seen.open <=> ~first, ReadChunkData(in, n, first)
    PROVE  Heard
<1> DEFINE count == Smaller(n, Len(in))
           rd == IF count = n THEN ReaderAt("DataEnd") ELSE DataReader(n - count, FALSE)
           last == count = n
<1>0. seen \in Account /\ ReaderAccount(DataReader(n, first), seen)
  BY DEF HInv, ReaderAccount, DataReader
<1>1. count \in 0..Len(in)
  BY SmallerType
<1>2. CASE NeedDataOrEof(in, DataReader(n, first), progress)
  BY <1>0, <1>2, NeedDataOrEofIsHeard
<1>3. CASE PeerData(in, count, rd, first, last)
  <2>1. /\ seen.received.k = "Chunked"
        /\ Deduct(seen.received, count) = Chunked
    BY DEF Deduct, Chunked
  <2>2. Chunked \in Owed
    BY <1>0 DEF Account
  <2>3. ReaderAccount(rd, Less(count, first, last))
    <3>1. CASE count = n
      BY <1>0, <2>1, <3>1 DEF ReaderAccount, ReaderAt, Less, Account
    <3>2. CASE count # n
      BY <1>0, <2>1, <3>2 DEF ReaderAccount, DataReader, Less, Account
    <3> QED BY <3>1, <3>2, Zenon
  <2>4. first = (seen.received.k = "Chunked" /\ ~seen.open)
    BY <1>0, <2>1 DEF Account
  <2> HIDE DEF count, rd, last
  <2> QED BY <1>1, <1>3, <2>1, <2>2, <2>3, <2>4, PeerDataIsHeard
<1> QED BY <1>2, <1>3, Zenon DEF ReadChunkData

(* A chunk line comes with no chunk open.                                  *)
LEMMA ReadSizeIsHeard ==
    ASSUME role \in Role, HInv, Observed, peer_state = "SendBody",
           seen.received = Chunked, ~seen.open, NEW in \in Seq(Unit), ReadSize(in)
    PROVE  Heard
<1> DEFINE rd == ReaderAt("Size")
<1>0. ReaderAccount(rd, seen)
  BY DEF ReaderAccount, ReaderAt
<1>1. \/ FailHere(in, rd, progress, 400)
      \/ NeedDataOrEof(in, rd, progress)
      \/ \E i \in LineEnds(in) : \/ ReadTrailers(Rest(in, i), FALSE)
                                  \/ ReadChunkData(Rest(in, i), in[i].n, TRUE)
  BY Zenon DEF ReadSize
<1> HIDE DEF rd
<1>2. ASSUME NEW i \in LineEnds(in),
             \/ ReadTrailers(Rest(in, i), FALSE)
             \/ ReadChunkData(Rest(in, i), in[i].n, TRUE)
      PROVE  Heard
  <2>1. i \in 0..Len(in) /\ in[i] \in Unit
    BY DEF LineEnds
  <2>2. Rest(in, i) \in Seq(Unit) /\ in[i].n \in Nat
    BY <2>1, RestType, Zenon DEF Unit
  <2> QED BY <1>2, <2>2, ReadTrailersIsHeard, ReadChunkDataIsHeard, Zenon
<1> QED BY <1>0, <1>1, <1>2, FailHereIsHeard, NeedDataOrEofIsHeard, Zenon

(* The line end behind a chunk comes when its last piece was delivered.    *)
LEMMA ReadDataEndIsHeard ==
    ASSUME role \in Role, HInv, Observed, peer_state = "SendBody",
           reader.k = "DataEnd", ReadDataEnd
    PROVE  Heard
<1>0. input \in Seq(Unit) /\ ReaderAccount(reader, seen)
  BY DEF HInv, CInv, TypeOK
<1>1. seen.received = Chunked /\ ~seen.open
  BY <1>0 DEF ReaderAccount
<1>2. CASE input = <<>>
  BY <1>0, <1>2, NeedDataOrEofIsHeard DEF ReadDataEnd
<1>3. CASE input # <<>> /\ input[1].t # "crlf"
  BY <1>0, <1>3, FailHereIsHeard DEF ReadDataEnd
<1>4. CASE input # <<>> /\ input[1].t = "crlf"
  <2>1. Rest(input, 1) \in Seq(Unit)
    BY <1>0, <1>4, RestType
  <2> QED BY <1>1, <1>4, <2>1, ReadSizeIsHeard DEF ReadDataEnd
<1> QED BY <1>2, <1>3, <1>4

----------------------------------------------------------------------------
(* Heads, received or sent.  r is the actor whose head it is.              *)

(* A request opens the cycle of the account and of the record together;    *)
(* u are the protocols it proposes.                                        *)
LEMMA RequestKeepsHeads ==
    ASSUME HInv, NEW r \in Role, NEW m \in Message, IsRequest(m),
           NEW u \in SUBSET m.upgrade, Proposals(m, u) \in SUBSET SwitchKind,
           Accepts(state, r, "Request", Proposals(m, u)),
           state' = ApplyPersistence(ProcessEvent(state, r, "Request", Proposals(m, u)), m),
           request_kind' = m.kind, upgrade_proposals' = u,
           ExpectsContinue(m, FramingOf(m)) /\ u # {} => continue_before_upgrade',
           seen'.request = m, seen'.requested,
           seen'.closing <=> seen.closing \/ ~Persistent(m)
    PROVE  HeadAccount'
<1> DEFINE p == Proposals(m, u)
           s == ProcessEvent(state, r, "Request", p)
<1>1. state \in ConnState
  BY Zenon DEF HInv, CInv, TypeOK
<1>0. "Request" \in StateEvent
  BY Zenon DEF StateEvent
<1>3. s \in ConnState
  BY <1>0, <1>1, EventMoves, Zenon
<1>a. Moved(state, s, "Request", p)
  BY <1>0, <1>1, EventIsQuiet, Zenon
<1>4. "Connect" \in p <=> m.kind = "Connect"
  BY DEF Proposals
<1>5. m.kind # None
  BY Zenon DEF Message, IsRequest, None
<1> HIDE DEF p, s
<1>2. /\ s.keep_alive => state.keep_alive
      /\ s.server = "SendResponse" /\ s.proposals = p
  BY <1>a DEF Moved
<1>6. /\ Quiet(s, state')
      /\ ~Persistent(m) => ~state'.keep_alive
  BY <1>3, PersistenceIsQuiet DEF s, p
<1>7. seen'.closing => ~state'.keep_alive
  BY <1>2, <1>6, Zenon DEF HInv, HeadAccount, Quiet
<1>8. /\ state'.server \notin {"Idle", "SwitchedProtocol"}
      /\ state'.server = "SendResponse" => state'.proposals = p
  BY <1>2, <1>6, Zenon DEF Quiet
<1>9. SwitchIsNegotiated'
  BY <1>8, Zenon DEF SwitchIsNegotiated
<1> QED BY <1>4, <1>5, <1>7, <1>8, <1>9, Zenon DEF HeadAccount

(* An informational head changes nothing the account holds but the pending *)
(* 100 Continue; 101 is a switch on the terms of the request.              *)
LEMMA InformationalKeepsHeads ==
    ASSUME HInv, NEW r \in Role, NEW m \in Message,
           Accepts(state, r, InformationalEvent(m), InformationalSwitch(m)),
           m.status = 101 => ~continue_before_upgrade /\ ValidUpgradeResponse(m),
           state' = ProcessEvent(state, r, InformationalEvent(m), InformationalSwitch(m)),
           continue_before_upgrade /\ m.status # 100 => continue_before_upgrade',
           UNCHANGED <<request_kind, upgrade_proposals>>,
           seen'.request = seen.request, seen'.requested = seen.requested,
           seen'.answer = m, seen'.closing = seen.closing,
           seen'.continued <=> seen.continued \/ m.status = 100
    PROVE  HeadAccount'
<1> DEFINE ev == InformationalEvent(m)
           p == InformationalSwitch(m)
<1>1. /\ state \in ConnState /\ p \in SUBSET SwitchKind /\ ev \in StateEvent
      /\ ev = IF m.status = 101 THEN "ProtocolSwitch" ELSE "InformationalResponse"
  BY DEF HInv, CInv, TypeOK, InformationalEvent, InformationalSwitch, SwitchKind, StateEvent
<1> HIDE DEF ev, p
<1>a. Moved(state, state', ev, p)
  BY <1>1, EventIsQuiet, Zenon DEF ev, p
<1>2. /\ ev = "InformationalResponse" => Quiet(state, state')
      /\ state'.keep_alive => state.keep_alive
      /\ state.server = "SendResponse"
      /\ ev = "ProtocolSwitch" => state'.server = "SwitchedProtocol"
  BY <1>1, <1>a, Zenon DEF Moved, Quiet
<1>3. /\ seen.requested
      /\ upgrade_proposals \subseteq seen.request.upgrade
      /\ /\ upgrade_proposals # {}
         /\ ExpectsContinue(seen.request, FramingOf(seen.request))
         => seen.continued \/ continue_before_upgrade
  BY <1>2, Zenon DEF HInv, HeadAccount
<1>4. CASE m.status = 101
  <2>1. /\ m.upgrade # {} /\ m.upgrade \subseteq upgrade_proposals
        /\ state'.server = "SwitchedProtocol"
    BY <1>1, <1>2, <1>4, Zenon DEF ValidUpgradeResponse
  <2>2. SwitchIsNegotiated'
    BY <1>3, <1>4, <2>1, Zenon DEF SwitchIsNegotiated
  <2> QED BY <1>2, <2>1, <2>2, ZenonT(60) DEF HInv, HeadAccount
<1>5. CASE m.status # 101
  <2>1. Quiet(state, state')
    BY <1>1, <1>2, <1>5
  <2>2. SwitchIsNegotiated'
    BY <1>2, <2>1, Zenon DEF SwitchIsNegotiated, Quiet
  <2> QED BY <1>2, <1>3, <2>1, <2>2, ZenonT(60) DEF HInv, HeadAccount, Quiet
<1> QED BY <1>4, <1>5

(* A final head ends the wait for it.  What the observer takes for the end *)
(* of reuse (a response before its request, a denied CONNECT) the record   *)
(* gives up keep-alive for; w is the head as it is on the wire.            *)
LEMMA FinalKeepsHeads ==
    ASSUME HInv, NEW r \in Role, NEW m \in Message, NEW w, w.status = m.status,
           Accepts(state, r, FinalEvent(m), FinalSwitch(m)),
           Quiet(ProcessEvent(state, r, FinalEvent(m), FinalSwitch(m)), state'),
           ~Persistent(w) \/ Announced(seen, w) = CloseDelimited => ~state'.keep_alive,
           request_kind' = request_kind,
           seen'.request = seen.request, seen'.requested = seen.requested, seen'.answer = w,
           seen'.closing <=> \/ seen.closing
                             \/ ~Persistent(w)
                             \/ ~seen.requested
                             \/ AnswersConnect(seen) /\ ~AcceptsConnect(seen, w)
                             \/ Announced(seen, w) = CloseDelimited
    PROVE  HeadAccount'
<1> DEFINE ev == FinalEvent(m)
           p == FinalSwitch(m)
           q == ProcessEvent(state, r, ev, p)
<1>1. /\ state \in ConnState /\ p \in SUBSET SwitchKind /\ ev \in StateEvent
      /\ ev = IF SwitchesByConnect(m) THEN "ProtocolSwitch" ELSE "Response"
  BY Zenon DEF HInv, CInv, TypeOK, FinalEvent, FinalSwitch, SwitchKind, StateEvent
<1>a. Moved(state, q, ev, p)
  BY <1>1, EventIsQuiet, Zenon
<1> HIDE DEF ev, p, q
<1>2. /\ q.keep_alive => state.keep_alive
      /\ ev = "ProtocolSwitch" => /\ state.server = "SendResponse"
                                  /\ q.server = "SwitchedProtocol"
      /\ ev = "Response" => /\ state.server \in {"Idle", "SendResponse"}
                            /\ q.server = "SendBody"
                            /\ q.keep_alive => /\ "Connect" \notin state.proposals
                                               /\ state.server # "Idle"
  BY <1>1, <1>a, Zenon DEF Moved, Quiet
<1>3. Quiet(q, state')
  BY Zenon DEF q, ev, p
<1>4. AcceptsConnect(seen, w) <=> SwitchesByConnect(m)
  BY Zenon DEF HInv, HeadAccount, AcceptsConnect, AnswersConnect, SwitchesByConnect, None
<1>5. ~seen.requested => ~q.keep_alive
  BY <1>1, <1>2, Zenon DEF HInv, HeadAccount
<1>6. AnswersConnect(seen) /\ ~AcceptsConnect(seen, w) => ~q.keep_alive
  BY <1>1, <1>2, <1>4, Zenon DEF HInv, HeadAccount, AnswersConnect
<1>7. seen'.closing => ~state'.keep_alive
  BY <1>2, <1>3, <1>5, <1>6, Zenon DEF HInv, HeadAccount, Quiet
<1>8. /\ state'.server \notin {"Idle", "SendResponse"}
      /\ state'.server = "SwitchedProtocol" => SwitchesByConnect(m)
  BY <1>1, <1>2, <1>3, Zenon DEF Quiet
<1>9. SwitchIsNegotiated'
  BY <1>4, <1>8, Zenon DEF SwitchIsNegotiated, AcceptsConnect, AnswersConnect
<1> QED BY <1>7, <1>8, <1>9, Zenon DEF HInv, HeadAccount

(* The reader of a framing stands at the beginning of its body.            *)
LEMMA ReaderForAccount ==
    ASSUME NEW f \in Owed, NEW h, h.received = f, ~h.open
    PROVE  ReaderAccount(ReaderFor(f), h)
<1>1. CASE f.k = "Fixed"
  BY <1>1 DEF Owed, Framing, ReaderAccount, ReaderFor, FixedReader, Fixed
<1>2. CASE f.k = "Chunked"
  BY <1>2 DEF Owed, Framing, ReaderAccount, ReaderFor, ReaderAt, Chunked
<1>3. CASE f.k = "CloseDelimited"
  BY <1>3 DEF Owed, Framing, ReaderAccount, ReaderFor, ReaderAt, CloseDelimited
<1> QED BY <1>1, <1>2, <1>3 DEF Owed, Framing

(* `accept_request` shows the observer the head whose terms it stores.     *)
LEMMA AcceptRequestIsHeard ==
    ASSUME role \in Role, HInv, Observed, NEW m \in Message, IsRequest(m), NEW in,
           AcceptRequest(m, in)
    PROVE  Heard
<1> DEFINE f == FramingOf(m)
           u == ProposedUpgrades(m)
           p == Proposals(m, u)
           g == Observe(seen, m)
           Taken == m.ok /\ f.k # "Error" /\ Accepts(state, PeerRole, "Request", p)
<1>1. ReaderAccount(reader, seen) /\ seen \in Account
  BY DEF HInv
<1>2. CASE ~Taken
  <2>1. PICK status : FailHere(in, reader, FALSE, status)
    BY <1>2, Zenon DEF AcceptRequest
  <2> QED BY <1>1, <2>1, FailHereIsHeard, Zenon
<1>3. CASE Taken
  <2>1. /\ state' = ApplyPersistence(ProcessEvent(state, PeerRole, "Request", p), m)
        /\ reader' = ReaderFor(f)
        /\ ret' = [Returned("next_event", "Request") EXCEPT !.m = m]
        /\ request_kind' = m.kind
        /\ waiting_for_continue' = ExpectsContinue(m, f)
        /\ continue_before_upgrade' = (waiting_for_continue' /\ u # {})
        /\ upgrade_proposals' = u
    BY <1>3 DEF AcceptRequest, Poll
  <2>2. ret'.call = "next_event" /\ ret'.res = "Request" /\ ret'.m = m
    BY <2>1 DEF Returned
  <2>3. seen' = [g EXCEPT !.received = f, !.open = FALSE]
    BY <2>2 DEF Observed, Record, Announced
  <2>4. /\ g \in Account /\ g.sent = seen.sent /\ g.request = m /\ g.requested
        /\ g.closing <=> seen.closing \/ ~Persistent(m)
    BY <1>1, ObserveType, Zenon
  <2>5. f \in Owed
    BY <1>3, OwedType
  <2> HIDE DEF g
  <2>6. /\ seen' \in Account /\ seen'.sent = seen.sent /\ seen'.request = m /\ seen'.requested
        /\ seen'.closing <=> seen.closing \/ ~Persistent(m)
        /\ seen'.received = f /\ ~seen'.open
    BY <2>3, <2>4, <2>5, Zenon DEF Account
  <2>7. u \in SUBSET m.upgrade /\ p \in SUBSET SwitchKind
    BY ProposalsType DEF ProposedUpgrades
  <2>8. ExpectsContinue(m, f) /\ u # {} => continue_before_upgrade'
    BY <2>1, Zenon
  <2>9. HeadAccount'
    BY <1>3, <2>1, <2>6, <2>7, <2>8, RequestKeepsHeads, TwoRoles
  <2>10. ReaderAccount(reader', seen')
    BY <2>1, <2>5, <2>6, ReaderForAccount
  <2> QED BY <2>2, <2>6, <2>9, <2>10 DEF Heard
<1> QED BY <1>2, <1>3

(* An informational response is heard as it was negotiated.                *)
LEMMA AcceptInformationalIsHeard ==
    ASSUME role \in Role, HInv, Observed, NEW m \in Message, ~IsRequest(m), IsInformational(m),
           NEW in, AcceptInformational(m, in)
    PROVE  Heard
<1> DEFINE Refused == \/ m.status = 101 /\ (continue_before_upgrade \/ ~ValidUpgradeResponse(m))
                      \/ ~Accepts(state, PeerRole, InformationalEvent(m), InformationalSwitch(m))
<1>1. ReaderAccount(reader, seen) /\ seen \in Account
  BY DEF HInv
<1>2. CASE Refused
  BY <1>1, <1>2, FailHereIsHeard, Zenon DEF AcceptInformational
<1>3. CASE ~Refused
  <2>1. /\ state' = ProcessEvent(state, PeerRole, InformationalEvent(m), InformationalSwitch(m))
        /\ reader' = reader
        /\ ret' = [Returned("next_event", "InformationalResponse") EXCEPT !.m = m]
        /\ continue_before_upgrade' = (continue_before_upgrade /\ m.status # 100)
        /\ UNCHANGED <<request_kind, upgrade_proposals>>
    BY <1>3 DEF AcceptInformational, Poll
  <2>2. ret'.call = "next_event" /\ ret'.res = "InformationalResponse" /\ ret'.m = m
    BY <2>1 DEF Returned
  <2>3. seen' = Observe(seen, m)
    BY <2>2 DEF Observed, Record
  <2>4. /\ seen' \in Account /\ seen'.sent = seen.sent
        /\ seen'.received = seen.received /\ seen'.open = seen.open
        /\ seen'.request = seen.request /\ seen'.requested = seen.requested
        /\ seen'.answer = m /\ seen'.closing = seen.closing
        /\ seen'.continued <=> seen.continued \/ m.status = 100
    BY <1>1, <2>3, ObserveType, ZenonT(60)
  <2>5. continue_before_upgrade /\ m.status # 100 => continue_before_upgrade'
    BY <2>1, Zenon
  <2>6. HeadAccount'
    BY <1>3, <2>1, <2>4, <2>5, InformationalKeepsHeads, TwoRoles
  <2>7. ReaderAccount(reader', seen')
    BY <1>1, <2>1, <2>4 DEF ReaderAccount
  <2> QED BY <2>2, <2>4, <2>6, <2>7 DEF Heard
<1> QED BY <1>2, <1>3

(* The framing a response is read or written with is the one the observer  *)
(* expects of it: both know the method it answers.                         *)
LEMMA BodyIsAnnounced ==
    ASSUME HInv, NEW m
    PROVE  HasNoBody(m) <=> \/ m.status \in {204, 304}
                            \/ AnswersHead(seen)
                            \/ AcceptsConnect(seen, m)
BY DEF HInv, HeadAccount, HasNoBody, SwitchesByConnect, AnswersHead, AcceptsConnect,
       AnswersConnect, None

(* Only the server accepts a final head.                                   *)
LEMMA ResponderIsServer ==
    ASSUME NEW r \in Role, NEW m, Accepts(state, r, FinalEvent(m), FinalSwitch(m))
    PROVE  r = "server"
BY DEF Accepts, ClientAccepts, FinalEvent, Role

(* A final response is heard with the body it announces; one that cannot   *)
(* be framed is not heard at all.                                          *)
LEMMA AcceptFinalIsHeard ==
    ASSUME role \in Role, HInv, Observed, NEW m \in Message, ~IsRequest(m), ~IsInformational(m),
           NEW in, AcceptFinal(m, in)
    PROVE  Heard
<1> DEFINE f == IF HasNoBody(m) THEN Fixed(0) ELSE ResponseFraming(m)
           q == ProcessEvent(state, PeerRole, FinalEvent(m), FinalSwitch(m))
           s == ApplyPersistence(q, m)
           t == IF f = CloseDelimited THEN DisableKeepAlive(s) ELSE s
           g == Observe(seen, m)
           Taken == Accepts(state, PeerRole, FinalEvent(m), FinalSwitch(m))
<1>1. ReaderAccount(reader, seen) /\ seen \in Account /\ state \in ConnState /\ TypeOK
  BY DEF HInv, CInv, TypeOK
<1>2. CASE ~Taken
  BY <1>1, <1>2, FailHereIsHeard, Zenon DEF AcceptFinal
<1>3. CASE Taken
  <2>1. /\ f.k = "Error" => Fail(s, in, reader, FALSE, f.n)
        /\ f.k # "Error" => Poll(t, in, ReaderFor(f), FALSE,
                                 [Returned("next_event", "Response") EXCEPT !.m = m])
        /\ request_kind' = request_kind
    BY <1>3, Zenon DEF AcceptFinal
  <2>2. /\ FinalEvent(m) \in {"ProtocolSwitch", "Response"} /\ FinalSwitch(m) \in SUBSET SwitchKind
        /\ FinalEvent(m) \in StateEvent
    BY DEF FinalEvent, FinalSwitch, SwitchKind, StateEvent
  <2>3. q \in ConnState
    BY <1>1, <1>3, <2>2, EventMoves, TwoRoles
  <2>a. Moved(state, q, FinalEvent(m), FinalSwitch(m))
    BY <1>1, <1>3, <2>2, EventIsQuiet, TwoRoles, Zenon
  <2> HIDE DEF q
  <2>4. q.server \in {"SendBody", "SwitchedProtocol"} /\ (q.keep_alive => state.keep_alive)
    BY <2>2, <2>a DEF Moved, Quiet
  <2>5. s \in ConnState /\ Quiet(q, s) /\ (~Persistent(m) => ~s.keep_alive)
    <3>1. Quiet(q, s) /\ (~Persistent(m) => ~s.keep_alive)
      BY <2>3, PersistenceIsQuiet
    <3>2. s \in ConnState
      BY <2>3, OperationTypes DEF ApplyPersistence, Role
    <3> QED BY <3>1, <3>2
  <2> HIDE DEF s
  <2>6. CASE f.k = "Error"
    <3>1. /\ state' = ProcessError(s, PeerRole) /\ reader' = reader
          /\ ret'.call = "next_event" /\ ret'.res = "RemoteError"
      BY <2>1, <2>6 DEF Fail, Poll, Returned
    <3>2. state'.keep_alive => state.keep_alive
      BY <2>4, <2>5, <3>1, OperationsAreQuiet, TwoRoles DEF Quiet
    <3>3. state'.server = "Error"
      BY <2>5, <3>1, <1>3, OperationTypes, TwoRoles, ResponderIsServer
    <3>4. QuietStep
      BY <2>1, <3>2, <3>3 DEF QuietStep, Quiet
    <3> QED BY <1>1, <3>1, <3>4, QuietIsHeard
  <2>7. CASE f.k # "Error"
    <3>1. /\ state' = t /\ reader' = ReaderFor(f)
          /\ ret' = [Returned("next_event", "Response") EXCEPT !.m = m]
      BY <2>1, <2>7 DEF Poll
    <3>2. ret'.call = "next_event" /\ ret'.res = "Response" /\ ret'.m = m
      BY <3>1 DEF Returned
    <3>3. Announced(seen, m) = f
      BY BodyIsAnnounced DEF Announced
    <3>4. seen' = [g EXCEPT !.received = f, !.open = FALSE]
      BY <3>2, <3>3 DEF Observed, Record
    <3>5. /\ g \in Account /\ g.sent = seen.sent
          /\ g.request = seen.request /\ g.requested = seen.requested /\ g.answer = m
          /\ g.closing <=> \/ seen.closing
                           \/ ~Persistent(m)
                           \/ ~seen.requested
                           \/ AnswersConnect(seen) /\ ~AcceptsConnect(seen, m)
                           \/ Announced(seen, m) = CloseDelimited
      BY <1>1, ObserveType, Zenon
    <3>6. f \in Owed
      <4>1. Fixed(0) \in Owed
        BY DEF Fixed, Owed, Framing
      <4> QED BY <2>7, <4>1, OwedType
    <3> HIDE DEF f, g
    <3>7. /\ seen' \in Account /\ seen'.sent = seen.sent
          /\ seen'.request = seen.request /\ seen'.requested = seen.requested /\ seen'.answer = m
          /\ seen'.closing = g.closing
          /\ seen'.received = f /\ ~seen'.open
      BY <3>4, <3>5, <3>6, Zenon DEF Account
    <3>8. /\ Quiet(q, t) /\ (~Persistent(m) \/ f = CloseDelimited => ~t.keep_alive)
      <4>1. CASE f = CloseDelimited
        <5>1. Quiet(s, t) /\ ~t.keep_alive
          BY <2>5, <4>1, OperationsAreQuiet DEF Role
        <5> QED BY <2>5, <5>1, QuietTransitive
      <4>2. CASE f # CloseDelimited
        BY <2>5, <4>2
      <4> QED BY <4>1, <4>2
    <3> HIDE DEF t
    <3>9. HeadAccount'
      BY <1>3, <2>1, <3>1, <3>3, <3>5, <3>7, <3>8, FinalKeepsHeads, TwoRoles DEF q
    <3>10. ReaderAccount(reader', seen')
      BY <3>1, <3>6, <3>7, ReaderForAccount
    <3> QED BY <3>2, <3>7, <3>9, <3>10 DEF Heard
  <2> QED BY <2>6, <2>7
<1> QED BY <1>2, <1>3

(* `read_head` waits, fails, or accepts a head.                            *)
LEMMA ReadHeadIsHeard ==
    ASSUME role \in Role, HInv, Observed, ReadHead
    PROVE  Heard
<1>0. input \in Seq(Unit) /\ ReaderAccount(reader, seen)
  BY DEF HInv, CInv, TypeOK
<1>1. CASE WaitForSection(input, reader, progress, TRUE)
  BY <1>0, <1>1, WaitForSectionIsHeard, Zenon
<1>2. ASSUME NEW status, FailHere(input, reader, progress, status) PROVE Heard
  BY <1>0, <1>2, FailHereIsHeard
<1>3. ASSUME NEW i \in CompleteHeads(input), Parses(input[i].m),
             Accept(input[i].m, Rest(input, i))
      PROVE  Heard
  <2>1. i \in 1..Len(input) /\ input[i] \in Unit
    BY <1>0 DEF CompleteHeads
  <2>2. input[i].m \in Message
    BY <2>1 DEF Unit
  <2>3. CASE role = "server"
    BY <1>3, <2>2, <2>3, AcceptRequestIsHeard DEF Accept, Parses
  <2>4. CASE role # "server" /\ IsInformational(input[i].m)
    BY <1>3, <2>2, <2>4, AcceptInformationalIsHeard DEF Accept, Parses
  <2>5. CASE role # "server" /\ ~IsInformational(input[i].m)
    BY <1>3, <2>2, <2>5, AcceptFinalIsHeard DEF Accept, Parses
  <2> QED BY <2>3, <2>4, <2>5
<1> QED BY <1>1, <1>2, <1>3, Zenon DEF ReadHead

(* Every arm of `next_event` is one of the returns above.                  *)
LEMMA NextEventIsHeard ==
    ASSUME role \in Role, HInv, Observed, next_event
    PROVE  Heard
<1>0. /\ input \in Seq(Unit) /\ reader \in Reader /\ ReaderAccount(reader, seen)
      /\ ReaderFollowsPeer
  BY DEF HInv, CInv, TypeOK
<1>1. ASSUME NEW res \in {"ConnectionClosed", "Paused", "NeedData"}, Stay(res)
      PROVE  Heard
  BY <1>0, <1>1, IdlePollIsHeard DEF Stay
<1>2. CASE PeerClosed
  BY <1>2, PeerClosedIsHeard
<1>3. CASE FailHere(input, reader, progress, 0)
  BY <1>0, <1>3, FailHereIsHeard
<1>4. CASE /\ peer_state \in {"Idle", "SendResponse", "SendBody"}
           /\ ReadBody
  <2>0. reader.k # "Head" => peer_state = "SendBody"
    BY <1>0, <1>4 DEF ReaderFollowsPeer
  <2>1. CASE reader.k = "Data" /\ ReadChunkData(input, reader.n, reader.first)
    <3>1. reader.n \in Nat /\ reader.first \in BOOLEAN
      BY <1>0 DEF Reader
    <3>2. seen.received = Chunked /\ (seen.open <=> ~reader.first)
      BY <1>0, <2>1 DEF ReaderAccount
    <3> QED BY <1>0, <2>0, <2>1, <3>1, <3>2, ReadChunkDataIsHeard
  <2>2. CASE reader.k = "Head" /\ ReadHead
    BY <2>2, ReadHeadIsHeard
  <2>3. CASE reader.k = "Fixed" /\ ReadFixed
    BY <2>0, <2>3, ReadFixedIsHeard
  <2>4. CASE reader.k = "CloseDelimited" /\ ReadToClose
    BY <2>0, <2>4, ReadToCloseIsHeard
  <2>5. CASE reader.k = "Size" /\ ReadSize(input)
    <3>1. seen.received = Chunked /\ ~seen.open
      BY <1>0, <2>5 DEF ReaderAccount
    <3> QED BY <1>0, <2>0, <2>5, <3>1, ReadSizeIsHeard
  <2>6. CASE reader.k = "DataEnd" /\ ReadDataEnd
    BY <2>0, <2>6, ReadDataEndIsHeard
  <2>7. CASE reader.k = "Trailers" /\ ReadTrailers(input, progress)
    <3>1. seen.received = Chunked /\ ~seen.open
      BY <1>0, <2>7 DEF ReaderAccount
    <3> QED BY <2>0, <2>7, <3>1, ReadTrailersIsHeard
  <2> QED BY <1>4, <2>1, <2>2, <2>3, <2>4, <2>5, <2>6, <2>7 DEF ReadBody
<1> QED BY <1>1, <1>2, <1>3, <1>4 DEF next_event

(* Polling keeps the account.                                              *)
LEMMA NextEventKeepsAccount ==
    ASSUME role \in Role, role' = role, HInv, Observed, next_event
    PROVE  HInv'
<1>1. Heard /\ UNCHANGED writer
  BY NextEventIsHeard DEF next_event
<1>2. CInv'
  BY NextEventKeeps DEF HInv
<1>3. DeclaredLengthIsExact'
  BY <1>1 DEF Heard, DeclaredLengthIsExact, Account, Owed, Framing
<1>4. AnswerSignalsClose'
  BY <1>1 DEF Heard, AnswerSignalsClose
<1> QED BY <1>1, <1>2, <1>3, <1>4, Zenon DEF HInv, Heard

----------------------------------------------------------------------------
(* Local calls, to the observer.                                           *)

(* What an accepted local call has to guarantee besides CInv: the reader   *)
(* and the body it reads are left alone, and the writer owes what the      *)
(* observer was shown.                                                     *)
Told ==
    /\ HeadAccount'
    /\ seen' \in Account
    /\ reader' = reader /\ seen'.received = seen.received /\ seen'.open = seen.open
    /\ writer' # NoWriter => seen'.sent = writer'
    /\ ret'.res \in {"Ok", "LocalError"}
    /\ ret'.call = "end_of_message" => seen'.sent.n = 0
    /\ AnswerSignalsClose'

(* Such a call keeps the account.                                          *)
LEMMA ToldKeepsAccount ==
    ASSUME HInv, CInv', Told
    PROVE  HInv'
<1>1. ReaderAccount(reader', seen')
  BY DEF Told, HInv, ReaderAccount
<1>2. DeclaredLengthIsExact'
  BY DEF Told, DeclaredLengthIsExact, Account, Owed, Framing
<1> QED BY <1>1, <1>2 DEF HInv, Told

(* A quiet call that shows the observer nothing and arms no writer.        *)
LEMMA QuietIsTold ==
    ASSUME HInv, Observed, QuietStep, reader' = reader,
           writer' = writer \/ writer' = NoWriter,
           ret'.res \in {"Ok", "LocalError"},
           ret'.call \in {"rejected", "receive_data", "end_of_message", "close"},
           ret'.call = "end_of_message" => seen.sent.n = 0
    PROVE  Told
<1>1. seen' = seen
  BY NothingRecorded
<1>2. HeadAccount'
  BY <1>1, QuietKeepsHeads DEF HInv, SameHeads
<1> QED BY <1>1, <1>2 DEF Told, HInv, AnswerSignalsClose

(* A rejected call is quiet.                                               *)
LEMMA RejectIsTold ==
    ASSUME HInv, Observed, Reject
    PROVE  Told
<1>1. /\ UNCHANGED <<state, reader, writer>> /\ UNCHANGED negotiation
      /\ ret' = Returned("rejected", "LocalError")
  BY DEF Reject, core
<1>2. ret'.call = "rejected" /\ ret'.res = "LocalError"
  BY <1>1 DEF Returned
<1>3. QuietStep
  BY <1>1 DEF QuietStep, Quiet, negotiation
<1> QED BY <1>1, <1>2, <1>3, QuietIsTold

(* So is the arrival of data.                                              *)
LEMMA ReceiveIsTold ==
    ASSUME HInv, Observed, NEW segment, receive_data(segment)
    PROVE  Told
<1>1. CASE ~Reject
  <2>1. /\ UNCHANGED <<state, reader, writer>> /\ UNCHANGED negotiation
        /\ ret' = Returned("receive_data", "Ok")
    BY <1>1 DEF receive_data
  <2>2. ret'.call = "receive_data" /\ ret'.res = "Ok"
    BY <2>1 DEF Returned
  <2>3. QuietStep
    BY <2>1 DEF QuietStep, Quiet, negotiation
  <2> QED BY <2>1, <2>2, <2>3, QuietIsTold
<1> QED BY <1>1, RejectIsTold

(* An accepted local event that is no head is a quiet step.                *)
LEMMA LocalEventIsQuiet ==
    ASSUME role \in Role, HInv, NEW ev \in {"Data", "EndOfMessage", "ConnectionClosed"},
           LocalAccepts(ev, {})
    PROVE  Quiet(state, AdvanceLocal(ev, {}))
<1>1. state \in ConnState /\ {} \in SUBSET SwitchKind /\ ev \in StateEvent
  BY DEF HInv, CInv, TypeOK, StateEvent
<1>2. Moved(state, AdvanceLocal(ev, {}), ev, {})
  BY <1>1, EventIsQuiet, Zenon DEF LocalAccepts, AdvanceLocal
<1> QED BY <1>2, Zenon DEF Moved

(* `send_data` deducts what it writes from what the writer owes.           *)
LEMMA SendDataIsTold ==
    ASSUME role \in Role, HInv, Observed, NEW length \in BodySizes, send_data(length)
    PROVE  Told
<1>1. CASE ~Reject
  <2> DEFINE units == IF writer.k = "Chunked" /\ length > 0
                      THEN <<Size(length)>> \o Bytes(length) \o <<Plain("crlf")>>
                      ELSE Bytes(length)
             rest == Deduct(seen.sent, Len(units))
  <2>1. /\ writer # NoWriter
        /\ writer.k = "Fixed" => length <= writer.n
        /\ LocalAccepts("Data", {})
        /\ state' = AdvanceLocal("Data", {})
        /\ writer' = IF writer.k = "Fixed" THEN Fixed(writer.n - length) ELSE writer
        /\ ret' = [Returned("send_data", "Ok") EXCEPT !.out = units]
        /\ UNCHANGED <<reader, request_kind, upgrade_proposals, continue_before_upgrade>>
    BY <1>1 DEF send_data, FitsLength, Wrote
  <2>2. ret'.call = "send_data" /\ ret'.res = "Ok" /\ ret'.out = units
    BY <2>1 DEF Returned
  <2>3. seen \in Account /\ seen.sent = writer /\ writer \in Owed /\ length \in Nat
    BY <2>1, ConnectionAssumption DEF HInv, Account
  <2>4. writer.k = "Fixed" => Len(units) = length
    BY <2>3 DEF Bytes
  <2>5. rest = writer' /\ rest \in Owed
    <3>1. CASE writer.k = "Fixed"
      BY <2>1, <2>3, <2>4, <3>1 DEF Deduct, Owed, Framing, Fixed
    <3>2. CASE writer.k # "Fixed"
      BY <2>1, <2>3, <3>2 DEF Deduct
    <3> QED BY <3>1, <3>2
  <2>6. seen' = [seen EXCEPT !.sent = rest]
    BY <2>2, <2>3 DEF Observed, Record, Account
  <2> HIDE DEF units, rest
  <2>7. /\ seen' \in Account /\ SameHeads /\ seen'.sent = rest
        /\ seen'.received = seen.received /\ seen'.open = seen.open
    BY <2>3, <2>5, <2>6 DEF Account, SameHeads
  <2>8. QuietStep
    BY <2>1, LocalEventIsQuiet DEF QuietStep
  <2>9. HeadAccount'
    BY <2>7, <2>8, QuietKeepsHeads DEF HInv
  <2> QED BY <2>1, <2>2, <2>5, <2>7, <2>9 DEF Told, AnswerSignalsClose
<1> QED BY <1>1, RejectIsTold

(* `end_of_message` is accepted only when the writer owes nothing.         *)
LEMMA EndOfMessageIsTold ==
    ASSUME role \in Role, HInv, Observed, NEW trailers, end_of_message(trailers)
    PROVE  Told
<1>1. CASE ~Reject
  <2>1. /\ writer # NoWriter
        /\ writer.k = "Chunked" \/ writer.n = 0
        /\ LocalAccepts("EndOfMessage", {})
        /\ state' = AdvanceLocal("EndOfMessage", {})
        /\ writer' = NoWriter
        /\ UNCHANGED <<reader, request_kind, upgrade_proposals, continue_before_upgrade>>
    BY <1>1 DEF end_of_message
  <2>2. ret'.call = "end_of_message" /\ ret'.res = "Ok"
    BY <1>1 DEF end_of_message, Wrote, Returned
  <2>3. seen.sent = writer /\ writer \in Owed
    BY <2>1 DEF HInv, Account
  <2>4. seen.sent.n = 0
    BY <2>1, <2>3 DEF Owed
  <2>5. QuietStep
    BY <2>1, LocalEventIsQuiet DEF QuietStep
  <2> QED BY <2>1, <2>2, <2>4, <2>5, QuietIsTold
<1> QED BY <1>1, RejectIsTold

(* `close` is quiet.                                                       *)
LEMMA CloseIsTold ==
    ASSUME role \in Role, HInv, Observed, close
    PROVE  Told
<1>1. CASE ~Reject
  <2>1. /\ LocalAccepts("ConnectionClosed", {})
        /\ state' = AdvanceLocal("ConnectionClosed", {})
        /\ writer' = NoWriter
        /\ ret' = Returned("close", "Ok")
        /\ UNCHANGED reader /\ UNCHANGED negotiation
    BY <1>1 DEF close
  <2>2. ret'.call = "close" /\ ret'.res = "Ok"
    BY <2>1 DEF Returned
  <2>3. QuietStep
    BY <2>1, LocalEventIsQuiet DEF QuietStep, negotiation
  <2> QED BY <2>1, <2>2, <2>3, QuietIsTold
<1> QED BY <1>1, RejectIsTold

(* `send_request` shows the observer the head whose terms it stores.       *)
LEMMA SendRequestIsTold ==
    ASSUME role \in Role, HInv, Observed, NEW m \in Requests, send_request(m)
    PROVE  Told
<1> DEFINE f == FramingOf(m)
           u == IF m.version = "Http11" THEN m.upgrade ELSE {}
           p == Proposals(m, u)
           g == Observe(seen, m)
<1>0. m \in Message /\ IsRequest(m) /\ seen \in Account
  BY ConnectionAssumption DEF HInv
<1>1. CASE ~Reject
  <2>1. /\ f.k # "Error"
        /\ LocalAccepts("Request", p)
        /\ state' = ApplyPersistence(AdvanceLocal("Request", p), m)
        /\ request_kind' = m.kind
        /\ writer' = f
        /\ waiting_for_continue' = ExpectsContinue(m, f)
        /\ continue_before_upgrade' = (waiting_for_continue' /\ u # {})
        /\ upgrade_proposals' = u
        /\ ret' = [Returned("send_request", "Ok") EXCEPT !.out = <<HeadUnit(m)>>]
        /\ UNCHANGED reader
    BY <1>1 DEF send_request, Wrote
  <2>2. ret'.call = "send_request" /\ ret'.res = "Ok" /\ ret'.out[1].m = m
    BY <2>1 DEF Returned, HeadUnit
  <2>3. seen' = [g EXCEPT !.sent = f]
    BY <1>0, <2>2 DEF Observed, Record, Announced
  <2>4. /\ g \in Account /\ g.received = seen.received /\ g.open = seen.open
        /\ g.request = m /\ g.requested
        /\ g.closing <=> seen.closing \/ ~Persistent(m)
    BY <1>0, ObserveType, Zenon
  <2>5. f \in Owed
    BY <1>0, <2>1, OwedType
  <2> HIDE DEF g
  <2>6. /\ seen' \in Account /\ seen'.received = seen.received /\ seen'.open = seen.open
        /\ seen'.request = m /\ seen'.requested
        /\ seen'.closing <=> seen.closing \/ ~Persistent(m)
        /\ seen'.sent = f
    BY <2>3, <2>4, <2>5 DEF Account
  <2>7. u \in SUBSET m.upgrade /\ p \in SUBSET SwitchKind
    BY <1>0, ProposalsType
  <2>8. ExpectsContinue(m, f) /\ u # {} => continue_before_upgrade'
    BY <2>1, Zenon
  <2> HIDE DEF u, f
  <2>9. HeadAccount'
    BY <1>0, <2>1, <2>6, <2>7, <2>8, RequestKeepsHeads DEF LocalAccepts, AdvanceLocal, f
  <2> QED BY <2>1, <2>2, <2>6, <2>9 DEF Told, AnswerSignalsClose
<1> QED BY <1>1, RejectIsTold

(* `send_informational_response` is heard as it was negotiated.            *)
LEMMA SendInformationalIsTold ==
    ASSUME role \in Role, HInv, Observed, NEW m \in Responses, send_informational_response(m)
    PROVE  Told
<1>0. m \in Message /\ ~IsRequest(m) /\ seen \in Account
  BY ConnectionAssumption DEF HInv
<1>1. CASE ~Reject
  <2>1. /\ IsInformational(m)
        /\ m.status = 101 => ~continue_before_upgrade /\ ValidUpgradeResponse(m)
        /\ LocalAccepts(InformationalEvent(m), InformationalSwitch(m))
        /\ state' = AdvanceLocal(InformationalEvent(m), InformationalSwitch(m))
        /\ continue_before_upgrade' = (continue_before_upgrade /\ m.status # 100)
        /\ ret' = [Returned("send_informational_response", "Ok") EXCEPT !.out = <<HeadUnit(m)>>]
        /\ UNCHANGED <<reader, writer, request_kind, upgrade_proposals>>
    BY <1>1 DEF send_informational_response, Wrote
  <2>2. /\ ret'.call = "send_informational_response" /\ ret'.res = "Ok"
        /\ ret'.out[1].m = m
    BY <2>1 DEF Returned, HeadUnit
  <2>3. seen' = Observe(seen, m)
    BY <2>2 DEF Observed, Record
  <2>4. /\ seen' \in Account /\ seen'.sent = seen.sent
        /\ seen'.received = seen.received /\ seen'.open = seen.open
        /\ seen'.request = seen.request /\ seen'.requested = seen.requested
        /\ seen'.answer = m /\ seen'.closing = seen.closing
        /\ seen'.continued <=> seen.continued \/ m.status = 100
    BY <1>0, <2>1, <2>3, ObserveType
  <2>5. continue_before_upgrade /\ m.status # 100 => continue_before_upgrade'
    BY <2>1, Zenon
  <2>6. HeadAccount'
    BY <1>0, <2>1, <2>4, <2>5, InformationalKeepsHeads DEF LocalAccepts, AdvanceLocal
  <2> QED BY <2>1, <2>2, <2>4, <2>6 DEF Told, HInv, AnswerSignalsClose
<1> QED BY <1>1, RejectIsTold

(* The one transfer coding a response is given selects a chunked body.     *)
LEMMA ChunkedFraming == TransferFraming(<<"chunked">>) = Chunked
<1> DEFINE te == <<"chunked">>
<1>1. Len(te) = 1 /\ te[1] = "chunked"
  OBVIOUS
<1>2. ~ \E i \in 1..1 : te[i] = ""
  BY <1>1
<1> HIDE DEF te
<1>3. TransferFraming(te) = Chunked
  BY <1>1, <1>2, Zenon DEF TransferFraming
<1> QED BY <1>3 DEF te

(* The head `send_response` writes announces the framing it writes with;   *)
(* it says that the connection ends when the end delimits the body, and    *)
(* when the server has given up reuse.                                     *)
LEMMA NormalizedHead ==
    ASSUME HInv, NEW m \in Message, ~IsRequest(m)
    PROVE  LET w == Normalized(m) IN
           /\ w \in Message /\ ~IsRequest(w) /\ w.status = m.status
           /\ Announced(seen, w) = SendFraming(m)
           /\ SendFraming(m) = CloseDelimited => ~Persistent(w)
           /\ Persistent(w) => SwitchesByConnect(m) \/ state.keep_alive
<1> DEFINE w == Normalized(m)
           c == Stripped(m)
<1>1. w \in Message /\ c \in Message
  BY ResponseTypes
<1>2. /\ c.status = m.status /\ c.kind = m.kind /\ c.version = m.version
  BY Zenon DEF Stripped, Message
<1>3. /\ w.status = c.status /\ w.kind = c.kind /\ w.version = c.version
      /\ w.lengths = c.lengths
      /\ w.transfer = IF SelectsFraming(m) /\ BothHttp11(m) THEN <<"chunked">> ELSE c.transfer
      /\ SignalsClose(m) => w.close
  BY <1>1, Zenon DEF Normalized, Message
<1> HIDE DEF w, c
<1>4. ~IsRequest(w) /\ w.status = m.status /\ w.version = m.version
  BY <1>2, <1>3 DEF IsRequest
<1>5. Announced(seen, w) = IF HasNoBody(m) THEN Fixed(0) ELSE ResponseFraming(w)
  <2>1. HasNoBody(m) <=> HasNoBody(w)
    BY <1>4 DEF HasNoBody, SwitchesByConnect
  <2> QED BY <1>4, <2>1, BodyIsAnnounced DEF Announced
<1>6. CASE HasNoBody(m)
  <2>1. SendFraming(m) = Fixed(0) /\ Fixed(0) # CloseDelimited
    BY <1>6 DEF SendFraming, Fixed, CloseDelimited
  <2>2. Persistent(w) => SwitchesByConnect(m) \/ state.keep_alive
    BY <1>3 DEF SignalsClose, Persistent
  <2> QED BY <1>1, <1>4, <1>5, <1>6, <2>1, <2>2 DEF w
<1>7. CASE ~HasNoBody(m)
  <2>0. ~SwitchesByConnect(m)
    BY <1>7 DEF HasNoBody
  <2>1. Persistent(w) => state.keep_alive /\ BothHttp11(m)
    BY <1>3, <2>0, Zenon DEF SignalsClose, Persistent
  <2>2. CASE ~SelectsFraming(m)
    <3>1. HasFramingFields(c) /\ w.transfer = c.transfer
      BY <1>3, <1>7, <2>2, Zenon DEF SelectsFraming, c
    <3>2. ResponseFraming(w) = FramingOf(c)
      BY <1>2, <1>3, <1>4, <3>1, ZenonT(60) DEF ResponseFraming, HasFramingFields, FramingOf
    <3>3. SendFraming(m) = FramingOf(c)
      BY <1>7, <2>2 DEF SendFraming, c
    <3>4. FramingOf(c).k # "CloseDelimited"
      BY DEF FramingOf, LengthFraming, TransferFraming, FramingError, Fixed, Chunked
    <3>5. SendFraming(m) # CloseDelimited
      BY <3>3, <3>4 DEF CloseDelimited
    <3> QED BY <1>1, <1>4, <1>5, <1>7, <2>1, <3>2, <3>3, <3>5 DEF w
  <2>3. CASE SelectsFraming(m) /\ BothHttp11(m)
    <3>1. w.transfer = <<"chunked">> /\ w.lengths = <<>> /\ w.version = "Http11"
      BY <1>3, <1>4, <2>3, Zenon DEF SelectsFraming, HasFramingFields, BothHttp11, c
    <3>2. ResponseFraming(w) = Chunked
      <4>1. TransferFraming(<<"chunked">>) = Chunked
        BY ChunkedFraming
      <4>2. <<"chunked">> # <<>>
        OBVIOUS
      <4> QED BY <3>1, <4>1, <4>2 DEF ResponseFraming, HasFramingFields, FramingOf
    <3>3. SendFraming(m) = Chunked /\ Chunked # CloseDelimited
      BY <1>7, <2>3 DEF SendFraming, Chunked, CloseDelimited
    <3> QED BY <1>1, <1>4, <1>5, <1>7, <2>1, <3>2, <3>3 DEF w
  <2>4. CASE SelectsFraming(m) /\ ~BothHttp11(m)
    <3>1. ~HasFramingFields(w)
      BY <1>3, <2>4, Zenon DEF SelectsFraming, HasFramingFields, c
    <3>2. ResponseFraming(w) = CloseDelimited /\ SendFraming(m) = CloseDelimited
      BY <1>7, <2>4, <3>1 DEF ResponseFraming, SendFraming
    <3> QED BY <1>1, <1>4, <1>5, <1>7, <2>1, <2>4, <3>2 DEF w
  <2> QED BY <2>2, <2>3, <2>4
<1> QED BY <1>6, <1>7

(* `send_response` writes with the framing the observer expects and tells  *)
(* the client when the connection will not persist.                        *)
LEMMA SendResponseIsTold ==
    ASSUME role \in Role, HInv, Observed, NEW m \in Responses, send_response(m)
    PROVE  Told
<1> DEFINE f == SendFraming(m)
           w == Normalized(m)
           ev == FinalEvent(m)
           q == AdvanceLocal(ev, FinalSwitch(m))
           g == Observe(seen, w)
<1>0. m \in Message /\ ~IsRequest(m) /\ seen \in Account /\ state \in ConnState
  BY ConnectionAssumption DEF HInv, CInv, TypeOK
<1>1. CASE ~Reject
  <2>1. /\ ~IsInformational(m)
        /\ f.k # "Error"
        /\ LocalAccepts(ev, FinalSwitch(m))
        /\ state' = ApplyPersistence(q, w)
        /\ writer' = f
        /\ ret' = [Returned("send_response", "Ok") EXCEPT !.out = <<HeadUnit(w)>>]
        /\ UNCHANGED <<reader, request_kind>>
    BY <1>1 DEF send_response, Wrote
  <2>2. ret'.call = "send_response" /\ ret'.res = "Ok" /\ ret'.out[1].m = w
    BY <2>1 DEF Returned, HeadUnit
  <2>3. /\ w \in Message /\ ~IsRequest(w) /\ w.status = m.status
        /\ Announced(seen, w) = f
        /\ f = CloseDelimited => ~Persistent(w)
        /\ Persistent(w) => SwitchesByConnect(m) \/ state.keep_alive
    BY <1>0, NormalizedHead
  <2> HIDE DEF w
  <2>4. seen' = [g EXCEPT !.sent = f]
    BY <2>2, <2>3 DEF Observed, Record
  <2>5. /\ g \in Account /\ g.received = seen.received /\ g.open = seen.open
        /\ g.request = seen.request /\ g.requested = seen.requested /\ g.answer = w
        /\ g.closing <=> \/ seen.closing
                         \/ ~Persistent(w)
                         \/ ~seen.requested
                         \/ AnswersConnect(seen) /\ ~AcceptsConnect(seen, w)
                         \/ Announced(seen, w) = CloseDelimited
    <3>1. ~IsInformational(w)
      BY <2>1, <2>3 DEF IsInformational
    <3> QED BY <1>0, <2>3, <3>1, ObserveType, Zenon
  <2>6. f \in Owed
    <3>1. Fixed(0) \in Owed /\ Chunked \in Owed /\ CloseDelimited \in Owed
      BY DEF Fixed, Chunked, CloseDelimited, Owed, Framing
    <3>2. Stripped(m) \in Message
      BY <1>0, ResponseTypes
    <3> QED BY <2>1, <3>1, <3>2, OwedType DEF SendFraming
  <2> HIDE DEF f, g
  <2>7. /\ seen' \in Account /\ seen'.received = seen.received /\ seen'.open = seen.open
        /\ seen'.request = seen.request /\ seen'.requested = seen.requested
        /\ seen'.answer = w /\ seen'.closing = g.closing /\ seen'.sent = f
    BY <2>4, <2>5, <2>6 DEF Account
  <2>8. /\ ev = IF SwitchesByConnect(m) THEN "ProtocolSwitch" ELSE "Response"
        /\ FinalSwitch(m) \in SUBSET SwitchKind /\ ev \in StateEvent
    BY DEF FinalEvent, FinalSwitch, SwitchKind, StateEvent
  <2>9. q \in ConnState
    BY <1>0, <2>1, <2>8, EventMoves DEF LocalAccepts, AdvanceLocal
  <2>m. Moved(state, q, ev, FinalSwitch(m))
    BY <1>0, <2>1, <2>8, EventIsQuiet, Zenon DEF LocalAccepts, AdvanceLocal
  <2>10. ev = "Response" => q.keep_alive <=> /\ state.keep_alive
                                             /\ "Connect" \notin state.proposals
                                             /\ state.server # "Idle"
    BY <2>m, Zenon DEF Moved
  <2>11. ev = "Response" => state.server \in {"Idle", "SendResponse"}
    BY <2>m, Zenon DEF Moved
  <2> HIDE DEF q, ev
  <2>12. /\ Quiet(q, state')
         /\ ~Persistent(w) => ~state'.keep_alive
         /\ Persistent(w) => state' = q
    BY <2>1, <2>9, PersistenceIsQuiet
  <2>13. HeadAccount'
    BY <1>0, <2>1, <2>3, <2>5, <2>7, <2>12, FinalKeepsHeads DEF LocalAccepts, AdvanceLocal, q, ev
  <2>14. AnswerSignalsClose'
    <3> SUFFICES ASSUME seen.requested, request_kind # "Connect", ~state'.keep_alive,
                        Persistent(w)
                 PROVE  FALSE
      <4>1. AnswersConnect(seen') <=> AnswersConnect(seen)
        BY <2>7 DEF AnswersConnect
      <4>2. seen.requested /\ ~AnswersConnect(seen) => request_kind # "Connect"
        BY DEF AnswersConnect, HInv, HeadAccount
      <4> QED BY <2>7, <4>1, <4>2 DEF AnswerSignalsClose
    <3>1. ev = "Response" /\ state.keep_alive
      BY <2>3, <2>8 DEF SwitchesByConnect
    <3>2. state.server = "SendResponse" /\ "Connect" \notin state.proposals
      BY <2>11, <3>1 DEF HInv, HeadAccount
    <3> QED BY <2>10, <2>12, <3>1, <3>2, Zenon
  <2> QED BY <2>1, <2>2, <2>7, <2>13, <2>14 DEF Told
<1> QED BY <1>1, RejectIsTold

(* `start_next_cycle` begins a new account with a new record.              *)
LEMMA NextCycleKeepsAccount ==
    ASSUME role \in Role, role' = role, HInv, Observed, start_next_cycle
    PROVE  HInv' /\ ret'.res \in {"Ok", "LocalError"}
<1>1. CInv'
  BY NextCycleKeeps DEF HInv
<1>2. CASE ~Reject
  <2>1. /\ state' = NewState /\ reader' = ReaderAt("Head") /\ writer' = NoWriter
        /\ request_kind' = None /\ ret' = Returned("start_next_cycle", "Ok")
    BY <1>2 DEF start_next_cycle
  <2>2. ret'.call = "start_next_cycle" /\ ret'.res = "Ok"
    BY <2>1 DEF Returned
  <2>3. seen' = Unseen
    BY <2>2 DEF Observed, Record
  <2>4. seen' \in Account
    BY <2>3, NoMessageType DEF Unseen, Account, Owed, Framing, Fixed
  <2>5. HeadAccount'
    BY <2>1, <2>3, Zenon DEF HeadAccount, SwitchIsNegotiated, NewState, Unseen
  <2>6. ReaderAccount(reader', seen')
    BY <2>1 DEF ReaderAccount, ReaderAt
  <2>7. DeclaredLengthIsExact' /\ AnswerSignalsClose'
    BY <2>2, <2>4 DEF DeclaredLengthIsExact, AnswerSignalsClose, Account, Owed, Framing
  <2> QED BY <1>1, <2>1, <2>2, <2>4, <2>5, <2>6, <2>7 DEF HInv
<1>3. CASE Reject
  BY <1>1, <1>3, RejectIsTold, ToldKeepsAccount DEF Told
<1> QED BY <1>2, <1>3

----------------------------------------------------------------------------

(* A fresh connection agrees with an empty account.                        *)
LEMMA InitEstablishesHInv == HInit => HInv
<1> SUFFICES ASSUME HInit PROVE HInv
  OBVIOUS
<1>1. CInv /\ seen = Unseen
  BY InitEstablishesCInv DEF HInit
<1>2. /\ state = NewState /\ reader = ReaderAt("Head") /\ writer = NoWriter
      /\ request_kind = None /\ ret.call = "new" /\ ret.res = "Ok"
  BY DEF HInit, Init, Returned
<1>3. seen \in Account
  BY <1>1, NoMessageType DEF Unseen, Account, Owed, Framing, Fixed
<1>4. HeadAccount
  BY <1>1, <1>2, Zenon DEF HeadAccount, SwitchIsNegotiated, NewState, Unseen
<1>5. ReaderAccount(reader, seen)
  BY <1>2 DEF ReaderAccount, ReaderAt
<1>6. DeclaredLengthIsExact /\ AnswerSignalsClose
  BY <1>2, <1>3 DEF DeclaredLengthIsExact, AnswerSignalsClose, Account, Owed, Framing
<1> QED BY <1>1, <1>2, <1>3, <1>4, <1>5, <1>6 DEF HInv

(* The marks of a chunk, as one step shows them.                           *)
Bracketed ==
    /\ ret'.res = "Data"
         => /\ ret'.first = (seen.received.k = "Chunked" /\ ~seen.open)
            /\ ret'.last => seen.received.k = "Chunked"
    /\ ret'.res = "EndOfMessage" => ~seen.open

(* Every call keeps the invariant and marks chunks as the account says.    *)
LEMMA StepKeepsHInv ==
    ASSUME HInv, HNext
    PROVE  HInv' /\ Bracketed
<1>0. role \in Role /\ role' = role /\ Observed /\ Next
  BY Zenon DEF HInv, CInv, TypeOK, HNext, Next
<1>1. CInv'
  BY <1>0, NextKeepsCInv DEF HInv
<1>2. CASE Told
  BY <1>1, <1>2, ToldKeepsAccount DEF Told, Bracketed
<1>3. CASE next_event
  BY <1>0, <1>3, NextEventKeepsAccount, NextEventIsHeard DEF Heard, Marked, Bracketed
<1>4. CASE start_next_cycle
  BY <1>0, <1>4, NextCycleKeepsAccount DEF Bracketed
<1>5. Told \/ next_event \/ start_next_cycle
  <2>1. ASSUME NEW segment, receive_data(segment) PROVE Told
    BY <1>0, <2>1, ReceiveIsTold
  <2>2. ASSUME NEW m \in Requests, send_request(m) PROVE Told
    BY <1>0, <2>2, SendRequestIsTold
  <2>3. ASSUME NEW m \in Responses, send_informational_response(m) \/ send_response(m)
        PROVE  Told
    BY <1>0, <2>3, SendInformationalIsTold, SendResponseIsTold
  <2>4. ASSUME NEW length \in BodySizes, send_data(length) PROVE Told
    BY <1>0, <2>4, SendDataIsTold
  <2>5. ASSUME NEW trailers, end_of_message(trailers) PROVE Told
    BY <1>0, <2>5, EndOfMessageIsTold
  <2>6. CASE close
    BY <1>0, <2>6, CloseIsTold
  <2> QED BY <1>0, <2>1, <2>2, <2>3, <2>4, <2>5, <2>6 DEF Next
<1> QED BY <1>2, <1>3, <1>4, <1>5

(* Nothing changes between two calls.                                      *)
LEMMA StutterKeepsHInv ==
    ASSUME HInv, UNCHANGED hvars
    PROVE  HInv'
<1>1. UNCHANGED vars /\ seen' = seen
  BY DEF hvars
<1>2. CInv'
  BY <1>1, NextKeepsCInv DEF HInv
<1>3. /\ state' = state /\ reader' = reader /\ writer' = writer /\ ret' = ret
      /\ UNCHANGED negotiation
  BY <1>1 DEF vars, core
<1>4. HeadAccount'
  BY <1>1, <1>3, QuietKeepsHeads DEF HInv, QuietStep, Quiet, SameHeads, negotiation
<1>5. DeclaredLengthIsExact' /\ AnswerSignalsClose'
  BY <1>1, <1>3 DEF HInv, DeclaredLengthIsExact, AnswerSignalsClose
<1> QED BY <1>1, <1>2, <1>3, <1>4, <1>5 DEF HInv

(* The endpoint agrees with the observer's account in every reachable      *)
(* state, for every role, limit, set of heads and segments.                *)
THEOREM AccountInvariance == HSpec => []HInv
<1>1. HInv /\ [HNext]_hvars => HInv'
  BY StepKeepsHInv, StutterKeepsHInv
<1> QED BY <1>1, InitEstablishesHInv, PTL DEF HSpec

(* A connection on which any head forbade reuse is not started again       *)
(* (`Connection::start_next_cycle`): persistence once lost is lost for the *)
(* cycle, whoever sent the head and whatever happened since.               *)
THEOREM ClosingIsRespected == HSpec => []ClosingForbidsReuse
<1>1. HInv => ClosingForbidsReuse
  BY Zenon DEF HInv, HeadAccount, ClosingForbidsReuse, Reusable
<1> QED BY <1>1, AccountInvariance, PTL

(* HTTP ends only on the terms of the request: a CONNECT answered 2xx, or  *)
(* a 101 that selects what was offered, behind the 100 Continue that was   *)
(* waited for.                                                             *)
THEOREM SwitchByAgreement == HSpec => []SwitchIsNegotiated
<1>1. HInv => SwitchIsNegotiated
  BY Zenon DEF HInv, HeadAccount
<1> QED BY <1>1, AccountInvariance, PTL

(* A declared body is delivered and sent to its length, no more, whatever  *)
(* the segmentation and the sizes of the calls.                            *)
THEOREM LengthsAreExact == HSpec => []DeclaredLengthIsExact
<1>1. HInv => DeclaredLengthIsExact
  BY DEF HInv
<1> QED BY <1>1, AccountInvariance, PTL

(* The answer to a request that is no CONNECT says on the wire when the    *)
(* server has given up reuse.                                              *)
THEOREM ClosingIsSignalled == HSpec => []AnswerSignalsClose
<1>1. HInv => AnswerSignalsClose
  BY DEF HInv
<1> QED BY <1>1, AccountInvariance, PTL

(* chunk_start and chunk_end bracket every chunk, however it was           *)
(* segmented, and no message ends inside one.                              *)
THEOREM ChunkMarks == HSpec => ChunksAreBracketed
<1>1. HInv /\ [HNext]_hvars => [Bracketed]_hvars
  BY StepKeepsHInv
<1>2. [][Bracketed]_hvars => ChunksAreBracketed
  BY PTL DEF Bracketed, ChunksAreBracketed
<1> QED BY <1>1, <1>2, AccountInvariance, PTL DEF HSpec
============================================================================
