------------------------- MODULE PyConnectionProofs -------------------------
(***************************************************************************)
(* The runtime borrow of the Python object protects the connection for any *)
(* number of threads and any depth of re-entrant calls.                    *)
(***************************************************************************)
EXTENDS PyConnection, FiniteSetTheorems, TLAPS

(* What a call in progress knows of the connection: it has seen every      *)
(* change since it began, because it made it.                              *)
CallInv ==
    \A f \in Active :
        /\ core.value = frame[f].before + frame[f].made
        /\ frame[f].phase # "result" => frame[f].made = 0
        /\ frame[f].phase = "update" => frame[f].method # "getter" /\ core.value < MaxValue

IInv == TypeOK /\ BorrowIsExact /\ CallInv /\ CallsAreAtomic

USE PyAssumption

(* The methods and the numbers of their conversions.                       *)
LEMMA MethodFacts ==
    /\ "getter" \in Method
    /\ \A m \in Method : Len(Conversions[m]) \in 0..4
BY DEF Method, Conversions, RequestArguments, ResponseArguments

(* Every conversion raises one of the listed exceptions.                   *)
LEMMA ConversionFacts ==
    ASSUME NEW m \in Method, NEW i \in 1..Len(Conversions[m])
    PROVE  Conversions[m][i] \subseteq Exceptions
<1>1. /\ with_buffer_bytes \subseteq Exceptions /\ text_or_buffer \subseteq Exceptions
      /\ optional_bytes \subseteq Exceptions /\ extract_method \subseteq Exceptions
      /\ extract_headers \subseteq Exceptions /\ extract_version \subseteq Exceptions
      /\ status \subseteq Exceptions /\ body_nbytes \subseteq Exceptions
  BY DEF Exceptions, Hook, with_buffer_bytes, text_or_buffer, optional_bytes,
         extract_method, extract_headers, extract_version, status,
         contiguous_buffer_len, body_nbytes
<1>2. /\ m \in {"next_event", "start_next_cycle", "close", "getter"}
            => Conversions[m] = <<>>
      /\ m \in {"receive_data", "send_data"} => Conversions[m] = <<with_buffer_bytes>>
      /\ m = "send_data_parts" => Conversions[m] = <<body_nbytes>>
      /\ m = "end_of_message" => Conversions[m] = <<extract_headers>>
  BY DEF Conversions
<1>3. /\ m = "send_request" => Conversions[m] =
            <<extract_method, text_or_buffer, extract_headers, extract_version>>
      /\ m \in {"send_informational_response", "send_response"} => Conversions[m] =
            <<status, optional_bytes, extract_headers, extract_version>>
  BY DEF Conversions, RequestArguments, ResponseArguments
<1>4. \/ m \in {"next_event", "start_next_cycle", "close", "getter"}
      \/ m \in {"receive_data", "send_data", "send_data_parts", "end_of_message"}
      \/ m \in {"send_request", "send_informational_response", "send_response"}
  BY DEF Method, Conversions
<1>5. CASE m \in {"next_event", "start_next_cycle", "close", "getter"}
  BY <1>2, <1>5
<1>6. CASE m \in {"receive_data", "send_data", "send_data_parts", "end_of_message"}
  BY <1>1, <1>2, <1>6
<1>7. CASE m \in {"send_request", "send_informational_response", "send_response"}
  BY <1>1, <1>3, <1>7
<1> QED
  BY <1>4, <1>5, <1>6, <1>7

(* The empty frame is a frame.                                             *)
LEMMA NoFrameType == NoFrame \in Frame
BY MethodFacts DEF NoFrame, Frame

(* What the steps inside a call do to its frame.                           *)
LEMMA FrameFacts ==
    ASSUME NEW f \in Frame
    PROVE  /\ f.done < 4 => [f EXCEPT !.done = @ + 1] \in Frame
           /\ [f EXCEPT !.phase = "core"] \in Frame
           /\ [f EXCEPT !.phase = "result", !.made = 1] \in Frame
<1>1. f.done < 4 => [f EXCEPT !.done = @ + 1] \in Frame
  BY DEF Frame
<1>2. [f EXCEPT !.phase = "core"] \in Frame
  BY DEF Frame
<1>3. [f EXCEPT !.phase = "result"] \in Frame
  BY DEF Frame
<1>4. \A h \in Frame : [h EXCEPT !.made = 1] \in Frame
  BY DEF Frame
<1>5. [f EXCEPT !.phase = "result", !.made = 1] \in Frame
  BY <1>3, <1>4, Zenon DEF Frame
<1> QED
  BY <1>1, <1>2, <1>5

(* There are finitely many frames.                                         *)
LEMMA FramesFinite == IsFiniteSet(FrameId)
<1>1. IsFiniteSet(Thread) /\ IsFiniteSet(1..MaxDepth)
  BY FS_Interval
<1> QED
  BY <1>1, FS_Product DEF FrameId

(* So there are finitely many calls in progress.                           *)
LEMMA ActiveFinite == IsFiniteSet(Active) /\ IsFiniteSet(Readers) /\ IsFiniteSet(Writers)
BY FramesFinite, FS_Subset DEF Active, Readers, Writers

(* The innermost call of a thread is active, and ending it leaves the      *)
(* others.                                                                 *)
LEMMA TopIsActive ==
    ASSUME TypeOK, NEW t \in Thread, depth[t] > 0
    PROVE  Top(t) \in Active /\ Top(t) \in FrameId
BY DEF TypeOK, Top, Active, FrameId

(* A call that returns is no longer in progress; the others are.           *)
LEMMA ActiveAfterReturn ==
    ASSUME TypeOK, NEW t \in Thread, depth[t] > 0, depth' = [depth EXCEPT ![t] = @ - 1]
    PROVE  Active' = Active \ {Top(t)}
BY DEF TypeOK, Top, Active, FrameId

(* A call that begins is in progress, and was not before.                  *)
LEMMA ActiveAfterCall ==
    ASSUME TypeOK, NEW t \in Thread, depth[t] < MaxDepth, depth' = [depth EXCEPT ![t] = @ + 1]
    PROVE  /\ Active' = Active \cup {<<t, depth[t] + 1>>}
           /\ <<t, depth[t] + 1>> \notin Active
           /\ <<t, depth[t] + 1>> \in FrameId
BY DEF TypeOK, Top, Active, FrameId

----------------------------------------------------------------------------

(* The invariant holds before the first call.                              *)
LEMMA InitInv == Init => IInv
<1> SUFFICES ASSUME Init PROVE IInv
  OBVIOUS
<1>1. TypeOK
  BY NoFrameType DEF Init, TypeOK, Outcome, Exclusive
<1>2. Active = {}
  BY DEF Init, Active, FrameId
<1>3. BorrowIsExact
  BY <1>2, FS_EmptySet DEF Init, BorrowIsExact, Readers, Writers, Exclusive
<1> QED
  BY <1>1, <1>2, <1>3 DEF IInv, CallInv, CallsAreAtomic, Init, Exceptions, Hook

(* A call that got its borrow.                                             *)
LEMMA CallKeeps ==
    ASSUME IInv, NEW t \in Thread, NEW method \in Method, call(t, method)
    PROVE  IInv'
<1> DEFINE g == <<t, depth[t] + 1>>
           new == [method |-> method, phase |-> "convert", done |-> 0,
                   before |-> core.value, made |-> 0]
<1>0. TypeOK /\ BorrowIsExact /\ CallInv /\ CallsAreAtomic
  BY DEF IInv
<1>1. Active' = Active \cup {g} /\ g \notin Active /\ g \in FrameId
  BY <1>0, ActiveAfterCall, Zenon DEF call
<1>2. frame' = [frame EXCEPT ![g] = new] /\ new \in Frame
  BY <1>0 DEF call, TypeOK, Frame
<1>3. frame'[g] = new /\ \A f \in Active : frame'[f] = frame[f]
  BY <1>0, <1>1, <1>2 DEF TypeOK, Active
<1> HIDE DEF g
<1>4. TypeOK'
  <2>1. borrow' \in Nat \cup {Exclusive}
    BY <1>0 DEF TypeOK, call, Borrowed, CanBorrow, Exclusive
  <2>2. depth' \in [Thread -> 0..MaxDepth]
    BY <1>0 DEF TypeOK, call
  <2>3. frame' \in [FrameId -> Frame]
    BY <1>0, <1>2, Zenon DEF TypeOK
  <2> QED
    BY <1>0, <2>1, <2>2, <2>3 DEF TypeOK, call
<1>5. ASSUME method = "getter" PROVE BorrowIsExact'
  <2>1. borrow # Exclusive /\ borrow' = borrow + 1
    BY <1>5 DEF call, CanBorrow, Borrowed
  <2>2. Writers' = Writers
    BY <1>1, <1>3, <1>5 DEF Writers
  <2>3. Readers' = Readers \cup {g} /\ g \notin Readers
    BY <1>1, <1>3, <1>5 DEF Readers
  <2>4. Cardinality(Readers') = Cardinality(Readers) + 1
    BY <2>3, ActiveFinite, FS_AddElement, Zenon
  <2>5. borrow' # Exclusive
    BY <1>0, <2>1 DEF TypeOK, Exclusive
  <2> QED
    BY <1>0, <2>1, <2>2, <2>4, <2>5 DEF BorrowIsExact
<1>6. ASSUME method # "getter" PROVE BorrowIsExact'
  <2>1. borrow = 0 /\ borrow' = Exclusive
    BY <1>6 DEF call, CanBorrow, Borrowed
  <2>2. Writers = {} /\ Readers = {}
    BY <1>0, <2>1, ActiveFinite, FS_EmptySet DEF BorrowIsExact, Exclusive
  <2>3. Writers' = {g} /\ Readers' = {}
    BY <1>1, <1>3, <1>6, <2>2 DEF Readers, Writers
  <2> QED
    BY <2>1, <2>3 DEF BorrowIsExact
<1>7. CallInv'
  BY <1>0, <1>1, <1>3 DEF CallInv, call, TypeOK
<1>8. CallsAreAtomic'
  BY <1>0 DEF CallsAreAtomic, call
<1> QED
  BY <1>4, <1>5, <1>6, <1>7, <1>8 DEF IInv

(* A call that ends, for any reason that its phase allows.                 *)
LEMMA ReturnKeeps ==
    ASSUME IInv, NEW t \in Thread, depth[t] > 0,
           NEW how \in Exceptions \cup {"Ok", "RuntimeError", "ProtocolError", "MemoryError"},
           how \in Exceptions \cup {"RuntimeError"} => frame[Top(t)].made = 0,
           Return(t, how)
    PROVE  IInv'
<1>0. TypeOK /\ BorrowIsExact /\ CallInv
  BY DEF IInv
<1> DEFINE g == Top(t)
<1>1. g \in Active /\ g \in FrameId /\ Active' = Active \ {g}
  BY <1>0, TopIsActive, ActiveAfterReturn, Zenon DEF Return
<1>2. frame' = [frame EXCEPT ![g] = NoFrame] /\ core' = core
  BY DEF Return
<1>3. \A f \in Active' : frame'[f] = frame[f]
  BY <1>0, <1>1, <1>2 DEF TypeOK
<1>4. borrow' = Released(frame[g].method)
  BY DEF Return
<1>5. /\ outcome'.how = how /\ outcome'.before = frame[g].before
      /\ outcome'.after = core.value /\ outcome'.made = frame[g].made
      /\ frame[g] \in Frame /\ outcome' \in Outcome
  BY <1>0, <1>1 DEF Return, TypeOK, Frame, Outcome
<1>6. depth' \in [Thread -> 0..MaxDepth] /\ frame' \in [FrameId -> Frame]
  <2>1. depth \in [Thread -> 0..MaxDepth] /\ depth' = [depth EXCEPT ![t] = @ - 1]
    BY <1>0 DEF TypeOK, Return
  <2>2. depth[t] - 1 \in 0..MaxDepth
    BY <2>1
  <2>3. depth' \in [Thread -> 0..MaxDepth]
    BY <2>1, <2>2
  <2> QED
    BY <1>0, <1>2, <2>3, NoFrameType, Zenon DEF TypeOK
<1> HIDE DEF g
<1>7. CallInv'
  BY <1>0, <1>1, <1>2, <1>3 DEF CallInv
<1>8. CallsAreAtomic'
  BY <1>0, <1>1, <1>5 DEF CallsAreAtomic, CallInv, g
<1>9. BorrowIsExact' /\ borrow' \in Nat \cup {Exclusive}
  <2>1. CASE frame[g].method = "getter"
    <3>1. g \in Readers
      BY <1>1, <2>1 DEF Readers
    <3>2. borrow # Exclusive /\ Writers = {} /\ borrow = Cardinality(Readers)
      BY <1>0, <3>1 DEF BorrowIsExact
    <3>3. Writers' = {} /\ Readers' = Readers \ {g}
      BY <1>1, <1>3, <3>2 DEF Writers, Readers
    <3>4. Cardinality(Readers') = borrow - 1 /\ Cardinality(Readers') \in Nat
      BY <3>1, <3>2, <3>3, ActiveFinite, FS_RemoveElement, FS_CardinalityType
    <3> QED
      BY <1>4, <2>1, <3>3, <3>4 DEF Released, BorrowIsExact, Exclusive
  <2>2. CASE frame[g].method # "getter"
    <3>1. g \in Writers
      BY <1>1, <2>2 DEF Writers
    <3>2. Readers = {} /\ Writers = {g}
      BY <1>0, <3>1 DEF BorrowIsExact
    <3>3. Writers' = {} /\ Readers' = {}
      BY <1>1, <1>3, <3>2 DEF Writers, Readers
    <3> QED
      BY <1>4, <2>2, <3>3, FS_EmptySet DEF Released, BorrowIsExact, Exclusive
  <2> QED
    BY <2>1, <2>2
<1> QED
  BY <1>0, <1>2, <1>5, <1>6, <1>7, <1>8, <1>9 DEF IInv, TypeOK

(* A step inside a call: the borrow and the calls stay.                    *)
LEMMA InsideKeeps ==
    ASSUME IInv, NEW t \in Thread, depth[t] > 0, NEW f \in Frame,
           f.method = frame[Top(t)].method,
           frame' = [frame EXCEPT ![Top(t)] = f],
           UNCHANGED <<borrow, depth, outcome>>
    PROVE  /\ BorrowIsExact' /\ CallsAreAtomic' /\ frame' \in [FrameId -> Frame]
           /\ Active' = Active /\ frame'[Top(t)] = f
           /\ \A h \in Active : h # Top(t) => frame'[h] = frame[h]
<1>0. TypeOK /\ BorrowIsExact /\ CallsAreAtomic /\ Top(t) \in Active /\ Top(t) \in FrameId
  BY TopIsActive DEF IInv
<1>1. Active' = Active
  BY DEF Active
<1>2. /\ frame' \in [FrameId -> Frame] /\ frame'[Top(t)] = f
      /\ \A h \in Active : h # Top(t) => frame'[h] = frame[h]
  BY <1>0 DEF TypeOK, Active
<1>3. Readers' = Readers /\ Writers' = Writers
  BY <1>0, <1>1, <1>2 DEF Readers, Writers
<1>4. BorrowIsExact'
  BY <1>0, <1>3 DEF BorrowIsExact
<1>5. CallsAreAtomic'
  BY <1>0 DEF CallsAreAtomic
<1> QED
  BY <1>1, <1>2, <1>4, <1>5

(* The innermost call of a thread that is in its core method is alone.     *)
LEMMA WriterIsAlone ==
    ASSUME IInv, NEW f \in Active, frame[f].method # "getter"
    PROVE  Active = {f}
<1>1. f \in Writers
  BY DEF Writers
<1>2. Readers = {} /\ Writers = {f}
  BY <1>1 DEF IInv, BorrowIsExact
<1> QED
  BY <1>2 DEF Readers, Writers

(* Every step of a thread keeps the invariant.                             *)
LEMMA StepKeeps ==
    ASSUME IInv, NEW t \in Thread, Step(t)
    PROVE  IInv'
<1> DEFINE g == Top(t)
<1>1. depth[t] > 0
  BY DEF Step, In, convert, convert_fails, core_begins, core_ends, core_refuses,
         core_reads, returns
<1>2. g \in Active /\ g \in FrameId
  BY <1>1, TopIsActive DEF IInv
<1>3. frame[g] \in Frame /\ core \in [value : 0..MaxValue, torn : BOOLEAN]
  BY <1>2 DEF IInv, TypeOK
<1>4. /\ core.value = frame[g].before + frame[g].made
      /\ frame[g].phase # "result" => frame[g].made = 0
      /\ frame[g].phase = "update" => frame[g].method # "getter" /\ core.value < MaxValue
  BY <1>2 DEF IInv, CallInv
<1>5. ASSUME convert(t) PROVE IInv'
  <2> DEFINE new == IF frame[g].done < Len(Conversions[frame[g].method])
                    THEN [frame[g] EXCEPT !.done = @ + 1]
                    ELSE [frame[g] EXCEPT !.phase = "core"]
  <2>1. /\ new \in Frame /\ new.method = frame[g].method /\ new.phase \in {"convert", "core"}
        /\ new.before = frame[g].before /\ new.made = frame[g].made
        /\ frame[g].phase = "convert"
    <3>1. frame[g].phase = "convert" /\ frame[g].method \in Method
      BY <1>3, <1>5 DEF Frame, convert, In
    <3>2. Len(Conversions[frame[g].method]) \in 0..4
      BY <3>1, MethodFacts
    <3>3. frame[g].done \in 0..4
      BY <1>3 DEF Frame
    <3>4. CASE frame[g].done < Len(Conversions[frame[g].method])
      <4>0. frame[g].done < 4
        <5>1. ASSUME NEW a \in 0..4, NEW b \in 0..4, a < b PROVE a < 4
          BY <5>1
        <5> QED BY <3>2, <3>3, <3>4, <5>1, Zenon
      <4>1. new = [frame[g] EXCEPT !.done = @ + 1]
        BY <3>4
      <4>2. [frame[g] EXCEPT !.done = @ + 1] \in Frame
        BY <1>3, <4>0, FrameFacts, Zenon
      <4> QED BY <1>3, <3>1, <4>1, <4>2 DEF Frame
    <3>5. CASE ~(frame[g].done < Len(Conversions[frame[g].method]))
      <4>1. new = [frame[g] EXCEPT !.phase = "core"]
        BY <3>5
      <4>2. [frame[g] EXCEPT !.phase = "core"] \in Frame
        BY <1>3, FrameFacts, Zenon
      <4> QED BY <1>3, <3>1, <4>1, <4>2 DEF Frame
    <3> QED
      BY <3>4, <3>5
  <2>2. frame' = [frame EXCEPT ![g] = new] /\ UNCHANGED <<borrow, depth, core, outcome>>
    BY <1>5 DEF convert
  <2> HIDE DEF new
  <2>3. /\ BorrowIsExact' /\ CallsAreAtomic' /\ frame' \in [FrameId -> Frame]
        /\ Active' = Active /\ frame'[g] = new
        /\ \A h \in Active : h # g => frame'[h] = frame[h]
    BY <1>1, <2>1, <2>2, InsideKeeps, Zenon
  <2> HIDE DEF g
  <2>4. CallInv'
    BY <1>4, <2>1, <2>2, <2>3 DEF IInv, CallInv
  <2> QED
    BY <2>2, <2>3, <2>4 DEF IInv, TypeOK
<1>6. ASSUME convert_fails(t) PROVE IInv'
  <2>1. PICK how \in Conversions[frame[g].method][frame[g].done + 1] : Return(t, how)
    BY <1>6 DEF convert_fails
  <2>2. frame[g].done + 1 \in 1..Len(Conversions[frame[g].method]) /\ frame[g].phase = "convert"
    BY <1>3, <1>6, MethodFacts DEF convert_fails, In, Frame
  <2>3. how \in Exceptions
    BY <1>3, <2>1, <2>2, ConversionFacts DEF Frame
  <2> QED
    BY <1>1, <1>4, <2>1, <2>2, <2>3, ReturnKeeps
<1>7. ASSUME core_begins(t) PROVE IInv'
  <2> DEFINE new == [frame[g] EXCEPT !.phase = "update"]
  <2>1. /\ new \in Frame /\ new.method = frame[g].method /\ new.phase = "update"
        /\ new.before = frame[g].before /\ new.made = frame[g].made
        /\ frame[g].phase = "core" /\ frame[g].method # "getter" /\ core.value < MaxValue
    BY <1>3, <1>7 DEF Frame, core_begins, In
  <2>2. /\ frame' = [frame EXCEPT ![g] = new] /\ UNCHANGED <<borrow, depth, outcome>>
        /\ core'.value = core.value /\ core' \in [value : 0..MaxValue, torn : BOOLEAN]
    BY <1>3, <1>7, Zenon DEF core_begins
  <2>a. /\ new \in Frame /\ new.method = frame[g].method
        /\ frame' = [frame EXCEPT ![g] = new] /\ UNCHANGED <<borrow, depth, outcome>>
    BY <2>1, <2>2
  <2> HIDE DEF new
  <2>3. /\ BorrowIsExact' /\ CallsAreAtomic' /\ frame' \in [FrameId -> Frame]
        /\ Active' = Active /\ frame'[g] = new
        /\ \A h \in Active : h # g => frame'[h] = frame[h]
    BY <1>1, <2>a, InsideKeeps, Zenon
  <2> HIDE DEF g
  <2>4. CallInv'
    BY <1>4, <2>1, <2>2, <2>3 DEF IInv, CallInv
  <2> QED
    BY <2>2, <2>3, <2>4 DEF IInv, TypeOK
<1>8. ASSUME core_ends(t) PROVE IInv'
  <2> DEFINE new == [frame[g] EXCEPT !.phase = "result", !.made = 1]
  <2>1. /\ new \in Frame /\ new.method = frame[g].method /\ new.phase = "result"
        /\ new.before = frame[g].before /\ new.made = 1 /\ frame[g].made = 0
        /\ frame[g].phase = "update" /\ frame[g].method # "getter" /\ core.value < MaxValue
    <3>1. frame[g].phase = "update"
      BY <1>8 DEF core_ends, In
    <3>2. new \in Frame
      BY <1>3, FrameFacts, Zenon
    <3>3. /\ new.method = frame[g].method /\ new.phase = "result"
          /\ new.before = frame[g].before /\ new.made = 1
      BY <1>3 DEF Frame
    <3> QED
      BY <1>4, <3>1, <3>2, <3>3
  <2>2. /\ frame' = [frame EXCEPT ![g] = new] /\ UNCHANGED <<borrow, depth, outcome>>
        /\ core'.value = core.value + 1 /\ core' \in [value : 0..MaxValue, torn : BOOLEAN]
    BY <1>3, <1>8, <2>1 DEF core_ends
  <2>a. /\ new \in Frame /\ new.method = frame[g].method
        /\ frame' = [frame EXCEPT ![g] = new] /\ UNCHANGED <<borrow, depth, outcome>>
    BY <2>1, <2>2
  <2> HIDE DEF new
  <2>3. /\ BorrowIsExact' /\ CallsAreAtomic' /\ frame' \in [FrameId -> Frame]
        /\ Active' = Active /\ frame'[g] = new
    BY <1>1, <2>a, InsideKeeps, Zenon
  <2>4. Active = {g}
    BY <1>2, <2>1, WriterIsAlone
  <2> HIDE DEF g
  <2>5. CallInv'
    BY <1>3, <1>4, <2>1, <2>2, <2>3, <2>4 DEF CallInv, Frame
  <2> QED
    BY <2>2, <2>3, <2>5 DEF IInv, TypeOK
<1>9. ASSUME core_refuses(t) PROVE IInv'
  BY <1>1, <1>4, <1>9, ReturnKeeps DEF core_refuses, In
<1>10. ASSUME core_reads(t) PROVE IInv'
  <2> DEFINE new == [frame[g] EXCEPT !.phase = "result"]
  <2>1. /\ new \in Frame /\ new.method = frame[g].method /\ new.phase = "result"
        /\ new.before = frame[g].before /\ new.made = frame[g].made
    BY <1>3, <1>10 DEF Frame, core_reads, In
  <2>2. frame' = [frame EXCEPT ![g] = new] /\ UNCHANGED <<borrow, depth, core, outcome>>
    BY <1>3, <1>10 DEF core_reads
  <2> HIDE DEF new
  <2>3. /\ BorrowIsExact' /\ CallsAreAtomic' /\ frame' \in [FrameId -> Frame]
        /\ Active' = Active /\ frame'[g] = new
        /\ \A h \in Active : h # g => frame'[h] = frame[h]
    BY <1>1, <2>1, <2>2, InsideKeeps, Zenon
  <2> HIDE DEF g
  <2>4. CallInv'
    BY <1>4, <2>1, <2>2, <2>3 DEF IInv, CallInv
  <2> QED
    BY <2>2, <2>3, <2>4 DEF IInv, TypeOK
<1>11. ASSUME returns(t) PROVE IInv'
  <2>1. PICK how \in {"Ok", "ProtocolError", "MemoryError"} : Return(t, how)
    BY <1>11 DEF returns
  <2>2. how \notin Exceptions \cup {"RuntimeError"}
    BY DEF Exceptions, Hook
  <2> QED
    BY <1>1, <2>1, <2>2, ReturnKeeps
<1> QED
  BY <1>5, <1>6, <1>7, <1>8, <1>9, <1>10, <1>11 DEF Step

(* Every step keeps the invariant.                                         *)
LEMMA NextInv == IInv /\ [Next]_vars => IInv'
<1> SUFFICES ASSUME IInv, [Next]_vars PROVE IInv'
  OBVIOUS
<1>1. ASSUME NEW t \in Thread, NEW method \in Method, call_refused(t, method)
      PROVE  IInv'
  <2>1. TypeOK' /\ CallsAreAtomic'
    BY <1>1 DEF IInv, TypeOK, CallsAreAtomic, call_refused, Outcome
  <2>2. Active' = Active /\ frame' = frame /\ core' = core /\ borrow' = borrow
    BY <1>1 DEF call_refused, Active
  <2> QED
    BY <2>1, <2>2 DEF IInv, CallInv, BorrowIsExact, Readers, Writers
<1>2. CASE UNCHANGED vars
  BY <1>2 DEF vars, IInv, TypeOK, CallInv, CallsAreAtomic, BorrowIsExact, Readers,
              Writers, Active
<1> QED
  BY <1>1, <1>2, CallKeeps, StepKeeps DEF Next

(* The invariant holds in every reachable state.                           *)
LEMMA InvAlways == Spec => []IInv
BY InitInv, NextInv, PTL DEF Spec

(* Every variable keeps its type; in particular the borrow flag is never   *)
(* released below its free value.                                          *)
THEOREM PyTypeCorrect == Spec => []TypeOK
<1>1. IInv => TypeOK
  BY DEF IInv
<1> QED
  BY <1>1, InvAlways, PTL

(* For any number of threads and any nesting, the borrow flag is what the  *)
(* calls in progress hold: failing conversions and refused calls leak none.*)
THEOREM PyBorrowIsExact == Spec => []BorrowIsExact
<1>1. IInv => BorrowIsExact
  BY DEF IInv
<1> QED
  BY <1>1, InvAlways, PTL

(* While a core method changes the connection no other call is past its    *)
(* borrow.                                                                 *)
THEOREM PyUpdatesAreAlone == Spec => []UpdatesAreAlone
<1>1. IInv => UpdatesAreAlone
  BY WriterIsAlone DEF IInv, CallInv, UpdatesAreAlone
<1> QED
  BY <1>1, InvAlways, PTL

(* Every call of the Python object is atomic, and one that raises before   *)
(* its core method leaves the connection as it was.                        *)
THEOREM PyCallsAreAtomic == Spec => []CallsAreAtomic
<1>1. IInv => CallsAreAtomic
  BY DEF IInv
<1> QED
  BY <1>1, InvAlways, PTL
============================================================================
