---------------------------- MODULE PyConnection ----------------------------
(***************************************************************************)
(* The Python object around a Connection, from                             *)
(* crates/h11r-python/src/api.rs.  The module declares gil_used = false    *)
(* (lib.rs:8): threads call the object at the same time.  PyO3 guards it   *)
(* by a runtime borrow: a method with &mut self needs it alone, a getter   *)
(* with &self shares it with other getters, and a call that cannot have it *)
(* raises RuntimeError instead of waiting.                                 *)
(*                                                                         *)
(* A method converts its arguments while it holds the borrow.  This runs   *)
(* Python code (iterators, buffers, attributes) that may call the same     *)
(* object again, in the same thread.                                       *)
(***************************************************************************)
EXTENDS Integers, Sequences, FiniteSets

CONSTANTS Thread,
          MaxDepth,    \* the interpreter's bound on nested calls
          MaxValue     \* bound on the changes made to the connection

ASSUME PyAssumption ==
    IsFiniteSet(Thread) /\ MaxDepth \in Nat \ {0} /\ MaxValue \in Nat

VARIABLES borrow,      \* PyO3's borrow flag: Exclusive, or the number of readers
          depth,       \* how many calls of the object a thread is in
          frame,       \* the calls: frame[<<t, d>>] is the d-th of thread t
          core,        \* the Connection: how often it changed, and whether it
                       \* is in the middle of a change
          outcome      \* how the last call ended

vars == <<borrow, depth, frame, core, outcome>>

----------------------------------------------------------------------------
(* Conversions: the exceptions they may raise.  Hook is whatever the       *)
(* Python code they run raises.                                            *)

Hook == "Exception"

with_buffer_bytes == {"TypeError", Hook}
text_or_buffer == with_buffer_bytes \cup {"ValueError"}
optional_bytes == text_or_buffer
extract_method == text_or_buffer
extract_headers == text_or_buffer \cup {"TypeError", Hook}
extract_version == text_or_buffer \cup {"ValueError"}
status == {"ValueError"}
contiguous_buffer_len == {"TypeError", "ValueError", "OverflowError", Hook}
body_nbytes == contiguous_buffer_len

(* The conversions a method makes, in order.                               *)
RequestArguments == <<extract_method, text_or_buffer, extract_headers, extract_version>>
ResponseArguments == <<status, optional_bytes, extract_headers, extract_version>>

Conversions ==
    [receive_data                |-> <<with_buffer_bytes>>,
     next_event                  |-> <<>>,
     send_request                |-> RequestArguments,
     send_informational_response |-> ResponseArguments,
     send_response               |-> ResponseArguments,
     send_data                   |-> <<with_buffer_bytes>>,
     send_data_parts             |-> <<body_nbytes>>,
     end_of_message              |-> <<extract_headers>>,
     start_next_cycle            |-> <<>>,
     close                       |-> <<>>,
     getter                      |-> <<>>]

Method == DOMAIN Conversions
Exceptions == {"TypeError", "ValueError", "OverflowError", Hook}

----------------------------------------------------------------------------

Exclusive == -1

FrameId == Thread \X (1..MaxDepth)
Active == {f \in FrameId : f[2] <= depth[f[1]]}
Writers == {f \in Active : frame[f].method # "getter"}
Readers == {f \in Active : frame[f].method = "getter"}

Top(t) == <<t, depth[t]>>

(* before is the value of the connection when the call was made, made the  *)
(* change the call itself made, done the conversions behind it.            *)
Frame == [method : Method, phase : {"convert", "core", "update", "result"},
          done : 0..4, before : 0..MaxValue, made : 0..1]

NoFrame == [method |-> "getter", phase |-> "result", done |-> 0,
            before |-> 0, made |-> 0]

Outcome == [how : Exceptions \cup {"Ok", "RuntimeError", "ProtocolError", "MemoryError"},
            before : 0..MaxValue, after : 0..MaxValue, made : 0..1]

Init ==
    /\ borrow = 0
    /\ depth = [t \in Thread |-> 0]
    /\ frame = [f \in FrameId |-> NoFrame]
    /\ core = [value |-> 0, torn |-> FALSE]
    /\ outcome = [how |-> "Ok", before |-> 0, after |-> 0, made |-> 0]

(* Python code of thread t is running: outside the object, in a conversion *)
(* of an argument, or in the conversion of the result.                     *)
RunsPython(t) == depth[t] > 0 => frame[Top(t)].phase \in {"convert", "result"}

CanBorrow(method) == IF method = "getter" THEN borrow # Exclusive ELSE borrow = 0

(* Mutant of Borrowed: every method borrows as a getter does.              *)
BorrowedShared(method) == borrow + 1

Borrowed(method) == IF method = "getter" THEN borrow + 1 ELSE Exclusive

Released(method) == IF method = "getter" THEN borrow - 1 ELSE 0

call(t, method) ==
    /\ RunsPython(t) /\ depth[t] < MaxDepth
    /\ CanBorrow(method)
    /\ borrow' = Borrowed(method)
    /\ depth' = [depth EXCEPT ![t] = @ + 1]
    /\ frame' = [frame EXCEPT ![<<t, depth[t] + 1>>] =
                   [method |-> method, phase |-> "convert", done |-> 0,
                    before |-> core.value, made |-> 0]]
    /\ UNCHANGED <<core, outcome>>

(* The borrow is taken: the call raises at once.                           *)
call_refused(t, method) ==
    /\ RunsPython(t) /\ depth[t] < MaxDepth
    /\ ~CanBorrow(method)
    /\ outcome' = [how |-> "RuntimeError", before |-> core.value,
                   after |-> core.value, made |-> 0]
    /\ UNCHANGED <<borrow, depth, frame, core>>

(* A call ends, normally or with an exception, and gives the borrow back.  *)
Return(t, how) ==
    LET f == frame[Top(t)] IN
    /\ borrow' = Released(f.method)
    /\ depth' = [depth EXCEPT ![t] = @ - 1]
    /\ outcome' = [how |-> how, before |-> f.before, after |-> core.value, made |-> f.made]
    /\ frame' = [frame EXCEPT ![Top(t)] = NoFrame]
    /\ UNCHANGED core

In(t, phase) == depth[t] > 0 /\ frame[Top(t)].phase = phase

convert(t) ==
    LET f == frame[Top(t)] IN
    /\ In(t, "convert")
    /\ frame' = [frame EXCEPT ![Top(t)] =
                   IF f.done < Len(Conversions[f.method])
                   THEN [f EXCEPT !.done = @ + 1] ELSE [f EXCEPT !.phase = "core"]]
    /\ UNCHANGED <<borrow, depth, core, outcome>>

(* Mutant of convert_fails: the exception leaves the borrow behind.        *)
FailKeepsBorrow(t) ==
    /\ In(t, "convert")
    /\ frame[Top(t)].done < Len(Conversions[frame[Top(t)].method])
    /\ depth' = [depth EXCEPT ![t] = @ - 1]
    /\ frame' = [frame EXCEPT ![Top(t)] = NoFrame]
    /\ UNCHANGED <<borrow, core, outcome>>

convert_fails(t) ==
    LET f == frame[Top(t)] IN
    /\ In(t, "convert")
    /\ f.done < Len(Conversions[f.method])
    /\ \E how \in Conversions[f.method][f.done + 1] : Return(t, how)

(* The core method begins to change the connection; a getter reads it.     *)
core_begins(t) ==
    LET f == frame[Top(t)] IN
    /\ In(t, "core")
    /\ core.value < MaxValue
    /\ f.method # "getter"
    /\ frame' = [frame EXCEPT ![Top(t)].phase = "update"]
    /\ core' = [core EXCEPT !.torn = TRUE]
    /\ UNCHANGED <<borrow, depth, outcome>>

(* It is done, or has refused the call (LocalProtocolError).               *)
core_ends(t) ==
    /\ In(t, "update")
    /\ core' = [value |-> core.value + 1, torn |-> FALSE]
    /\ frame' = [frame EXCEPT ![Top(t)] = [@ EXCEPT !.phase = "result", !.made = 1]]
    /\ UNCHANGED <<borrow, depth, outcome>>

core_refuses(t) ==
    /\ In(t, "core")
    /\ frame[Top(t)].method # "getter"
    /\ Return(t, "ProtocolError")

core_reads(t) ==
    /\ In(t, "core")
    /\ frame[Top(t)].method = "getter"
    /\ frame' = [frame EXCEPT ![Top(t)].phase = "result"]
    /\ UNCHANGED <<borrow, depth, core, outcome>>

(* The result becomes a Python object.  next_event may return the error of *)
(* a peer that it has recorded (RemoteProtocolError), or fail to build the *)
(* object of an event that it has already taken from the input.            *)
returns(t) ==
    /\ In(t, "result")
    /\ \/ Return(t, "Ok")
       \/ /\ frame[Top(t)].method = "next_event"
          /\ \E how \in {"ProtocolError", "MemoryError"} : Return(t, how)

Step(t) ==
    \/ convert(t) \/ convert_fails(t) \/ core_begins(t) \/ core_ends(t)
    \/ core_refuses(t) \/ core_reads(t) \/ returns(t)

Next ==
    \E t \in Thread :
        \/ \E method \in Method : call(t, method) \/ call_refused(t, method)
        \/ Step(t)

Spec == Init /\ [][Next]_vars

----------------------------------------------------------------------------

TypeOK ==
    /\ borrow \in Nat \cup {Exclusive}
    /\ depth \in [Thread -> 0..MaxDepth]
    /\ frame \in [FrameId -> Frame]
    /\ core \in [value : 0..MaxValue, torn : BOOLEAN]
    /\ outcome \in Outcome

(* The borrow flag is what the calls in progress hold, whichever way calls *)
(* nest, fail and return: one &mut self method and nothing else, or that   *)
(* many getters.  So it is free when no call is in progress.               *)
BorrowIsExact ==
    IF borrow = Exclusive
    THEN Readers = {} /\ \E w \in Writers : Writers = {w}
    ELSE Writers = {} /\ borrow = Cardinality(Readers)

(* Nobody looks at a connection that another call is changing: during a    *)
(* core method no other call has got past its borrow.                      *)
UpdatesAreAlone ==
    \A f \in Active : frame[f].phase = "update" => Active = {f}

(* A call is atomic: from its beginning to its end the connection changes  *)
(* by what the call itself does and nothing else, although its conversions *)
(* run Python code and other threads call the object.  A call that raises  *)
(* TypeError, ValueError or RuntimeError leaves the connection as it was.  *)
CallsAreAtomic ==
    /\ outcome.after = outcome.before + outcome.made
    /\ outcome.how \in Exceptions \cup {"RuntimeError"} => outcome.made = 0
============================================================================
