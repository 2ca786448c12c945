# A TLA+ model of h11r

`h11r` is a Sans-I/O HTTP/1.1 library in Rust with a Python binding. It does no
I/O: an application hands it the bytes that arrived, polls it for events, and
sends the bytes it returns. This directory models its protocol core, its byte
scanners, its Python binding's borrow discipline and two connections talking to
each other, checks them with TLC and proves part of them with TLAPS. Paths below
are relative to `src/`.

## The system

| Part | Source | State | Operations | Module |
|---|---|---|---|---|
| Lifecycle | `crates/h11r/src/state.rs` | client and server state, keep-alive, switch proposals | `process_event`, `disable_keep_alive`, `process_error`, `start_next_cycle`, the `stabilize` loop | `ConnectionState`, `StateMachine` |
| Connection | `crates/h11r/src/connection.rs` | lifecycle, input, reader, writer, EOF, negotiation fields | `receive_data`, `next_event`, the senders, `start_next_cycle`, `close` | `Connection` |
| Framing, scanning | `crates/h11r/src/wire.rs` | reader variants | framing selection, section and chunk-line ends, limits | `Wire`, `Fields`, `ChunkLine`, `ChunkScan` |
| Retry hints | `wire.rs:64`, `connection.rs:237` | `SectionProgress`, `scanned` | `poll`, `section_ready`, `wait_for_section` | `SectionScan`, `ChunkScan` |
| Input buffer | `wire.rs:33` | byte vector with a start offset | `extend`, `consume`, `take` | `Buffer`, `Queue` |
| Field syntax | `wire.rs` | none | host validation, fold normalisation, trailers | `Authority`, `Trailers` |
| Two endpoints | `connection.rs`, `fuzz/fuzz_targets/h11r_send.rs` | two connections, two channels | every call, delivery, failure | `Exchange` |
| Python binding | `crates/h11r-python/src/api.rs` | the borrow of a `PyConnection` | one per method | `PyConnection` |
| Fragmentation harness | `fuzz/fuzz_targets/h11r_fragmentation.rs` | one stream, read twice | `feed`, `poll`, `compare` | `Fragmentation` |
| Value types, limits | `lib.rs`, `method.rs`, `status.rs` | none | validation | records, `MaxHead` |
| Serialization, examples, benchmarks | `wire.rs:742`, `examples`, `benches` | | | not modelled |

A `Connection` owns one lifecycle record for both actors. Sending a head or body
advances the local actor, reading one advances the peer. After each change
`stabilize` applies the rules that couple the two: waiting for and deciding a
protocol switch, giving up reuse, and closing after the other side closed or was
poisoned. What makes it hard is that calls and input come in any order: early
responses, pipelined requests, EOF at every place, errors after half of the work
is done, `100-continue` together with an upgrade, and reuse over many cycles.

## Modules

- `ConnectionState`: the lifecycle as pure operators. `Accepts` says when
  `process_event` returns Ok, `Advance` is the copy it builds, and
  `StabilizePass` is one pass of the loop, rule by rule in source order.
- `StateMachine`: the operations of the record in every order in which
  `connection.rs` can call them. The loop runs pass by pass as an action of its
  own, so that its result and its termination are checked and not assumed.
- `Wire`: heads, wire units, framing, reader states, section ends.
- `Connection`: one endpoint, one action per public method. Its `role` is chosen
  in `Init` and never assigned.
  Most private functions are operators of the same name in CamelCase
  (`finish_peer` is `FinishPeer`); `accept_response` and `read_chunked` are
  several. A refused call is the step `Reject`. `next_event` is one step
  however often `next_event_inner` calls itself. `ret` is what the last call
  returned. `send_data`, `send_data_parts` and `send_data_framing` are one action.
- `ConnectionHistory`: `Connection` with an observer, `seen`, that sees only
  what crosses the API and keeps its own account of persistence, of negotiation
  and of the body still owed.
- `Buffer`: the byte vector and its offset, with the compaction of `extend`.
  `Queue` is what readers expect of it; `Buffer` implements it (`IsQueue`).
- `SectionScan`: extends `Buffer` by a reader of heads and trailers with its
  hint, one byte of the scan per step, so that a segment may end between any two
  bytes. A complete section is consumed from the buffer; the body that may follow
  it is taken.
- `ChunkScan`: the chunked reader over bytes, with the `scanned` position. The
  reference is a decoder that sees the whole stream.
- `ChunkLine`, `Authority`, `Trailers`, `Fields`: pure algorithms as operators,
  beside reference definitions written from the grammar.
- `Syntax`: states what they and `ChunkScan` promise. Its behaviours grow a text
  by a byte or a field line, so that an invariant quantifies over all texts up to
  a length, or are those of `ChunkScan`.
- `Fragmentation`: extends `Connection` by the fuzz harness. A stream is read
  whole, then in every segmentation, and the outcomes are compared.
- `Exchange`: two instances of `Connection` and a FIFO channel in each
  direction. A channel delivers any prefix of what is in transit, is shut down
  by `close`, and may fail, losing the end of what it carries. Each side keeps
  what it said and what it was told. Refused calls change nothing but `ret` and
  are left out here. A `scenario`, chosen in `Init`, lists what the applications
  may send and says whether the transport may fail.
- `PyConnection`: threads with a stack of calls on one Python object. A call
  takes PyO3's borrow, converts its arguments one by one, runs the core method
  in two steps, and converts the result. Python code runs in the conversions
  and may call the object again.
- `MCMessages` and the other `MC` modules: the heads, segments, streams and
  calls TLC enumerates.
- `ConnectionStateProofs`, `StateMachineProofs`, `ConnectionProofs`,
  `ConnectionHistoryProofs`, `InputProofs`, `ChunkScanProofs`, `SyntaxProofs`,
  `PyConnectionProofs`: theorems.

Definitions that begin with "Mutant of" in their comment are deliberately wrong
variants, and no specification uses them. Each property has one that it rejects.

### Abstractions

- In `Connection`, `Fragmentation` and `Exchange` the byte stream is a sequence
  of units (listed in `Wire`), and lengths and limits count units. A unit
  arrives whole. Within a section, segmentation is represented by `part` units.
  `space` is a body byte that is white space: it is `byte` to everything but the
  client's fold normalisation, which looks behind a trailer section.
  What happens inside a unit is the subject of the byte-level modules:
  a CRLF split between two segments in `SectionScan` and `ChunkScan`, numbers
  and extensions in `ChunkLine`, fold normalisation in `Trailers`.
- In the byte-level modules a byte stands for its class: `x` is any byte of a
  field line, `t` any token byte, `a` a hexadecimal letter, and so on.
- A head is a record of the fields `connection.rs` looks at. Target, reason and
  other fields are one flag, `ok`.
- `httparse` is external: it accepts `crlf* part* head`, finds a prefix of that
  partial, and rejects anything else. In `SectionScan` it may reject at any
  time, and otherwise decides by the first blank line; in `Trailers` it rejects
  a line that begins with white space and a carriage return without line feed.
- `Ipv6Addr` is external, modelled for the lengths that occur.
- `max_head_bytes` is modelled, `max_header_count` is not.
- `SectionProgress` is, in `Connection`, the fact that the section was tried
  before. `SectionScan` shows that the position it keeps makes no difference.
- Lengths are natural numbers in `Wire`; `ChunkLine` parses them with a width.
- In `PyConnection` the connection is a counter of its changes and a flag that
  is set in the middle of one. PyO3's borrow is external. An integer argument
  that PyO3 itself converts is no conversion of the model.

## Runs

| Run | Result | Distinct states | Question |
|---|---|---|---|
| `state_machine` | pass | 484 | Do the coupling rules reach a fixed point and keep their promises, for both roles? |
| `lifecycle` | pass | 203,738 | Do the fields of a client or server stay consistent over any calls, errors and cycles? |
| `bodies` | pass | 211,570 | Are bodies read exactly, in every segmentation, with EOF anywhere? |
| `fragments` | pass | 384,931 | Is segmentation invisible to the application, but for white space behind a trailer section? |
| `exchange` | pass | 538,119 | Do two endpoints understand each other, agree on reuse and on switching, also when the transport fails? |
| `exchange_live` | pass | 72,577 | Does everything said arrive? |
| `input` | pass | 670,351 | Is the buffer a queue at linear cost, and does the hint find every end, invent none, and look at each byte once? |
| `syntax` | pass | 1,155,125 | Does the chunked reader decide by the stream and not by its segments? Are chunk lines, trailers, Host values and framing fields read as their grammars say, and does `set_connection_close` keep the rest? |
| `py_connection` | pass | 5,361 | Are calls of one Python object exclusive and atomic? |
| `close_signal` | violation | | Does a response say on the wire that the connection will not persist? |
| `waiting_flag` | violation | | Is a client that finished its request still reported as waiting? |
| `diagnosis` | violation | | Is the status suggested for a bad stream independent of its segmentation? |

Deadlock is checked in `state_machine`, `py_connection` and the runs of
`MCConnection`. The others really stop: an enumeration ends at its bound, the
fragmentation harness ends after the comparison, and an exchange ends when both
sides have closed or said as much as the scenario allows.

**Bounds.** `StateMachine` is finite and is explored completely. In the runs of
`MCConnection`, `MaxInput` bounds the buffered units, `MaxHead` is the limit, and
`MCMessages` lists the heads; the number of cycles is not bounded.

- `lifecycle` uses `MaxInput = 1`. Its properties depend on the order of
  heads, ends and calls, and a unit may arrive before or after any call, so one
  buffered unit already gives a pipelined request. Declared lengths are 2, and
  `send_data` is called with 0, 1 and 2: nothing, part, all, too much.
- `bodies` buffers 3 units with `MaxHead = 2`, so that a section can exceed
  the limit and a chunk can arrive with what follows it. The server receives
  every kind of unit. The client, whose chunks the same code reads, receives
  heads, bytes, line ends and chunk lines of 0 and 2.
- The lists of heads vary kind, version, framing, close, upgrade, expectation
  and validity, not every combination. They have one framing error,
  Transfer-Encoding together with Content-Length; `syntax` enumerates the others.
- `input` receives 5 bytes in segments of 1 and 2, with a limit of 4: leading
  blank lines, a section, a body and the beginning of the next section, a
  section over the limit, and compactions with and without live bytes.
- `syntax` reads chunked bodies of up to 10 bytes, two chunks, with a limit of 2
  and at most 5 buffered bytes. To chunk lines and Host values it appends 5 bytes
  to seeds that stand at the interesting places of the grammar; `UsizeMax = 255`
  makes three hexadecimal digits overflow. Trailers have 8 bytes with a limit of
  6: a folded line, the blank line and what follows, with the limit on either
  side. Up to 4 field lines are combined.
- `fragments` reads all streams of a few units over an alphabet with malformed
  units in it, and longer ones behind a head with a body, with a limit that short
  streams exceed. The bodies have white space among their units, also directly
  behind a trailer section.
- The scenarios of the exchanges let each side say 3 or 4 parts (heads, bytes,
  ends): a request and a second one, interim and final responses, CONNECT and
  Upgrade, or bodies that a failure cuts at each place.
- `py_connection` has two threads, two nested calls and two changes.

**Fairness.** The library runs only when called, so fairness is always that of
its caller.

- `LoopTerminates`: weak fairness of `Loop`, straight-line code of one call.
- `EofIsReported`: weak fairness of `next_event`; the documentation has the
  application poll for events.
- `CompleteIsParsed`: weak fairness of the reader's steps, the code of one poll.
- `PollingEnds`: weak fairness of the harness, which is a sequential program.
- `SaidIsHeard`: weak fairness of each side's receive loop,
  which awaits the transport, polls, and in the server starts the next cycle or
  closes when it must (as in `examples/python/asyncio_server.py`). The transport
  delivers within these loops. Nothing is assumed of the sending calls.

**What the passing runs show.** The loop returns the fixed point of its rules,
switching wins over closing, a client waits for a switch only while it is
undecided, and nobody starts a message after the other side ended. At the
endpoint, reader and writer agree with the lifecycle, also after errors; no
terminal state is left; reuse is refused whenever a head of the cycle forbade
it; HTTP ends only by a negotiated switch; declared lengths are met exactly;
chunk marks bracket chunks; input behind a finished message is kept; and EOF is
reported, never answered by a request for more data.

Over bytes, the hints and the compaction change the cost and not the result, and
the scanners accept what their grammars say. Over segmentations, events, body,
states and acceptance are the same, with one exception: a client may refuse a
chunked response whose trailer section is buffered together with white space
behind it, and accept it when the section comes alone. The suggested status does
depend on segmentation. Between two endpoints, nobody is blamed on a transport
that works (but for a request that meets a server that has just closed),
truncated messages are not taken for complete ones, and reuse and switching are
agreed. In Python, calls that meet a borrow raise and change nothing.

### Disagreements with the documentation and tests

- `close_signal`: `send_response` reads `keep_alive` (`connection.rs:665`) before
  the state event that may clear it. A CONNECT answered with 403 ends reuse
  (`state.rs:189`) but the response carries no `Connection: close`.
  `crates/h11r/tests/protocol.rs:839` asks for one. `AnswerSignalsClose`
  passes: the responses to all other requests do carry it.
- `waiting_flag`: `finish_peer` (`connection.rs:472`) does not clear
  `waiting_for_continue`. After an empty chunked request with
  `Expect: 100-continue` a server still reports the client as waiting, where
  `crates/h11r-python/src/api.rs:727` describes "Whether the client is waiting
  for `100 Continue`."
- `diagnosis`: a head that is malformed and over the limit suggests 400 when it
  arrives whole (`wire.rs:117` comes before `wire.rs:130`) and 431 when a
  well-formed beginning arrives first (`connection.rs:263`).
  `crates/h11r/tests/protocol.rs:110`: "Transport segmentation cannot change a
  parser diagnosis."

Two more are written into the properties that meet them as their one exception;
without it the run fails.

- `ChunkLinesAreExact`: white space behind an extension name without a value makes
  `parse_chunk_header` return `None` (`wire.rs:474`), as in `1;t ;0`, which the
  grammar allows. `crates/h11r/tests/protocol.rs:1098` has recipients "ignore
  unknown chunk extensions". No other valid line is refused.
- `TrailersAreDecided`, over bytes, and `SegmentationIsInvisible`, at the
  connection: a client normalises folds in all that is buffered
  (`wire.rs:533`). If the bytes behind a trailer section begin with white space
  the blank line is joined away, and the section that is accepted by itself is
  not accepted with them. So a response is complete or an error by where the
  segment ends: `size 0`, `trailers` and white space in one `receive_data` poison
  the connection; with the white space in the next one the message ends and the
  white space is trailing data. `crates/h11r/tests/protocol.rs:206`: "A complete
  section and every transport segmentation of it must have one decision."

## Proofs

The theorems hold for every value of the constants: every role, limit, set of
heads, segments, sizes and threads, under the modules' assumptions, which only
give the constants their types. They are about the model, so the abstractions
above apply to them too.

- `OnePassIsFixedPoint`: from every record one pass reaches the fixed point.
  `Settled` describes a record to which no rule applies: every pass ends in one
  and leaves one alone. This justifies `Stabilize` being a single pass.
- `StateMachineProofs`: `TypeCorrect`, `LoopCorrect`, `SwitchWins`,
  `SwitchUndecided`, `NoMessageAfter`. Only `TypeOK` is inductive by itself.
  `IInv` adds that the record is the entry record or its first pass, and
  `Negotiating`, which relates the proposals to the two states: without it the
  server could switch beside a client that was already told to close.
- `ConnectionProofs`: `CInv` is the conjunction of `TypeOK`, `StateIsStable`,
  `ReaderFollowsPeer`, `WriterFollowsLocal` and `NoNeedDataAfterEof`, which is
  inductive. The argument rests on `PassKeepsBodies`: the joint rules put no
  actor into a body and take none out of one, so an actor enters and leaves a
  body only by its own event, where reader or writer is set. There is a lemma
  for each way `next_event` returns and one for each action.
  `TerminalIsFinal` and `TrailingInput` are action properties proved from it.
  An event moves only its own actor, and neither it nor a joint rule moves an
  actor in a terminal state; the readers that consume input are reached only
  while the peer is in a message or idle.
- `ConnectionHistoryProofs`: `ClosingIsRespected`, `SwitchByAgreement`,
  `LengthsAreExact`, `ClosingIsSignalled`, `ChunkMarks`. `HInv` adds to `CInv` an
  account of what the observer and the connection know of each other: what the
  heads of the cycle said against `keep_alive` and the proposals, the bytes the
  observer still expects against those the reader still owes, and the same for
  the writer. The properties speak of what was observed only, and say nothing of
  the reader between two events: without the account a body could end early in
  a step they allow. Each call is shown to keep the account by what it returns.
- `InputProofs`, on the buffer: `BufferTypeCorrect`, `CompactionCost`, `DeadSpace`
  and the refinement `BufferIsQueue`. The strengthening says that the bytes moved
  and the dead bytes together are at most the bytes consumed: a compaction turns
  dead bytes into moved ones. On the hint: `HintIsSound`, `HintIsExact`,
  `HintIsLinear`, and, because every step of the reader is a step of the buffer's
  own specification (`ScanUsesBuffer`), `InputIsQueue`, `InputIsAmortized` and
  `InputIsCompact`. The invariant says that `at`, `line_start` and `started`
  describe the scanned part of the data: no end in it, the last line feed of it,
  and whether a line that is not blank is in it. From this the byte step decides
  as the reference.
- `ChunkScanProofs`: `ChunkedIsDecoded`, which is `StreamDecides` for every stream,
  limit, segmentation and order of calls. The decoder is a recursive function of
  the position, so its values are known only by induction. The induction goes by
  the least counterexample, which exists because the order of the numbers is
  well-founded; from it follow that the recursion has a solution, that what it
  finds at a place depends on nothing in front of it, and that a longer stream
  does not change what was decided. The invariant says that reading on from the
  reader's position, whatever bytes are still to come, gives the chunks that are
  missing; that the reader variant describes the bytes behind that position; and
  that no line end is in front of `scanned`. It speaks of all continuations
  because a segment that arrives later must not revise an earlier answer.
- `SyntaxProofs`: `HostsAreUriHosts`, `FramingIsClear` and `CloseIsWrittenOnce`,
  for Host values and lists of fields of any length. The invariant is only that
  a text consists of the elements of its subject (`SyntaxAssumption`); the work
  is in lemmas about the operators. For Host values, `PercentEncoded` says which
  values the scan for percent signs accepts, by giving its result from each place
  in closed form; then a value with a bracket in front and one without are compared with
  the grammar separately, because they look for different delimiters. `Ipv6Addr`
  stands on both sides; of it only the bytes it allows are used. For fields, `SelectStep` and
  `ValuesStep` say what one more line adds to a selection and to the values of a
  field; by induction over lists (`AllSequences`) a selection of a selection is
  that of the intersection (`SelectTwice`) and the values of a field are those of
  its own lines (`ValuesOfSelected`), so that rewriting Connection shows in
  nothing that reads another field.
- `PyConnectionProofs`: `PyTypeCorrect`, `PyBorrowIsExact`, `PyUpdatesAreAlone`,
  `PyCallsAreAtomic`, for any finite set of threads and any depth. Atomicity
  needs `CallInv`: while a call is in progress the connection has the value it
  had at the beginning plus the call's own change, which holds because the flag
  excludes every other writer.

Only model-checked: liveness (`LoopTerminates`, `EofIsReported`,
`CompleteIsParsed`, `PollingEnds`, `SaidIsHeard`), which is beyond the prover; that the scanners of `ChunkLine` and `Trailers` accept what
their grammars say (`ChunkLinesAreExact`, `TrailersAreDecided`), each of which
needs an induction of its own over scanner and grammar; and the comparisons and agreements of
`Fragmentation` and `Exchange`, which relate two runs or two endpoints and would
need an invariant over every pair of their readers.

## Not modelled

- Validation of targets, reasons, field names and values, `Method` and
  `StatusCode`, and zero limits: each asks one question of every byte or of one
  number, without state, so that a reference would repeat the code.
- Serialization of heads: the properties are about the units it writes.
- `max_header_count`: `httparse` counts, and the code passes the number on.
- The Python value classes (constructors, equality, representation): immutable.
- Benchmarks, and the examples as programs of their own: their calls are among
  those the runs make in every order.
