# A verification of Roadcast in TLA+

Roadcast (`roadcastd`) samples the CAN frames a vehicle HAL keeps in its memory,
decodes them into signals, and serves both to local clients over a Unix socket:
a complete snapshot first, then every change. This directory holds TLA+ modules
translated from its C sources, TLC configurations that check them on small
instances, and TLAPS proofs of the most important results for every instance.

Line references `file.c:n` are to `src/src/`, `DOC.md:n` to `src/docs/`.

## The system

| part | source | state | operations |
|---|---|---|---|
| event loop and sessions | `roadcastd.c` | canonical frames and signals, change sequence, table of sessions (flags, output queue, frozen snapshot, catch-up, deadlines) | accept, HELLO, GET_SCHEMA, GET_SNAPSHOT, GET_SIGNAL_SNAPSHOT, SUBSCRIBE_ALL, PING, write completion, heartbeat, sample, close, shutdown |
| request framing | `roadcastd.c` | input buffer of a session | read, process, compact |
| sampler thread | `roadcastd.c` | working and published frames, sample sequence, source state, stop flag | initialise, sample, merge, publish, stop |
| source session | `source_session.c` | connected, generation, retry time and delay | read, close |
| VHAL reader | `vhal_source.c` | PID, identity and memory descriptors, addresses, `process_vm_readv` cooldown | open, read, close; ELF symbol lookup |
| client library | `client.c` | socket, cache under a lock, reader thread | connect, synchronise, apply, resynchronise, close, accessors |
| command line | `roadcastctl.c` | one connection, the signals, a gap counter | setup, stream, resynchronise |
| wire format | `protocol.c` | none | encode, decode |
| catalog | `catalog.c`, `catalog_generated.c` | none | bit extraction, invalid flags, schema chunks, lookups |

The sampler thread calls the source session, merges what it read and publishes
it under a lock; `uv_async_send` wakes the event loop, which computes what
changed, replaces the canonical state, and queues batches for subscribed
sessions. Everything that touches a session runs in event-loop callbacks, one
at a time. A session's messages leave in order, one slot of a bounded queue per
message, and each slot is freed by a write callback. At the other end of the
socket the library's reader thread (or `roadcastctl`) applies the messages to a
cache, and starts the snapshot again when it is told that it missed something.

What is hard to get right here, and hard to test:

- catch-up rounds stretch over many write callbacks while the state moves on;
- an update can be queued by half when the queue fills, and a stalled session
  is only woken by a write callback;
- one array holds both the frozen snapshot and the base of the catch-up;
- deadlines are armed, cleared and re-armed by different handlers;
- two threads hand over samples through a notification that coalesces;
- the sampled process may exit, and its PID be reused, between two system calls;
- back-off, cooldown and reopening of descriptors combine on failure;
- the library resynchronises while messages of the old subscription are still
  under way, under a read timeout, and may be closed in the middle of it;
- table sizes and offsets of a file, bit offsets of a word and the end of a
  buffer are all boundary arithmetic.

The properties asked of the code follow from its documents: no change is lost
between the snapshot and the live stream, up to the cache an application reads;
whatever is sent is true of the change it is labelled with; a client that cannot
keep up is told or closed, and always has a deadline; nothing waits for a
wake-up that will not come; bytes of the wrong process are never published; an
observation counts as valid only when the source in use has been seen to change
it; connecting, closing and shutting down terminate.

## Modules

| module | models |
|---|---|
| `Protocol` | items, values and messages, shared by server and clients |
| `Broker` | the event loop and its sessions |
| `Channel` | the socket between the server and one client |
| `Sdk` | the client library |
| `Ctl` | `roadcastctl`: setup, stream loop, resynchronisation |
| `AnyServer` | the library against an arbitrary server |
| `Stream` | composition: `Broker`, `Channel`, and `Sdk` or `Ctl` |
| `Source` | abstract: what a source session promises the sampler |
| `SourceSession` | source session and VHAL reader, one system call per step |
| `Sampler` | sampler thread, hand-over and canonical state, on top of `Source` |
| `Symbols` | where frames lie in the sampled process: symbol table and mapping |
| `Wire` | every encoder and decoder, SCHEMA_CHUNK included, byte by byte |
| `Input` | how a byte stream is cut into requests |
| `Catalog`, `CatalogTable` | decoding, schema chunks and lookups; the shipped tables |
| `BrokerInv` | the inductive invariant of `Broker` |
| `BrokerProofs`, `BrokerDelivery`, `BrokerHandlers`, `BrokerSessions`, `BrokerSafety` | proofs about `Broker` |
| `SourceProofs` | proofs about `SourceSession`, and that it implements `Source` |
| `SamplerProofs` | proofs about `Sampler` |
| `SdkProofs` | proofs about `Sdk` and `AnyServer` |
| `MCBroker`, `MCSourceSession`, `MCSampler`, `MCFormats`, `MCStream` | instances for TLC |

How they fit together: `SourceSession` is proved to implement `Source`, and
`Sampler` extends `Source`, so what is proved of the sampler holds over the
real session. `Sampler` ends, and `Broker` begins, at the canonical state:
`Sampler` models how `distribute_latest_sample` computes it, `Broker` what it
sends. `Broker` accepts *any* new canonical state in which signals change only
together with a frame, which includes every state the sampler can produce.
`Stream` puts a real client at the end of a session of `Broker`; its property
`RequestsOrderly` is a refinement, `Stream` implements `Broker` with
`Client = "orderly"`, so that the theorems about orderly clients are theorems
about the two programs of the repository.

### Broker and Protocol

Each libuv callback is one action; a session is a record with the fields of
`struct roadcast_client`; a C function that takes a client pointer is an
operator from the session to the session it leaves. Loops inside a callback
(batching an update, sending a catch-up round) are written in closed form:
`Batches` gives the messages, `Enqueue` takes as many as there are slots.

- Frames and signals are numbered together as *items*, frames first, as batches
  carry them. A value is what the code compares (`reading`) and the timestamps
  it carries (`stamp`); for a frame the comparison ignores the stamp
  (`roadcastd.c:1105`), for a signal it does not.
- `history[n + 1]` is the canonical state of change sequence `n`. `view` is what
  a client holds after applying what was written to its socket, `continuous`
  that no snapshot or catch-up was started since SUBSCRIBED. These three exist
  for the properties only: no guard reads them except the bound on changes.
- A queue slot holds `CLIENT_MESSAGE_CAP` bytes, so the byte limit never binds
  before the slots do; the queue is a sequence of at most `QueueSlots` messages.
- A deadline is counted in heartbeat intervals, because it is compared only in
  `on_heartbeat`.
- `client_close` clears the record at once: the code never reads a closing
  session again, except to know that its slot is taken.
- `Client` says how requests are paced. `"orderly"` is the library and the CLI;
  `"resubscribing"` repeats snapshots and subscriptions on a live session but
  waits for SUBSCRIBED; `"pipelining"` sends any request at any time.

Left out: statistics and logs, sample sequence and timestamps in message
headers, the bytes of messages (`Wire`), and partial input (`Input`): a request
is handled when it is complete, an invalid one is `Disconnect`.

### Channel, Sdk, Ctl

Messages travel whole and in order through a socket that holds `SocketSlots` of
them; the server may close it, which leaves what was written readable. What the
two clients do with a message is one operator per C function (`perform_handshake`,
`request_schema`, the two snapshot loops, `wait_for_subscription`, the live
loop), applied to a record of the locals and the struct.

`Sdk` has two threads. `app` is the position of the application thread
(connect, use, the three steps of `roadcast_client_close`), `pc` that of the code
that talks to the server, which the application runs while it connects and the
reader thread afterwards. A section under `cache_lock` is one step, so frames
and signals of one update are two steps, and the accessors, which only copy
under the lock, see the states of the module. Timeouts count heartbeat
intervals: `read_left` is the three seconds of one `read_message`,
`budget_left` the ten seconds of a setup. `read_exact` takes what has arrived
before it looks at a deadline (`client.c:251`), so `read_timeout` is enabled only
with an empty inbox.

`Ctl` is a single thread with a poll timeout; it keeps signals and not frames,
and counts a gap when the change sequence advances by more than one. The delay
options are steps taken late.

`AnyServer` lets the server send any message of the protocol at any time, stay
silent or hang up. `Stream` connects the real server; `prompt` marks the
behaviours in which everything that can be done within a heartbeat interval is.

### SourceSession, Source, Symbols

The sampled process is named by PID in every system call, so each call is a
step and processes start and exit between them. A process is numbered by its
start, which is what the `/proc/PID/stat` descriptor pins; its memory is
modelled by that number, so a delivered frame tells whose memory it came from.
`mem_fd` keeps to the address space it was opened for and reads nothing after
its process exits. Programs differ in whether their name matches and which
symbols they have. `Fault` lets any system call fail by itself, a bounded
number of times. `retry_left` and `vm_left` count clock ticks down instead of
comparing with an absolute time, and `spent` is the time a call has taken, as
`retry_at_ns` counts from its start. In-place `exec` is outside the model, as
`ARCHITECTURE.md:92` places it outside the design.

`Source` is the contract: an open starts a generation with a fixed set of
readable frames; a read delivers all of them or nothing; after a failure
nothing is delivered before the next generation.

`Symbols` opens up one of these steps, the symbol lookup and the computation of
addresses, over every small executable: header and tables anywhere in (or
beyond) the file, wrapping unsigned arithmetic, several segments and tables. An
image is its fields; the fixed values of an ELF header are one flag. A file is
loaded at, above or below the address it is linked to; below, the bias wraps. A
first segment that starts inside a page is among the executables, but outside
`SymbolsAtTheirAddresses`: the code then takes the start of the page for it.

### Sampler

Thread steps: read the source, merge and store `source_state`, copy under
`published_lock`, `uv_async_send`. Event-loop steps: the callback (libuv clears
the pending flag first), then `distribute_latest_sample`; at shutdown, set the
flag and join, close the handles, destroy. `sampler_init` and its first read
come before both. Times are sample sequence numbers, which grow with the
monotonic clock. The raw decoding is a constant function. The fake sources are
the behaviours in which the source is opened once and always delivers.
`last_bytes` and `varied` exist for the properties only.

### Wire, Input, Catalog

`Wire` keeps the size in bytes of every field and halves the radix of a byte,
so that a 32-bit value is a TLC integer; a 64-bit word is the pair of its
halves, as in `put_u64` and `get_u64`. One message is encoded, at most one byte
of it is changed, dropped or added, and the rest is decoded. `EncodeEntry` and
`EncodeSchemaChunk` are the bytes that `catalog.c` writes, and
`roadcast_decode_schema_chunk` has every check of `protocol.c:144-207`. What is
decoded re-encodes to the same bytes, with one exception the property states: a
NUL inside a name or a unit ends it, as both are stored as C strings.
`Input` names byte `k` of command `m` as `<<m, k>>` and lets a read end anywhere.
`Catalog` works on the shipped tables (`CatalogTable`, all rows of
`catalog_generated.c`): a word is the set of its one bits, so shifts and masks
are set operations. Its reference definition, `Layout`, is the list of frame
bits of a signal that the catalogue's numbering defines. `Flip`, which changes a
bit of a frame, is the environment. Schema discovery runs over `Wire`: the
daemon encodes the rows into the bytes of one chunk after the other, and the
library or roadcastctl decodes them, compares type, version, hash, total and
start with what it expects, and stops at the first difference. Names and units
are their ASCII codes. A stable id is the number of the first row that has it,
and scale and offset are words that differ from row to row.

## Runs

Each bound is named in the configuration. The Broker runs use one session
except where sessions interact: they share only the canonical state, which no
session writes, and the session table, which `session_table` covers with three.
Two frames and a signal, one item per message and two slots make every update
of two items or more overflow a queue with anything in it, let a catch-up
stall, resume and need a second round, and let a snapshot take three pages.
Two changes let the state change, and change back, within a transfer.

| run | shows |
|---|---|
| `live_subscription` | `WireTruth`, a value on the wire is that of its change sequence; `WakeupPending`, whoever waits has a write outstanding; `SnapshotFrozen`, the pages of one transfer are of one state; `Fresh`, a live session ends up with the canonical value of every item; `Inv`, the invariant that is proved (type correctness, `TypeOK`, is its first conjunct) |
| `orderly_client` | `MarkersTruthful`, SUBSCRIBED and HEARTBEAT report only complete states; `SetupWindow`, a session that is not live has a deadline |
| `session_table` | `PerUidLimit` with three slots and two users |
| `liveness` | `DenseUpdateFits`, the default queue size holds a dense update and one more message; `StalledReaderEvicted`, `LostContinuityResolved`, `ShutdownCompletes` |
| `stream` | both clients at the end of a real session: `RequestsOrderly`, they are orderly clients; `StreamUnderstood`, they refuse nothing the server sends and it closes the session over no request of theirs; `CacheFresh`, `CacheConsistent` and `CacheAdvances`, what the application reads is never mixed further than one update, never goes back and is completed by what is under way; `NoFalseAlarm`, prompt peers never time out; `NoGapsReported` |
| `sdk` | against any server: `HandleOutlivesReader`, no thread is left when the handle is freed; `CloseReturns`, `ConnectReturns`, `LossNoticed` |
| `source_session` | `BytesOfResolvedProcess`, `DescriptorsReleased`, `DelayResetByReadOnly`, `ImplementsSource` (the refinement); `Recovers`, reads succeed again once the VHAL stays up |
| `sampler` | `ValidMeansObserved`, `SignalsFollowFrames`, `SignalHistoryKept`, `NothingPending`, `ThreadOutlived`, `StopCompletes` |
| `formats` | `DecodersInvertEncoders`, `FramingExact`, `DecodeMatchesLayout`, `SchemaDiscovered`, `ReadsInsideFile`, `SymbolsAtTheirAddresses` |

Other bounds. `stream` has one frame, one signal, a socket of one message, a
queue of two and three changes: an update fills the queue, the next is dropped,
and there is one more to be missed or caught up after the resynchronisation has
begun. Its schema is one chunk; `sdk` has two, so that the paging loop turns.
`sdk` has two frames in one page and a read timeout shorter than the setup
budget, as in the code. In `source_session` three processes and two PIDs let a
PID change hands twice within one open, and one fault takes any one system call
down. In `sampler` a first read and three samples over two generations are
enough to observe a frame, lose its source and open another, and for three
samples to coalesce. `formats` uses the real constants of the schema and the
real catalogue; bytes have radix 128, above every one-byte limit of the formats,
and a changed byte takes the next value or one at such a limit (`Altered`). A
chunk of `Wire` has one or two entries, with the longest texts or the shortest.
A request of `Input` has at most five bytes, addresses have five bits and pages
are of four.

Symmetry is used for readings only, in runs without liveness.

Deadlock is checked except in `sdk`, `setup_budget`, `stream` and `formats`,
whose behaviours end: a handle that has been closed is not used again, a server
that has shut down and a program that has exited do nothing, and a message that
has been decoded is the end of its story.

`SymbolsAtTheirAddresses` is stated for executables whose lowest segment starts
at a page of the file, as linkers lay it out: `find_mapping_base` looks for the
mapping by the exact file offset. No object is taken to lie at address 0, which
`roadcast_vhal_open` uses for "not resolved".

### Fairness

- `liveness` assumes only that the repeating heartbeat timer fires and that
  libuv runs close callbacks; nothing is assumed of clients, not even that they
  read.
- `sdk` assumes that the threads of the client are scheduled, that the clock
  advances (`tick`), and that a close that has begun goes on; nothing of the
  server. `ConnectReturns` and `LossNoticed` exclude the behaviours in which the
  server never stops sending. `setup_budget` includes them and adds strong
  fairness of `read_timeout`: a client that again and again finds nothing to
  read after its deadline gives up, so only a server that is always ahead
  remains.
- `source_session` assumes the sampler thread runs, its system calls return and
  time passes; `sampler` that both threads are scheduled.
- Signals that stop the daemon are never assumed to come.

### Disagreements between the code and its documents

- `repeated_subscribe`: SUBSCRIBE_ALL again while a catch-up is stalled starts
  a new round from a copy that already holds the unsent values, which are then
  never sent (`roadcastd.c:744`), against `PROTOCOL.md:70`. Clients that wait
  for SUBSCRIBED, as the library and the CLI do, are not affected: `Fresh` is
  proved for them.
- `frame_timestamps`: a sample that changes only a frame's timestamps replaces
  the canonical frame and is sent to nobody (`roadcastd.c:1114`), against
  `ARCHITECTURE.md:137`. It happens when a value changes and changes back
  between two distributed samples.
- `setup_budget`: the setup deadline of the library is looked at only when
  nothing has arrived (`client.c:251`), so a catch-up that does not end keeps
  `roadcast_client_connect` from returning, against the global budget of
  `CLIENT_SDK.md:58`.

## Proofs

For every value of the constants, from the assumptions the modules name:
`BrokerConstants` (sizes are positive, the initial reading is not a reading of
the source), `SessionConstants` (the first retry delay is positive and at most
the largest, "no data" is not data), `SourceConstants` and `SamplerConstants`
(each signal has a frame, and its invalid flag is in the same one).

| theorem | states | for |
|---|---|---|
| `BrokerProofs!TypeCorrect` | `Spec => []TypeOK` | every client |
| `BrokerSafety!Inductive` | `Spec => []Inv` | every client |
| `BrokerSafety!WireTruthful` | `Spec => []WireTruth` | every client |
| `BrokerSafety!NoLostWakeup` | `Spec => []WakeupPending` | every client |
| `BrokerSafety!NothingLost` | `Spec => []Fresh` | all but `"pipelining"` |
| `BrokerSafety!CopyFrozen` | `Spec => SnapshotFrozen` | every client |
| `BrokerSafety!LimitEnforced` | `Spec => []PerUidLimit` | every client |
| `BrokerSafety!WindowEnforced` | `Spec => []SetupWindow` | `"orderly"` |
| `BrokerSafety!MarkersHonest` | `Spec => []MarkersTruthful` | `"orderly"` |
| `SdkProofs!NoUseAfterClose` | `AnySpec => []HandleOutlivesReader` | every server |
| `SourceProofs!ReadsOneProcess` | `Spec => []BytesOfResolvedProcess` | any PIDs, processes and faults |
| `SourceProofs!NothingHeld` | `Spec => []DescriptorsReleased` | |
| `SourceProofs!DelayKept` | `Spec => DelayResetByReadOnly` | any delays |
| `SourceProofs!Refines` | `Spec => ImplementsSource` | |
| `SamplerProofs!ObservedOnly` | `Spec => []ValidMeansObserved` | any frames, bytes and generations |
| `SamplerProofs!SignalsCurrent` | `Spec => []SignalsFollowFrames` | any catalogue |
| `SamplerProofs!NoLostSample` | `Spec => []NothingPending` | any number of samples |
| `SamplerProofs!JoinedBeforeClose` | `Spec => []ThreadOutlived` | |
| `SamplerProofs!HistoryKept` | `Spec => SignalHistoryKept` | |

**The broker's invariant.** `WireTruth`, `WakeupPending` and `Fresh` are not inductive.
`Fresh` speaks of live sessions, and a session becomes live at the end of a
catch-up, so the invariant follows an item from the snapshot on: `Coverage` says
that what was paged out arrives as of the frozen copy (or as of now, on a
subscribed session), that during a catch-up all but the pending items do, and
that on a live session all do. For a catch-up to end in that state the copy must
be the state it is labelled with (`Wire`), a round must only ever be interrupted
by a full queue (`Waiting`), and a transfer and a catch-up must exclude each
other (`Shape`). `Coverage` is what a second SUBSCRIBE_ALL during a catch-up
breaks, hence the assumption on `Client` there, and only there.

The proofs have one lemma per operator (what it does to type and to each part
of the invariant), then one step per action. The closed form of `Batches` needs
the lemmas that batches partition the pending items and that the first `n`
batches carry exactly the items with `BatchOf` at most `n`.

**Deadlines, limit and copy.** `Evolves` relates a session before and after any
callback: its user stays, and so does the copy while a transfer goes on.
`SnapshotFrozen` is that for every step; `PerUidLimit` follows with a counting
argument (`on_connection` adds one session to a set it has just found to be
smaller than the limit, every other step only removes). `SetupWindow` needs
`Armed`: a session that leaves the subscribed state has its deadline set in the
same callback, and for an orderly client no catch-up runs on a session that is
subscribed or owed a resynchronisation, as its end would clear the deadline. A
client that resubscribes on a live session can reach that state, which is why
the property is stated for orderly clients only.

**Markers.** `Marked` says that every SUBSCRIBED and HEARTBEAT in the queue
finds the client, after the messages before it, with the state it reports. A
callback either queues no marker (`Plain`) or one as its last message, on a
session that is then live (`Reports`), and `Coverage` tells what such a session
has queued. `HEARTBEAT` and `SUBSCRIBED` can be queued nowhere else. That a
catch-up excludes a subscription and an owed resynchronisation (`Exclusive`) is
taken from `Armed`; `BrokerSafety` puts the two together.

**The library.** `Owned` says which thread may still use the handle: while the
engine has not come to rest the descriptor is open, and before the reader is
spawned the application is inside connect. `Continues` is what every reply
handler keeps.

**The source session.** That the bytes are of one process cannot be had from
any single check, since each call names a PID that may have changed hands before
and after it. `Owned` makes the argument of the code: *as long as the process
identity_fd was opened for has its PID*, everything obtained through the PID
since then (executable, mapping, `mem_fd`, the frames of this read) is of that
process. It is kept by every step because a process number is never held again
once it is gone, and `verify_identity` at the end of open and of read turns the
condition into a fact. `Filled` says which fields of `session->vhal` are set
where.

The refinement needs one thing more, that the number of generations stays
within the bound of the contract, and so `Accounted`: a generation ends with the
exit of its process or with a fault, and never otherwise. The count is of the
processes that have exited, and a fault in `pread` is charged when it happens,
not when the read fails on it.

**The sampler.** `HandedOver` orders the two threads by sample number: what is
published is the newest merged sample except between the wake-up and the copy,
and what the event loop took under a number is what was published under it.
`Announced` is the lost wake-up: a sample the running loop has not taken is
flagged or about to be. `Merged` follows one read from the open to the merge.
`Settled` is its end: for each resolved frame the merged data are the last bytes
delivered, and `first_observed` is set exactly when they have varied. After a
refusal nothing is resolved, and the next delivery belongs to a new generation,
which starts from a baseline; that is where the history of an earlier source is
dropped.

The orderly client is an assumption of two theorems and the "not pipelining"
client of a third; `RequestsOrderly` shows on the instance of `stream` that both
programs are orderly. A pipelining client appears in `repeated_subscribe` and in
the theorems for every client.

**Only model-checked.** The liveness properties (the provers do not treat
fairness or `ENABLED`); `DenseUpdateFits`; everything about `Stream`; the
formats, whose operators recurse over data, which the provers cannot induct
on.

## Not modelled

- `roadcast_client_smoke.c`: a demonstration `main` that prints values and has
  no state of its own.
- The physical value of a signal: scale and offset are floating point, and sign
  extension is not reached, as no row of the shipped catalogue is signed.
- Statistics (`effective_hz`, dropped and coalesced counts) and logs: no control
  depends on them.
- Option parsing and printing of the programs. The delay options of
  `roadcastctl` are steps taken late.
- `initialize_libuv` and the set-up of sockets and signals appear as the initial
  states and as the failure branch of `sampler_start`.
- The pacing of the sampling loop (`sleep_until`): samples are taken at any
  time.
- A sampled process that replaces its image by `exec`, which the design excludes.
