-------------------------------- MODULE Wire --------------------------------
(***************************************************************************)
(* The message formats of src/protocol.c, and the SCHEMA_CHUNK that        *)
(* src/catalog.c encodes, byte by byte.  A payload is a sequence of bytes; *)
(* an encoder builds it in the order of the C offsets, a decoder reads it  *)
(* at the C offsets and gives {} where the C function returns -1 and       *)
(* {message} where it returns 0.                                           *)
(*                                                                         *)
(* A byte is a digit below RADIX, 256 in the code.  With a smaller radix   *)
(* every field keeps its size in bytes, and the values of a 32-bit field   *)
(* fit a TLC integer.  A 64-bit word is the pair of the 32-bit halves that *)
(* put_u64 and get_u64 make of it; a double is the word memcpy makes of it.*)
(*                                                                         *)
(* The machine encodes one message, may change or drop or add one byte,    *)
(* and decodes what is left.                                               *)
(***************************************************************************)
EXTENDS Integers, SequencesExt

CONSTANTS
  RADIX,
  ROADCAST_MAGIC,
  ROADCAST_MAX_PAYLOAD,
  OUT_CAPACITY,        \* bytes the sender of a batch has room for
  BATCH_CAPACITY       \* records or entries the receiver has room for

VARIABLES
  kind,      \* the format in use, or "idle"
  sent,      \* the message encoded
  wire,      \* the bytes to decode
  damaged,   \* whether wire differs in one place from what was encoded
  decoded,   \* whether the decoder has run
  received   \* what it made of the bytes: {} or {message}

wireVars == <<kind, sent, wire, damaged, decoded, received>>

UINT32_MAX == RADIX^4 - 1
DELTA == UINT32_MAX           \* as start_index
ROADCAST_PROTOCOL_VERSION == 3
ROADCAST_HEADER_SIZE == 32
ROADCAST_BATCH_PREFIX_SIZE == 20
ROADCAST_FRAME_WIRE_SIZE == 28
ROADCAST_SIGNAL_WIRE_SIZE == 40
ROADCAST_WELCOME_SIZE == 36
ROADCAST_HEARTBEAT_SIZE == 40
ROADCAST_SCHEMA_REQUEST_SIZE == 4
ROADCAST_SCHEMA_CHUNK_PREFIX_SIZE == 24
ROADCAST_SCHEMA_ENTRY_FIXED_SIZE == 44
ROADCAST_SCHEMA_NAME_MAX == 63
ROADCAST_SCHEMA_UNIT_MAX == 15
ROADCAST_ITEM_CAN_SIGNAL == 2
ROADCAST_SOURCE_RAW_CAN == 1
ROADCAST_SCHEMA_FLAG_SIGNED == 1
ROADCAST_SCHEMA_FLAG_CALIBRATED == 2
CAPABILITIES == 3             \* RAW_CAN | DECODED_CAN
OBSERVATION_VALID == 2
OBSERVATION_INVALID == 3
SOURCE_STATE_DEGRADED == 2

-----------------------------------------------------------------------------
(* Integers, most significant byte first. *)

Digit(v, n) == (v \div RADIX^n) % RADIX

put_u8(v) == <<v % RADIX>>
put_u16(v) == <<Digit(v, 1), Digit(v, 0)>>
put_u32(v) == [k \in 1..4 |-> Digit(v, 4 - k)]
put_u64(v) == [k \in 1..8 |-> Digit(v[(k + 3) \div 4], (8 - k) % 4)]

get_u8(in, at) == in[at + 1]
get_u16(in, at) == in[at + 1] * RADIX + in[at + 2]
get_u32(in, at) ==
  in[at + 1] * RADIX^3 + in[at + 2] * RADIX^2 + in[at + 3] * RADIX + in[at + 4]
get_u64(in, at) == <<get_u32(in, at), get_u32(in, at + 4)>>

-----------------------------------------------------------------------------
(* Header, HELLO, WELCOME, index requests and HEARTBEAT. *)

roadcast_encode_header(h) ==
  put_u32(ROADCAST_MAGIC) \o put_u16(h.version) \o put_u16(h.type) \o
  put_u32(h.flags) \o put_u32(h.payload_bytes) \o put_u64(h.sequence) \o
  put_u64(h.timestamp_ns)

\* in has ROADCAST_HEADER_SIZE bytes: the callers read no fewer.
roadcast_decode_header(in) ==
  IF \/ get_u32(in, 0) # ROADCAST_MAGIC
     \/ get_u32(in, 12) > ROADCAST_MAX_PAYLOAD
  THEN {}
  ELSE {[version |-> get_u16(in, 4), type |-> get_u16(in, 6),
         flags |-> get_u32(in, 8), payload_bytes |-> get_u32(in, 12),
         sequence |-> get_u64(in, 16), timestamp_ns |-> get_u64(in, 24)]}

roadcast_encode_hello(h) ==
  put_u16(h.min_version) \o put_u16(h.max_version) \o put_u32(h.capabilities)

roadcast_decode_hello(in) ==
  IF Len(in) # 8 THEN {}
  ELSE {[min_version |-> get_u16(in, 0), max_version |-> get_u16(in, 2),
         capabilities |-> get_u32(in, 4)]}

roadcast_encode_welcome(w) ==
  put_u32(w.hz) \o put_u32(w.frame_count) \o put_u32(w.signal_count) \o
  put_u32(w.max_request_payload) \o put_u32(w.max_response_payload) \o
  put_u32(w.capabilities) \o put_u32(w.schema_version) \o
  put_u64(w.schema_hash)

roadcast_decode_welcome(in) ==
  IF Len(in) # ROADCAST_WELCOME_SIZE THEN {}
  ELSE {[hz |-> get_u32(in, 0), frame_count |-> get_u32(in, 4),
         signal_count |-> get_u32(in, 8),
         max_request_payload |-> get_u32(in, 12),
         max_response_payload |-> get_u32(in, 16),
         capabilities |-> get_u32(in, 20), schema_version |-> get_u32(in, 24),
         schema_hash |-> get_u64(in, 28)]}

roadcast_encode_index_request(r) == put_u32(r.start_index)

roadcast_decode_index_request(in) ==
  IF Len(in) # ROADCAST_SCHEMA_REQUEST_SIZE THEN {}
  ELSE {[start_index |-> get_u32(in, 0)]}

roadcast_encode_heartbeat(h) ==
  put_u64(h.sample_sequence) \o put_u64(h.change_sequence) \o
  put_u64(h.dropped_batches) \o put_u64(h.coalesced_samples) \o
  put_u32(h.effective_hz_millihz) \o put_u8(h.source_state) \o <<0, 0, 0>>

roadcast_decode_heartbeat(in) ==
  IF \/ Len(in) # ROADCAST_HEARTBEAT_SIZE
     \/ get_u8(in, 36) > SOURCE_STATE_DEGRADED
     \/ \E k \in 37..39 : get_u8(in, k) # 0
  THEN {}
  ELSE {[sample_sequence |-> get_u64(in, 0), change_sequence |-> get_u64(in, 8),
         dropped_batches |-> get_u64(in, 16),
         coalesced_samples |-> get_u64(in, 24),
         effective_hz_millihz |-> get_u32(in, 32),
         source_state |-> get_u8(in, 36)]}

-----------------------------------------------------------------------------
(* Batches: a page of a snapshot, or a delta when start_index is DELTA. *)

BatchPrefix(b) ==
  put_u64(b.sample_sequence) \o put_u32(b.total_count) \o
  put_u32(b.start_index) \o put_u16(Len(b.records)) \o put_u16(0)

\* The prefix and the encoded records; nothing when they do not fit.
EncodeBatch(b, record_size, encoded) ==
  IF \/ Len(b.records) > RADIX^2 - 1
     \/ ROADCAST_BATCH_PREFIX_SIZE + Len(b.records) * record_size > OUT_CAPACITY
  THEN <<>>
  ELSE BatchPrefix(b) \o FlattenSeq(encoded)

\* Mutant: trailing bytes are tolerated.
BatchCountLenient(in, record_size) ==
  IF Len(in) < ROADCAST_BATCH_PREFIX_SIZE THEN {}
  ELSE IF get_u8(in, 18) # 0 \/ get_u8(in, 19) # 0 THEN {}
  ELSE LET count == get_u16(in, 16) IN
       IF \/ ROADCAST_BATCH_PREFIX_SIZE + count * record_size > Len(in)
          \/ count > BATCH_CAPACITY
          \/ /\ get_u32(in, 12) # DELTA
             /\ \/ get_u32(in, 12) > get_u32(in, 8)
                \/ count > get_u32(in, 8) - get_u32(in, 12)
       THEN {} ELSE {count}

\* The checks both batch decoders make before they look at a record; gives
\* the number of records.
BatchCount(in, record_size) ==
  IF Len(in) < ROADCAST_BATCH_PREFIX_SIZE THEN {}
  ELSE IF get_u8(in, 18) # 0 \/ get_u8(in, 19) # 0 THEN {}
  ELSE LET count == get_u16(in, 16) IN
       IF \/ ROADCAST_BATCH_PREFIX_SIZE + count * record_size # Len(in)
          \/ count > BATCH_CAPACITY
          \/ /\ get_u32(in, 12) # DELTA
             /\ \/ get_u32(in, 12) > get_u32(in, 8)
                \/ count > get_u32(in, 8) - get_u32(in, 12)
       THEN {} ELSE {count}

\* Where record i of a batch starts.
RecordAt(i, record_size) == ROADCAST_BATCH_PREFIX_SIZE + (i - 1) * record_size

DecodedBatch(in, records) ==
  [sample_sequence |-> get_u64(in, 0), total_count |-> get_u32(in, 8),
   start_index |-> get_u32(in, 12), records |-> records]

EncodeFrame(f) ==
  put_u16(f.can_id) \o put_u8(f.state) \o <<0>> \o f.data \o
  put_u64(f.first_observed_ns) \o put_u64(f.last_change_ns)

IsFrame(in, r) ==
  /\ get_u8(in, r + 2) <= OBSERVATION_VALID
  /\ get_u8(in, r + 3) = 0

DecodeFrame(in, r) ==
  [can_id |-> get_u16(in, r), state |-> get_u8(in, r + 2),
   data |-> SubSeq(in, r + 5, r + 12),
   first_observed_ns |-> get_u64(in, r + 12),
   last_change_ns |-> get_u64(in, r + 20)]

roadcast_encode_frame_batch(b) ==
  EncodeBatch(b, ROADCAST_FRAME_WIRE_SIZE,
              [i \in DOMAIN b.records |-> EncodeFrame(b.records[i])])

roadcast_decode_frame_batch(in) ==
  LET at(i) == RecordAt(i, ROADCAST_FRAME_WIRE_SIZE)
  IN  {DecodedBatch(in, [i \in 1..n |-> DecodeFrame(in, at(i))]) :
         n \in {c \in BatchCount(in, ROADCAST_FRAME_WIRE_SIZE) :
                 \A i \in 1..c : IsFrame(in, at(i))}}

EncodeSignal(s) ==
  put_u32(s.index) \o put_u8(s.state) \o
  put_u8(IF s.calibrated # 0 THEN 1 ELSE 0) \o put_u16(0) \o put_u64(s.raw) \o
  put_u64(s.physical) \o put_u64(s.first_observed_ns) \o
  put_u64(s.last_change_ns)

IsSignal(in, r) ==
  /\ get_u8(in, r + 4) <= OBSERVATION_INVALID
  /\ get_u8(in, r + 5) <= 1
  /\ get_u16(in, r + 6) = 0

DecodeSignal(in, r) ==
  [index |-> get_u32(in, r), state |-> get_u8(in, r + 4),
   calibrated |-> get_u8(in, r + 5), raw |-> get_u64(in, r + 8),
   physical |-> get_u64(in, r + 16), first_observed_ns |-> get_u64(in, r + 24),
   last_change_ns |-> get_u64(in, r + 32)]

roadcast_encode_signal_batch(b) ==
  EncodeBatch(b, ROADCAST_SIGNAL_WIRE_SIZE,
              [i \in DOMAIN b.records |-> EncodeSignal(b.records[i])])

roadcast_decode_signal_batch(in) ==
  LET at(i) == RecordAt(i, ROADCAST_SIGNAL_WIRE_SIZE)
  IN  {DecodedBatch(in, [i \in 1..n |-> DecodeSignal(in, at(i))]) :
         n \in {c \in BatchCount(in, ROADCAST_SIGNAL_WIRE_SIZE) :
                 \A i \in 1..c : IsSignal(in, at(i))}}

-----------------------------------------------------------------------------
(* SCHEMA_CHUNK: a prefix, and entries whose length depends on their text. *)

EncodeEntry(e) ==
  put_u64(e.stable_id) \o put_u32(e.index) \o
  put_u32(e.invalid_signal_index) \o put_u16(e.can_id) \o put_u8(e.kind) \o
  put_u8(e.source) \o put_u8(e.width) \o put_u8(e.flags) \o
  put_u16(Len(e.name)) \o put_u16(Len(e.unit)) \o put_u16(0) \o
  put_u64(e.scale) \o put_u64(e.offset) \o e.name \o e.unit

EncodeSchemaChunk(c) ==
  put_u32(c.schema_version) \o put_u32(c.total_count) \o
  put_u32(c.start_index) \o put_u32(Len(c.entries)) \o
  put_u64(c.schema_hash) \o
  FlattenSeq([i \in DOMAIN c.entries |-> EncodeEntry(c.entries[i])])

NameLength(in, at) == get_u16(in, at + 22)
UnitLength(in, at) == get_u16(in, at + 24)

\* Where the text of the entry at offset `at' begins, and where it ends.
TextAt(at) == at + ROADCAST_SCHEMA_ENTRY_FIXED_SIZE
EntryEnd(in, at) == TextAt(at) + NameLength(in, at) + UnitLength(in, at)

\* The entry at offset `at' lies inside the payload: the checks made before
\* its fields are read.
EntryFits(in, at) ==
  /\ Len(in) - at >= ROADCAST_SCHEMA_ENTRY_FIXED_SIZE
  /\ get_u16(in, at + 26) = 0
  /\ NameLength(in, at) <= ROADCAST_SCHEMA_NAME_MAX
  /\ UnitLength(in, at) <= ROADCAST_SCHEMA_UNIT_MAX
  /\ EntryEnd(in, at) <= Len(in)

Astray == -1

\* The offset at which entry i (from 0) begins, and the end of the last one;
\* Astray after an entry that does not fit.
EntryOffsets(in, count) ==
  LET offset[i \in 0 .. count] ==
        IF i = 0 THEN ROADCAST_SCHEMA_CHUNK_PREFIX_SIZE
        ELSE LET at == offset[i - 1]
             IN  IF at = Astray \/ ~EntryFits(in, at) THEN Astray
                 ELSE EntryEnd(in, at)
  IN  offset

\* The string a C function finds in bytes followed by a NUL.
CString(bytes) ==
  SubSeq(bytes, 1, Min({k \in DOMAIN bytes : bytes[k] = 0}
                         \cup {Len(bytes) + 1}) - 1)

DecodeEntry(in, at) ==
  LET text == TextAt(at)
      end == EntryEnd(in, at)
  IN  [stable_id |-> get_u64(in, at), index |-> get_u32(in, at + 8),
       invalid_signal_index |-> get_u32(in, at + 12),
       can_id |-> get_u16(in, at + 16), kind |-> get_u8(in, at + 18),
       source |-> get_u8(in, at + 19), width |-> get_u8(in, at + 20),
       flags |-> get_u8(in, at + 21), scale |-> get_u64(in, at + 28),
       offset |-> get_u64(in, at + 36),
       name |-> CString(SubSeq(in, text + 1, text + NameLength(in, at))),
       unit |-> CString(SubSeq(in, text + NameLength(in, at) + 1, end))]

IsEntry(e, index, total_count) ==
  /\ e.index = index
  /\ e.kind = ROADCAST_ITEM_CAN_SIGNAL
  /\ e.source = ROADCAST_SOURCE_RAW_CAN
  /\ e.width \in 1 .. 64
  /\ \/ e.invalid_signal_index < total_count
     \/ e.invalid_signal_index = UINT32_MAX

\* With room for capacity entries.
roadcast_decode_schema_chunk(in, capacity) ==
  IF Len(in) < ROADCAST_SCHEMA_CHUNK_PREFIX_SIZE THEN {}
  ELSE LET total_count == get_u32(in, 4)
           start_index == get_u32(in, 8)
           count == get_u32(in, 12)
       IN  IF \/ count > capacity
              \/ start_index > total_count
              \/ count > total_count - start_index
           THEN {}
           ELSE LET offset == EntryOffsets(in, count)
                    entries == [i \in 1 .. count |->
                                  DecodeEntry(in, offset[i - 1])]
                IN  IF /\ offset[count] = Len(in)
                       /\ \A i \in 1 .. count :
                            IsEntry(entries[i], start_index + i - 1,
                                    total_count)
                    THEN {[schema_version |-> get_u32(in, 0),
                           total_count |-> total_count,
                           start_index |-> start_index,
                           schema_hash |-> get_u64(in, 16),
                           entries |-> entries]}
                    ELSE {}

-----------------------------------------------------------------------------
(* One message from encoder to decoder. *)

Encode(k, m) ==
  CASE k = "header" -> roadcast_encode_header(m)
    [] k = "hello" -> roadcast_encode_hello(m)
    [] k = "welcome" -> roadcast_encode_welcome(m)
    [] k = "index_request" -> roadcast_encode_index_request(m)
    [] k = "heartbeat" -> roadcast_encode_heartbeat(m)
    [] k = "frame_batch" -> roadcast_encode_frame_batch(m)
    [] k = "signal_batch" -> roadcast_encode_signal_batch(m)
    [] k = "schema_chunk" -> EncodeSchemaChunk(m)

Decode(k, in) ==
  CASE k = "header" -> roadcast_decode_header(in)
    [] k = "hello" -> roadcast_decode_hello(in)
    [] k = "welcome" -> roadcast_decode_welcome(in)
    [] k = "index_request" -> roadcast_decode_index_request(in)
    [] k = "heartbeat" -> roadcast_decode_heartbeat(in)
    [] k = "frame_batch" -> roadcast_decode_frame_batch(in)
    [] k = "signal_batch" -> roadcast_decode_signal_batch(in)
    [] k = "schema_chunk" -> roadcast_decode_schema_chunk(in, BATCH_CAPACITY)

\* The n bytes from digit d on.  They all differ, so that no two can be
\* swapped unnoticed.
Digits(d, n) == [i \in 1..n |-> (d + i - 1) % RADIX]
Number(d, n) ==
  LET f[i \in 0..n] == IF i = 0 THEN 0 ELSE f[i - 1] * RADIX + Digits(d, n)[i]
  IN  f[n]
Word(d) == <<Number(d, 4), Number(d + 4, 4)>>

U16 == {0, Number(1, 2)}
U32 == {0, Number(1, 4)}
U64 == {<<0, 0>>, Word(40)}

Frames == {[can_id |-> Number(1, 2), state |-> 2, data |-> Digits(1, 8),
            first_observed_ns |-> Word(10), last_change_ns |-> <<0, 1>>],
           [can_id |-> 1, state |-> 0, data |-> [i \in 1..8 |-> 0],
            first_observed_ns |-> <<0, 0>>, last_change_ns |-> <<0, 0>>]}

SignalUpdates == {[index |-> Number(1, 4), state |-> 3, calibrated |-> 1,
                   raw |-> Word(10), physical |-> Word(20),
                   first_observed_ns |-> Word(30), last_change_ns |-> <<0, 2>>],
                  [index |-> 0, state |-> 0, calibrated |-> 0, raw |-> <<0, 0>>,
                   physical |-> <<0, 0>>, first_observed_ns |-> <<0, 0>>,
                   last_change_ns |-> <<0, 0>>]}

\* Entry number i of a catalogue: a signal with an invalid flag and the longest
\* name and unit there can be, or one with no unit and no flag.
SchemaEntries(i) ==
  {[stable_id |-> Word(10), index |-> i, invalid_signal_index |-> 0,
    can_id |-> Number(1, 2), kind |-> ROADCAST_ITEM_CAN_SIGNAL,
    source |-> ROADCAST_SOURCE_RAW_CAN, width |-> 64,
    flags |-> ROADCAST_SCHEMA_FLAG_SIGNED + ROADCAST_SCHEMA_FLAG_CALIBRATED,
    scale |-> Word(20), offset |-> Word(30),
    name |-> Digits(1, ROADCAST_SCHEMA_NAME_MAX),
    unit |-> Digits(70, ROADCAST_SCHEMA_UNIT_MAX)],
   [stable_id |-> <<0, 0>>, index |-> i, invalid_signal_index |-> UINT32_MAX,
    can_id |-> 1, kind |-> ROADCAST_ITEM_CAN_SIGNAL,
    source |-> ROADCAST_SOURCE_RAW_CAN, width |-> 1, flags |-> 0,
    scale |-> <<0, 0>>, offset |-> <<0, 0>>, name |-> <<1>>, unit |-> <<>>]}

\* The batches the broker builds: a page inside its total, or a delta.
Batches(Record) ==
  {b \in [sample_sequence : {Word(40)}, total_count : {1, 3},
          start_index : {0, 1, DELTA},
          records : {<<>>} \cup {<<r>> : r \in Record}
                           \cup {<<r, s>> : r \in Record, s \in Record}] :
     b.start_index = DELTA \/ b.start_index + Len(b.records) <= b.total_count}

Messages ==
  [header |-> [version : {ROADCAST_PROTOCOL_VERSION}, type : U16, flags : U32,
               payload_bytes : {0, 1, ROADCAST_MAX_PAYLOAD}, sequence : U64,
               timestamp_ns : U64],
   hello |-> [min_version : {ROADCAST_PROTOCOL_VERSION},
              max_version : {ROADCAST_PROTOCOL_VERSION},
              capabilities : {CAPABILITIES}],
   welcome |-> [hz : U32, frame_count : {Number(1, 3)}, signal_count : U32,
                max_request_payload : {Number(1, 4)},
                max_response_payload : U32, capabilities : {CAPABILITIES},
                schema_version : {1}, schema_hash : U64],
   index_request |-> [start_index : U32],
   heartbeat |-> [sample_sequence : U64, change_sequence : {Word(40)},
                  dropped_batches : U64, coalesced_samples : {Word(30)},
                  effective_hz_millihz : U32, source_state : 0..2],
   frame_batch |-> Batches(Frames),
   signal_batch |-> Batches(SignalUpdates),
   schema_chunk |->
     UNION {[schema_version : {1}, total_count : {3}, start_index : {start},
             schema_hash : {Word(40)},
             entries : {<<e>> : e \in SchemaEntries(start)}
                         \cup {<<e, f>> : e \in SchemaEntries(start),
                                         f \in SchemaEntries(start + 1)}] :
              start \in {0, 1}}]

WireIdle ==
  /\ kind = "idle"
  /\ sent = <<>>
  /\ wire = <<>>
  /\ damaged = FALSE
  /\ decoded = FALSE
  /\ received = {}

WireInit ==
  /\ kind \in DOMAIN Messages
  /\ sent \in Messages[kind]
  /\ wire = Encode(kind, sent)
  /\ damaged = FALSE
  /\ decoded = FALSE
  /\ received = {}

\* What a byte may become: its successor, or a value at a limit of some field.
Altered(b) == ({0, 1, 2, 3, 4, 64, 65, RADIX - 1} \cup {(b + 1) % RADIX}) \ {b}

\* The bytes to decode differ in one place from an encoded message, as those
\* of another version of the peer may.  A header is always read whole.
Alter ==
  /\ kind # "idle" /\ ~damaged /\ ~decoded
  /\ \/ \E i \in DOMAIN wire : \E b \in Altered(wire[i]) :
          wire' = [wire EXCEPT ![i] = b]
     \/ /\ kind # "header"
        /\ \/ \E n \in {0, Len(wire) - 1} : wire' = SubSeq(wire, 1, n)
           \/ \E b \in {0, 1} : wire' = Append(wire, b)
  /\ damaged' = TRUE
  /\ UNCHANGED <<kind, sent, decoded, received>>

Receive ==
  /\ kind # "idle" /\ ~decoded
  /\ decoded' = TRUE
  /\ received' = Decode(kind, wire)
  /\ UNCHANGED <<kind, sent, wire, damaged>>

WireNext == Alter \/ Receive

-----------------------------------------------------------------------------
(* Properties. *)

\* A NUL inside the name or the unit of an entry of a SCHEMA_CHUNK.
NulInText ==
  /\ kind = "schema_chunk"
  /\ LET count == get_u32(wire, 12)
         offset == EntryOffsets(wire, count)
     IN  \E i \in 1 .. count :
           \E k \in TextAt(offset[i - 1]) + 1 .. offset[i] : wire[k] = 0

\* Encoders and decoders are inverse to each other, for every message of the
\* protocol.  Whatever the daemon or a client builds is accepted by the other
\* side and comes out as it went in.  Whatever single byte is changed, dropped
\* or added, the message is refused or is another message, and then the bytes
\* are the encoding of it: no reserved byte is overlooked, no length or count
\* let pass.  The one exception is the text of a schema entry, which the
\* decoder stores as a C string (protocol.c:187-193): behind a NUL it is lost,
\* and what is returned is the message with the shorter text.
DecodersInvertEncoders ==
  decoded =>
    /\ ~damaged => received = {sent}
    /\ \A m \in received :
         LET again == Encode(kind, m) IN
           \/ again = wire
           \/ /\ NulInText
              /\ roadcast_decode_schema_chunk(again, BATCH_CAPACITY) = {m}
=============================================================================
