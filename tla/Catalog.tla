------------------------------- MODULE Catalog -------------------------------
(***************************************************************************)
(* src/catalog.c over the real catalogue of CatalogTable: how the bits of  *)
(* a frame become signal values, and how the schema is cut into the chunks *)
(* a client asks for one by one, in the bytes of module Wire.              *)
(*                                                                         *)
(* A 32-bit or 64-bit word is the set of the positions of its one bits, so *)
(* a shift is an addition, a mask an intersection and `|' a union.  Bit k  *)
(* of data[b] is position 8 * b + k of the frame.                          *)
(*                                                                         *)
(* Two machines share the module and never act in the same behaviour:      *)
(* one frame of the catalogue receives one changed bit, and one client     *)
(* discovers the schema.                                                   *)
(***************************************************************************)
EXTENDS CatalogTable, Wire, FiniteSets

CONSTANTS
  CHUNK_CAPACITY,         \* CLIENT_MESSAGE_CAP - ROADCAST_HEADER_SIZE
  SCHEMA_CHUNK_ENTRY_CAP  \* entries roadcastctl has room for in one chunk

VARIABLES
  at,           \* the index of the frame under test, or NoFrame
  frame,        \* its state and data; every other frame stays as in Quiet
  reader,       \* who asks for the schema: "library" or "ctl"
  entries,      \* the entries it has, in order (client->schema)
  schema        \* "idle", "loading", "complete" or "failed"

catalogVars == <<at, frame, reader, entries, schema>>

NoFrame == -1
FrameIndices == 0..(Len(ROADCAST_CAN_IDS) - 1)
SignalIndices == 0..(ROADCAST_SIGNAL_COUNT - 1)
Bits == 0..63

\* The declared length of the C array is the number of its rows.
ASSUME CatalogComplete ==
  /\ Len(ROADCAST_SIGNALS) = ROADCAST_SIGNAL_COUNT
  /\ Len(SIGNAL_PARTS) = ROADCAST_SIGNAL_COUNT

\* The C arrays count from zero.
Definition(i) == ROADCAST_SIGNALS[i + 1]
Parts(i) == SIGNAL_PARTS[i + 1]

SignalsOf == [f \in FrameIndices |->
                {i \in SignalIndices : Definition(i).frame_index = f}]

-----------------------------------------------------------------------------
(* From the bits of a frame to raw values. *)

read_le32(data, word) ==
  {b - 8 * word : b \in data \cap (8 * word)..(8 * word + 31)}

\* Mutant: bit offsets counted from the low end of the word.
ExtractPartLowFirst(data, part) ==
  {b - part.offset : b \in read_le32(data, part.word)} \cap 0..(part.bits - 1)

extract_part(data, part) ==
  LET shift == 32 - part.offset - part.bits
      mask == IF part.bits >= 32 THEN 0..31 ELSE 0..(part.bits - 1)
  IN  {b - shift : b \in read_le32(data, part.word)} \cap mask

roadcast_decode_signal_raw(i, data) ==
  FoldLeft(LAMBDA value, part :
             ({b + part.bits : b \in value} \cap Bits)
                \cup extract_part(data, part),
           {}, Parts(i))

raw_of(frames, i) ==
  roadcast_decode_signal_raw(i, frames[Definition(i).frame_index].data)

\* values[i] as roadcast_decode_signals leaves it.  The invalid flags are read
\* after the loop that decodes all values, so their order does not matter.
roadcast_decode_signals(frames, i) ==
  LET state == frames[Definition(i).frame_index].state
      flag == Definition(i).invalid_signal_index
  IN  [raw |-> raw_of(frames, i),
       calibrated |-> Definition(i).calibrated,
       state |-> IF /\ state = "valid"
                    /\ flag # NO_FLAG
                    /\ raw_of(frames, flag) # {}
                 THEN "invalid" ELSE state]

Quiet == [state |-> "valid", data |-> {}]
FramesWith(f, value) == [g \in FrameIndices |-> IF g = f THEN value ELSE Quiet]

\* The environment: the frame arrives with one bit changed.
Flip(b) ==
  /\ at # NoFrame
  /\ frame.data \in {{}, Bits}
  /\ frame' = [frame EXCEPT !.data =
                 IF b \in @ THEN @ \ {b} ELSE @ \cup {b}]
  /\ UNCHANGED <<at, reader, entries, schema>>

-----------------------------------------------------------------------------
(* The schema, chunk by chunk. *)

\* The ASCII codes of the characters a catalogue string uses: runs of
\* characters, and the code of the first of each.
Characters == {<<37, "%">>, <<47, "/0123456789">>,
               <<65, "ABCDEFGHIJKLMNOPQRSTUVWXYZ">>, <<95, "_">>,
               <<97, "abcdefghijklmnopqrstuvwxyz">>}
CharacterCodes ==
  UNION {{<<SubSeq(run[2], p, p), run[1] + p - 1>> : p \in 1..Len(run[2])} :
           run \in Characters}
CharacterCode ==
  [c \in {pair[1] : pair \in CharacterCodes} |->
     (CHOOSE pair \in CharacterCodes : pair[1] = c)[2]]
Text(s) == [k \in 1..Len(s) |-> CharacterCode[SubSeq(s, k, k)]]

ROADCAST_SCHEMA_VERSION == 1
ROADCAST_CAN_SCHEMA_HASH == <<2^24 + 1, 2^24 + 2>>   \* any word but 0

\* The 64-bit words of row i: equal ids are equal words, and the scale and the
\* offset of each row are words of its own.
StableId(table, i) ==
  <<0, Min({j \in 0..i : table[j + 1].stable_id = table[i + 1].stable_id})>>
Scale(i) == <<1, i>>
Offset(i) == <<2, i>>

\* What the encoder writes of row i, whose definition is row.
SchemaEntry(i, row, stable_id) ==
  [stable_id |-> stable_id, index |-> i,
   invalid_signal_index |->
     IF row.invalid_signal_index = NO_FLAG THEN UINT32_MAX
     ELSE row.invalid_signal_index,
   can_id |-> row.can_id, kind |-> ROADCAST_ITEM_CAN_SIGNAL,
   source |-> ROADCAST_SOURCE_RAW_CAN, width |-> row.width,
   flags |->
     (IF row.is_signed # 0 THEN ROADCAST_SCHEMA_FLAG_SIGNED ELSE 0)
     + (IF row.calibrated # 0 THEN ROADCAST_SCHEMA_FLAG_CALIBRATED ELSE 0),
   scale |-> Scale(i), offset |-> Offset(i),
   name |-> Text(row.name), unit |-> Text(row.unit)]

SchemaOf(table) ==
  [i \in SignalIndices |->
     SchemaEntry(i, table[i + 1], StableId(table, i))]
CatalogSchema == SchemaOf(ROADCAST_SIGNALS)

EntryLength(e) ==
  ROADCAST_SCHEMA_ENTRY_FIXED_SIZE + Len(e.name) + Len(e.unit)

\* No chunk holds more entries than fixed parts of entries.
MostEntries(start) ==
  Min({CHUNK_CAPACITY \div ROADCAST_SCHEMA_ENTRY_FIXED_SIZE,
       ROADCAST_SIGNAL_COUNT - start})

\* The length of the chunk that starts at start, after its first n entries.
LengthWith(start) ==
  LET length[n \in 0..MostEntries(start)] ==
        IF n = 0 THEN ROADCAST_SCHEMA_CHUNK_PREFIX_SIZE
        ELSE length[n - 1] + EntryLength(CatalogSchema[start + n - 1])
  IN  length

ChunkOf(start, count) ==
  EncodeSchemaChunk(
    [schema_version |-> ROADCAST_SCHEMA_VERSION,
     total_count |-> ROADCAST_SIGNAL_COUNT, start_index |-> start,
     schema_hash |-> ROADCAST_CAN_SCHEMA_HASH,
     entries |-> [k \in 1..count |-> CatalogSchema[start + k - 1]]])

\* Mutant: the room for names and units is not accounted for.
EncodeSchemaChunkFixedSize(start) == ChunkOf(start, MostEntries(start))

\* roadcast_encode_schema_chunk: the entries from start on, up to the first
\* that does not fit; nothing when there is none.
roadcast_encode_schema_chunk(start) ==
  IF \/ CHUNK_CAPACITY < ROADCAST_SCHEMA_CHUNK_PREFIX_SIZE
     \/ start >= ROADCAST_SIGNAL_COUNT
  THEN <<>>
  ELSE LET length == LengthWith(start)
           count == Max({n \in DOMAIN length : length[n] <= CHUNK_CAPACITY})
       IN  IF count = 0 THEN <<>> ELSE ChunkOf(start, count)

\* The answer to GET_SCHEMA.  queue_schema_chunk, or client_queue_message in
\* it, ends the session for an empty chunk and for one beyond the capacity.
queue_schema_chunk(start) ==
  {m \in [type : {"SCHEMA_CHUNK"},
          payload : {roadcast_encode_schema_chunk(start)}] :
     Len(m.payload) \in 1..CHUNK_CAPACITY}

\* What WELCOME has told the reader.
Welcome == [signal_count |-> ROADCAST_SIGNAL_COUNT,
            schema_version |-> ROADCAST_SCHEMA_VERSION,
            schema_hash |-> ROADCAST_CAN_SCHEMA_HASH]

\* The entries the decoder has room for: all that are left in the library,
\* a buffer in roadcastctl.
Room == IF reader = "library" THEN Welcome.signal_count - Len(entries)
        ELSE SCHEMA_CHUNK_ENTRY_CAP

\* Of the answer, the chunk that the reader goes on with; next_index is the
\* number of entries it has.
AcceptedChunk(answer) ==
  {c \in UNION {roadcast_decode_schema_chunk(m.payload, Room) :
                  m \in {m \in answer : m.type = "SCHEMA_CHUNK"}} :
     /\ c.schema_version = Welcome.schema_version
     /\ c.schema_hash = Welcome.schema_hash
     /\ c.total_count = Welcome.signal_count
     /\ c.start_index = Len(entries)
     /\ c.entries # <<>>}

\* One turn of request_schema: GET_SCHEMA, and the broker's answer.
request_schema ==
  /\ schema = "loading"
  /\ LET accepted == AcceptedChunk(queue_schema_chunk(Len(entries))) IN
       IF accepted = {}
       THEN schema' = "failed" /\ UNCHANGED entries
       ELSE /\ entries' \in {entries \o c.entries : c \in accepted}
            /\ schema' = IF Len(entries') < Welcome.signal_count
                         THEN "loading" ELSE "complete"
  /\ UNCHANGED <<at, frame, reader>>

-----------------------------------------------------------------------------
(* What the SDK looks up in the schema and the frames it has received. *)

CAN_ID_LOOKUP_CAP == 2048
NotFound == -1

FirstOf(indices) ==
  IF indices = {} THEN NotFound
  ELSE CHOOSE i \in indices : \A j \in indices : i <= j

roadcast_client_find_signal(name) ==
  FirstOf({i \in SignalIndices : entries[i + 1].name = name})

roadcast_client_find_signal_by_stable_id(stable_id) ==
  FirstOf({i \in SignalIndices : entries[i + 1].stable_id = stable_id})

\* The table is filled frame by frame; a later frame overwrites an earlier
\* one with its CAN id, and an id beyond the table is not found.
can_id_to_index(can_id) ==
  LET same == {f \in FrameIndices : ROADCAST_CAN_IDS[f + 1] = can_id}
  IN  IF can_id >= CAN_ID_LOOKUP_CAP \/ same = {} THEN NotFound
      ELSE CHOOSE f \in same : \A g \in same : g <= f

-----------------------------------------------------------------------------
CatalogIdle ==
  /\ at = NoFrame
  /\ frame = Quiet
  /\ reader = "ctl"
  /\ entries = <<>>
  /\ schema = "idle"

DecodeInit ==
  /\ at \in FrameIndices
  /\ frame \in [state : {"valid", "never", "unavailable"}, data : {{}, Bits}]
  /\ reader = "ctl"
  /\ entries = <<>>
  /\ schema = "idle"

SchemaInit ==
  /\ at = NoFrame
  /\ frame = Quiet
  /\ reader \in {"library", "ctl"}
  /\ entries = <<>>
  /\ schema = "loading"

CatalogNext ==
  \/ \E b \in Bits : Flip(b)
  \/ request_schema

-----------------------------------------------------------------------------
(* Properties. *)

\* The frame bits of each signal, most significant first, as the catalogue's
\* numbering defines them: bit `offset' of a word counts down from its top.
Layout ==
  [i \in SignalIndices |->
     FlattenSeq([k \in 1..Len(Parts(i)) |->
       LET part == Parts(i)[k]
       IN  [j \in 1..part.bits |-> 8 * part.word + 32 - part.offset - j]])]

LayoutRaw(i, data) ==
  {Len(Layout[i]) - k : k \in {k \in DOMAIN Layout[i] : Layout[i][k] \in data}}

Value(f, i) == roadcast_decode_signals(FramesWith(at, f), i)

\* The shifts, masks and joins of roadcast_decode_signal_raw give every signal
\* exactly the frame bits its layout names, in their order, whatever single
\* bit of the frame is set or cleared; and a signal is INVALID only on top of
\* an observed frame: while the frame is unavailable or was never seen to
\* change its signals say so, however their invalid flags decode.
DecodeMatchesLayout ==
  at # NoFrame =>
    \A i \in SignalsOf[at] :
      LET flag == Definition(i).invalid_signal_index
          raised == flag # NO_FLAG /\ LayoutRaw(flag, frame.data) # {}
      IN  /\ Value(frame, i).raw = LayoutRaw(i, frame.data)
          /\ Value(frame, i).state =
               IF frame.state = "valid" /\ raised THEN "invalid" ELSE frame.state

\* Schema discovery works on the shipped catalogue, for the library and for
\* roadcastctl: no chunk is empty, too long or refused, and after each the
\* reader has the rows of the catalogue from 0 on as the daemon has them, every
\* field and text included, none lost, repeated or cut at the end of a chunk.
\* What the library then looks up is exact (CLIENT_SDK.md:39-49): a stable id
\* and a CAN id resolve to the signal and the frame they belong to, and a name
\* to the first signal that has it, even where the catalogue uses one twice.
SchemaDiscovered ==
  /\ schema # "failed"
  /\ \A k \in DOMAIN entries : entries[k] = CatalogSchema[k - 1]
  /\ schema = "complete" =>
       /\ \A i \in SignalIndices :
            /\ roadcast_client_find_signal_by_stable_id(
                 CatalogSchema[i].stable_id) = i
            /\ LET found == roadcast_client_find_signal(CatalogSchema[i].name)
               IN  found \in 0..i /\ Definition(found).name = Definition(i).name
       /\ \A f \in FrameIndices : can_id_to_index(ROADCAST_CAN_IDS[f + 1]) = f
=============================================================================
