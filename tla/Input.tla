-------------------------------- MODULE Input --------------------------------
(***************************************************************************)
(* How roadcastd cuts the byte stream of a client into commands            *)
(* (process_client_input and its callers in src/roadcastd.c).  A read may  *)
(* end anywhere: inside a header, inside a payload, or after several       *)
(* commands.  Commands are those of a client that keeps to the protocol's  *)
(* size limit, of any length up to it.                                     *)
(*                                                                         *)
(* Byte k of the m-th command sent is <<m, k>>.  Its header tells the      *)
(* length of its payload.                                                  *)
(***************************************************************************)
EXTENDS Integers, Sequences

CONSTANTS
  HEADER_SIZE,       \* ROADCAST_HEADER_SIZE
  CLIENT_INPUT_CAP,
  MaxCommands        \* bound on the commands of a behaviour

VARIABLES
  payloads,   \* the payload length of each command the client sends
  arrived,    \* how many of the stream's bytes the daemon has read
  input,      \* client->input[0 .. input_length - 1]
  commands,   \* the commands processed, in order
  session     \* "idle", "open", or "dropped" by process_client_input's -1

inputVars == <<payloads, arrived, input, commands, session>>

PayloadLengths == 0..(CLIENT_INPUT_CAP - HEADER_SIZE)
MessageLength(m) == HEADER_SIZE + payloads[m]

Stream ==
  LET f[m \in 0..Len(payloads)] ==
        IF m = 0 THEN <<>>
        ELSE f[m - 1] \o [k \in 1..MessageLength(m) |-> <<m, k>>]
  IN  f[Len(payloads)]

\* roadcast_decode_header finds the magic number only where a command starts.
IsHeader(bytes) ==
  bytes[1][2] = 1

\* The loop of process_client_input from `consumed' on: how much it consumes,
\* which commands it processes, and whether it returned early with -1.
RECURSIVE process_commands(_, _, _)
process_commands(buffer, consumed, done) ==
  LET rest == SubSeq(buffer, consumed + 1, Len(buffer)) IN
  IF Len(rest) < HEADER_SIZE
  THEN [consumed |-> consumed, done |-> done, failed |-> FALSE]
  ELSE IF ~IsHeader(rest) \/ payloads[rest[1][1]] > CLIENT_INPUT_CAP - HEADER_SIZE
  THEN [consumed |-> consumed, done |-> done, failed |-> TRUE]
  ELSE IF Len(rest) < MessageLength(rest[1][1])
  THEN [consumed |-> consumed, done |-> done, failed |-> FALSE]
  ELSE process_commands(buffer, consumed + MessageLength(rest[1][1]),
                        Append(done, rest[1][1]))

\* Mutant: what is left after the commands is dropped, not moved to the front.
ProcessDropsRest(buffer) ==
  LET loop == process_commands(buffer, 0, <<>>)
  IN  [input |-> IF loop.consumed > 0 THEN <<>> ELSE buffer,
       done |-> loop.done,
       failed |-> loop.failed]

process_client_input(buffer) ==
  LET loop == process_commands(buffer, 0, <<>>)
      left == SubSeq(buffer, loop.consumed + 1, Len(buffer))
  IN  [input |-> left,
       done |-> loop.done,
       failed |-> loop.failed \/ Len(left) = CLIENT_INPUT_CAP]

\* allocate_client_input offers the free end of the buffer, libuv reads n
\* bytes into it, and on_client_read processes them.
on_client_read(n) ==
  /\ session = "open"
  /\ n <= CLIENT_INPUT_CAP - Len(input)
  /\ arrived + n <= Len(Stream)
  /\ arrived' = arrived + n
  /\ LET result == process_client_input(input \o SubSeq(Stream, arrived + 1, arrived + n))
     IN  /\ input' = result.input
         /\ commands' = commands \o result.done
         /\ session' = IF result.failed THEN "dropped" ELSE "open"
  /\ UNCHANGED payloads

InputIdle ==
  /\ payloads = <<>> /\ arrived = 0 /\ input = <<>> /\ commands = <<>>
  /\ session = "idle"

InputInit ==
  /\ payloads \in UNION {[1..n -> PayloadLengths] : n \in 1..MaxCommands}
  /\ arrived = 0 /\ input = <<>> /\ commands = <<>>
  /\ session = "open"

InputNext == \E n \in 1..CLIENT_INPUT_CAP : on_client_read(n)

-----------------------------------------------------------------------------
(* Properties. *)

\* However the stream is cut into reads, the commands processed are those
\* that have arrived complete, each once and in order, and the buffer holds
\* exactly the bytes of the one still incomplete.  A client that keeps to the
\* size limit is never dropped and there is always room for the next read,
\* even when a command of the largest size arrives byte by byte.
FramingExact ==
  session # "idle" =>
    /\ session = "open" /\ Len(input) < CLIENT_INPUT_CAP
    /\ commands = [k \in 1..Len(commands) |-> k]
    /\ LET f[m \in 0..Len(commands)] ==
             IF m = 0 THEN 0 ELSE f[m - 1] + MessageLength(m)
       IN  input = SubSeq(Stream, f[Len(commands)] + 1, arrived)
    /\ Len(commands) < Len(payloads) => Len(input) < MessageLength(Len(commands) + 1)
=============================================================================
