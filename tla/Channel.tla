------------------------------ MODULE Channel -------------------------------
(***************************************************************************)
(* The stream socket between one client and roadcastd, at the granularity  *)
(* of whole messages: what the server has written and the client has not   *)
(* read (inbox), and the requests on their way to the server (outbox).     *)
(* Messages arrive complete and in order; what can happen to a connection  *)
(* is that the server closes it, which leaves the inbox readable.          *)
(***************************************************************************)
EXTENDS Protocol

CONSTANT SocketSlots   \* the messages the socket buffer holds

VARIABLES
  link,     \* "none", "pending" (not accepted yet), "open" or "cut"
  inbox,
  outbox

channelVars == <<link, inbox, outbox>>

ChannelInit == link = "none" /\ inbox = <<>> /\ outbox = <<>>

\* connect(2) has succeeded; the server will accept the connection.
Dialled == link' = "pending" /\ UNCHANGED <<inbox, outbox>>

\* send(2) fails once the server has closed the connection.
Sends(type, start) ==
  /\ link # "cut"
  /\ outbox' = Append(outbox, [type |-> type, start |-> start])
  /\ UNCHANGED <<link, inbox>>

Reads == inbox # <<>> /\ inbox' = Tail(inbox) /\ UNCHANGED <<link, outbox>>

\* The requests of a client that is paging, by what it is waiting for.
Requests ==
  [hello |-> "HELLO", schema |-> "GET_SCHEMA", frames |-> "GET_SNAPSHOT",
   signals |-> "GET_SIGNAL_SNAPSHOT", subscribe |-> "SUBSCRIBE_ALL"]

\* A page starts where the previous one ended; positions count items, and the
\* signals of a request are numbered from 0.
StartOf(step, position) ==
  IF step = "signals" THEN position - FrameCount ELSE position
=============================================================================
