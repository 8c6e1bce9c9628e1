----------------------------- MODULE AnyServer ------------------------------
(***************************************************************************)
(* The client library against a server of which nothing is known: it       *)
(* answers, stays silent, sends any message of the protocol at any time,   *)
(* or closes the connection.  What the library promises its application    *)
(* about connecting and closing has to hold against every one of them.     *)
(***************************************************************************)
EXTENDS Sdk

CONSTANT MaxSequence   \* bound on the change sequences a server reports

anyVars == <<sdk, link, inbox, outbox>>

\* Messages without items, and batches and pages of neighbouring items,
\* frames and signals mixed included.
Bodies == UNION {[lo .. hi -> Values] : lo, hi \in Items}

ServerMessages ==
  {Message(type, seq, <<>>) :
     type \in {"WELCOME", "SCHEMA_CHUNK", "SUBSCRIBED", "HEARTBEAT",
               "RESYNC_REQUIRED"},
     seq \in 0 .. MaxSequence}
  \cup {Message(type, seq, body) :
     type \in {"SNAPSHOT", "SIGNAL_SNAPSHOT_CHUNK", "UPDATE_BATCH",
               "SIGNAL_UPDATE_BATCH"},
     seq \in 0 .. MaxSequence,
     body \in Bodies}

accept ==
  /\ link = "pending"
  /\ link' = "open"
  /\ UNCHANGED <<sdk, inbox, outbox>>

\* The server reads what it was sent and writes something.  A socket the
\* client has shut down or closed takes nothing any more.
serve ==
  /\ link = "open" /\ sdk.fd = "open"
  /\ Len(inbox) < SocketSlots
  /\ \E m \in ServerMessages : inbox' = Append(inbox, m)
  /\ outbox' = <<>>
  /\ UNCHANGED <<sdk, link>>

hang_up ==
  /\ link \in {"pending", "open"}
  /\ link' = "cut"
  /\ UNCHANGED <<sdk, inbox, outbox>>

\* Time passes, but no wait of the client outlasts its deadline.
tick ==
  /\ ~Expired
  /\ sdk' = SdkElapsed
  /\ UNCHANGED channelVars

AnyInit == SdkInit /\ ChannelInit
AnyNext == SdkNext \/ accept \/ serve \/ hang_up \/ tick

\* The threads of the client run and the clock advances.  Nothing is assumed
\* of the server, and the application need not close its handle, but a close
\* that has begun goes on.
AnyFairness ==
  /\ WF_anyVars(Engine)
  /\ WF_anyVars(spawn)
  /\ WF_anyVars(tick)
  /\ WF_anyVars(sdk.app # "use" /\ close)

AnySpec == AnyInit /\ [][AnyNext]_anyVars /\ AnyFairness

\* Moreover, a client that again and again finds nothing to read after its
\* deadline gives up.
PromptSpec == AnySpec /\ SF_anyVars(read_timeout)

-----------------------------------------------------------------------------
(* Properties. *)

\* roadcast_client_close frees the handle and closes the descriptor, whose
\* number another thread may get at once: by then, and whenever connect has
\* returned an error, no thread is left that would use either.
HandleOutlivesReader ==
  sdk.fd = "closed" \/ sdk.app \in {"out", "failed", "closed"} =>
    sdk.pc = "idle"

\* CLIENT_SDK.md "triggers shutdown() and unblocks pending waits
\* immediately": a close returns whatever the server does, in the middle of a
\* resynchronization included.
CloseReturns == (sdk.app = "stop") ~> (sdk.app = "closed")

\* roadcast_client_connect returns against a server that stays silent, stops
\* answering halfway, closes, or answers nonsense; only a server that never
\* stops sending is left out.
ConnectReturns ==
  []<><<serve>>_anyVars \/ ((sdk.app = "connect") ~> (sdk.app # "connect"))

\* Once the server has closed the connection, or has been silent for longer
\* than the read timeout, roadcast_client_status reports connected = 0: the
\* cache is never reported as live for ever.
LossNoticed ==
  []<><<serve>>_anyVars \/ <>[](~sdk.connected)

\* CLIENT_SDK.md "10000 ms global budget across handshake, schema discovery,
\* and initial snapshot catch-up": connect returns, whatever the server does.
\* (It need not: the deadline is looked at only when nothing has arrived.)
SetupBudget == (sdk.app = "connect") ~> (sdk.app # "connect")
=============================================================================
