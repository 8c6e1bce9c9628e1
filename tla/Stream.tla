------------------------------- MODULE Stream -------------------------------
(***************************************************************************)
(* roadcastd and one client program, end to end: the session in Broker,    *)
(* the socket in Channel, and at the other end either the client library   *)
(* (Sdk) or roadcastctl (Ctl).  Broker's clients may send any request at   *)
(* any time; here the requests are the ones the two programs really send,  *)
(* and every message travels through a socket that holds SocketSlots.      *)
(*                                                                         *)
(* In a prompt behaviour everything that can be done is done within a      *)
(* heartbeat interval; otherwise any process can be slow.                  *)
(***************************************************************************)
EXTENDS Broker, Sdk, Ctl

VARIABLES
  program,   \* which client it is, "sdk" or "ctl"
  prompt

clientVars == <<sdk, ctl>>
streamVars == <<vars, channelVars, clientVars, program, prompt>>

Session == clients[1]

\* The client holds its end of the socket.
Holding == IF program = "sdk" THEN sdk.fd = "open" ELSE ctl.pc # "exited"

\* Whatever ends the session closes its socket.
Cuts == link' = IF link = "open" /\ clients'[1].phase # "active"
                THEN "cut" ELSE link

-----------------------------------------------------------------------------
(* The server's end. *)

\* A connection refused for the limit of its user, or whose socket cannot be
\* set up, is closed at once.
Accept(uid, usable) ==
  /\ link = "pending"
  /\ on_connection(1, uid, usable)
  /\ link' = IF clients'[1].phase = "active" THEN "open" ELSE "cut"
  /\ UNCHANGED <<inbox, outbox, clientVars>>

\* What process_command does with a request.
Handler(request) ==
  CASE request.type = "HELLO" -> Hello(Session, TRUE)
    [] request.type = "GET_SCHEMA" -> Query(Session, "SCHEMA_CHUNK")
    [] request.type = "GET_SNAPSHOT" -> GetSnapshot(Session, request.start)
    [] request.type = "GET_SIGNAL_SNAPSHOT" ->
         GetSignalSnapshot(Session, request.start)
    [] request.type = "SUBSCRIBE_ALL" -> SubscribeAll(Session)

Process ==
  /\ link = "open" /\ outbox # <<>>
  /\ Step(1, Handler(Head(outbox)))
  /\ outbox' = Tail(outbox)
  /\ Cuts
  /\ UNCHANGED <<inbox, clientVars>>

\* The kernel takes a message when the socket has room for it.
Write ==
  /\ link = "open" /\ Holding /\ Len(inbox) < SocketSlots
  /\ WriteDone(1)
  /\ inbox' = Append(inbox, Head(Session.queue))
  /\ UNCHANGED <<link, outbox, clientVars>>

\* A read or a write tells the server that the client is gone.
PeerGone ==
  /\ link = "open" /\ ~Holding
  /\ Disconnect(1)
  /\ Cuts
  /\ UNCHANGED <<inbox, outbox, clientVars>>

Closed == on_client_closed(1) /\ UNCHANGED <<channelVars, clientVars>>

Sample == distribute_latest_sample /\ UNCHANGED <<channelVars, clientVars>>

\* The listening socket goes as well, and the connections nobody accepted.
Shutdown ==
  /\ server_shutdown
  /\ link' = IF link \in {"pending", "open"} THEN "cut" ELSE link
  /\ UNCHANGED <<inbox, outbox, clientVars>>

-----------------------------------------------------------------------------
(* Time. *)

\* Somebody has something to do.
Busy ==
  \/ link = "pending"
  \/ outbox # <<>>
  \/ Session.queue # <<>> /\ Len(inbox) < SocketSlots
  \/ sdk.waiting /\ (inbox # <<>> \/ Hung)
  \/ ~sdk.waiting /\ sdk.pc \notin {"idle", "ended"}
  \/ sdk.app \in {"stop", "join"}
  \/ ctl.waiting /\ (inbox # <<>> \/ link = "cut")
  \/ ~ctl.waiting /\ ctl.pc \notin {"out", "exited"}

Heartbeat ==
  /\ ~Expired /\ ~CtlExpired
  /\ prompt => ~Busy
  /\ on_heartbeat
  /\ sdk' = SdkElapsed /\ ctl' = CtlElapsed
  /\ Cuts
  /\ UNCHANGED <<inbox, outbox>>

-----------------------------------------------------------------------------

StreamInit ==
  /\ Init /\ ChannelInit /\ SdkInit /\ CtlInit
  /\ program \in {"sdk", "ctl"}
  /\ prompt \in BOOLEAN

ClientStep ==
  /\ \/ program = "sdk" /\ SdkNext /\ UNCHANGED ctl
     \/ program = "ctl" /\ CtlNext /\ UNCHANGED sdk
  /\ UNCHANGED vars

StreamNext ==
  /\ \/ \E uid \in Uids, usable \in BOOLEAN : Accept(uid, usable)
     \/ Process \/ Write \/ PeerGone \/ Closed \/ Sample \/ Shutdown
     \/ Heartbeat
     \/ ClientStep
  /\ UNCHANGED <<program, prompt>>

StreamSpec == StreamInit /\ [][StreamNext]_streamVars

-----------------------------------------------------------------------------
(* Properties. *)

\* Both programs are the "orderly" clients of Broker (the constant Client of
\* this module's instances): however slowly their requests travel, no
\* snapshot and no subscription is asked for on a session that already has
\* one, so what Broker guarantees such clients holds for them.
RequestsOrderly == Spec

\* Neither program ever takes what the server sends for a protocol error: in
\* every step of setup, catch-up, stream and resynchronization it is prepared
\* for whatever can be on its way.  Nor does the server ever close the session
\* over a request of theirs: whenever the next one is processed, it is one the
\* session is ready for, and there is room for the reply.
StreamUnderstood ==
  /\ "protocol" \notin {sdk.reason, ctl.reason}
  /\ link = "open" /\ outbox # <<>> => Handler(Head(outbox)).phase = "active"

\* What the program holds of item i, once it has read everything written and
\* everything queued.
Holds(items, i, v) ==
  LET coming == inbox \o Session.queue
  IN  Reaches(coming, Len(coming), items, i, v)

\* End to end: while a subscription is live, applying what is in the socket
\* and in the queue to the cache of the library, or to the signals of
\* roadcastctl, gives the canonical state.
CacheFresh ==
  Session.phase = "active" /\ Live(Session) =>
    /\ sdk.pc = "live" => \A i \in Items : Holds(sdk.cache.items, i, canon[i])
    /\ ctl.pc = "stream" =>
         \A i \in Items \ Frames : Holds(ctl.signals, i, canon[i])

\* CLIENT_SDK.md:26 "atomically replacing the visible cache": at any moment,
\* a resynchronization included, what the application can read under the
\* change sequence it is told is that change, complete or in the middle of
\* being applied to the change before; never older, newer or mixed further.
CacheConsistent ==
  sdk.connected =>
    LET n == sdk.cache.seq + 1 IN
    \A i \in Items :
      \/ Same(i, sdk.cache.items[i], history[n][i])
      \/ n > 1 /\ Same(i, sdk.cache.items[i], history[n - 1][i])

\* The change sequence the application sees never goes back, and at a commit
\* or a heartbeat the cache is the complete state of that change.
CacheAdvances ==
  [][sdk'.cache # sdk.cache /\ sdk'.connected =>
       /\ sdk.connected => sdk.cache.seq <= sdk'.cache.seq
       /\ sdk.pc = "commit" \/ sdk'.cache.items = sdk.cache.items =>
            \A i \in Items : Same(i, sdk'.cache.items[i],
                                     history[sdk'.cache.seq + 1][i])]_streamVars

\* Heartbeats and resync notices come often enough for the read timeout: as
\* long as everybody is prompt no client gives up on a server that is there.
NoFalseAlarm == prompt => "timeout" \notin {sdk.reason, ctl.reason}

\* roadcastctl reports a gap for every change sequence it did not see outside
\* a resynchronization: it never sees one, whatever the server dropped.
NoGapsReported == ctl.sequence_gaps = 0
=============================================================================
