----------------------------- MODULE ActiveProxy -----------------------------
(***************************************************************************)
(* The active proxy addon (src/addons/activeproxy): a pool of connections  *)
(* to a relay server, each of which serves one client session at a time    *)
(* through an upstream connection.                                         *)
(*                                                                         *)
(* Everything runs on one libuv loop, so a step is one callback.  Handlers *)
(* call each other and the pool, so they are operators on the state s of   *)
(* the whole addon.  The relay server is external: it follows the protocol *)
(* as the client does, and its packets may be late.  Times are abstracted: *)
(* a timeout may have passed whenever the code looks at the clock; only    *)
(* the wait before the next attempt to connect is measured.  Writes are    *)
(* followed only if their completion has a handler.  Write and shutdown    *)
(* requests also hold a reference, which is released before that of their  *)
(* handle; these references are left out.                                  *)
(***************************************************************************)
EXTENDS Integers, FiniteSets, Sequences, SequencesExt

CONSTANTS Conns,            \* connection objects in memory
          maxConnections,
          MAX_RELAY_WRITE_QUEUE_SIZE,   \* in DATA packets
          MaxData,          \* bound: DATA packets in the relay's write queue
          MaxLost,          \* bound: references a connection may lose
          MaxFails,         \* bound: failures that are counted
          ClockStep,        \* milliseconds between two looks at the clock
          MaxWait,          \* bound: milliseconds that are measured
          UINT32            \* number of values of inFlights

ASSUME ActiveProxyAssumption ==
    /\ IsFiniteSet(Conns)
    /\ maxConnections \in Nat \ {0}
    /\ MAX_RELAY_WRITE_QUEUE_SIZE \in 1..MaxData
    /\ MaxLost \in Nat
    /\ {MaxFails, ClockStep} \subseteq Nat \ {0} /\ MaxWait \in Nat
    /\ UINT32 \in Nat /\ UINT32 > maxConnections

VARIABLE sys

States == {"Initializing", "Authenticating", "Attaching", "Idling", "Relaying",
           "Disconnecting", "Closed"}

\* The packets of the handshake that ends a session.
Goodbyes == {"DISCONNECT", "DISCONNECT_ACK"}

Connection ==
    [state : States,
     refs : Nat,                     \* refCount, 0 once deleted
     handled : BOOLEAN,              \* closeHandler is set
     relay : {"none", "failed", "connecting", "open", "closing"},
     relayReq : BOOLEAN,             \* its ConnectRequest is pending
     up : {"none", "connecting", "open", "closing"},
     upReq : BOOLEAN,
     reading : BOOLEAN,              \* uv_read_start of the upstream
     shut : {"no", "pending", "done"},
     upstreamClosed : BOOLEAN,
     upstreamPaused : BOOLEAN,
     disconnectConfirms : 0..1,
     acks : Nat,                     \* CONNECT_ACKs being written
     data : Nat,                     \* DATA packets being written
     ping : BOOLEAN,                 \* a PING is not yet answered
     sent : SUBSET (Goodbyes \cup {"CONNECT_ACK", "CONNECT_NAK"}),
     got : SUBSET Goodbyes,          \* what both sides sent in this session
     lost : Nat]                     \* history: references lost with a handle

\* A ProxyConnection before its first step, and its memory before it is made.
Unused ==
    [state |-> "Initializing", refs |-> 0, handled |-> TRUE, relay |-> "none",
     relayReq |-> FALSE, up |-> "none", upReq |-> FALSE, reading |-> FALSE, shut |-> "no",
     upstreamClosed |-> TRUE, upstreamPaused |-> FALSE, disconnectConfirms |-> 0,
     acks |-> 0, data |-> 0, ping |-> FALSE, sent |-> {"CONNECT_NAK"}, got |-> {}, lost |-> 0]

Init ==
    sys = [running |-> TRUE, connections |-> <<>>, inFlights |-> 0, idle |-> FALSE,
           authenticated |-> FALSE, conn |-> [c \in Conns |-> Unused],
           serverFails |-> 0, reconnectDelay |-> 0,
           waited |-> MaxWait,   \* the time since lastConnectTimestamp
           clean |-> TRUE]   \* history: no connection was closed halfway in a session,
                             \* and no deleted one was used

-----------------------------------------------------------------------------
(* The handlers of the pool. *)

onOpened(s) == [s EXCEPT !.serverFails = 0, !.reconnectDelay = 0]

\* The delay, in milliseconds, is compared with 64 before it is set: it is set by the
\* first failure and stays at that until a connection is opened.
onOpenFailed(s) ==
    LET fails == IF s.serverFails < MaxFails THEN s.serverFails + 1 ELSE MaxFails
    IN  [s EXCEPT !.serverFails = fails,
                  !.reconnectDelay = IF @ < 64 THEN 2^fails * 1000 ELSE @]

onBusy(s) == [s EXCEPT !.inFlights = (@ + 1) % UINT32, !.idle = FALSE]

onIdle(s) ==
    LET n == (s.inFlights + UINT32 - 1) % UINT32
    IN  [s EXCEPT !.inFlights = n, !.idle = @ \/ n = 0]

\* Deleting the object leaves only what libuv still has of its handles.
unref(s, c) ==
    [s EXCEPT !.conn[c] = IF @.refs = 1
                          THEN [Unused EXCEPT !.relay = s.conn[c].relay, !.up = s.conn[c].up]
                          ELSE [@ EXCEPT !.refs = @ - 1]]

onClosed(s, c) ==
    IF s.conn[c].handled
    THEN unref([s EXCEPT !.connections = SelectSeq(@, LAMBDA x : x # c)], c)
    ELSE s

-----------------------------------------------------------------------------
(* The connection. *)

MutCloseForgetsIdle(s, c) ==
    IF s.conn[c].state = "Closed" THEN s
    ELSE onClosed([s EXCEPT !.conn[c].state = "Closed",
                            !.conn[c].reading = FALSE,
                            !.conn[c].up = IF @ = "none" THEN @ ELSE "closing",
                            !.conn[c].relay = IF @ \in {"none", "failed"} THEN @ ELSE "closing"], c)

close(s, c) ==
    LET old == s.conn[c].state
        s1  == CASE old \in {"Initializing", "Authenticating", "Attaching"} -> onOpenFailed(s)
                 [] old = "Relaying" -> onIdle(s)
                 [] OTHER -> s
    IN  IF old = "Closed" THEN s
        ELSE onClosed([s1 EXCEPT
               !.clean = @ /\ old # "Disconnecting",
               !.conn[c].ping = FALSE,   \* the server forgets the connection too
               !.conn[c].sent = {},
               !.conn[c].got = {},
               !.conn[c].state = "Closed",
               !.conn[c].reading = FALSE,
               !.conn[c].up = IF @ = "none" THEN @ ELSE "closing",
               !.conn[c].relay = IF @ \in {"none", "failed"} THEN @ ELSE "closing"], c)

\* uv_write refuses a handle that is not open. The packets and the completions that
\* matter are noted.
sendRelayPacket(s, c, type) ==
    IF s.conn[c].state = "Closed" THEN s
    ELSE IF s.conn[c].relay # "open" THEN close(s, c)
    ELSE [s EXCEPT !.conn[c].acks = IF type = "CONNECT_ACK" THEN @ + 1 ELSE @,
                   !.conn[c].data = IF type = "DATA" THEN @ + 1 ELSE @,
                   !.conn[c].ping = @ \/ type = "PING",
                   !.conn[c].sent = IF type \in Goodbyes \cup {"CONNECT_ACK", "CONNECT_NAK"}
                                    THEN @ \cup {type} ELSE @]

sendAuthenticateRequest(s, c) ==
    sendRelayPacket([s EXCEPT !.conn[c].state = "Authenticating"], c, "AUTH")

sendAttachRequest(s, c) ==
    sendRelayPacket([s EXCEPT !.conn[c].state = "Attaching"], c, "ATTACH")

sendConnectResponse(s, c, success) ==
    sendRelayPacket(s, c, IF success THEN "CONNECT_ACK" ELSE "CONNECT_NAK")

\* The upstream is paused while too much waits for the relay.
sendDataRequest(s, c) ==
    LET s1   == sendRelayPacket(s, c, "DATA")
        full == s1.conn[c].data >= MAX_RELAY_WRITE_QUEUE_SIZE
    IN  [s1 EXCEPT !.conn[c].upstreamPaused = @ \/ full,
                   !.conn[c].reading = @ /\ ~ full]

closeUpstream2(s, c) ==
    IF s.conn[c].state \in {"Closed", "Idling"} \/ s.conn[c].upstreamClosed THEN s
    ELSE [s EXCEPT !.conn[c].upstreamClosed = TRUE,
                   !.conn[c].reading = FALSE,
                   !.conn[c].up = IF @ = "none" THEN @ ELSE "closing"]

\* The upstream is shut down, which is refused unless it is connected.
closeUpstream(s, c) ==
    LET s1 == sendRelayPacket([s EXCEPT !.conn[c].upstreamClosed = TRUE,
                                        !.conn[c].state = "Disconnecting"], c, "DISCONNECT")
        s2 == [s1 EXCEPT !.conn[c].reading = FALSE]
    IN  IF s.conn[c].state \in {"Closed", "Idling"} \/ s.conn[c].upstreamClosed THEN s
        ELSE IF s2.conn[c].up = "open" THEN [s2 EXCEPT !.conn[c].shut = "pending"]
        ELSE closeUpstream2(s2, c)

startReadUpstream(s, c) ==
    IF s.conn[c].up = "open" THEN [s EXCEPT !.conn[c].reading = TRUE]
    ELSE closeUpstream(s, c)

\* The session ends before it began: the connection is idle again.
refuse(s, c) ==
    sendConnectResponse(onIdle([closeUpstream2(s, c) EXCEPT !.conn[c].state = "Idling"]), c, FALSE)

\* uv_tcp_init writes over a handle that is still in use: the references of the handle
\* and of its request are lost.
openUpstream(s, c, connects) ==
    LET s1 == [s EXCEPT !.conn[c].lost = @ + (IF s.conn[c].up = "none" THEN 0 ELSE 1)
                                             + (IF s.conn[c].upReq THEN 1 ELSE 0),
                        !.conn[c].up = "connecting",
                        !.conn[c].upReq = FALSE,
                        !.conn[c].shut = "no",
                        !.conn[c].reading = FALSE,
                        !.conn[c].upstreamClosed = FALSE,
                        !.conn[c].refs = @ + 1]
    IN  IF connects THEN [s1 EXCEPT !.conn[c].upReq = TRUE, !.conn[c].refs = @ + 1]
        ELSE refuse(s1, c)

-----------------------------------------------------------------------------
(* Packets of the server. *)

accept(state, type) ==
    CASE state = "Authenticating" -> type = "AUTH_ACK"
      [] state = "Attaching"      -> type = "ATTACH_ACK"
      [] state = "Idling"         -> type \in {"PING_ACK", "CONNECT"}
      [] state = "Relaying"       -> type \in {"PING_ACK", "DATA", "DISCONNECT"}
      [] state = "Disconnecting"  -> type \in {"DISCONNECT", "DISCONNECT_ACK", "DATA"}
      [] OTHER                    -> FALSE

onAuthenticateResponse(s, c) ==
    onOpened([s EXCEPT !.authenticated = TRUE, !.conn[c].state = "Idling"])

onAttachResponse(s, c) == onOpened([s EXCEPT !.conn[c].state = "Idling"])

onConnectRequest(s, c, connects) ==
    openUpstream(onBusy([s EXCEPT !.conn[c].state = "Relaying",
                                  !.conn[c].sent = {},
                                  !.conn[c].got = {}]), c, connects)

\* Both halves of the handshake are needed for the connection to be idle again.
confirmDisconnect(s, c) ==
    IF s.conn[c].disconnectConfirms = 1
    THEN onIdle([s EXCEPT !.conn[c].disconnectConfirms = 0, !.conn[c].state = "Idling"])
    ELSE [s EXCEPT !.conn[c].disconnectConfirms = 1]

onDisconnectRequest(s, c) ==
    confirmDisconnect(sendRelayPacket(closeUpstream(s, c), c, "DISCONNECT_ACK"), c)

onDisconnectResponse(s, c) == confirmDisconnect(s, c)

\* Writing to the upstream fails at once unless it is connected and not shut down.
onDataRequest(s, c) ==
    IF s.conn[c].up = "open" /\ s.conn[c].shut = "no" THEN s ELSE closeUpstream(s, c)

\* What the server may send: answers to what it got, and one goodbye per session.
\* It starts a session when the last one is over on both sides, which takes a round trip:
\* handles that are being closed are closed by then.
ServerSends(r, type) ==
    CASE type = "AUTH_ACK"       -> r.state = "Authenticating"
      [] type = "ATTACH_ACK"     -> r.state = "Attaching"
      [] type = "PING_ACK"       -> r.ping
      [] type = "CONNECT"        -> /\ r.state = "Idling"
                                    /\ r.up # "closing"
                                    /\ \/ r.sent = {"CONNECT_NAK"} /\ r.got = {}
                                       \/ Goodbyes \subseteq r.sent /\ r.got = Goodbyes
      [] type = "DATA"           -> "CONNECT_ACK" \in r.sent /\ "DISCONNECT" \notin r.got
      [] type = "DISCONNECT"     -> "CONNECT_NAK" \notin r.sent /\ "DISCONNECT" \notin r.got
      [] type = "DISCONNECT_ACK" -> "DISCONNECT" \in r.sent /\ "DISCONNECT_ACK" \notin r.got
      [] OTHER                   -> FALSE

PacketTypes == {"AUTH_ACK", "ATTACH_ACK", "PING_ACK", "CONNECT", "DATA"} \cup Goodbyes

-----------------------------------------------------------------------------
(* Callbacks. A deleted object has none. *)

conn(c) == sys.conn[c]

Live(c) == conn(c).refs > 0

\* Memory that can be used for a new object: deleted, or never to be used again.
Free(c) ==
    /\ conn(c).relay \in {"none", "failed"}
    /\ conn(c).up = "none"
    /\ \/ conn(c).refs = 0
       \/ conn(c).state = "Closed" /\ c \notin Range(sys.connections)

\* Without a connection the session with the server starts anew.
needsNewConnection ==
    /\ Len(sys.connections) < maxConnections
    /\ sys.reconnectDelay # 0 => sys.waited >= sys.reconnectDelay
    /\ \/ sys.connections = <<>>
       \/ sys.inFlights = Len(sys.connections)

reset(s) ==
    [s EXCEPT !.authenticated = FALSE, !.idle = FALSE, !.inFlights = 0,
              !.serverFails = 0, !.reconnectDelay = 0, !.waited = MaxWait]

\* connect and connectServer; uv_tcp_connect may fail at once.
connect(c, connects) ==
    LET s == IF sys.connections = <<>> /\ sys.authenticated THEN reset(sys) ELSE sys
    IN  /\ sys.running
        /\ needsNewConnection
        /\ Free(c)
        /\ sys' = [s EXCEPT !.connections = Append(@, c),
                            !.waited = 0,
                            !.conn[c] = [Unused EXCEPT
                               !.refs = IF connects THEN 3 ELSE 1,
                               !.relay = IF connects THEN "connecting" ELSE "failed",
                               !.relayReq = connects]]

\* The clock of the loop.
timePasses ==
    /\ sys.running /\ sys.waited + ClockStep <= MaxWait
    /\ sys' = [sys EXCEPT !.waited = @ + ClockStep]

relayConnected(c, ok) ==
    /\ Live(c) /\ conn(c).relay = "connecting"
    /\ LET s == unref([sys EXCEPT !.conn[c].relayReq = FALSE], c)
       IN  sys' = IF ok THEN [s EXCEPT !.conn[c].relay = "open"] ELSE close(s, c)

\* End of file, a failed read or write, an error packet or a malformed one.
relayFails(c) ==
    /\ Live(c) /\ conn(c).relay = "open"
    /\ sys' = close(sys, c)

onChallenge(c) ==
    /\ Live(c) /\ conn(c).relay = "open" /\ conn(c).state = "Initializing"
    /\ sys' = IF sys.authenticated THEN sendAttachRequest(sys, c)
              ELSE sendAuthenticateRequest(sys, c)

processRelayPacket(c, type, connects) ==
    /\ Live(c) /\ conn(c).relay = "open" /\ conn(c).state # "Initializing"
    /\ ServerSends(conn(c), type)
    /\ type = "CONNECT" => conn(c).up = "none" \/ conn(c).lost < MaxLost
    /\ LET s == [sys EXCEPT !.conn[c].ping = @ /\ type # "PING_ACK",
                            !.conn[c].got = IF type \in Goodbyes THEN @ \cup {type} ELSE @]
       IN  sys' = IF ~ accept(s.conn[c].state, type) THEN close(s, c)
                  ELSE CASE type = "AUTH_ACK"       -> onAuthenticateResponse(s, c)
                         [] type = "ATTACH_ACK"     -> onAttachResponse(s, c)
                         [] type = "PING_ACK"       -> s
                         [] type = "CONNECT"        -> onConnectRequest(s, c, connects)
                         [] type = "DATA"           -> onDataRequest(s, c)
                         [] type = "DISCONNECT"     -> onDisconnectRequest(s, c)
                         [] type = "DISCONNECT_ACK" -> onDisconnectResponse(s, c)

\* A CONNECT_ACK has been written: now the upstream may be read.
ackWritten(c) ==
    /\ Live(c) /\ conn(c).relay = "open" /\ conn(c).acks > 0
    /\ LET s == [sys EXCEPT !.conn[c].acks = @ - 1]
       IN  sys' = IF conn(c).up # "none" THEN startReadUpstream(s, c) ELSE s

MutDataWrittenNeverResumes(c) ==
    /\ Live(c) /\ conn(c).relay = "open" /\ conn(c).data > 0
    /\ sys' = [sys EXCEPT !.conn[c].data = @ - 1]

dataWritten(c) ==
    /\ Live(c) /\ conn(c).relay = "open" /\ conn(c).data > 0
    /\ LET s == [sys EXCEPT !.conn[c].data = @ - 1]
       IN  sys' = IF /\ s.conn[c].upstreamPaused
                     /\ s.conn[c].data <= MAX_RELAY_WRITE_QUEUE_SIZE \div 4
                  THEN startReadUpstream([s EXCEPT !.conn[c].upstreamPaused = FALSE], c)
                  ELSE s

upstreamConnected(c, ok) ==
    /\ Live(c) /\ conn(c).up = "connecting" /\ conn(c).upReq
    /\ LET s == [sys EXCEPT !.conn[c].upReq = FALSE]
       IN  sys' = unref(IF ok THEN sendConnectResponse([s EXCEPT !.conn[c].up = "open"], c, TRUE)
                        ELSE refuse([s EXCEPT !.clean = @ /\ conn(c).state # "Idling"], c), c)

\* libuv cancels the request of a handle that is closed while it connects.
connectCanceled(c) ==
    /\ Live(c) /\ conn(c).up = "closing" /\ conn(c).upReq
    /\ sys' = unref(refuse([sys EXCEPT !.conn[c].upReq = FALSE, !.clean = FALSE], c), c)

upstreamRead(c) ==
    /\ Live(c) /\ conn(c).up = "open" /\ conn(c).reading
    /\ conn(c).data < MaxData
    /\ sys' = sendDataRequest(sys, c)

\* End of file or a failed read or write.
upstreamFails(c) ==
    /\ Live(c) /\ conn(c).up = "open"
    /\ sys' = closeUpstream(sys, c)

upstreamShutdown(c) ==
    /\ Live(c) /\ conn(c).up = "open" /\ conn(c).shut = "pending"
    /\ sys' = closeUpstream2([sys EXCEPT !.conn[c].shut = "done"], c)

upstreamHandleClosed(c) ==
    /\ Live(c) /\ conn(c).up = "closing" /\ ~ conn(c).upReq
    /\ sys' = unref([sys EXCEPT !.conn[c].up = "none"], c)

\* The requests of the relay are canceled before its callback.
MutRelayHandleClosedKeepsRef(c) ==
    /\ Live(c) /\ conn(c).relay = "closing"
    /\ sys' = [sys EXCEPT !.conn[c].relay = "none", !.conn[c].relayReq = FALSE,
                          !.conn[c].acks = 0, !.conn[c].data = 0]

relayHandleClosed(c) ==
    /\ Live(c) /\ conn(c).relay = "closing"
    /\ LET s == [sys EXCEPT !.conn[c].relay = "none", !.conn[c].relayReq = FALSE,
                            !.conn[c].acks = 0, !.conn[c].data = 0]
       IN  sys' = IF conn(c).relayReq THEN unref(unref(s, c), c) ELSE unref(s, c)

MutPeriodicCheckSparesNew(s, c, silence) ==
    CASE s.conn[c].state # "Idling" \/ silence = "short" -> s
      [] silence = "long" -> close(s, c)
      [] silence = "due"  -> sendRelayPacket(s, c, "PING")

\* Nothing was heard of a connection for too long, or for long enough to ask.
periodicCheck(s, c, silence) ==
    CASE s.conn[c].state = "Relaying" \/ silence = "short" -> s
      [] s.conn[c].state # "Relaying" /\ silence = "long"  -> close(s, c)
      [] s.conn[c].state = "Idling" /\ silence = "due"     -> sendRelayPacket(s, c, "PING")
      [] OTHER                                            -> s

\* healthCheck goes through the slots that the vector had at the start, while close takes
\* the connection out of it: those behind move up by one, the slots past the new end keep
\* what they had. What it finds there may be deleted.
healthCheck(silence) ==
    LET slots == 1..Len(sys.connections)
        check(a, i) ==
            LET c == a.slot[i]
                s == IF a.s.conn[c].refs = 0 THEN [a.s EXCEPT !.clean = FALSE]
                     ELSE periodicCheck(a.s, c, silence[c])
            IN  [s |-> s,
                 slot |-> [k \in slots |-> IF k <= Len(s.connections) THEN s.connections[k]
                                           ELSE a.slot[k]]]
    IN  /\ sys.running
        /\ sys' = FoldLeft(check, [s |-> sys, slot |-> sys.connections],
                           [i \in slots |-> i]).s

\* Closing connections of the pool without telling it.
Dismiss(s, cs) ==
    FoldLeft(LAMBDA acc, c : unref(close([acc EXCEPT !.conn[c].handled = FALSE], c), c), s, cs)

idleCheck ==
    /\ sys.running
    /\ sys.idle /\ sys.inFlights = 0 /\ Len(sys.connections) > 1
    /\ sys' = [Dismiss(sys, Tail(sys.connections)) EXCEPT !.connections = SubSeq(@, 1, 1)]

onStop ==
    /\ sys.running
    /\ sys' = [Dismiss(sys, sys.connections) EXCEPT !.running = FALSE, !.connections = <<>>]

-----------------------------------------------------------------------------
\* What libuv will do for sure.
Pending(c) ==
    \/ \E ok \in BOOLEAN : relayConnected(c, ok) \/ upstreamConnected(c, ok)
    \/ ackWritten(c)
    \/ dataWritten(c)
    \/ upstreamShutdown(c)
    \/ connectCanceled(c)
    \/ upstreamHandleClosed(c)
    \/ relayHandleClosed(c)

Silences == [Conns -> {"short", "due", "long"}]

Next ==
    \/ \E c \in Conns :
         \/ Pending(c)
         \/ \E ok \in BOOLEAN : connect(c, ok)
         \/ \E type \in PacketTypes, ok \in BOOLEAN : processRelayPacket(c, type, ok)
         \/ onChallenge(c)
         \/ relayFails(c)
         \/ upstreamRead(c)
         \/ upstreamFails(c)
    \/ timePasses
    \/ \E silence \in Silences : healthCheck(silence)
    \/ idleCheck
    \/ onStop

Spec == Init /\ [][Next]_sys

\* libuv runs every callback that is due. The loop looks at the pool again and again, by
\* its timer, and time passes: a connection that never gets open is dead in the end. The
\* server is reached, and answers, if it is tried often enough.
FairSpec ==
    /\ Spec
    /\ WF_sys(timePasses)
    /\ \A c \in Conns : /\ WF_sys(relayHandleClosed(c))
                        /\ WF_sys(upstreamHandleClosed(c))
                        /\ WF_sys(connectCanceled(c))
                        /\ WF_sys(dataWritten(c))
                        /\ WF_sys(/\ conn(c).state = "Initializing"
                                  /\ \E silence \in Silences : /\ silence[c] = "long"
                                                                /\ healthCheck(silence))
                        /\ SF_sys(connect(c, TRUE))
                        /\ SF_sys(relayConnected(c, TRUE))
                        /\ SF_sys(onChallenge(c))
                        /\ SF_sys(processRelayPacket(c, "AUTH_ACK", TRUE))
                        /\ SF_sys(processRelayPacket(c, "ATTACH_ACK", TRUE))

-----------------------------------------------------------------------------
\* The pool never exceeds its limit and holds a connection at most once
\* (activeproxy.cc:178-199, 392-405), and inFlights counts those that serve a session, so
\* that a new connection is made exactly when all are busy (activeproxy.cc:193, 407-415)
\* -- as long as no connection is closed while it connects upstream or takes leave.
PoolExact ==
    /\ Len(sys.connections) <= maxConnections
    /\ IsInjective(sys.connections)
    /\ sys.running /\ sys.clean =>
          sys.inFlights = Cardinality({c \in Range(sys.connections) :
                                         conn(c).state \in {"Relaying", "Disconnecting"}})

\* A connection object is deleted when its last reference goes, and every handle,
\* request and the pool hold one (connection.cc:60-112, connection.h:122-130).
RefsExact ==
    sys.clean => \A c \in Conns :
        conn(c).refs = (IF c \in Range(sys.connections) THEN 1 ELSE 0)
                  + (IF conn(c).relay \in {"none", "failed"} THEN 0 ELSE 1)
                  + (IF conn(c).relayReq THEN 1 ELSE 0)
                  + (IF conn(c).up = "none" THEN 0 ELSE 1)
                  + (IF conn(c).upReq THEN 1 ELSE 0)
                  + conn(c).lost

\* An upstream that is no longer read because the relay's queue is full is read again
\* or given up when the queue has drained (connection.cc:547-559).
PausedResumes ==
    \A c \in Conns : (conn(c).upstreamPaused /\ ~ conn(c).reading)
                        ~> (~ conn(c).upstreamPaused \/ conn(c).reading \/ conn(c).state = "Closed")

\* libuv still has a handle of an object that is deleted: its callback is undefined.
Dangling(c) == conn(c).refs = 0 /\ (conn(c).relay = "closing" \/ conn(c).up # "none")

\* A running proxy always gets back to a connection that is ready for a session or is in
\* one, whatever failed before: a connection that is refused, or that never gets through
\* the handshake, gives up its place in the pool, and the delay after a failure ends, as
\* long as no handle dangles (activeproxy.cc:178-199, 381-390, connection.cc:143-183,
\* 277-296). A connection whose server falls silent in the middle of a session counts as
\* in service: periodicCheck passes over it, and it keeps its place.
ServiceResumes ==
    []<>(\/ ~ sys.running
         \/ \E c \in Range(sys.connections) : conn(c).state \in {"Idling", "Relaying", "Disconnecting"}
         \/ \E c \in Conns : Dangling(c))
=============================================================================
