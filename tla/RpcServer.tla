----------------------------- MODULE RpcServer ------------------------------
(***************************************************************************)
(* The RPC servers of a set of nodes that call each other over UDP         *)
(* (src/core/rpcserver.cc, rpccall.cc).  Each node runs one receiving      *)
(* thread: wait for a packet, handle it, send what was blocked, run the    *)
(* timers that are due.  Calls are made by the handlers and timers of that *)
(* thread.  An exception that escapes from one of them is caught outside   *)
(* the loop and ends the thread: the calls in the table stay there.        *)
(*                                                                         *)
(* net holds every packet ever sent: a packet may be delivered never,      *)
(* late, out of order or many times.  A packet carries, for the properties *)
(* only, the call it is about (re).  The transaction ids of a node start   *)
(* at a random number and are never used up.                               *)
(***************************************************************************)
EXTENDS Integers

CONSTANTS Nodes,
          Addrs, Owner,      \* source addresses, and the node behind each
          Address,           \* the address a node is known by
          FirstTxid,         \* of each node
          STALL_TIME,        \* first check of a call, 2 s in the code
          RPC_CALL_TIMEOUT_MAX,
          STRAY_TIME,        \* up-time before stray responses are answered
          HasIPv6,
          CanBlock,          \* TRUE: sendto may report EAGAIN
          Targets,           \* bound: whom each node calls
          MaxCalls,          \* bound: calls of a node
          MaxTime            \* bound: the clock stops there

ASSUME RpcAssumption ==
    /\ Owner \in [Addrs -> Nodes]
    /\ Address \in [Nodes -> Addrs]
    /\ \A n \in Nodes : Owner[Address[n]] = n
    /\ FirstTxid \in [Nodes -> Nat \ {0}]
    /\ STALL_TIME \in Nat \ {0}
    /\ RPC_CALL_TIMEOUT_MAX \in Nat
    /\ STALL_TIME < RPC_CALL_TIMEOUT_MAX
    /\ STRAY_TIME \in Nat
    /\ HasIPv6 \in BOOLEAN
    /\ CanBlock \in BOOLEAN
    /\ Targets \in [Nodes -> SUBSET Nodes]
    /\ MaxCalls \in Nat
    /\ MaxTime \in Nat

VARIABLES net,
          calls,      \* RPCServer::calls: txid -> call
          nextTxid,
          queue,      \* messageQueue; its order does not matter, UDP has none
          phase,      \* where the receiving thread is in its loop, or that it has ended
          syncTime,   \* Scheduler::now, the time the timers are run for
          now,
          outcome     \* history: how the calls that have left the table ended

vars == <<net, calls, nextTxid, queue, phase, syncTime, now, outcome>>

Txids(n) == FirstTxid[n]..(FirstTxid[n] + MaxCalls)

AllTxids == UNION {Txids(n) : n \in Nodes}

CallIds == Nodes \X AllTxids

Packet == [type : {"REQUEST", "RESPONSE", "ERR"}, txid : AllTxids,
           src : Addrs, dst : Addrs, re : CallIds]

Call == [to : Addrs, state : {"SENT", "STALLED"}, sentTime : Nat, timer : Nat]

Nothing == [t \in {} |-> 0]

With(f, t, x) == [u \in DOMAIN f \cup {t} |-> IF u = t THEN x ELSE f[u]]

Without(f, t) == [u \in DOMAIN f \ {t} |-> f[u]]

Init ==
    /\ net = {}
    /\ calls = [n \in Nodes |-> Nothing]
    /\ nextTxid = FirstTxid
    /\ queue = [n \in Nodes |-> {}]
    /\ phase = [n \in Nodes |-> "select"]
    /\ syncTime = [n \in Nodes |-> 0]
    /\ now = 0
    /\ outcome = [c \in {} |-> 0]

-----------------------------------------------------------------------------
\* sendData: a message for which the socket is not ready is queued.
sendData(n, ms) ==
    \E blocked \in (IF CanBlock THEN SUBSET ms ELSE {{}}) :
        /\ net' = net \cup (ms \ blocked)
        /\ queue' = [queue EXCEPT ![n] = @ \cup blocked]

MayCall(n, to) ==
    /\ Owner[to] \in Targets[n]
    /\ nextTxid[n] < FirstTxid[n] + MaxCalls
    /\ now + RPC_CALL_TIMEOUT_MAX <= MaxTime

Request(n, to) == [type |-> "REQUEST", txid |-> nextTxid[n], src |-> Address[n],
                   dst |-> to, re |-> <<n, nextTxid[n]>>]

\* sendCall registers the call under the next transaction id and arms its timer.
Register(n, to) ==
    /\ calls' = [calls EXCEPT ![n] = With(@, nextTxid[n],
                    [to |-> to, state |-> "SENT", sentTime |-> now,
                     timer |-> now + STALL_TIME])]
    /\ nextTxid' = [nextTxid EXCEPT ![n] = @ + 1]

sendCall(n, to) ==
    /\ phase[n] \in {"flush", "timers"}
    /\ MayCall(n, to)
    /\ Register(n, to)
    /\ sendData(n, {Request(n, to)})
    /\ UNCHANGED <<phase, syncTime, now, outcome>>

-----------------------------------------------------------------------------
\* handlePacket: what the thread does with a packet it has received.

Receives(n, m, next) ==
    /\ phase[n] = "select"
    /\ m \in net
    /\ Owner[m.dst] = n
    /\ phase' = [phase EXCEPT ![n] = next]
    /\ UNCHANGED <<syncTime, now>>

About(m, type, src, dst) ==
    [type |-> type, txid |-> m.txid, src |-> src, dst |-> dst, re |-> m.re]

\* DHT::received sends a ping to a sender it does not know: which senders it knows
\* is the routing table's affair.
AnswerAndPing(n, m, replies) ==
    \/ sendData(n, replies) /\ UNCHANGED <<calls, nextTxid>>
    \/ /\ MayCall(n, m.src)
       /\ Register(n, m.src)
       /\ sendData(n, replies \cup {Request(n, m.src)})

\* A request is answered, refused, or ignored (a bogus origin); or its handler throws, as
\* when the storage does not take a value, before it has answered.
handleRequest(n, m) ==
    /\ m.type = "REQUEST"
    /\ \/ /\ Receives(n, m, "flush")
          /\ \E src \in {a \in Addrs : Owner[a] = n} :
               \E replies \in {{}, {About(m, "RESPONSE", src, m.src)}, {About(m, "ERR", src, m.src)}} :
                  AnswerAndPing(n, m, replies)
       \/ /\ Receives(n, m, "ended")
          /\ UNCHANGED <<net, calls, nextTxid, queue>>
    /\ UNCHANGED outcome

Matches(n, m) == m.type # "REQUEST" /\ m.txid \in DOMAIN calls[n]

\* The call leaves the table; its timer is cancelled with it.
Ended(n, t, state, re, src) ==
    outcome' = With(outcome, <<n, t>>,
                    [state |-> state, at |-> now, sentTime |-> calls[n][t].sentTime,
                     to |-> calls[n][t].to, re |-> re, src |-> src])

MutAnswerAnyAddress(n, m) ==
    /\ Receives(n, m, "flush")
    /\ Matches(n, m)
    /\ calls' = [calls EXCEPT ![n] = Without(@, m.txid)]
    /\ Ended(n, m.txid, m.type, m.re, m.src)
    /\ UNCHANGED <<net, nextTxid, queue>>

\* The call is removed first, in case of an exception in the handlers of the answer.
handleAnswer(n, m) ==
    /\ \E next \in {"flush", "ended"} : Receives(n, m, next)
    /\ Matches(n, m)
    /\ calls[n][m.txid].to = m.src
    /\ calls' = [calls EXCEPT ![n] = Without(@, m.txid)]
    /\ Ended(n, m.txid, m.type, m.re, m.src)
    /\ UNCHANGED <<net, nextTxid, queue>>

\* An answer from another address: the call is stalled and waits for its timeout.
handleMismatch(n, m) ==
    /\ Receives(n, m, "flush")
    /\ Matches(n, m)
    /\ calls[n][m.txid].to # m.src
    /\ calls' = [calls EXCEPT ![n][m.txid].state = "STALLED"]
    /\ sendData(n, IF m.type = "RESPONSE" /\ HasIPv6
                   THEN {About(m, "ERR", Address[n], calls[n][m.txid].to)} ELSE {})
    /\ UNCHANGED <<nextTxid, outcome>>

\* A response to no call: answered with an error, unless the node started just now.
handleStray(n, m) ==
    /\ Receives(n, m, "flush")
    /\ m.type = "RESPONSE"
    /\ ~ Matches(n, m)
    /\ sendData(n, IF now > STRAY_TIME THEN {About(m, "ERR", Address[n], m.src)} ELSE {})
    /\ UNCHANGED <<calls, nextTxid, outcome>>

\* An error about no call is passed on to DHT::onMessage.
handleError(n, m) ==
    /\ Receives(n, m, "flush")
    /\ m.type = "ERR"
    /\ ~ Matches(n, m)
    /\ AnswerAndPing(n, m, {})
    /\ UNCHANGED outcome

selectTimeout(n) ==
    /\ phase[n] = "select"
    /\ phase' = [phase EXCEPT ![n] = "flush"]
    /\ UNCHANGED <<net, calls, nextTxid, queue, syncTime, now, outcome>>

-----------------------------------------------------------------------------
\* periodic: the blocked messages first, then the timers that are due.

flushOne(n) ==
    /\ phase[n] = "flush"
    /\ \E m \in queue[n] :
         /\ net' = net \cup {m}
         /\ queue' = [queue EXCEPT ![n] = @ \ {m}]
    /\ UNCHANGED <<calls, nextTxid, phase, syncTime, now, outcome>>

periodic(n) ==
    /\ phase[n] = "flush"
    /\ queue[n] = {}
    /\ phase' = [phase EXCEPT ![n] = "timers"]
    /\ syncTime' = [syncTime EXCEPT ![n] = now]
    /\ UNCHANGED <<net, calls, nextTxid, queue, now, outcome>>

Due(n) == {t \in DOMAIN calls[n] : calls[n][t].timer <= syncTime[n]}

\* The timer of the call t is the next one that is due.
TimerFires(n, t) ==
    /\ phase[n] = "timers"
    /\ \A u \in Due(n) : calls[n][t].timer <= calls[n][u].timer

Remaining(n, t) == RPC_CALL_TIMEOUT_MAX - (now - calls[n][t].sentTime)

MutStallWithoutTimer(n, t) ==
    /\ TimerFires(n, t)
    /\ Remaining(n, t) > 0
    /\ calls' = [calls EXCEPT ![n][t].state = "STALLED", ![n][t].timer = MaxTime + 1]
    /\ UNCHANGED <<net, nextTxid, queue, phase, syncTime, now, outcome>>

stall(n, t) ==
    /\ TimerFires(n, t)
    /\ Remaining(n, t) > 0
    /\ calls' = [calls EXCEPT ![n][t] = [@ EXCEPT !.state = "STALLED",
                                                  !.timer = now + Remaining(n, t)]]
    /\ UNCHANGED <<net, nextTxid, queue, phase, syncTime, now, outcome>>

timeout(n, t) ==
    /\ TimerFires(n, t)
    /\ Remaining(n, t) <= 0
    /\ calls' = [calls EXCEPT ![n] = Without(@, t)]
    /\ Ended(n, t, "TIMEOUT", <<n, t>>, calls[n][t].to)
    /\ UNCHANGED <<net, nextTxid, queue, phase, syncTime, now>>

timersDone(n) ==
    /\ phase[n] = "timers"
    /\ Due(n) = {}
    /\ phase' = [phase EXCEPT ![n] = "select"]
    /\ syncTime' = [syncTime EXCEPT ![n] = 0]
    /\ UNCHANGED <<net, calls, nextTxid, queue, now, outcome>>

\* A job, a listener of a timer or a send has thrown.
throws(n) ==
    /\ phase[n] \in {"flush", "timers"}
    /\ phase' = [phase EXCEPT ![n] = "ended"]
    /\ UNCHANGED <<net, calls, nextTxid, queue, syncTime, now, outcome>>

Tick ==
    /\ now < MaxTime
    /\ now' = now + 1
    /\ UNCHANGED <<net, calls, nextTxid, queue, phase, syncTime, outcome>>

-----------------------------------------------------------------------------
handlePacket(n, m) ==
    \/ handleRequest(n, m)
    \/ handleAnswer(n, m)
    \/ handleMismatch(n, m)
    \/ handleStray(n, m)
    \/ handleError(n, m)

Loop(n) ==
    \/ selectTimeout(n)
    \/ flushOne(n)
    \/ periodic(n)
    \/ \E t \in Due(n) : stall(n, t) \/ timeout(n, t)
    \/ timersDone(n)

Next ==
    \/ \E n \in Nodes :
         \/ Loop(n)
         \/ throws(n)
         \/ \E m \in net : handlePacket(n, m)
         \/ \E to \in {Address[x] : x \in Nodes} : sendCall(n, to)
    \/ Tick

Spec == Init /\ [][Next]_vars

\* The receiving threads run as long as nothing is thrown, the sockets become writable
\* again, time passes. Nothing is assumed of the network.
FairSpec == Spec /\ WF_vars(Tick) /\ \A n \in Nodes : WF_vars(Loop(n))

-----------------------------------------------------------------------------
\* A call counts as responded only through a response its target made to that very
\* request and sent from the very address, port included, that the request went to,
\* whatever was duplicated, late or sent from another port (rpcserver.cc:542-556; the
\* comment there says that only the IP address is checked, but the comparison is one of
\* whole socket addresses). No call is given up before RPC_CALL_TIMEOUT_MAX has passed
\* since it was sent, early stalls included (rpccall.cc:114-130), nor while its request
\* still waits for the socket: periodic sends what is blocked before it runs the timers
\* (rpcserver.cc:612-621).
OutcomesJust ==
    \A c \in DOMAIN outcome :
        /\ outcome[c].state = "RESPONSE" => outcome[c].re = c /\ outcome[c].src = outcome[c].to
        /\ outcome[c].state = "TIMEOUT" =>
              /\ outcome[c].at - outcome[c].sentTime >= RPC_CALL_TIMEOUT_MAX
              /\ ~ \E n \in Nodes : \E m \in queue[n] : m.type = "REQUEST" /\ m.re = c

\* The calls as CallContract sees them.
OwnCalls == {c \in CallIds : c[2] \in Txids(c[1])}

Status ==
    [c \in OwnCalls |->
        IF c \in DOMAIN outcome THEN [state |-> outcome[c].state, at |-> outcome[c].at]
        ELSE [state |-> IF c[2] < nextTxid[c[1]] THEN "SENT" ELSE "UNSENT"]]

CallerOf == [c \in OwnCalls |-> c[1]]

Gone == {n \in Nodes : phase[n] = "ended"}

Contract == INSTANCE CallContract WITH
    Calls    <- OwnCalls,
    Callers  <- Nodes,
    Caller   <- CallerOf,
    Outcomes <- [state : {"RESPONSE", "ERR", "TIMEOUT"}, at : 0..MaxTime],
    Unsent   <- [state |-> "UNSENT"],
    Pending  <- [state |-> "SENT"],
    status   <- Status,
    gone     <- Gone

\* The RPC layer keeps its promise to its callers: a call that was sent ends exactly once,
\* and does end, though the network may lose everything, unless an exception has ended
\* the receiving thread of its node first; after that none of the node's calls ends
\* (rpcserver.cc:352-356, 431-463, 545-556, rpccall.cc:77-130).
KeepsContract == Contract!Spec
=============================================================================
