--------------------------- MODULE RpcServerProofs ---------------------------
(***************************************************************************)
(* No call ends by mistake, and none ends twice, for every set of nodes    *)
(* and addresses, every timeout and every number of calls.                 *)
(***************************************************************************)
EXTENDS RpcServer, TLAPS

CallTable == UNION {[T -> Call] : T \in SUBSET AllTxids}

Ending == [state : {"RESPONSE", "ERR", "TIMEOUT"}, at : 0..MaxTime, sentTime : Nat,
           to : Addrs, re : CallIds, src : Addrs]

Phases == {"select", "flush", "timers", "ended"}

\* The type invariant.
TypeOK ==
    /\ net \subseteq Packet
    /\ calls \in [Nodes -> CallTable]
    /\ nextTxid \in [Nodes -> Nat]
    /\ queue \in [Nodes -> SUBSET Packet]
    /\ phase \in [Nodes -> Phases]
    /\ syncTime \in [Nodes -> Nat]
    /\ now \in 0..MaxTime
    /\ DOMAIN outcome \subseteq CallIds
    /\ \A c \in DOMAIN outcome : outcome[c] \in Ending

\* The transaction id of a request and of a response, with the address of the caller,
\* tells which call it is about. That of an error does not: errors are also sent to
\* those who answer.
Traceable(m) ==
    /\ m.type = "REQUEST" => m.re = <<Owner[m.src], m.txid>>
    /\ m.type = "RESPONSE" => m.re = <<Owner[m.dst], m.txid>>

PacketsTraceable ==
    /\ \A m \in net : Traceable(m)
    /\ \A n \in Nodes : \A m \in queue[n] :
          Traceable(m) /\ (m.type = "REQUEST" => Owner[m.src] = n)

\* A transaction id is used once: below nextTxid it belongs to a call in the table or to
\* one that has ended.
Numbered ==
    /\ \A n \in Nodes :
          /\ nextTxid[n] \in Txids(n)
          /\ \A t \in DOMAIN calls[n] :
                /\ t \in Txids(n) /\ t < nextTxid[n]
                /\ <<n, t>> \notin DOMAIN outcome
    /\ \A c \in DOMAIN outcome : c[2] \in Txids(c[1]) /\ c[2] < nextTxid[c[1]]

\* While timers run, a request that waits for the socket was made since they began to,
\* so its own timer is not among those that are due.
QueueFresh(n) ==
    phase[n] = "timers" =>
        \A m \in queue[n] :
            m.type = "REQUEST" /\ m.txid \in DOMAIN calls[n] =>
                calls[n][m.txid].timer > syncTime[n]

TimersFresh == \A n \in Nodes : syncTime[n] <= now /\ QueueFresh(n)

\* The inductive invariant.
IInv == TypeOK /\ PacketsTraceable /\ Numbered /\ TimersFresh /\ OutcomesJust

-----------------------------------------------------------------------------
(* The tables of calls. *)

\* A table maps transaction ids to calls.
LEMMA TableOf ==
    ASSUME NEW f \in CallTable
    PROVE  DOMAIN f \subseteq AllTxids /\ \A t \in DOMAIN f : f[t] \in Call
BY Zenon DEF CallTable

\* What is left of a table when a call is registered (sendCall), leaves it or changes is
\* a table.
LEMMA TablesKept ==
    ASSUME NEW f \in CallTable
    PROVE  /\ \A t \in AllTxids, x \in Call : With(f, t, x) \in CallTable
           /\ \A t : Without(f, t) \in CallTable
           /\ \A t \in DOMAIN f, x \in Call : [f EXCEPT ![t] = x] \in CallTable
<1>1. ASSUME NEW t \in AllTxids, NEW x \in Call PROVE With(f, t, x) \in CallTable
  <2> DEFINE T == DOMAIN f \cup {t}
  <2>1. T \in SUBSET AllTxids BY TableOf, Zenon
  <2>2. With(f, t, x) \in [T -> Call] BY TableOf, Zenon DEF With
  <2> QED BY <2>1, <2>2, Zenon DEF CallTable
<1>2. ASSUME NEW t PROVE Without(f, t) \in CallTable
  <2> DEFINE T == DOMAIN f \ {t}
  <2>1. T \in SUBSET AllTxids BY TableOf, Zenon
  <2>2. Without(f, t) \in [T -> Call] BY TableOf, Zenon DEF Without
  <2> QED BY <2>1, <2>2, Zenon DEF CallTable
<1>3. ASSUME NEW t \in DOMAIN f, NEW x \in Call PROVE [f EXCEPT ![t] = x] \in CallTable
  <2> DEFINE T == DOMAIN f
  <2>1. T \in SUBSET AllTxids BY TableOf, Zenon
  <2>2. f \in [T -> Call] BY Zenon DEF CallTable
  <2>3. [f EXCEPT ![t] = x] \in [T -> Call] BY <2>2, Zenon
  <2> QED BY <2>1, <2>3, Zenon DEF CallTable
<1> QED BY <1>1, <1>2, <1>3, Zenon

-----------------------------------------------------------------------------
(* Sending. *)

\* Packets that are sent or queued by n: each is traceable, and a request is a new one.
LEMMA SendKeeps ==
    ASSUME IInv, NEW n \in Nodes, NEW ms \in SUBSET Packet, sendData(n, ms),
           \A m \in ms : /\ Traceable(m)
                         /\ m.type = "REQUEST" => Owner[m.src] = n /\ m.txid = nextTxid[n],
           outcome' = outcome
    PROVE  /\ net' \subseteq Packet /\ queue' \in [Nodes -> SUBSET Packet]
           /\ queue'[n] \subseteq queue[n] \cup ms
           /\ \A k \in Nodes \ {n} : queue'[k] = queue[k]
           /\ PacketsTraceable'
           /\ OutcomesJust'
<1>1. PICK b \in SUBSET ms : /\ net' = net \cup (ms \ b)
                             /\ queue' = [queue EXCEPT ![n] = @ \cup b]
  BY Zenon DEF sendData
<1>2. queue \in [Nodes -> SUBSET Packet] /\ net \subseteq Packet
  BY Zenon DEF IInv, TypeOK
<1>3. /\ net' \subseteq Packet /\ queue' \in [Nodes -> SUBSET Packet]
      /\ queue'[n] = queue[n] \cup b
      /\ \A k \in Nodes \ {n} : queue'[k] = queue[k]
  BY <1>1, <1>2, Zenon
<1>4. PacketsTraceable'
  <2>1. ASSUME NEW m \in net' PROVE Traceable(m)
    BY <1>1, <2>1, Zenon DEF IInv, PacketsTraceable
  <2>2. ASSUME NEW k \in Nodes, NEW m \in queue'[k]
        PROVE  Traceable(m) /\ (m.type = "REQUEST" => Owner[m.src] = k)
    BY <1>3, <2>2, Zenon DEF IInv, PacketsTraceable
  <2> QED BY <2>1, <2>2, Zenon DEF PacketsTraceable, Traceable
<1>5. OutcomesJust'
  <2> SUFFICES ASSUME NEW c \in DOMAIN outcome, outcome[c].state = "TIMEOUT",
                      NEW k \in Nodes, NEW m \in queue'[k], m.type = "REQUEST", m.re = c
               PROVE  FALSE
    BY Zenon DEF OutcomesJust, IInv
  <2>1. m \notin queue[k] BY Zenon DEF IInv, OutcomesJust
  <2>2. k = n /\ m \in ms BY <1>3, <2>1, Zenon
  <2>3. m.re = <<n, nextTxid[n]>> BY <2>2, Zenon DEF Traceable
  <2>4. c[1] = n /\ c[2] = nextTxid[n] BY <2>3
  <2>5. c[2] < nextTxid[c[1]] BY Zenon DEF IInv, Numbered
  <2>6. nextTxid[n] \in Nat BY Zenon DEF IInv, TypeOK
  <2> QED BY <2>4, <2>5, <2>6
<1> QED BY <1>3, <1>4, <1>5, Zenon

\* A request of a node that still has transaction ids is a packet as SendKeeps wants it.
LEMMA RequestTraceable ==
    ASSUME IInv, NEW n \in Nodes, NEW to \in Addrs, nextTxid[n] < FirstTxid[n] + MaxCalls
    PROVE  /\ Request(n, to) \in Packet
           /\ Traceable(Request(n, to))
           /\ Owner[Request(n, to).src] = n /\ Request(n, to).txid = nextTxid[n]
           /\ nextTxid[n] \in AllTxids /\ nextTxid[n] + 1 \in Txids(n)
<1> USE RpcAssumption
<1>1. nextTxid[n] \in Txids(n) BY Zenon DEF IInv, Numbered
<1>2. nextTxid[n] \in AllTxids BY <1>1, Zenon DEF AllTxids
<1>3. nextTxid[n] + 1 \in Txids(n) BY <1>1 DEF Txids
<1> DEFINE t == nextTxid[n]
<1>4. Request(n, to) = [type |-> "REQUEST", txid |-> t, src |-> Address[n], dst |-> to,
                        re |-> <<n, t>>]
  BY Zenon DEF Request
<1> HIDE DEF t
<1>5. t \in AllTxids BY <1>2, Zenon DEF t
<1>6. <<n, t>> \in CallIds BY <1>5, Zenon DEF CallIds
<1>7. Request(n, to) \in Packet BY <1>4, <1>5, <1>6 DEF Packet
<1>8. Traceable(Request(n, to)) BY <1>4 DEF Traceable
<1> QED BY <1>2, <1>3, <1>4, <1>7, <1>8 DEF t

\* sendCall's new call: it has a transaction id of its own, and its timer is not due.
LEMMA RegisterKeeps ==
    ASSUME IInv, NEW n \in Nodes, NEW to \in Addrs, nextTxid[n] < FirstTxid[n] + MaxCalls,
           Register(n, to), UNCHANGED <<now, outcome>>
    PROVE  /\ calls' \in [Nodes -> CallTable] /\ nextTxid' \in [Nodes -> Nat]
           /\ \A k \in Nodes \ {n} : calls'[k] = calls[k] /\ nextTxid'[k] = nextTxid[k]
           /\ nextTxid'[n] = nextTxid[n] + 1
           /\ DOMAIN calls'[n] = DOMAIN calls[n] \cup {nextTxid[n]}
           /\ calls'[n][nextTxid[n]].timer = now + STALL_TIME
           /\ \A t \in DOMAIN calls[n] \ {nextTxid[n]} : calls'[n][t] = calls[n][t]
           /\ Numbered'
<1> USE RpcAssumption
<1> DEFINE x == [to |-> to, state |-> "SENT", sentTime |-> now, timer |-> now + STALL_TIME]
           w == With(calls[n], nextTxid[n], x)
<1>1. /\ calls \in [Nodes -> CallTable] /\ nextTxid \in [Nodes -> Nat] /\ now \in Nat
  BY DEF IInv, TypeOK
<1>2. x \in Call /\ x.timer = now + STALL_TIME BY <1>1 DEF Call
<1>3. nextTxid[n] \in AllTxids /\ nextTxid[n] + 1 \in Txids(n) BY RequestTraceable, Zenon
<1>4. /\ calls' = [calls EXCEPT ![n] = w]
      /\ nextTxid' = [nextTxid EXCEPT ![n] = nextTxid[n] + 1]
  BY Zenon DEF Register
<1> HIDE DEF x
<1>5. /\ w \in CallTable
      /\ DOMAIN w = DOMAIN calls[n] \cup {nextTxid[n]}
      /\ w[nextTxid[n]] = x
      /\ \A u \in DOMAIN calls[n] \ {nextTxid[n]} : w[u] = calls[n][u]
  <2>1. calls[n] \in CallTable BY <1>1, Zenon
  <2>2. x \in Call BY <1>2, Zenon
  <2>3. nextTxid[n] \in AllTxids BY <1>3, Zenon
  <2>4. w \in CallTable BY <2>1, <2>2, <2>3, TablesKept, Zenon
  <2>5. DOMAIN w = DOMAIN calls[n] \cup {nextTxid[n]} BY Zenon DEF With
  <2>6. w[nextTxid[n]] = x BY Zenon DEF With
  <2>7. \A u \in DOMAIN calls[n] \ {nextTxid[n]} : w[u] = calls[n][u] BY Zenon DEF With
  <2> QED BY <2>4, <2>5, <2>6, <2>7, Zenon
<1> HIDE DEF w
<1>6. /\ calls' \in [Nodes -> CallTable] /\ nextTxid' \in [Nodes -> Nat]
      /\ calls'[n] = w
      /\ \A k \in Nodes \ {n} : calls'[k] = calls[k] /\ nextTxid'[k] = nextTxid[k]
      /\ nextTxid'[n] = nextTxid[n] + 1
  BY <1>1, <1>4, <1>5
<1>7. Numbered'
  <2>1. ASSUME NEW k \in Nodes, NEW t \in DOMAIN calls'[k]
        PROVE  t \in Txids(k) /\ t < nextTxid'[k] /\ <<k, t>> \notin DOMAIN outcome
    <3>1. CASE k = n /\ t = nextTxid[n]
      <4>1. nextTxid[n] \in Txids(n) BY Zenon DEF IInv, Numbered
      <4>2. <<n, t>> \notin DOMAIN outcome
        <5> SUFFICES ASSUME <<n, t>> \in DOMAIN outcome PROVE FALSE BY Zenon
        <5>1. <<n, t>>[2] < nextTxid[<<n, t>>[1]] BY Zenon DEF IInv, Numbered
        <5> QED BY <1>1, <3>1, <5>1
      <4> QED BY <1>1, <1>6, <3>1, <4>1, <4>2
    <3>2. CASE ~ (k = n /\ t = nextTxid[n])
      <4>1. t \in DOMAIN calls[k] BY <1>5, <1>6, <2>1, <3>2, Zenon
      <4>2. t \in Txids(k) /\ t < nextTxid[k] /\ <<k, t>> \notin DOMAIN outcome
        BY <4>1, Zenon DEF IInv, Numbered
      <4> QED BY <1>1, <1>6, <4>2 DEF Txids
    <3> QED BY <3>1, <3>2, Zenon
  <2>2. ASSUME NEW k \in Nodes PROVE nextTxid'[k] \in Txids(k)
    BY <1>3, <1>6, Zenon DEF IInv, Numbered
  <2>3. ASSUME NEW c \in DOMAIN outcome PROVE c[2] \in Txids(c[1]) /\ c[2] < nextTxid'[c[1]]
    <3>1. c[1] \in Nodes BY Zenon DEF IInv, TypeOK, CallIds
    <3>2. c[2] \in Txids(c[1]) /\ c[2] < nextTxid[c[1]] BY Zenon DEF IInv, Numbered
    <3> QED BY <1>1, <1>6, <3>1, <3>2 DEF Txids
  <2> QED BY <2>1, <2>2, <2>3, Zenon DEF Numbered, Txids
<1> QED BY <1>2, <1>5, <1>6, <1>7, Zenon
-----------------------------------------------------------------------------
(* Calls that end or change. *)

\* Call t of n leaves the table with outcome o.
Ends(n, t, o) ==
    /\ calls' = [calls EXCEPT ![n] = Without(calls[n], t)]
    /\ outcome' = With(outcome, <<n, t>>, o) /\ nextTxid' = nextTxid

\* A call leaves the table and its outcome is remembered: both at once, so it cannot end
\* a second time.
LEMMA EndKeeps ==
    ASSUME IInv, NEW n \in Nodes, NEW t \in DOMAIN calls[n], NEW o \in Ending, Ends(n, t, o)
    PROVE  /\ calls' \in [Nodes -> CallTable]
           /\ \A k \in Nodes \ {n} : calls'[k] = calls[k]
           /\ DOMAIN calls'[n] = DOMAIN calls[n] \ {t}
           /\ \A u \in DOMAIN calls[n] \ {t} : calls'[n][u] = calls[n][u]
           /\ DOMAIN outcome' = DOMAIN outcome \cup {<<n, t>>}
           /\ outcome'[<<n, t>>] = o
           /\ \A c \in DOMAIN outcome : outcome'[c] = outcome[c]
           /\ DOMAIN outcome' \subseteq CallIds
           /\ \A c \in DOMAIN outcome' : outcome'[c] \in Ending
           /\ Numbered'
<1>1. calls \in [Nodes -> CallTable] /\ calls[n] \in CallTable BY Zenon DEF IInv, TypeOK
<1>2. t \in AllTxids /\ <<n, t>> \in CallIds BY <1>1, TableOf, Zenon DEF CallIds
<1>3. t \in Txids(n) /\ t < nextTxid[n] /\ <<n, t>> \notin DOMAIN outcome
  BY Zenon DEF IInv, Numbered
<1> DEFINE w == Without(calls[n], t)
<1>4. w \in CallTable BY <1>1, TablesKept, Zenon
<1>5. DOMAIN w = DOMAIN calls[n] \ {t} /\ \A u \in DOMAIN calls[n] \ {t} : w[u] = calls[n][u]
  BY Zenon DEF Without
<1>6. calls' = [calls EXCEPT ![n] = w] BY Zenon DEF Ends
<1> HIDE DEF w
<1>7. /\ calls' \in [Nodes -> CallTable] /\ calls'[n] = w
      /\ \A k \in Nodes \ {n} : calls'[k] = calls[k]
  BY <1>1, <1>4, <1>6, Zenon
<1>8. /\ DOMAIN outcome' = DOMAIN outcome \cup {<<n, t>>}
      /\ outcome'[<<n, t>>] = o
      /\ \A c \in DOMAIN outcome : outcome'[c] = outcome[c]
  BY <1>3, Zenon DEF Ends, With
<1>9. DOMAIN outcome' \subseteq CallIds /\ \A c \in DOMAIN outcome' : outcome'[c] \in Ending
  BY <1>2, <1>8, Zenon DEF IInv, TypeOK
<1>10. Numbered'
  <2>1. ASSUME NEW k \in Nodes, NEW u \in DOMAIN calls'[k]
        PROVE  u \in Txids(k) /\ u < nextTxid[k] /\ <<k, u>> \notin DOMAIN outcome'
    <3>1. u \in DOMAIN calls[k] /\ ~ (k = n /\ u = t) BY <1>5, <1>7, <2>1, Zenon
    <3>2. <<k, u>> # <<n, t>> BY <3>1, Zenon
    <3> QED BY <1>8, <3>1, <3>2, Zenon DEF IInv, Numbered
  <2>2. ASSUME NEW c \in DOMAIN outcome' PROVE c[2] \in Txids(c[1]) /\ c[2] < nextTxid[c[1]]
    <3>1. CASE c = <<n, t>> BY <1>3, <3>1, Zenon
    <3>2. CASE c \in DOMAIN outcome BY <3>2, Zenon DEF IInv, Numbered
    <3> QED BY <1>8, <3>1, <3>2, Zenon
  <2> QED BY <2>1, <2>2, Zenon DEF Ends, Numbered, Txids, IInv
<1> QED BY <1>5, <1>7, <1>8, <1>9, <1>10, Zenon

\* A call is stalled: it stays in the table.
LEMMA StallKeeps ==
    ASSUME IInv, NEW n \in Nodes, NEW t \in DOMAIN calls[n], NEW x \in Call,
           calls' = [calls EXCEPT ![n] = [calls[n] EXCEPT ![t] = x]],
           UNCHANGED <<nextTxid, outcome>>
    PROVE  /\ calls' \in [Nodes -> CallTable]
           /\ \A k \in Nodes \ {n} : calls'[k] = calls[k]
           /\ DOMAIN calls'[n] = DOMAIN calls[n]
           /\ \A u \in DOMAIN calls[n] \ {t} : calls'[n][u] = calls[n][u]
           /\ Numbered'
<1>1. calls \in [Nodes -> CallTable] /\ calls[n] \in CallTable BY Zenon DEF IInv, TypeOK
<1> DEFINE w == [calls[n] EXCEPT ![t] = x]
<1>2. w \in CallTable BY <1>1, TablesKept, Zenon
<1>3. DOMAIN w = DOMAIN calls[n] /\ \A u \in DOMAIN calls[n] \ {t} : w[u] = calls[n][u]
  BY Zenon
<1>4. calls' = [calls EXCEPT ![n] = w] BY Zenon
<1> HIDE DEF w
<1>5. /\ calls' \in [Nodes -> CallTable] /\ calls'[n] = w
      /\ \A k \in Nodes \ {n} : calls'[k] = calls[k]
  BY <1>1, <1>2, <1>4, Zenon
<1>6. \A k \in Nodes : DOMAIN calls'[k] = DOMAIN calls[k]
  BY <1>3, <1>5, Zenon
<1>7. Numbered' BY <1>6, Zenon DEF IInv, Numbered, Txids
<1> QED BY <1>3, <1>5, <1>7, Zenon

\* A step of a thread that does not run timers says nothing of the timers of another.
LEMMA FreshKept ==
    ASSUME IInv, NEW n \in Nodes, phase'[n] # "timers", UNCHANGED <<syncTime, now>>,
           \A k \in Nodes \ {n} : /\ phase'[k] = phase[k] /\ calls'[k] = calls[k]
                                  /\ queue'[k] = queue[k]
    PROVE  TimersFresh'
<1> SUFFICES ASSUME NEW k \in Nodes PROVE (syncTime[k] <= now /\ QueueFresh(k))'
  BY Zenon DEF TimersFresh
<1>1. syncTime[k] <= now /\ QueueFresh(k) BY Zenon DEF IInv, TimersFresh
<1>2. CASE k = n BY <1>1, <1>2, Zenon DEF QueueFresh
<1>3. CASE k # n BY <1>1, <1>3, Zenon DEF QueueFresh
<1> QED BY <1>2, <1>3, Zenon
-----------------------------------------------------------------------------
(* The steps of the receiving thread. *)

\* A packet about the call of another packet; only a response must be to a request.
LEMMA AboutTraceable ==
    ASSUME NEW m \in Packet, Traceable(m), NEW type \in {"RESPONSE", "ERR"},
           NEW src \in Addrs, NEW dst \in Addrs,
           type = "RESPONSE" => m.type = "REQUEST" /\ dst = m.src
    PROVE  /\ About(m, type, src, dst) \in Packet
           /\ Traceable(About(m, type, src, dst))
           /\ About(m, type, src, dst).type # "REQUEST"
BY Zenon DEF About, Packet, Traceable

\* What is received has its types and its origin.
LEMMA ReceivedTraceable ==
    ASSUME IInv, NEW n \in Nodes, NEW m, NEW next \in {"flush", "ended"}, Receives(n, m, next)
    PROVE  /\ m \in Packet /\ Traceable(m) /\ Owner[m.dst] = n
           /\ m.src \in Addrs /\ m.dst \in Addrs /\ m.txid \in AllTxids
           /\ phase' \in [Nodes -> Phases] /\ phase'[n] # "timers"
           /\ \A k \in Nodes \ {n} : phase'[k] = phase[k]
           /\ UNCHANGED <<syncTime, now>>
<1>1. m \in Packet /\ Traceable(m) BY Zenon DEF IInv, TypeOK, PacketsTraceable, Receives
<1>2. phase \in [Nodes -> Phases] BY Zenon DEF IInv, TypeOK
<1>3. m.src \in Addrs /\ m.dst \in Addrs /\ m.txid \in AllTxids BY <1>1, Zenon DEF Packet
<1>4. phase' = [phase EXCEPT ![n] = next] /\ next \in Phases /\ next # "timers"
  BY Zenon DEF Receives, Phases
<1> QED BY <1>1, <1>2, <1>3, <1>4, Zenon DEF Receives

\* The replies to a packet, with or without a ping of its sender.
LEMMA AnswerAndPingKeeps ==
    ASSUME IInv, NEW n \in Nodes, NEW m, Receives(n, m, "flush"), NEW replies \in SUBSET Packet,
           \A r \in replies : Traceable(r) /\ r.type # "REQUEST",
           AnswerAndPing(n, m, replies), outcome' = outcome
    PROVE  IInv'
<1>1. /\ m.src \in Addrs
      /\ phase' \in [Nodes -> Phases] /\ phase'[n] # "timers"
      /\ \A k \in Nodes \ {n} : phase'[k] = phase[k]
      /\ syncTime' = syncTime /\ now' = now
  BY ReceivedTraceable, Zenon
<1>2. CASE sendData(n, replies) /\ UNCHANGED <<calls, nextTxid>>
  <2>1. /\ net' \subseteq Packet /\ queue' \in [Nodes -> SUBSET Packet]
        /\ \A k \in Nodes \ {n} : queue'[k] = queue[k]
        /\ PacketsTraceable' /\ OutcomesJust'
    BY <1>2, SendKeeps, Zenon
  <2>2. TimersFresh' BY <1>1, <1>2, <2>1, FreshKept, Zenon
  <2>3. Numbered' BY <1>2, Zenon DEF IInv, Numbered, Txids
  <2>4. TypeOK' BY <1>1, <1>2, <2>1, Zenon DEF IInv, TypeOK
  <2> QED BY <2>1, <2>2, <2>3, <2>4, Zenon DEF IInv
<1>3. CASE MayCall(n, m.src) /\ Register(n, m.src) /\ sendData(n, replies \cup {Request(n, m.src)})
  <2>1. nextTxid[n] < FirstTxid[n] + MaxCalls BY <1>3, Zenon DEF MayCall
  <2>2. /\ Request(n, m.src) \in Packet /\ Traceable(Request(n, m.src))
        /\ Owner[Request(n, m.src).src] = n /\ Request(n, m.src).txid = nextTxid[n]
    BY <1>1, <2>1, RequestTraceable, Zenon
  <2> DEFINE ms == replies \cup {Request(n, m.src)}
  <2>3. ms \in SUBSET Packet /\ sendData(n, ms) BY <1>3, <2>2, Zenon
  <2>4. \A r \in ms : /\ Traceable(r)
                      /\ r.type = "REQUEST" => Owner[r.src] = n /\ r.txid = nextTxid[n]
    BY <2>2, Zenon
  <2> HIDE DEF ms
  <2>5. /\ net' \subseteq Packet /\ queue' \in [Nodes -> SUBSET Packet]
        /\ \A k \in Nodes \ {n} : queue'[k] = queue[k]
        /\ PacketsTraceable' /\ OutcomesJust'
    BY <2>3, <2>4, SendKeeps, Zenon
  <2>6. /\ calls' \in [Nodes -> CallTable] /\ nextTxid' \in [Nodes -> Nat]
        /\ \A k \in Nodes \ {n} : calls'[k] = calls[k]
        /\ Numbered'
    BY <1>1, <1>3, <2>1, RegisterKeeps, Zenon
  <2>7. TimersFresh' BY <1>1, <2>5, <2>6, FreshKept, Zenon
  <2>8. TypeOK' BY <1>1, <2>5, <2>6, Zenon DEF IInv, TypeOK
  <2> QED BY <2>5, <2>6, <2>7, <2>8, Zenon DEF IInv
<1> QED BY <1>2, <1>3, Zenon DEF AnswerAndPing

\* A thread that ends by an exception leaves everything as it is.
LEMMA EndedKeeps ==
    ASSUME IInv, NEW n \in Nodes, phase' = [phase EXCEPT ![n] = "ended"],
           UNCHANGED <<net, calls, nextTxid, queue, syncTime, now, outcome>>
    PROVE  IInv'
<1>1. /\ phase' \in [Nodes -> Phases] /\ phase'[n] # "timers"
      /\ \A k \in Nodes \ {n} : phase'[k] = phase[k]
  <2>1. phase \in [Nodes -> Phases] /\ "ended" \in Phases BY Zenon DEF IInv, TypeOK, Phases
  <2> QED BY <2>1, Zenon
<1>2. TimersFresh' BY <1>1, FreshKept, Zenon
<1>3. TypeOK' BY <1>1, Zenon DEF IInv, TypeOK
<1>4. PacketsTraceable' /\ Numbered' /\ OutcomesJust'
  BY Zenon DEF IInv, PacketsTraceable, Traceable, Numbered, Txids, OutcomesJust
<1> QED BY <1>2, <1>3, <1>4, Zenon DEF IInv

\* A request is answered, refused or ignored, or its handler throws.
LEMMA RequestStep ==
    ASSUME IInv, NEW n \in Nodes, NEW m, handleRequest(n, m)
    PROVE  IInv'
<1>a. CASE Receives(n, m, "ended") /\ UNCHANGED <<net, calls, nextTxid, queue>>
  <2>1. outcome' = outcome BY Zenon DEF handleRequest
  <2> QED BY <1>a, <2>1, EndedKeeps, Zenon DEF Receives
<1> SUFFICES ASSUME ~ (Receives(n, m, "ended") /\ UNCHANGED <<net, calls, nextTxid, queue>>)
             PROVE  IInv'
  BY <1>a, Zenon
<1>1. Receives(n, m, "flush") /\ m.type = "REQUEST" /\ outcome' = outcome BY Zenon DEF handleRequest
<1>2. m \in Packet /\ Traceable(m) /\ m.src \in Addrs BY <1>1, ReceivedTraceable, Zenon
<1>3. PICK src \in Addrs : \E replies \in {{}, {About(m, "RESPONSE", src, m.src)},
                                               {About(m, "ERR", src, m.src)}} :
                              AnswerAndPing(n, m, replies)
  BY Zenon DEF handleRequest
<1>4. PICK replies \in {{}, {About(m, "RESPONSE", src, m.src)}, {About(m, "ERR", src, m.src)}} :
         AnswerAndPing(n, m, replies)
  BY <1>3, Zenon
<1>5. ASSUME NEW type \in {"RESPONSE", "ERR"}
      PROVE  /\ About(m, type, src, m.src) \in Packet
             /\ Traceable(About(m, type, src, m.src))
             /\ About(m, type, src, m.src).type # "REQUEST"
  BY <1>1, <1>2, AboutTraceable, Zenon
<1>6. replies \in SUBSET Packet /\ \A r \in replies : Traceable(r) /\ r.type # "REQUEST"
  BY <1>4, <1>5, Zenon
<1> QED BY <1>1, <1>4, <1>6, AnswerAndPingKeeps, Zenon

\* An error about no call may lead to a ping.
LEMMA ErrorStep ==
    ASSUME IInv, NEW n \in Nodes, NEW m, handleError(n, m)
    PROVE  IInv'
<1>1. Receives(n, m, "flush") /\ AnswerAndPing(n, m, {}) /\ outcome' = outcome
  BY Zenon DEF handleError
<1> QED BY <1>1, AnswerAndPingKeeps

\* A response to no call is answered with an error.
LEMMA StrayStep ==
    ASSUME IInv, NEW n \in Nodes, NEW m, handleStray(n, m)
    PROVE  IInv'
<1> DEFINE r == About(m, "ERR", Address[n], m.src)
           ms == IF now > STRAY_TIME THEN {r} ELSE {}
<1>1. Receives(n, m, "flush") /\ sendData(n, ms) /\ UNCHANGED <<calls, nextTxid, outcome>>
  BY Zenon DEF handleStray
<1>2. m \in Packet /\ Traceable(m) /\ m.src \in Addrs BY <1>1, ReceivedTraceable, Zenon
<1>3. Address[n] \in Addrs BY RpcAssumption, Zenon
<1>4. r \in Packet /\ Traceable(r) /\ r.type # "REQUEST" BY <1>2, <1>3, AboutTraceable, Zenon
<1> HIDE DEF r
<1>5. ms \in SUBSET Packet /\ \A x \in ms : Traceable(x) /\ x.type # "REQUEST" BY <1>4, Zenon
<1>6. AnswerAndPing(n, m, ms) BY <1>1, Zenon DEF AnswerAndPing
<1> HIDE DEF ms
<1> QED BY <1>1, <1>5, <1>6, AnswerAndPingKeeps, Zenon

\* An answer from the address that was called ends the call: its transaction id is that
\* of the call, so a response is the response to this very request.
LEMMA AnswerStep ==
    ASSUME IInv, NEW n \in Nodes, NEW m, handleAnswer(n, m)
    PROVE  IInv'
<1> DEFINE t == m.txid
           o == [state |-> m.type, at |-> now, sentTime |-> calls[n][t].sentTime,
                 to |-> calls[n][t].to, re |-> m.re, src |-> m.src]
<1>0. PICK next \in {"flush", "ended"} : Receives(n, m, next) BY Zenon DEF handleAnswer
<1>1. /\ m.type # "REQUEST" /\ t \in DOMAIN calls[n]
      /\ calls[n][t].to = m.src
      /\ calls' = [calls EXCEPT ![n] = Without(@, t)]
      /\ outcome' = With(outcome, <<n, t>>, o)
      /\ UNCHANGED <<net, nextTxid, queue>>
  BY Zenon DEF handleAnswer, Matches, Ended
<1>2. /\ m \in Packet /\ Traceable(m) /\ Owner[m.dst] = n
      /\ phase' \in [Nodes -> Phases] /\ phase'[n] # "timers"
      /\ \A k \in Nodes \ {n} : phase'[k] = phase[k]
      /\ syncTime' = syncTime /\ now' = now
  BY <1>0, ReceivedTraceable, ZenonT(30)
<1>3. calls[n][t] \in Call BY <1>1, TableOf, Zenon DEF IInv, TypeOK
<1>4. /\ m.type \in {"RESPONSE", "ERR"} /\ m.re \in CallIds /\ m.src \in Addrs
      /\ m.type = "RESPONSE" => m.re = <<n, t>>
  BY <1>1, <1>2, Zenon DEF Packet, Traceable
<1>5. now \in 0..MaxTime /\ calls[n][t].sentTime \in Nat /\ calls[n][t].to \in Addrs
  BY <1>3, Zenon DEF IInv, TypeOK, Call
<1>6. o \in Ending /\ o.state = m.type /\ o.re = m.re /\ o.src = o.to
  BY <1>1, <1>4, <1>5, Zenon DEF Ending
<1> HIDE DEF o, t
<1>7. /\ calls' \in [Nodes -> CallTable]
      /\ \A k \in Nodes \ {n} : calls'[k] = calls[k]
      /\ DOMAIN outcome' = DOMAIN outcome \cup {<<n, t>>}
      /\ outcome'[<<n, t>>] = o
      /\ \A c \in DOMAIN outcome : outcome'[c] = outcome[c]
      /\ DOMAIN outcome' \subseteq CallIds
      /\ \A c \in DOMAIN outcome' : outcome'[c] \in Ending
      /\ Numbered'
  <2>1. t \in DOMAIN calls[n] /\ o \in Ending /\ Ends(n, t, o) BY <1>1, <1>6, Zenon DEF Ends
  <2> QED BY <2>1, EndKeeps, Zenon
<1>8. TypeOK' BY <1>1, <1>2, <1>7, Zenon DEF IInv, TypeOK
<1>9. PacketsTraceable' BY <1>1, Zenon DEF IInv, PacketsTraceable, Traceable
<1>10. TimersFresh' BY <1>1, <1>2, <1>7, FreshKept, Zenon
<1>11. OutcomesJust'
  <2>1. o.state # "TIMEOUT" /\ (o.state = "RESPONSE" => o.re = <<n, t>> /\ o.src = o.to)
    BY <1>4, <1>6, Zenon
  <2> QED BY <1>1, <1>7, <2>1 DEF IInv, OutcomesJust
<1> QED BY <1>7, <1>8, <1>9, <1>10, <1>11, Zenon DEF IInv

\* An answer from another address stalls the call, and is answered with an error.
LEMMA MismatchStep ==
    ASSUME IInv, NEW n \in Nodes, NEW m, handleMismatch(n, m)
    PROVE  IInv'
<1> DEFINE t == m.txid
           x == [calls[n][t] EXCEPT !.state = "STALLED"]
           r == About(m, "ERR", Address[n], calls[n][m.txid].to)
           ms == IF m.type = "RESPONSE" /\ HasIPv6 THEN {r} ELSE {}
<1>1. /\ Receives(n, m, "flush") /\ t \in DOMAIN calls[n] /\ sendData(n, ms)
      /\ UNCHANGED <<nextTxid, outcome>>
  BY Zenon DEF handleMismatch, Matches
<1>2. calls' = [calls EXCEPT ![n] = [calls[n] EXCEPT ![t] = x]]
  BY Zenon DEF handleMismatch
<1>3. /\ m \in Packet /\ Traceable(m)
      /\ phase' \in [Nodes -> Phases] /\ phase'[n] # "timers"
      /\ \A k \in Nodes \ {n} : phase'[k] = phase[k]
      /\ syncTime' = syncTime /\ now' = now
  BY <1>1, ReceivedTraceable, Zenon
<1>4. calls[n][t] \in Call BY <1>1, TableOf, Zenon DEF IInv, TypeOK
<1>5. x \in Call /\ calls[n][t].to \in Addrs BY <1>4, Zenon DEF Call
<1>6. Address[n] \in Addrs BY RpcAssumption, Zenon
<1>7. r \in Packet /\ Traceable(r) /\ r.type # "REQUEST" BY <1>3, <1>5, <1>6, AboutTraceable, Zenon
<1> HIDE DEF r
<1>8. ms \in SUBSET Packet /\ \A y \in ms : Traceable(y) /\ y.type # "REQUEST" BY <1>7, Zenon
<1> HIDE DEF ms, t, x
<1>9. /\ net' \subseteq Packet /\ queue' \in [Nodes -> SUBSET Packet]
      /\ \A k \in Nodes \ {n} : queue'[k] = queue[k]
      /\ PacketsTraceable' /\ OutcomesJust'
  BY <1>1, <1>8, SendKeeps, Zenon
<1>10. /\ calls' \in [Nodes -> CallTable]
       /\ \A k \in Nodes \ {n} : calls'[k] = calls[k]
       /\ Numbered'
  BY <1>1, <1>2, <1>5, StallKeeps, Zenon
<1>11. TimersFresh' BY <1>3, <1>9, <1>10, FreshKept, Zenon
<1>12. TypeOK' BY <1>1, <1>3, <1>9, <1>10, Zenon DEF IInv, TypeOK
<1> QED BY <1>9, <1>10, <1>11, <1>12, Zenon DEF IInv

\* The handlers and timers make calls. The timer of the new call is not due.
LEMMA SendCallStep ==
    ASSUME IInv, NEW n \in Nodes, NEW to \in Addrs, sendCall(n, to)
    PROVE  IInv'
<1> DEFINE ms == {Request(n, to)}
<1>1. /\ nextTxid[n] < FirstTxid[n] + MaxCalls /\ Register(n, to) /\ sendData(n, ms)
      /\ UNCHANGED <<phase, syncTime, now, outcome>>
  BY Zenon DEF sendCall, MayCall
<1>2. /\ Request(n, to) \in Packet /\ Traceable(Request(n, to))
      /\ Owner[Request(n, to).src] = n /\ Request(n, to).txid = nextTxid[n]
  BY <1>1, RequestTraceable, Zenon
<1>3. ms \in SUBSET Packet BY <1>2, Zenon
<1>a. \A r \in ms : /\ Traceable(r)
                    /\ r.type = "REQUEST" => Owner[r.src] = n /\ r.txid = nextTxid[n]
  BY <1>2, Zenon
<1>4. /\ net' \subseteq Packet /\ queue' \in [Nodes -> SUBSET Packet]
      /\ queue'[n] \subseteq queue[n] \cup ms
      /\ \A k \in Nodes \ {n} : queue'[k] = queue[k]
      /\ PacketsTraceable' /\ OutcomesJust'
  <2> HIDE DEF ms
  <2> QED BY <1>1, <1>3, <1>a, SendKeeps, Zenon
<1>5. /\ calls' \in [Nodes -> CallTable] /\ nextTxid' \in [Nodes -> Nat]
      /\ \A k \in Nodes \ {n} : calls'[k] = calls[k]
      /\ DOMAIN calls'[n] = DOMAIN calls[n] \cup {nextTxid[n]}
      /\ calls'[n][nextTxid[n]].timer = now + STALL_TIME
      /\ \A t \in DOMAIN calls[n] \ {nextTxid[n]} : calls'[n][t] = calls[n][t]
      /\ Numbered'
  BY <1>1, RegisterKeeps, Zenon
<1>6. TimersFresh'
  <2> SUFFICES ASSUME NEW k \in Nodes PROVE (syncTime[k] <= now /\ QueueFresh(k))'
    BY Zenon DEF TimersFresh
  <2>1. syncTime[k] <= now /\ QueueFresh(k) /\ syncTime[k] \in Nat /\ now \in Nat
    BY DEF IInv, TimersFresh, TypeOK
  <2>2. CASE k # n BY <1>1, <1>4, <1>5, <2>1, <2>2, Zenon DEF QueueFresh
  <2>3. CASE k = n
    <3> SUFFICES ASSUME phase[n] = "timers", NEW m \in queue'[n], m.type = "REQUEST",
                        m.txid \in DOMAIN calls'[n]
                 PROVE  calls'[n][m.txid].timer > syncTime[n]
      BY <1>1, <2>1, <2>3, Zenon DEF QueueFresh
    <3>1. CASE m.txid = nextTxid[n] BY <1>5, <2>1, <2>3, <3>1, RpcAssumption
    <3>2. CASE m.txid # nextTxid[n]
      <4>1. m \in queue[n] BY <1>2, <1>4, <3>2, Zenon
      <4>2. m.txid \in DOMAIN calls[n] /\ calls'[n][m.txid] = calls[n][m.txid]
        BY <1>5, <3>2, Zenon
      <4> QED BY <2>1, <2>3, <4>1, <4>2, Zenon DEF QueueFresh
    <3> QED BY <3>1, <3>2, Zenon
  <2> QED BY <2>2, <2>3, Zenon
<1>7. TypeOK' BY <1>1, <1>4, <1>5, Zenon DEF IInv, TypeOK
<1> QED BY <1>4, <1>5, <1>6, <1>7, Zenon DEF IInv

\* periodic sends what is blocked before it runs the timers, so when these begin to run
\* no request waits.
LEMMA LoopStep ==
    ASSUME IInv, NEW n \in Nodes, selectTimeout(n) \/ flushOne(n) \/ periodic(n) \/ timersDone(n)
    PROVE  IInv'
<1>a. /\ phase \in [Nodes -> Phases] /\ syncTime \in [Nodes -> Nat]
      /\ queue \in [Nodes -> SUBSET Packet] /\ net \subseteq Packet /\ now \in 0..MaxTime
      /\ \A k \in Nodes : syncTime[k] <= now /\ QueueFresh(k)
  BY Zenon DEF IInv, TypeOK, TimersFresh
<1>b. UNCHANGED <<calls, nextTxid, now, outcome>>
  BY Zenon DEF selectTimeout, flushOne, periodic, timersDone
<1>c. Numbered' BY <1>b, Zenon DEF IInv, Numbered, Txids
<1>1. CASE flushOne(n)
  <2>1. PICK m \in queue[n] : net' = net \cup {m} /\ queue' = [queue EXCEPT ![n] = @ \ {m}]
    BY <1>1, Zenon DEF flushOne
  <2>2. /\ net' \subseteq Packet /\ queue' \in [Nodes -> SUBSET Packet]
        /\ \A k \in Nodes : queue'[k] \subseteq queue[k]
    BY <1>a, <2>1, Zenon
  <2>3. UNCHANGED <<phase, syncTime>> BY <1>1, Zenon DEF flushOne
  <2>4. TypeOK' BY <1>b, <2>2, <2>3, Zenon DEF IInv, TypeOK
  <2>5. PacketsTraceable' BY <2>1, <2>2 DEF IInv, PacketsTraceable, Traceable
  <2>6. TimersFresh' BY <1>a, <1>b, <2>2, <2>3, Zenon DEF TimersFresh, QueueFresh
  <2>7. OutcomesJust' BY <1>b, <2>2 DEF IInv, OutcomesJust
  <2> QED BY <1>c, <2>4, <2>5, <2>6, <2>7, Zenon DEF IInv
<1>2. CASE selectTimeout(n) \/ periodic(n) \/ timersDone(n)
  <2>1. UNCHANGED <<net, queue>> BY <1>2, Zenon DEF selectTimeout, periodic, timersDone
  <2>2. PacketsTraceable' /\ OutcomesJust'
    BY <1>b, <2>1, Zenon DEF IInv, PacketsTraceable, Traceable, OutcomesJust
  <2>3. /\ phase' \in [Nodes -> Phases] /\ syncTime' \in [Nodes -> Nat]
        /\ \A k \in Nodes \ {n} : phase'[k] = phase[k] /\ syncTime'[k] = syncTime[k]
        /\ syncTime'[n] <= now /\ (phase'[n] = "timers" => queue[n] = {})
    BY <1>2, <1>a DEF selectTimeout, periodic, timersDone, Phases
  <2>4. TypeOK' BY <1>b, <2>1, <2>3, Zenon DEF IInv, TypeOK
  <2>5. TimersFresh'
    <3> SUFFICES ASSUME NEW k \in Nodes PROVE (syncTime[k] <= now /\ QueueFresh(k))'
      BY Zenon DEF TimersFresh
    <3>1. CASE k = n BY <1>b, <2>1, <2>3, <3>1, Zenon DEF QueueFresh
    <3>2. CASE k # n BY <1>a, <1>b, <2>1, <2>3, <3>2, Zenon DEF QueueFresh
    <3> QED BY <3>1, <3>2, Zenon
  <2> QED BY <1>c, <2>2, <2>4, <2>5, Zenon DEF IInv
<1> QED BY <1>1, <1>2, Zenon

\* The first check of a call sets its timer to the end of the call. No request of a call
\* that is due waits for the socket.
LEMMA StallStep ==
    ASSUME IInv, NEW n \in Nodes, NEW t \in Due(n), stall(n, t)
    PROVE  IInv'
<1> USE RpcAssumption
<1> DEFINE x == [calls[n][t] EXCEPT !.state = "STALLED", !.timer = now + Remaining(n, t)]
<1>1. t \in DOMAIN calls[n] /\ calls[n][t].timer <= syncTime[n] BY Zenon DEF Due
<1>2. calls' = [calls EXCEPT ![n] = [calls[n] EXCEPT ![t] = x]] BY Zenon DEF stall
<1>3. Remaining(n, t) > 0 /\ UNCHANGED <<net, nextTxid, queue, phase, syncTime, now, outcome>>
  BY Zenon DEF stall
<1>4. calls[n][t] \in Call /\ now \in Nat BY <1>1, TableOf DEF IInv, TypeOK
<1>5. now + Remaining(n, t) \in Nat BY <1>3, <1>4 DEF Remaining, Call
<1>6. x \in Call BY <1>4, <1>5, Zenon DEF Call
<1> HIDE DEF x
<1>7. /\ calls' \in [Nodes -> CallTable]
      /\ \A k \in Nodes \ {n} : calls'[k] = calls[k]
      /\ DOMAIN calls'[n] = DOMAIN calls[n]
      /\ \A u \in DOMAIN calls[n] \ {t} : calls'[n][u] = calls[n][u]
      /\ Numbered'
  BY <1>1, <1>2, <1>3, <1>6, StallKeeps, Zenon
<1>8. TypeOK' BY <1>3, <1>7, Zenon DEF IInv, TypeOK
<1>9. PacketsTraceable' /\ OutcomesJust'
  <2>1. PacketsTraceable /\ OutcomesJust BY Zenon DEF IInv
  <2>2. UNCHANGED <<net, queue, outcome>> BY <1>3, Zenon
  <2> QED BY ONLY <2>1, <2>2, Zenon DEF PacketsTraceable, Traceable, OutcomesJust
<1>10. TimersFresh'
  <2> SUFFICES ASSUME NEW k \in Nodes PROVE (syncTime[k] <= now /\ QueueFresh(k))'
    BY Zenon DEF TimersFresh
  <2>1. syncTime[k] <= now /\ QueueFresh(k) BY Zenon DEF IInv, TimersFresh
  <2>2. CASE k # n BY <1>3, <1>7, <2>1, <2>2, Zenon DEF QueueFresh
  <2>3. CASE k = n
    <3> SUFFICES ASSUME phase[n] = "timers", NEW m \in queue[n], m.type = "REQUEST",
                        m.txid \in DOMAIN calls[n]
                 PROVE  calls'[n][m.txid].timer > syncTime[n]
      BY <1>3, <1>7, <2>1, <2>3, Zenon DEF QueueFresh
    <3>1. calls[n][m.txid].timer > syncTime[n] BY <2>1, <2>3, Zenon DEF QueueFresh
    <3>2. calls[n][t].timer \in Nat /\ syncTime[n] \in Nat BY <1>4, Zenon DEF Call, IInv, TypeOK
    <3>3. m.txid # t BY <1>1, <3>1, <3>2
    <3> QED BY <1>7, <3>1, <3>3, Zenon
  <2> QED BY <2>2, <2>3, Zenon
<1> QED BY <1>7, <1>8, <1>9, <1>10, Zenon DEF IInv

\* A call times out when its time has passed, and its request is not in the queue.
LEMMA TimeoutStep ==
    ASSUME IInv, NEW n \in Nodes, NEW t \in Due(n), timeout(n, t)
    PROVE  IInv'
<1> USE RpcAssumption
<1> DEFINE o == [state |-> "TIMEOUT", at |-> now, sentTime |-> calls[n][t].sentTime,
                 to |-> calls[n][t].to, re |-> <<n, t>>, src |-> calls[n][t].to]
<1>1. t \in DOMAIN calls[n] /\ calls[n][t].timer <= syncTime[n] BY Zenon DEF Due
<1>2. /\ Remaining(n, t) <= 0 /\ phase[n] = "timers"
      /\ calls' = [calls EXCEPT ![n] = Without(@, t)]
      /\ outcome' = With(outcome, <<n, t>>, o)
      /\ UNCHANGED <<net, nextTxid, queue, phase, syncTime, now>>
  BY Zenon DEF timeout, Ended, TimerFires
<1>3. calls[n][t] \in Call /\ now \in 0..MaxTime /\ t \in AllTxids
  BY <1>1, TableOf, Zenon DEF IInv, TypeOK
<1>4. <<n, t>> \in CallIds BY <1>3, Zenon DEF CallIds
<1>5. o \in Ending BY <1>3, <1>4, Zenon DEF Ending, Call
<1>6. o.state = "TIMEOUT" /\ o.at - o.sentTime >= RPC_CALL_TIMEOUT_MAX
  <2>1. now \in Nat /\ calls[n][t].sentTime \in Nat /\ RPC_CALL_TIMEOUT_MAX \in Nat
    BY <1>3 DEF Call
  <2>2. RPC_CALL_TIMEOUT_MAX - (now - calls[n][t].sentTime) <= 0 BY <1>2, Zenon DEF Remaining
  <2>3. now - calls[n][t].sentTime >= RPC_CALL_TIMEOUT_MAX BY ONLY <2>1, <2>2
  <2> QED BY ONLY <2>3, Zenon
<1> HIDE DEF o
<1>7. /\ calls' \in [Nodes -> CallTable]
      /\ \A k \in Nodes \ {n} : calls'[k] = calls[k]
      /\ DOMAIN calls'[n] = DOMAIN calls[n] \ {t}
      /\ \A u \in DOMAIN calls[n] \ {t} : calls'[n][u] = calls[n][u]
      /\ DOMAIN outcome' = DOMAIN outcome \cup {<<n, t>>}
      /\ outcome'[<<n, t>>] = o
      /\ \A c \in DOMAIN outcome : outcome'[c] = outcome[c]
      /\ DOMAIN outcome' \subseteq CallIds
      /\ \A c \in DOMAIN outcome' : outcome'[c] \in Ending
      /\ Numbered'
  <2>1. Ends(n, t, o) BY <1>2, Zenon DEF Ends
  <2> QED BY <1>1, <1>5, <2>1, EndKeeps, Zenon
<1>8. TypeOK' BY <1>2, <1>7, Zenon DEF IInv, TypeOK
<1>9. PacketsTraceable' BY <1>2, Zenon DEF IInv, PacketsTraceable, Traceable
<1>10. TimersFresh'
  <2> SUFFICES ASSUME NEW k \in Nodes PROVE (syncTime[k] <= now /\ QueueFresh(k))'
    BY Zenon DEF TimersFresh
  <2>1. syncTime[k] <= now /\ QueueFresh(k) BY Zenon DEF IInv, TimersFresh
  <2>2. UNCHANGED <<queue, phase, syncTime, now>> BY <1>2, Zenon
  <2>3. CASE k # n
    <3>1. calls'[k] = calls[k] BY <1>7, <2>3, Zenon
    <3> QED BY ONLY <2>1, <2>2, <3>1, Zenon DEF QueueFresh
  <2>4. CASE k = n
    <3>1. \A u \in DOMAIN calls'[k] : u \in DOMAIN calls[k] /\ calls'[k][u] = calls[k][u]
      BY <1>7, <2>4, Zenon
    <3> QED BY ONLY <2>1, <2>2, <3>1, Zenon DEF QueueFresh
  <2> QED BY <2>3, <2>4, Zenon
<1>11. ASSUME NEW k \in Nodes, NEW m \in queue[k], m.type = "REQUEST", m.re = <<n, t>>
       PROVE  FALSE
  <2>1. m.re = <<k, m.txid>> BY <1>11, Zenon DEF IInv, PacketsTraceable, Traceable
  <2>2. k = n /\ m.txid = t BY <1>11, <2>1
  <2>3. calls[n][t].timer > syncTime[n]
    BY <1>1, <1>2, <1>11, <2>2, Zenon DEF IInv, TimersFresh, QueueFresh
  <2>4. calls[n][t].timer \in Nat /\ syncTime[n] \in Nat BY <1>3, Zenon DEF Call, IInv, TypeOK
  <2> QED BY ONLY <1>1, <2>3, <2>4
<1>12. OutcomesJust'
  <2>1. OutcomesJust /\ queue' = queue BY <1>2, Zenon DEF IInv
  <2>2. /\ DOMAIN outcome' = DOMAIN outcome \cup {<<n, t>>} /\ outcome'[<<n, t>>] = o
        /\ \A c \in DOMAIN outcome : outcome'[c] = outcome[c]
    BY <1>7, Zenon
  <2> QED BY ONLY <1>6, <1>11, <2>1, <2>2 DEF OutcomesJust
<1> QED BY <1>7, <1>8, <1>9, <1>10, <1>12, Zenon DEF IInv

\* Time passes.
LEMMA TickStep == ASSUME IInv, Tick PROVE IInv'
<1> USE RpcAssumption
<1>1. /\ now' = now + 1 /\ now < MaxTime
      /\ UNCHANGED <<net, calls, nextTxid, queue, phase, syncTime, outcome>>
  BY Zenon DEF Tick
<1>2. TypeOK' BY <1>1 DEF IInv, TypeOK
<1>3. PacketsTraceable' /\ Numbered' /\ OutcomesJust'
  BY <1>1 DEF IInv, PacketsTraceable, Traceable, Numbered, Txids, OutcomesJust
<1>4. TimersFresh'
  <2> SUFFICES ASSUME NEW k \in Nodes PROVE (syncTime[k] <= now /\ QueueFresh(k))'
    BY Zenon DEF TimersFresh
  <2>1. syncTime[k] <= now /\ QueueFresh(k) /\ syncTime[k] \in Nat /\ now \in Nat
    BY DEF IInv, TypeOK, TimersFresh
  <2> QED BY <1>1, <2>1 DEF QueueFresh
<1> QED BY <1>2, <1>3, <1>4, Zenon DEF IInv

-----------------------------------------------------------------------------
(* The theorems. *)

\* Initially no call was made.
LEMMA InitOK == Init => IInv
<1> SUFFICES ASSUME Init PROVE IInv BY Zenon
<1> USE RpcAssumption
<1>1. Nothing \in CallTable /\ DOMAIN Nothing = {}
  <2>1. Nothing \in [{} -> Call] /\ {} \in SUBSET AllTxids BY Zenon DEF Nothing
  <2> QED BY <2>1, Zenon DEF CallTable, Nothing
<1>2. TypeOK BY <1>1 DEF Init, TypeOK, Phases
<1>3. PacketsTraceable BY Zenon DEF Init, PacketsTraceable
<1>4. Numbered BY <1>1 DEF Init, Numbered, Txids
<1>5. TimersFresh
  <2>1. ASSUME NEW n \in Nodes PROVE syncTime[n] <= now /\ phase[n] = "select" BY DEF Init
  <2> QED BY <2>1, Zenon DEF TimersFresh, QueueFresh
<1>6. OutcomesJust BY Zenon DEF Init, OutcomesJust
<1> QED BY <1>2, <1>3, <1>4, <1>5, <1>6, Zenon DEF IInv

\* Every step of a receiving thread, and of time, keeps the invariant.
LEMMA NextOK == IInv /\ [Next]_vars => IInv'
<1> SUFFICES ASSUME IInv, [Next]_vars PROVE IInv' BY Zenon
<1>1. CASE UNCHANGED vars
  BY <1>1, Zenon DEF vars, IInv, TypeOK, PacketsTraceable, Traceable, Numbered, Txids, TimersFresh,
              QueueFresh, OutcomesJust
<1>2. CASE Tick BY <1>2, TickStep, Zenon
<1>3. ASSUME NEW n \in Nodes, NEW to \in {Address[x] : x \in Nodes}, sendCall(n, to) PROVE IInv'
  <2>1. to \in Addrs BY RpcAssumption
  <2> QED BY <1>3, <2>1, SendCallStep, Zenon
<1>4. ASSUME NEW n \in Nodes, NEW m \in net, handlePacket(n, m) PROVE IInv'
  BY <1>4, RequestStep, AnswerStep, MismatchStep, StrayStep, ErrorStep, Zenon DEF handlePacket
<1>5. ASSUME NEW n \in Nodes, Loop(n) PROVE IInv'
  BY <1>5, LoopStep, StallStep, TimeoutStep, Zenon DEF Loop
<1>6. ASSUME NEW n \in Nodes, throws(n) PROVE IInv'
  BY <1>6, EndedKeeps, Zenon DEF throws
<1> QED BY <1>1, <1>2, <1>3, <1>4, <1>5, <1>6, Zenon DEF Next

\* A response that counts is the target's response to that very request, and no call is
\* given up early or while its request waits for the socket (rpcserver.cc:539-621,
\* rpccall.cc:114-130): for any nodes, any number of addresses of a node, any timeouts
\* and whatever the network does to packets.
THEOREM OutcomesAlwaysJust == Spec => []OutcomesJust
<1>1. IInv => OutcomesJust BY Zenon DEF IInv
<1> QED BY <1>1, InitOK, NextOK, PTL DEF Spec

\* How CallContract sees the call c: Status, one call at a time.
StatusOf(c) ==
    IF c \in DOMAIN outcome THEN [state |-> outcome[c].state, at |-> outcome[c].at]
    ELSE [state |-> IF c[2] < nextTxid[c[1]] THEN "SENT" ELSE "UNSENT"]

\* The threads that have ended, when that of n has not: they are the same, or it is one
\* more.
LEMMA GoneChange ==
    ASSUME IInv, NEW n \in Nodes, NEW next, phase[n] # "ended",
           phase' = [phase EXCEPT ![n] = next]
    PROVE  /\ n \notin Gone
           /\ next # "ended" => Gone' = Gone
           /\ next = "ended" => Gone' = Gone \cup {n}
<1>1. phase \in [Nodes -> Phases] BY Zenon DEF IInv, TypeOK
<1>2. \A k \in Nodes : phase'[k] = IF k = n THEN next ELSE phase[k] BY <1>1, Zenon
<1> QED BY <1>2, Zenon DEF Gone

\* A new transaction id is a call that starts.
LEMMA StartsOne ==
    ASSUME IInv, NEW n \in Nodes, NEW to \in Addrs, nextTxid[n] < FirstTxid[n] + MaxCalls,
           Register(n, to), UNCHANGED <<now, outcome>>, n \notin Gone, Gone' = Gone
    PROVE  Contract!Next
<1>0. PICK t \in Nat : t = nextTxid[n] BY Zenon DEF IInv, TypeOK
<1> DEFINE c == <<n, t>>
<1>1. /\ nextTxid \in [Nodes -> Nat]
      /\ nextTxid' = [nextTxid EXCEPT ![n] = nextTxid[n] + 1]
      /\ outcome' = outcome
  BY Zenon DEF IInv, TypeOK, Register
<1>2. c \in OwnCalls
  <2>1. nextTxid[n] \in AllTxids BY RequestTraceable, Zenon
  <2>2. nextTxid[n] \in Txids(n) BY Zenon DEF IInv, Numbered
  <2> QED BY <1>0, <2>1, <2>2, Zenon DEF OwnCalls, CallIds
<1>3. c \notin DOMAIN outcome
  <2> SUFFICES ASSUME c \in DOMAIN outcome PROVE FALSE BY Zenon
  <2>1. c[2] < nextTxid[c[1]] BY Zenon DEF IInv, Numbered
  <2> QED BY <1>0, <1>1, <2>1
<1>4. StatusOf(c) = [state |-> "UNSENT"] /\ StatusOf(c)' = [state |-> "SENT"]
  <2>1. ~ c[2] < nextTxid[c[1]] /\ c[2] < nextTxid'[c[1]] BY <1>0, <1>1
  <2> QED BY <1>1, <1>3, <2>1, Zenon DEF StatusOf
<1>5. ASSUME NEW d \in OwnCalls, d # c PROVE StatusOf(d)' = StatusOf(d)
  <2>1. d[1] \in Nodes /\ d[2] \in AllTxids /\ d = <<d[1], d[2]>> BY DEF OwnCalls, CallIds
  <2>2. d[2] \in Nat BY RpcAssumption DEF OwnCalls, CallIds, Txids
  <2>3. d[2] < nextTxid'[d[1]] <=> d[2] < nextTxid[d[1]]
    <3>1. CASE d[1] = n
      <4>1. d[2] # nextTxid[n] BY <1>0, <1>5, <2>1, <3>1, Zenon
      <4> QED BY <1>1, <2>2, <3>1, <4>1
    <3>2. CASE d[1] # n BY <1>1, <2>1, <3>2, Zenon
    <3> QED BY <3>1, <3>2, Zenon
  <2> QED BY <1>1, <2>3, Zenon DEF StatusOf
<1> QED
  <2>a. Status = [d \in OwnCalls |-> StatusOf(d)] BY Zenon DEF Status, StatusOf
  <2>b. Status' = [d \in OwnCalls |-> StatusOf(d)'] BY Zenon DEF Status, StatusOf, OwnCalls, Txids
  <2>1. Status[c] = [state |-> "UNSENT"] BY <2>a, <1>2, <1>4, Zenon
  <2>2. Status' = [Status EXCEPT ![c] = [state |-> "SENT"]] BY <2>a, <2>b, <1>2, <1>4, <1>5, Zenon
  <2>3. CallerOf[c] = n BY <1>2 DEF CallerOf
  <2>4. Contract!Start(c) BY <2>1, <2>2, <2>3, Zenon DEF Contract!Start
  <2> QED BY <1>2, <2>4, Zenon DEF Contract!Next

\* A call that leaves the table is a call that ends.
LEMMA EndsOne ==
    ASSUME IInv, NEW n \in Nodes, NEW t \in DOMAIN calls[n], NEW o \in Ending,
           outcome' = With(outcome, <<n, t>>, o), nextTxid' = nextTxid,
           n \notin Gone, Gone' \in {Gone, Gone \cup {n}}
    PROVE  Contract!Next
<1> DEFINE c == <<n, t>>
           e == [state |-> o.state, at |-> o.at]
<1>1. c \notin DOMAIN outcome /\ t < nextTxid[n] /\ t \in Txids(n) BY Zenon DEF IInv, Numbered
<1>2. c \in OwnCalls
  <2>1. calls[n] \in CallTable BY Zenon DEF IInv, TypeOK
  <2>2. t \in AllTxids BY <2>1, TableOf, Zenon
  <2> QED BY <1>1, <2>2, Zenon DEF OwnCalls, CallIds
<1>3. e \in [state : {"RESPONSE", "ERR", "TIMEOUT"}, at : 0..MaxTime] BY Zenon DEF Ending
<1>4. /\ DOMAIN outcome' = DOMAIN outcome \cup {c} /\ outcome'[c] = o
      /\ \A d \in DOMAIN outcome : outcome'[d] = outcome[d]
  BY <1>1, Zenon DEF With
<1>5. StatusOf(c) = [state |-> "SENT"] /\ StatusOf(c)' = e
  BY <1>1, <1>4, Zenon DEF StatusOf
<1>6. ASSUME NEW d \in OwnCalls, d # c PROVE StatusOf(d)' = StatusOf(d)
  BY <1>4, <1>6, Zenon DEF StatusOf
<1> QED
  <2> HIDE DEF e
  <2>a. Status = [d \in OwnCalls |-> StatusOf(d)] BY Zenon DEF Status, StatusOf
  <2>b. Status' = [d \in OwnCalls |-> StatusOf(d)'] BY Zenon DEF Status, StatusOf, OwnCalls, Txids
  <2>1. Status[c] = [state |-> "SENT"] BY <2>a, <1>2, <1>5, Zenon
  <2>2. Status' = [Status EXCEPT ![c] = e] BY <2>a, <2>b, <1>2, <1>5, <1>6, Zenon
  <2>3. CallerOf[c] = n BY <1>2 DEF CallerOf
  <2>4. Contract!End(c) BY <1>3, <2>1, <2>2, <2>3, Zenon DEF Contract!End
  <2> QED BY <1>2, <2>4, Zenon DEF Contract!Next

\* A thread that ends without a call.
LEMMA LeavesOne ==
    ASSUME IInv, NEW n \in Nodes, phase[n] # "ended", phase' = [phase EXCEPT ![n] = "ended"],
           UNCHANGED <<nextTxid, outcome>>
    PROVE  Contract!Next
<1>1. n \notin Gone /\ Gone' = Gone \cup {n} BY GoneChange, Zenon
<1>2. Status' = Status BY Zenon DEF Status, OwnCalls, Txids
<1> QED BY <1>1, <1>2, Zenon DEF Contract!Next, Contract!Leave

\* Every step starts one call, ends one, ends a thread, or does none of this.
LEMMA StepsKeepContract ==
    ASSUME IInv, Next
    PROVE  Contract!Next \/ UNCHANGED <<nextTxid, outcome, Gone>>
<1>0. ASSUME NEW n \in Nodes, NEW m, Receives(n, m, "flush")
      PROVE  n \notin Gone /\ Gone' = Gone
  BY <1>0, GoneChange, Zenon DEF Receives
<1>1. ASSUME NEW n \in Nodes, NEW m, NEW replies, Receives(n, m, "flush"),
             AnswerAndPing(n, m, replies), outcome' = outcome
      PROVE  Contract!Next \/ UNCHANGED <<nextTxid, outcome, Gone>>
  <2>0. n \notin Gone /\ Gone' = Gone BY <1>0, <1>1, Zenon
  <2>1. m.src \in Addrs /\ now' = now BY <1>1, ReceivedTraceable, Zenon
  <2>2. CASE UNCHANGED nextTxid BY <1>1, <2>0, <2>2, Zenon
  <2>3. CASE MayCall(n, m.src) /\ Register(n, m.src)
    <3>1. nextTxid[n] < FirstTxid[n] + MaxCalls BY <2>3, Zenon DEF MayCall
    <3> QED BY <1>1, <2>0, <2>1, <2>3, <3>1, StartsOne, Zenon
  <2> QED BY <1>1, <2>2, <2>3, Zenon DEF AnswerAndPing
<1>2. ASSUME NEW n \in Nodes, NEW to \in {Address[x] : x \in Nodes}, sendCall(n, to)
      PROVE  Contract!Next
  <2>1. to \in Addrs BY RpcAssumption
  <2>2. /\ nextTxid[n] < FirstTxid[n] + MaxCalls /\ Register(n, to)
        /\ UNCHANGED <<now, outcome>>
    BY <1>2, Zenon DEF sendCall, MayCall
  <2>3. n \notin Gone /\ Gone' = Gone BY <1>2, Zenon DEF sendCall, Gone
  <2> QED BY <2>1, <2>2, <2>3, StartsOne, Zenon
<1>3. ASSUME NEW n \in Nodes, NEW m \in net, handlePacket(n, m)
      PROVE  Contract!Next \/ UNCHANGED <<nextTxid, outcome, Gone>>
  <2>1. CASE handleRequest(n, m)
    <3>1. CASE Receives(n, m, "ended") /\ UNCHANGED <<net, calls, nextTxid, queue>>
      BY <2>1, <3>1, LeavesOne, Zenon DEF handleRequest, Receives
    <3>2. CASE Receives(n, m, "flush") /\ \E replies : AnswerAndPing(n, m, replies)
      BY <1>1, <2>1, <3>2, Zenon DEF handleRequest
    <3> QED BY <2>1, <3>1, <3>2, Zenon DEF handleRequest
  <2>2. CASE handleError(n, m)
    BY <1>1, <2>2, Zenon DEF handleError
  <2>3. CASE handleMismatch(n, m) \/ handleStray(n, m)
    BY <1>0, <2>3, Zenon DEF handleMismatch, handleStray
  <2>4. CASE handleAnswer(n, m)
    <3> DEFINE t == m.txid
               o == [state |-> m.type, at |-> now, sentTime |-> calls[n][t].sentTime,
                     to |-> calls[n][t].to, re |-> m.re, src |-> m.src]
    <3>0. PICK next \in {"flush", "ended"} : Receives(n, m, next) BY <2>4, Zenon DEF handleAnswer
    <3>1. /\ m.type # "REQUEST" /\ t \in DOMAIN calls[n]
          /\ outcome' = With(outcome, <<n, t>>, o) /\ nextTxid' = nextTxid
      BY <2>4, Zenon DEF handleAnswer, Matches, Ended
    <3>2. m.type \in {"RESPONSE", "ERR"} /\ m.re \in CallIds /\ m.src \in Addrs
      BY <3>0, <3>1, ReceivedTraceable DEF Packet
    <3>3. calls[n][t] \in Call /\ now \in 0..MaxTime BY <3>1, TableOf, Zenon DEF IInv, TypeOK
    <3>4. o \in Ending BY <3>2, <3>3, Zenon DEF Ending, Call
    <3>5. n \notin Gone /\ Gone' \in {Gone, Gone \cup {n}}
      BY <3>0, GoneChange, Zenon DEF Receives
    <3> HIDE DEF t, o
    <3> QED BY <3>1, <3>4, <3>5, EndsOne, Zenon
  <2> QED BY <1>3, <2>1, <2>2, <2>3, <2>4, Zenon DEF handlePacket
<1>4. ASSUME NEW n \in Nodes, Loop(n)
      PROVE  Contract!Next \/ UNCHANGED <<nextTxid, outcome, Gone>>
  <2>1. CASE selectTimeout(n) \/ flushOne(n) \/ periodic(n) \/ timersDone(n)
    <3>1. CASE flushOne(n) BY <3>1, Zenon DEF flushOne, Gone
    <3>2. CASE selectTimeout(n) \/ periodic(n) \/ timersDone(n)
      <4>1. PICK next \in {"select", "flush", "timers"} : phase' = [phase EXCEPT ![n] = next]
        BY <3>2, Zenon DEF selectTimeout, periodic, timersDone
      <4>2. phase[n] # "ended" BY <3>2, Zenon DEF selectTimeout, periodic, timersDone
      <4>3. Gone' = Gone BY <4>1, <4>2, GoneChange, Zenon
      <4> QED BY <3>2, <4>3, Zenon DEF selectTimeout, periodic, timersDone
    <3> QED BY <2>1, <3>1, <3>2, Zenon
  <2>2. ASSUME NEW t \in Due(n), stall(n, t) PROVE UNCHANGED <<nextTxid, outcome, Gone>>
    BY <2>2, Zenon DEF stall, Gone
  <2>3. ASSUME NEW t \in Due(n), timeout(n, t) PROVE Contract!Next
    <3> DEFINE o == [state |-> "TIMEOUT", at |-> now, sentTime |-> calls[n][t].sentTime,
                     to |-> calls[n][t].to, re |-> <<n, t>>, src |-> calls[n][t].to]
    <3>1. /\ t \in DOMAIN calls[n]
          /\ outcome' = With(outcome, <<n, t>>, o) /\ nextTxid' = nextTxid
      BY <2>3, Zenon DEF timeout, Ended, Due
    <3>2. calls[n][t] \in Call /\ now \in 0..MaxTime /\ t \in AllTxids
      BY <3>1, TableOf, Zenon DEF IInv, TypeOK
    <3>3. <<n, t>> \in CallIds BY <3>2, Zenon DEF CallIds
    <3>4. o \in Ending BY <3>2, <3>3, Zenon DEF Ending, Call
    <3>5. n \notin Gone /\ Gone' = Gone BY <2>3, Zenon DEF timeout, TimerFires, Gone
    <3> HIDE DEF o
    <3> QED BY <3>1, <3>4, <3>5, EndsOne, Zenon
  <2> QED BY <1>4, <2>1, <2>2, <2>3, Zenon DEF Loop
<1>5. ASSUME Tick PROVE UNCHANGED <<nextTxid, outcome, Gone>> BY <1>5, Zenon DEF Tick, Gone
<1>6. ASSUME NEW n \in Nodes, throws(n) PROVE Contract!Next
  BY <1>6, LeavesOne, Zenon DEF throws
<1> QED BY <1>2, <1>3, <1>4, <1>5, <1>6, Zenon DEF Next

\* The RPC layer implements the contract its callers rely on, except that the call does
\* end: a call starts once and ends once, with one of the three outcomes, whatever is
\* lost, late or duplicated, and none of them after an exception has ended the thread of
\* its node (rpcserver.cc:352-356, 431-463, 545-556, rpccall.cc:77-130).
THEOREM ContractKept == Spec => Contract!EndsOnce
<1>1. Init => Contract!Init
  <2> SUFFICES ASSUME Init
               PROVE  Status = [c \in OwnCalls |-> [state |-> "UNSENT"]] /\ Gone = {}
    BY Zenon DEF Contract!Init
  <2>1. ASSUME NEW c \in OwnCalls PROVE c \notin DOMAIN outcome /\ ~ c[2] < nextTxid[c[1]]
    BY RpcAssumption DEF Init, OwnCalls, CallIds, Txids
  <2>2. \A n \in Nodes : phase[n] # "ended" BY Zenon DEF Init
  <2> QED BY <2>1, <2>2, Zenon DEF Status, Gone
<1>2. IInv /\ [Next]_vars => [Contract!Next]_(Contract!vars)
  <2>1. UNCHANGED <<nextTxid, outcome>> => Status' = Status BY Zenon DEF Status, OwnCalls, Txids
  <2>2. UNCHANGED vars => Gone' = Gone BY Zenon DEF vars, Gone
  <2> QED BY <2>1, <2>2, StepsKeepContract, Zenon DEF vars, Contract!vars
<1> QED BY <1>1, <1>2, InitOK, NextOK, PTL DEF Spec, Contract!EndsOnce
=============================================================================
