------------------------------ MODULE Crawler ------------------------------
(***************************************************************************)
(* The crawler (apps/crawler): the main thread asks every node it knows    *)
(* for nodes, the receive thread of its own node runs the handlers of the  *)
(* calls, which ping the nodes that are new and list the ones that answer. *)
(* The crawl ends when nothing was new for a while.  Times are in seconds. *)
(***************************************************************************)
EXTENDS Integers, Sequences, FiniteSets

CONSTANTS Nodes, Bootstraps,
          Live,              \* the nodes that answer
          Questions,         \* targets of the getNodes calls to one node
          Answer,            \* Answer[n][q]: the nodes that n answers to q
          CallTimeout,       \* RPC_CALL_TIMEOUT_MAX
          RequestInterval,   \* request_interval
          Timeout,           \* timeout
          NodeLimits         \* values of node_limit

\* A node is asked a second after it was listed, or at the next interval; its answers and
\* those to the pings they lead to take a call each.
ASSUME CrawlerAssumption ==
    /\ Bootstraps \cup Live \subseteq Nodes
    /\ Answer \in [Nodes -> [Questions -> SUBSET Nodes]]
    /\ {CallTimeout, RequestInterval, Timeout} \cup NodeLimits \subseteq Nat
    /\ Timeout > RequestInterval + CallTimeout + 1

VARIABLES nodes_list, pinged_list, sendedNo,
          calls,             \* calls of the node that are not settled
          quiet,             \* time since last_new_node_stamp, up to Timeout
          since,             \* time since last_getnodes_request_stamp, up to RequestInterval
          pc, awake,         \* the main thread; awake is reset by sleep(1)
          interrupted, limit,
          lost               \* history: a call to a live node was not answered

crawlVars == <<nodes_list, pinged_list, sendedNo, calls, quiet, since, pc, awake, interrupted,
               limit, lost>>

Listed == {nodes_list[i] : i \in DOMAIN nodes_list}

crawled(n) == n \in Listed
pinged(n) == n \in pinged_list

Ping(n) == [kind |-> "ping", to |-> n, q |-> {}, age |-> 0]
GetNodes(n, q) == [kind |-> "getNodes", to |-> n, q |-> {q}, age |-> 0]

\* start: the bootstrap nodes are pinged.
CrawlInit ==
    /\ nodes_list = <<>> /\ sendedNo = 0
    /\ pinged_list = Bootstraps
    /\ calls = {Ping(n) : n \in Bootstraps}
    /\ quiet = 0 /\ since = RequestInterval
    /\ pc = "loop" /\ awake = TRUE
    /\ interrupted = FALSE /\ limit \in NodeLimits
    /\ lost = FALSE

-----------------------------------------------------------------------------
(* The main thread. *)

finished ==
    \/ sendedNo = Len(nodes_list) /\ quiet = Timeout
    \/ Len(nodes_list) >= limit

MutSendNodeRequests ==
    IF since < RequestInterval THEN UNCHANGED <<calls, sendedNo, since>>
    ELSE /\ calls' = calls \cup {GetNodes(nodes_list[i], q) :
                                   i \in (sendedNo + 1)..(Len(nodes_list) - 1), q \in Questions}
         /\ sendedNo' = IF nodes_list = <<>> THEN 0 ELSE Len(nodes_list) - 1
         /\ since' = 0

\* All nodes that were not asked are asked: count, which should limit them, stays 0.
sendNodeRequests ==
    IF since < RequestInterval THEN UNCHANGED <<calls, sendedNo, since>>
    ELSE /\ calls' = calls \cup {GetNodes(nodes_list[i], q) :
                                   i \in (sendedNo + 1)..Len(nodes_list), q \in Questions}
         /\ sendedNo' = Len(nodes_list)
         /\ since' = 0

\* One turn of the loop of main.
turn ==
    /\ pc = "loop" /\ awake
    /\ IF interrupted \/ finished
       THEN pc' = "stop" /\ UNCHANGED <<calls, sendedNo, since, awake>>
       ELSE sendNodeRequests /\ awake' = FALSE /\ UNCHANGED pc
    /\ UNCHANGED <<nodes_list, pinged_list, quiet, interrupted, limit, lost>>

\* stop: the receive thread is joined, calls that are open are dropped.
stopCrawl ==
    /\ pc = "stop" /\ pc' = "stopped"
    /\ calls' = {}
    /\ UNCHANGED <<nodes_list, pinged_list, sendedNo, quiet, since, awake, interrupted, limit, lost>>

signal ==
    /\ pc = "loop" /\ interrupted' = TRUE
    /\ UNCHANGED <<nodes_list, pinged_list, sendedNo, calls, quiet, since, pc, awake, limit, lost>>

-----------------------------------------------------------------------------
(* The receive thread: the handlers of settled calls. *)

\* The handler of pingNode.
answered(c) ==
    /\ calls' = calls \ {c}
    /\ IF crawled(c.to) THEN UNCHANGED <<nodes_list, quiet>>
       ELSE nodes_list' = Append(nodes_list, c.to) /\ quiet' = 0
    /\ UNCHANGED pinged_list

MutGotNodes(c) ==
    LET new == {n \in UNION {Answer[c.to][q] : q \in c.q} : ~pinged(n)}
    IN  /\ calls' = (calls \ {c}) \cup {Ping(n) : n \in new}
        /\ pinged_list' = pinged_list \cup new
        /\ UNCHANGED <<nodes_list, quiet>>

\* The handler of sendNodeRequests: nodes not yet pinged are pinged.
gotNodes(c) ==
    LET new == {n \in UNION {Answer[c.to][q] : q \in c.q} : ~pinged(n)}
    IN  /\ calls' = (calls \ {c}) \cup {Ping(n) : n \in new}
        /\ pinged_list' = pinged_list \cup new
        /\ quiet' = IF new = {} THEN quiet ELSE 0
        /\ UNCHANGED nodes_list

responded(c) ==
    /\ pc # "stopped" /\ c.to \in Live
    /\ IF c.kind = "ping" THEN answered(c) ELSE gotNodes(c)
    /\ UNCHANGED <<sendedNo, since, pc, awake, interrupted, limit, lost>>

\* A call that times out, at the latest after CallTimeout, leads to nothing.
timedOut(c) ==
    /\ pc # "stopped" /\ c.age > 0
    /\ calls' = calls \ {c}
    /\ lost' = (lost \/ c.to \in Live)
    /\ UNCHANGED <<nodes_list, pinged_list, sendedNo, quiet, since, pc, awake, interrupted, limit>>

Least(a, b) == IF a < b THEN a ELSE b

tick ==
    /\ pc = "loop" /\ ~awake
    /\ \A c \in calls : c.age < CallTimeout
    /\ calls' = {[c EXCEPT !.age = @ + 1] : c \in calls}
    /\ quiet' = Least(quiet + 1, Timeout)
    /\ since' = Least(since + 1, RequestInterval)
    /\ awake' = TRUE
    /\ UNCHANGED <<nodes_list, pinged_list, sendedNo, pc, interrupted, limit, lost>>

Settle == \E c \in calls : responded(c) \/ timedOut(c)

CrawlNext == turn \/ stopCrawl \/ signal \/ Settle \/ tick

CrawlSpec == CrawlInit /\ [][CrawlNext]_crawlVars

-----------------------------------------------------------------------------
\* What there is to be found: the least set with the live bootstrap nodes and the live
\* nodes that its members answer.
Reachable ==
    LET closed(S) ==
          /\ Bootstraps \cap Live \subseteq S
          /\ \A n \in S, q \in Questions : Answer[n][q] \cap Live \subseteq S
    IN  {n \in Nodes : \A S \in SUBSET Nodes : closed(S) => n \in S}

\* A crawl that ended because nothing was new for the timeout, with no call to a live node
\* lost, has listed every node there is to be found, each once: no answer that could lead
\* further was open when finished looked at the two counters and the clock (pingNode,
\* sendNodeRequests, finished, and the two threads they run on).
CrawlComplete ==
    /\ Cardinality(Listed) = Len(nodes_list)
    /\ pc = "stopped" /\ ~interrupted /\ ~lost /\ Len(nodes_list) < limit
         => Listed = Reachable

\* Every crawl ends (main, finished): the nodes are finitely many and each is new once.
CrawlEnds == <>(pc = "stopped")

=============================================================================
