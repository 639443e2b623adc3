-------------------------------- MODULE Node --------------------------------
(***************************************************************************)
(* The node (src/core/node.cc): its life cycle and the futures of its      *)
(* operations.  An operation runs one task on each DHT (IPv4, IPv6); every *)
(* task that ends calls the operation's completeHandler, on the receive    *)
(* thread or, when it is canceled, on the thread that stops the node.      *)
(* TaskManager shows that a task calls it at most once, and that the       *)
(* lookup of a store that is canceled does not call it.  The promise is    *)
(* shared by the handlers, so it is broken when the last task goes without *)
(* having set it.                                                          *)
(***************************************************************************)
EXTENDS Integers, FiniteSets

CONSTANTS DHTs,          \* the DHTs of the configuration
          Ops,           \* futures handed out
          MaxStarts      \* bound: starts of the node

ASSUME NodeAssumption ==
    /\ DHTs \subseteq {"v4", "v6"} /\ DHTs # {}
    /\ MaxStarts \in Nat

VARIABLE node

Lookups == {"findNode", "findValue", "findPeer"}
Stores == {"storeValue", "announcePeer"}
Options == {"ARBITRARY", "OPTIMISTIC", "CONSERVATIVE"}

\* What a task that ends brings: the node or the value asked for, or an error of the
\* storage that the peers found are put into.
Outcomes(kind) ==
    CASE kind \in {"findNode", "findValue"} -> {"nothing", "found"}
      [] kind = "findPeer" -> {"nothing", "error"}
      [] OTHER -> {"nothing"}

Op == [kind : Lookups \cup Stores \cup {"none"},
       option : Options,
       tasks : SUBSET DHTs,            \* tasks that hold the handler
       announcing : SUBSET DHTs,       \* stores that got to their announce
       completion : Nat,
       results : BOOLEAN,              \* the list of results is not empty
       promise : {"unset", "value", "broken"}]

NoOp == [kind |-> "none", option |-> "CONSERVATIVE", tasks |-> {}, announcing |-> {},
         completion |-> 0, results |-> FALSE, promise |-> "unset"]

Init ==
    node = [status |-> "Stopped",
            dhts |-> {},            \* dht4 and dht6
            live |-> {},            \* DHTs that are running
            canceling |-> {},       \* DHTs whose task manager takes no task
            numDHTs |-> 0,
            rx |-> FALSE,           \* the receive thread lives
            threw |-> FALSE,        \* an exception is leaving a handler
            failed |-> FALSE,       \* history: the storage failed in a handler
            starts |-> 0,
            ops |-> [o \in Ops |-> NoOp]]

-----------------------------------------------------------------------------
MutLoseTask(r, f) == [r EXCEPT !.tasks = @ \ {f}, !.announcing = @ \ {f}]

\* The task of the operation r on f is gone, and its handler with it.
LoseTask(r, f) ==
    LET left == r.tasks \ {f}
    IN  [r EXCEPT !.tasks = left,
                  !.announcing = @ \ {f},
                  !.promise = IF left = {} /\ @ = "unset" THEN "broken" ELSE @]

\* The condition under which a completeHandler sets the promise.
Ready(r, numDHTs, out) ==
    \/ r.completion + 1 >= numDHTs
    \/ /\ r.option = "OPTIMISTIC"
       /\ \/ r.kind = "findNode" /\ (r.results \/ out = "found")
          \/ r.kind = "findValue" /\ out = "found"

\* A promise that is set already throws.
Throws(r, numDHTs, out) ==
    out = "error" \/ (Ready(r, numDHTs, out) /\ r.promise = "value")

MutCompleteEarly(r, f, numDHTs, out) ==
    LoseTask([r EXCEPT !.completion = @ + 1,
                       !.promise = IF r.completion + 2 >= numDHTs THEN "value" ELSE @], f)

\* The completeHandler of each operation. The results are moved into the promise.
completeHandler(r, f, numDHTs, out) ==
    LET sets == Ready(r, numDHTs, out) /\ ~ Throws(r, numDHTs, out)
    IN  LoseTask([r EXCEPT !.completion = @ + 1,
                           !.results = (@ \/ out = "found") /\ ~ sets,
                           !.promise = IF sets THEN "value" ELSE @], f)

-----------------------------------------------------------------------------
(* The life cycle. *)

\* start up to the server: the node counts as running already.
start ==
    /\ node.status = "Stopped" /\ node.starts < MaxStarts
    /\ node' = [node EXCEPT !.status = "Running", !.starts = @ + 1, !.dhts = DHTs,
                            !.canceling = {}]

MutStartCountsTwice ==
    /\ node.status = "Running" /\ node.live = {} /\ node.dhts = DHTs /\ node.canceling = {}
    /\ node' = [node EXCEPT !.rx = TRUE, !.live = DHTs, !.numDHTs = @ + Cardinality(DHTs) + 1]

\* The server and the DHTs. Tasks do not start before all this is done: the first
\* dequeue comes five seconds later. The sockets may fail to bind: the exception leaves
\* start and the node is as start has left it.
startServer ==
    /\ node.status = "Running" /\ node.live = {} /\ node.dhts = DHTs /\ node.canceling = {}
    /\ node' = [node EXCEPT !.rx = TRUE, !.live = DHTs, !.numDHTs = @ + Cardinality(DHTs)]

\* A store whose lookup is canceled does not call back.
Silent(r, f) == f \notin r.tasks \/ (r.kind \in Stores /\ f \notin r.announcing)

CancelTask(r, f, numDHTs, out) ==
    IF Silent(r, f) THEN LoseTask(r, f) ELSE completeHandler(r, f, numDHTs, out)

\* cancelAll of the DHT f, in whichever order it has its tasks. An exception ends it and
\* leaves the task manager canceling.
cancelAll(n, f, outs) ==
    LET throwing == {o \in Ops : ~ Silent(n.ops[o], f) /\ Throws(n.ops[o], n.numDHTs, outs[o])}
        Cancel(S) == [o \in Ops |-> IF o \in S /\ f \in n.ops[o].tasks
                                    THEN CancelTask(n.ops[o], f, n.numDHTs, outs[o])
                                    ELSE n.ops[o]]
    IN  IF throwing = {} THEN {[n EXCEPT !.ops = Cancel(Ops)]}
        ELSE UNION {{[n EXCEPT !.ops = Cancel(S \cup {o}),
                               !.threw = TRUE,
                               !.failed = @ \/ outs[o] = "error",
                               !.canceling = @ \cup {f}] : S \in SUBSET (Ops \ throwing)}
                      : o \in throwing}

\* DHT::stop and the reset of the pointer, which destroys the tasks that are left.
stopDHT(n, f, outs) ==
    LET canceled == IF f \in n.live THEN cancelAll([n EXCEPT !.live = @ \ {f}], f, outs) ELSE {n}
        Reset(x) == IF x.threw THEN x
                    ELSE [x EXCEPT !.dhts = @ \ {f},
                                   !.ops = [o \in Ops |-> IF f \in x.ops[o].tasks
                                                          THEN LoseTask(x.ops[o], f)
                                                          ELSE x.ops[o]]]
    IN  IF n.threw \/ f \notin n.dhts THEN {n} ELSE {Reset(x) : x \in canceled}

\* The receive thread is joined, then the DHTs are stopped. An exception leaves the
\* node running, as far as its status goes; stop can be called again.
stop(outs) ==
    /\ node.status = "Running"
    /\ \E n4 \in stopDHT([node EXCEPT !.rx = FALSE], "v4", outs["v4"]) :
          \E n6 \in stopDHT(n4, "v6", outs["v6"]) :
             node' = IF n6.threw THEN [n6 EXCEPT !.threw = FALSE]
                     ELSE [n6 EXCEPT !.status = "Stopped"]

-----------------------------------------------------------------------------
(* Operations. *)

\* A call may be answered at once: findNode with ARBITRARY from the table, findValue and
\* findPeer from the storage, a store because the storage refuses the value. Otherwise
\* every DHT is given a task; one that is canceling takes none.
call(o, kind, option, local) ==
    /\ node.status = "Running"
    /\ node.ops[o].kind = "none"
    /\ kind \in Stores => option = "CONSERVATIVE"
    /\ local /\ kind \in {"findNode", "findPeer"} => option = "ARBITRARY"
    /\ LET tasks == node.dhts \ node.canceling
       IN  node' = [node EXCEPT !.ops[o] =
              IF local
              THEN [NoOp EXCEPT !.kind = kind, !.option = option, !.promise = "value"]
              ELSE [NoOp EXCEPT !.kind = kind, !.option = option, !.tasks = tasks,
                                !.promise = IF tasks = {} THEN "broken" ELSE "unset"]]

\* The lookup of a store has ended with nodes to write to.
lookupEnds(o, f) ==
    /\ node.rx
    /\ node.ops[o].kind \in Stores
    /\ f \in node.ops[o].tasks \ node.ops[o].announcing
    /\ node' = [node EXCEPT !.ops[o].announcing = @ \cup {f}]

\* A task ends. An exception ends the receive thread.
taskEnds(o, f, out) ==
    /\ node.rx
    /\ f \in node.ops[o].tasks
    /\ LET r == node.ops[o]
       IN  node' = [node EXCEPT !.ops[o] = completeHandler(r, f, node.numDHTs, out),
                                !.rx = ~ Throws(r, node.numDHTs, out),
                                !.failed = @ \/ out = "error"]

-----------------------------------------------------------------------------
TaskEnds(o) ==
    \E f \in DHTs, out \in Outcomes(node.ops[o].kind) : taskEnds(o, f, out)

Next ==
    \/ start
    \/ startServer
    \/ \E outs \in [{"v4", "v6"} -> [Ops -> {"nothing", "found", "error"}]] :
          /\ \A f \in {"v4", "v6"}, o \in Ops : outs[f][o] \in Outcomes(node.ops[o].kind)
          /\ stop(outs)
    \/ \E o \in Ops, kind \in Lookups \cup Stores, option \in Options, local \in BOOLEAN :
          call(o, kind, option, local)
    \/ \E o \in Ops, f \in DHTs : lookupEnds(o, f)
    \/ \E o \in Ops : TaskEnds(o)

Spec == Init /\ [][Next]_node

-----------------------------------------------------------------------------
(* Properties. *)

Issued(o) == node.ops[o].kind # "none"

Optimistic == \E o \in Ops : node.ops[o].option = "OPTIMISTIC"

\* The value of a findNode, findValue or findPeer that is not OPTIMISTIC, and of a store,
\* is handed out when every DHT has answered and not before: no handler can touch the
\* result any more (completeHandler counting up to numDHTs). And no completeHandler sets a
\* promise twice, so the receive thread of a node that runs lives on, as long as no lookup
\* is OPTIMISTIC and the storage takes the peers found (node.cc:345-545).
PromisesKept ==
    /\ \A o \in Ops :
         node.ops[o].option # "OPTIMISTIC" /\ node.ops[o].promise = "value"
             => node.ops[o].tasks = {}
    /\ ~ Optimistic /\ ~ node.failed /\ node.live # {} => node.rx

\* Once stop has gone through nobody waits any more: each future handed out has a value
\* or is broken, whatever was canceled, in whichever stage, by however many stops.
StoppedSettles ==
    node.status = "Stopped" => \A o \in Ops : Issued(o) => node.ops[o].promise # "unset"

\* A task that ends, and not a stop, leaves o without a value.
Breaks(o) ==
    node.rx /\ node'.rx /\ node.ops[o].promise = "unset" /\ node'.ops[o].promise = "broken"

\* No task that ends breaks the promise of its operation, as long as the node has been
\* started once: the tasks that end number as many as the handlers count.
FirstRunAnswers == [][\A o \in Ops : node.starts = 1 => ~ Breaks(o)]_node
=============================================================================
