----------------------------- MODULE TaskManager -----------------------------
(***************************************************************************)
(* The tasks of a DHT (src/core/task/task_manager.cc, task.cc, dht.cc):    *)
(* user operations and maintenance queue tasks, and the receive thread of  *)
(* the RPC server starts them and runs their handlers.                     *)
(*                                                                         *)
(* The receive thread runs one handler at a time, so a handler is a step,  *)
(* built from operators on the state s.  User threads share the queue with *)
(* it under a mutex.  What a lookup does with the answers is the subject   *)
(* of Lookup: here a task has nodes to ask, calls in flight and nodes it   *)
(* may still hear of or ask again.                                         *)
(***************************************************************************)
EXTENDS Integers, FiniteSets, Sequences, SequencesExt

CONSTANTS MaxTasks,              \* bound: tasks ever created
          MAX_ACTIVE_TASKS,
          MAX_CONCURRENT_TASK_REQUESTS,
          MaxWork,               \* bound: nodes a task deals with
          BootstrapNodes         \* number of bootstrap nodes

ASSUME TaskManagerAssumption ==
    /\ MaxTasks \in Nat
    /\ MAX_ACTIVE_TASKS \in Nat
    /\ MAX_CONCURRENT_TASK_REQUESTS \in Nat \ {0}
    /\ MaxWork \in Nat
    /\ BootstrapNodes \in Nat \ {0}

VARIABLE sys

Tasks == 1..MaxTasks
NoTask == 0

\* Operations of a user, and what the DHT does for itself.
Stores == {"storeValue", "announcePeer"}
UserKinds == {"lookup"} \cup Stores
Lookups == UserKinds \cup {"bootstrap"}
Announces == {"ValueAnnounce", "PeerAnnounce"}
Kinds == Lookups \cup Announces \cup {"ping"}

States == {"INITIAL", "QUEUED", "RUNNING", "FINISHED", "CANCELED"}
Terminal == {"FINISHED", "CANCELED"}

Task ==
    [kind : Kinds \cup {"none"},
     state : States,
     todo : 0..MaxWork,          \* nodes to be asked
     fresh : 0..MaxWork,         \* nodes that answers may still bring up
     calls : 0..MAX_CONCURRENT_TASK_REQUESTS,
     parent : Tasks \cup {NoTask},   \* the operation that an announce belongs to
     handled : 0..2]             \* calls of the user's completeHandler, 2 for more

NewTask(kind, todo, fresh, parent) ==
    [kind |-> kind, state |-> "INITIAL", todo |-> todo, fresh |-> fresh, calls |-> 0,
     parent |-> parent, handled |-> 0]

Init ==
    sys = [tasks |-> [t \in Tasks |-> NewTask("none", 0, 0, NoTask)],
           queued |-> <<>>, running |-> <<>>,
           locked |-> FALSE,       \* the receive thread holds taskman_mtx
           rx |-> "runs",          \* or is "stuck" on it for ever, or was ended by an exception
           adding |-> NoTask,      \* a user thread is inside add
           bootstrapping |-> FALSE,
           unsent |-> 0,           \* find_node requests of a bootstrap that are to be sent,
           asked |-> 0,            \* that are sent and not answered,
           nodes |-> 0,            \* and the nodes in the answers
           phase |-> "running"]    \* then "joined", "canceling", "stopped"

-----------------------------------------------------------------------------
(* Operators of the task manager and of a task. *)

Spare(s) == {t \in Tasks : s.tasks[t].kind = "none"}

\* Room for a new task: a store that has not ended will need one too, and so will a
\* bootstrap whose requests are out.
Room(s, kind) ==
    Cardinality(Spare(s)) >
        Cardinality({t \in Tasks : s.tasks[t].kind \in Stores /\ s.tasks[t].state \notin Terminal})
        + (IF kind \in Stores THEN 1 ELSE 0)
        + (IF s.unsent + s.asked > 0 THEN 1 ELSE 0)

NextTask(s) == CHOOSE t \in Spare(s) : \A x \in Spare(s) : t <= x

\* A std::mutex that a thread holds already blocks it for ever.
add(s, t) ==
    IF s.locked THEN [s EXCEPT !.rx = "stuck"]
    ELSE [s EXCEPT !.tasks[t].state = "QUEUED", !.queued = Append(@, t)]

Create(s, r) ==
    LET t == NextTask(s) IN add([s EXCEPT !.tasks[t] = r], t)

MutRemoveTaskKeepsRunning(s, t) ==
    [s EXCEPT !.queued = SelectSeq(@, LAMBDA x : x # t),
              !.tasks[t].calls = 0, !.tasks[t].todo = 0, !.tasks[t].fresh = 0]

\* A task that is removed is destroyed, and with it the handlers of its calls.
removeTask(s, t) ==
    [s EXCEPT !.running = SelectSeq(@, LAMBDA x : x # t),
              !.queued = SelectSeq(@, LAMBDA x : x # t),
              !.tasks[t].calls = 0, !.tasks[t].todo = 0, !.tasks[t].fresh = 0]

completeHandler(s, t) == [s EXCEPT !.tasks[t].handled = IF @ = 2 THEN 2 ELSE @ + 1]

MutAnnounceHandlesBoth(s, t, n) ==
    IF s.tasks[t].state # "FINISHED" THEN s
    ELSE IF n = 0 THEN completeHandler(s, t)
    ELSE Create(completeHandler(s, t), NewTask("ValueAnnounce", n, 0, t))

\* The lookup of a store is followed by a nested task that writes to the n nodes found.
announce(s, t, n) ==
    IF s.tasks[t].state # "FINISHED" THEN s
    ELSE IF n = 0 THEN completeHandler(s, t)
    ELSE Create(s, NewTask(IF s.tasks[t].kind = "storeValue" THEN "ValueAnnounce"
                           ELSE "PeerAnnounce", n, 0, t))

\* After bootstrapping, the sparse buckets of a table that has enough entries are filled.
bootstrapped(s, filled) ==
    LET s1 == [s EXCEPT !.bootstrapping = FALSE]
    IN  IF s.phase # "running" \/ ~ filled \/ ~ Room(s, "lookup") THEN s1
        ELSE Create(s1, NewTask("lookup", 0, MaxWork, NoTask))

\* The listeners of a task that ends; it found n nodes, and the table is filled or not.
notifyCompletionListeners(s, t, n, filled) ==
    CASE s.tasks[t].kind = "lookup"     -> completeHandler(s, t)
      [] s.tasks[t].kind \in Stores     -> announce(s, t, n)
      [] s.tasks[t].kind = "bootstrap"  -> bootstrapped(s, filled)
      [] s.tasks[t].kind \in Announces  -> completeHandler(s, s.tasks[t].parent)
      [] OTHER                          -> s

\* finish and cancel.
End(s, t, state, n, filled) ==
    IF s.tasks[t].state \in Terminal THEN s
    ELSE notifyCompletionListeners([s EXCEPT !.tasks[t].state = state], t, n, filled)

\* A lookup may be done before all nodes are asked; a PeerAnnounce does not wait for
\* its calls.
isDone(r, early) ==
    \/ r.state \in Terminal
    \/ r.todo = 0 /\ (r.calls = 0 \/ r.kind = "PeerAnnounce")
    \/ r.kind \in Lookups /\ r.calls = 0 /\ early

\* Nodes are asked while there is room. A ping task skips nodes that were heard of.
update(r, skips) ==
    LET todo == IF r.kind = "ping" /\ skips <= r.todo THEN r.todo - skips ELSE r.todo
        room == MAX_CONCURRENT_TASK_REQUESTS - r.calls
        n    == IF todo < room THEN todo ELSE room
    IN  [r EXCEPT !.todo = todo - n, !.calls = @ + n]

\* What a task of this kind may meet when it is updated.
Outcomes(kind) ==
    [early : IF kind \in Lookups THEN BOOLEAN ELSE {FALSE},
     n : IF kind \in Stores THEN 0..MaxWork ELSE {0},
     filled : IF kind = "bootstrap" THEN BOOLEAN ELSE {FALSE},
     skips : IF kind = "ping" THEN 0..1 ELSE {0}]

serializedUpdate(s, t, o) ==
    LET s1 == IF isDone(s.tasks[t], o.early) THEN End(s, t, "FINISHED", o.n, o.filled) ELSE s
        s2 == IF s1.tasks[t].state \notin Terminal
              THEN [s1 EXCEPT !.tasks[t] = update(@, o.skips)] ELSE s1
        s3 == IF isDone(s2.tasks[t], FALSE) THEN End(s2, t, "FINISHED", o.n, o.filled) ELSE s2
    IN  IF s3.tasks[t].state \in Terminal /\ s3.rx # "stuck" THEN removeTask(s3, t) ELSE s3

-----------------------------------------------------------------------------
(* Steps of user threads. *)

\* A user operation looks at canceling before it takes the mutex: during cancelAll
\* its task is dropped.
userCall(kind) ==
    LET t == NextTask(sys)
    IN  /\ sys.phase # "stopped"
        /\ sys.adding = NoTask
        /\ Room(sys, kind)
        /\ sys' = [sys EXCEPT !.tasks[t] = NewTask(kind, 0, MaxWork, NoTask),
                              !.adding = IF sys.phase = "canceling" THEN NoTask ELSE t]

userAdd ==
    /\ sys.adding # NoTask
    /\ ~ sys.locked /\ sys.phase # "canceling"
    /\ sys' = add([sys EXCEPT !.adding = NoTask], sys.adding)

\* compare_exchange on bootstrapping; the requests are then sent, by any thread.
TakesFlag(unsent, asked) ==
    /\ ~ sys.bootstrapping
    /\ Room(sys, "bootstrap")
    /\ sys' = [sys EXCEPT !.bootstrapping = TRUE, !.unsent = unsent, !.asked = asked, !.nodes = 0]

\* DHT::start and the bootstrap of a user; the answer to one request may come before the
\* next one is sent.
bootstrap ==
    /\ sys.phase \in {"running", "joined"}
    /\ TakesFlag(BootstrapNodes, 0)

sendBootstrap ==
    /\ sys.unsent > 0
    /\ sys' = [sys EXCEPT !.unsent = @ - 1, !.asked = @ + 1]

\* Node::stop joins the receive thread first.
serverStop ==
    /\ sys.phase = "running" /\ sys.rx # "stuck"
    /\ sys' = [sys EXCEPT !.phase = "joined"]

\* DHT::stop and TaskManager::cancelAll, which holds the mutex throughout.
cancelAll ==
    /\ sys.phase = "joined"
    /\ sys' = FoldLeft(LAMBDA s, t : End(s, t, "CANCELED", 0, FALSE),
                       [sys EXCEPT !.phase = "canceling"], sys.running \o sys.queued)

cancelAllDone ==
    /\ sys.phase = "canceling"
    /\ sys' = [sys EXCEPT !.phase = "stopped"]

-----------------------------------------------------------------------------
(* Steps of the receive thread. *)

Rx == sys.phase = "running" /\ sys.rx = "runs"

\* bootstrap as a part of DHT::update: the flag is taken and the requests are sent.
updateBootstraps ==
    /\ Rx
    /\ TakesFlag(0, BootstrapNodes)

MutFillHomeBucketKeepsFlag(s, empty) ==
    IF empty /\ s.nodes = 0 THEN s
    ELSE Create([s EXCEPT !.nodes = 0],
                NewTask("bootstrap", s.nodes, MaxWork - s.nodes, NoTask))

\* The flag is given back at once when neither the table nor the answers have a node, and
\* otherwise by the listener of the lookup for the own id.
fillHomeBucket(s, empty) ==
    IF empty /\ s.nodes = 0 THEN [s EXCEPT !.bootstrapping = FALSE]
    ELSE Create([s EXCEPT !.nodes = 0],
                NewTask("bootstrap", s.nodes, MaxWork - s.nodes, NoTask))

\* A request of a bootstrap is answered, with so many nodes, refused, or timed out; the
\* last one fills the home bucket.
bootstrapCallEnds(more, empty) ==
    /\ Rx /\ sys.asked > 0 /\ sys.nodes + more <= MaxWork
    /\ LET s == [sys EXCEPT !.asked = @ - 1, !.nodes = @ + more]
       IN  sys' = IF s.asked + s.unsent = 0 THEN fillHomeBucket(s, empty) ELSE s

\* An exception of a handler or a job ends the thread.
throws ==
    /\ Rx
    /\ sys' = [sys EXCEPT !.rx = "ended"]

\* tryPingMaintenance
pingRefresh(entries) ==
    /\ Rx
    /\ Room(sys, "ping")
    /\ sys' = Create(sys, NewTask("ping", entries, 0, NoTask))

canStartTask(s) == s.queued # <<>> /\ Len(s.running) <= MAX_ACTIVE_TASKS

\* One round of dequeue, which holds the mutex: a lookup starts with the nodes that the
\* routing table offers.
dequeue(o, offered) ==
    /\ Rx
    /\ canStartTask(sys)
    /\ LET t  == Head(sys.queued)
           r  == sys.tasks[t]
           s  == [sys EXCEPT !.queued = Tail(@),
                             !.running = Append(@, t),
                             !.locked = TRUE,
                             !.tasks[t].state = "RUNNING",
                             !.tasks[t].todo = @ + offered,
                             !.tasks[t].fresh = @ - offered]
           s1 == serializedUpdate(s, t, o)
       IN  sys' = IF r.state \in Terminal THEN [sys EXCEPT !.queued = Tail(@)]
                  ELSE [s1 EXCEPT !.locked = (s1.rx = "stuck")]

\* A call ends: with an answer, which may bring up nodes or be what the user looks for
\* and cancel the lookup, with an error, or with a timeout.
callEnds(t, more, found, o) ==
    /\ Rx
    /\ sys.tasks[t].calls > 0
    /\ LET s == [sys EXCEPT !.tasks[t].calls = @ - 1, !.tasks[t].todo = @ + more,
                            !.tasks[t].fresh = @ - more]
       IN  sys' = serializedUpdate(IF found THEN End(s, t, "CANCELED", 0, FALSE) ELSE s, t, o)

-----------------------------------------------------------------------------
Dequeue ==
    /\ sys.queued # <<>>
    /\ LET r == sys.tasks[Head(sys.queued)]
       IN  \E o \in Outcomes(r.kind), offered \in 0..(IF r.kind \in Lookups THEN r.fresh ELSE 0) :
              ~ o.early /\ o.n = 0 /\ dequeue(o, offered)

CallEnds(t) ==
    LET r == sys.tasks[t]
    IN  \E more \in 0..r.fresh, o \in Outcomes(r.kind),
           found \in (IF r.kind = "lookup" THEN BOOLEAN ELSE {FALSE}) : callEnds(t, more, found, o)

BootstrapCallEnds == \E more \in 0..MaxWork, empty \in BOOLEAN : bootstrapCallEnds(more, empty)

Next ==
    \/ \E kind \in UserKinds : userCall(kind)
    \/ userAdd
    \/ serverStop
    \/ cancelAll
    \/ cancelAllDone
    \/ bootstrap
    \/ sendBootstrap
    \/ updateBootstraps
    \/ BootstrapCallEnds
    \/ throws
    \/ \E n \in 0..MaxWork : pingRefresh(n)
    \/ Dequeue
    \/ \E t \in Tasks : CallEnds(t)

\* dequeue is a periodic job, every call ends at the latest by its timeout, and a user's
\* thread that is inside add or bootstrap goes on.
Fairness ==
    /\ WF_sys(Dequeue) /\ \A t \in Tasks : WF_sys(CallEnds(t))
    /\ WF_sys(BootstrapCallEnds)
    /\ WF_sys(userAdd) /\ WF_sys(sendBootstrap)

Spec == Init /\ [][Next]_sys /\ Fairness

-----------------------------------------------------------------------------
\* No slot leaks: until all is canceled, the running list holds exactly the tasks that
\* run and the queue those that wait, each once (task_manager.cc:30-67, task.cc:144-146);
\* at most one task more than MAX_ACTIVE_TASKS runs (task_manager.h:52-54). When the DHT
\* has stopped, nothing that it had taken in before is left in doubt: only a task that
\* came too late is still queued (task_manager.cc:69-88).
ListsExact ==
    /\ sys.phase \in {"running", "joined"} /\ sys.rx # "stuck" =>
         /\ Range(sys.running) = {t \in Tasks : sys.tasks[t].state = "RUNNING"}
         /\ Range(sys.queued) = {t \in Tasks : sys.tasks[t].state = "QUEUED"}
         /\ IsInjective(sys.running \o sys.queued)
         /\ Len(sys.running) <= MAX_ACTIVE_TASKS + 1
    /\ sys.phase \in {"canceling", "stopped"} =>
         \A t \in Tasks : /\ sys.tasks[t].state # "RUNNING"
                          /\ sys.tasks[t].state = "QUEUED" => sys.phase = "stopped"

\* A user hears of an operation exactly once: when its lookup ends, or for a store that
\* got to its announce, when that ends. A store that is canceled before is never
\* reported (dht.cc:601-730).
HandledOnce ==
    \A t \in Tasks :
        LET r == sys.tasks[t]
            announcing == \E a \in Tasks : /\ sys.tasks[a].parent = t
                                           /\ sys.tasks[a].state \notin Terminal
        IN  r.kind \in UserKinds =>
              r.handled = IF \/ r.kind = "lookup" /\ r.state \in Terminal
                             \/ r.kind \in Stores /\ r.state = "FINISHED" /\ ~ announcing
                          THEN 1 ELSE 0

\* Every user operation is reported, and bootstrapping does not stay set, which would
\* keep the node from bootstrapping again: whichever thread took the flag, the last of the
\* requests to end gives it back or leaves that to a lookup that ends (dht.cc:74-112,
\* 133-154). The ways out are a DHT that stops, and a receive thread that waits for the
\* mutex that it holds (task_manager.cc:51, 65) or was ended by an exception.
OperationsEnd ==
    /\ \A t \in Tasks : sys.tasks[t].kind \in UserKinds
                           ~> (sys.tasks[t].handled = 1 \/ ~ Rx)
    /\ sys.bootstrapping ~> (~ sys.bootstrapping \/ ~ Rx)
=============================================================================
