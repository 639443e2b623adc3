------------------------------ MODULE Launcher ------------------------------
(***************************************************************************)
(* Processes of the launcher (apps/launcher/launcher.cc) on one data       *)
(* directory: the lock file that keeps a second instance out, the key and  *)
(* id files of the node, the file of its routing table, the addon with its *)
(* loop thread, and the way down after a signal.  A process may die at any *)
(* step; the kernel then drops its locks and the files stay as they are.   *)
(* A process is named by the number of its launch, a file at the path of   *)
(* the lock by the process that created it, a key by the process that      *)
(* generated it.                                                           *)
(***************************************************************************)
EXTENDS Integers, FiniteSets

CONSTANTS MaxProcs,    \* bound: launches
          MaxDeaths    \* bound: processes that die at any step

ASSUME LauncherAssumption == {MaxProcs, MaxDeaths} \subseteq Nat

Procs == 1..MaxProcs

NoFile == 0
Empty == -1            \* a file that was opened for writing, and so truncated
Entries == 1           \* a file with a table that has entries

VARIABLES proc,        \* the processes
          disk,        \* the files
          hist         \* history, for the properties

vars == <<proc, disk, hist>>

Init ==
    /\ proc = [p \in Procs |->
                 [pc |-> "none",          \* where the main thread is
                  fd |-> NoFile,          \* fd of the ApplicationLock: the file it has open
                  locked |-> FALSE,       \* flock of that file is held
                  held |-> FALSE,         \* history: it was held
                  key |-> NoFile,         \* keyPair of the node
                  node |-> "Stopped",     \* status of the node
                  rx |-> "none",          \* the receive thread of the node
                  proxy |-> "none",       \* the loop thread of the addon
                  quit |-> FALSE]]        \* quitBarrier is set
    /\ disk = [lock |-> NoFile, key |-> NoFile, id |-> NoFile, table |-> NoFile]
    /\ hist = [deaths |-> 0,
               raced |-> FALSE,           \* a lock file was removed that another process had open
               cut |-> {},                \* files whose last writer died between open and write
               emptied |-> FALSE]         \* the last table saved was empty

At(p, pc) == proc[p].pc = pc
Goto(p, pc) == proc' = [proc EXCEPT ![p].pc = pc]

\* The record of a process that is gone; its key stays, for the properties.
Gone(key) == [pc |-> "gone", fd |-> NoFile, locked |-> FALSE, held |-> FALSE, key |-> key,
              node |-> "Stopped", rx |-> "none", proxy |-> "none", quit |-> FALSE]

\* Processes that passed checkAnotherInstance and have not let go of the lock.
Inside == {p \in Procs : proc[p].locked}

-----------------------------------------------------------------------------
(* The main thread. *)

\* parseArgs and daemonize, whose parent exits before there is a lock; initConfigure; and
\* the first half of acquire, which opens or creates the file of the lock. When the
\* configuration cannot be read or the file not opened nothing has happened to the rest.
launch(p) ==
    /\ At(p, "none") /\ \A q \in 1..(p - 1) : ~ At(q, "none")
    /\ LET file == IF disk.lock = NoFile THEN p ELSE disk.lock
       IN  /\ proc' = [proc EXCEPT ![p].pc = "opened", ![p].fd = file]
           /\ disk' = [disk EXCEPT !.lock = file]
    /\ UNCHANGED hist

MutAcquire(p) ==
    /\ At(p, "opened")
    /\ proc' = IF \E q \in Inside : proc[q].fd = proc[p].fd
               THEN [proc EXCEPT ![p].pc = "exit"]
               ELSE [proc EXCEPT ![p].pc = "locked", ![p].locked = TRUE, ![p].held = TRUE]
    /\ UNCHANGED <<disk, hist>>

\* flock(fd, LOCK_EX | LOCK_NB): refused when another process has the lock of this file.
acquire(p) ==
    /\ At(p, "opened")
    /\ proc' = IF \E q \in Inside : proc[q].fd = proc[p].fd
               THEN [proc EXCEPT ![p].pc = "exit", ![p].fd = NoFile]
               ELSE [proc EXCEPT ![p].pc = "locked", ![p].locked = TRUE, ![p].held = TRUE]
    /\ UNCHANGED <<disk, hist>>

MutNode(p) ==
    /\ At(p, "locked")
    /\ proc' = [proc EXCEPT ![p].pc = "initKey", ![p].key = p]
    /\ UNCHANGED <<disk, hist>>

\* The constructor of the node generates a key when there is no key file,
node(p) ==
    /\ At(p, "locked") /\ disk.key = NoFile
    /\ proc' = [proc EXCEPT ![p].pc = "initKey", ![p].key = p]
    /\ UNCHANGED <<disk, hist>>

\* and otherwise loads the file, which throws when the file is empty.
loadKey(p) ==
    /\ At(p, "locked") /\ disk.key # NoFile
    /\ proc' = IF disk.key = Empty THEN [proc EXCEPT ![p].pc = "exit"]
               ELSE [proc EXCEPT ![p].pc = "keyed", ![p].key = disk.key]
    /\ UNCHANGED <<disk, hist>>

initKey(p) ==
    /\ At(p, "initKey") /\ Goto(p, "writeKey")
    /\ disk' = [disk EXCEPT !.key = Empty]
    /\ UNCHANGED hist

writeKey(p) ==
    /\ At(p, "writeKey") /\ Goto(p, "keyed")
    /\ disk' = [disk EXCEPT !.key = proc[p].key]
    /\ UNCHANGED hist

writeIdFile(p) ==
    /\ At(p, "keyed") /\ Goto(p, "start")
    /\ disk' = [disk EXCEPT !.id = proc[p].key]
    /\ UNCHANGED hist

\* Node::start: from here the receive thread runs. When the sockets or the database
\* cannot be opened main catches the exception; its variable holds no node yet, and stop
\* has nothing to do.
start(p, ok) ==
    /\ At(p, "start")
    /\ proc' = IF ok THEN [proc EXCEPT ![p].pc = "addons", ![p].node = "Running", ![p].rx = "loop"]
               ELSE [proc EXCEPT ![p].pc = "exit"]
    /\ UNCHANGED <<disk, hist>>

\* The end of ActiveProxy::initialize: an exception, of its own or of start, which main
\* catches; or the loop and its thread are made, and main waits for startPromise.
StartProxy(p, ok) ==
    proc' = IF ok THEN [proc EXCEPT ![p].pc = "started", ![p].proxy = "starting"]
            ELSE [proc EXCEPT ![p].pc = "unload"]

\* loadAddons: without an addon that is known main goes on to wait for its signal. The
\* server of the addon is given by its address, or by a peer to be looked up.
loadAddons(p, configured, ok) ==
    /\ At(p, "addons")
    /\ CASE configured = "none" -> Goto(p, "wait")
         [] configured = "peer" -> Goto(p, "find")
         [] configured = "address" -> StartProxy(p, ok)
    /\ UNCHANGED <<disk, hist>>

\* The futures of findPeer and findNode are set: nothing found is an exception again.
found(p, ok) ==
    /\ At(p, "found")
    /\ StartProxy(p, ok)
    /\ UNCHANGED <<disk, hist>>

started(p) ==
    /\ At(p, "started") /\ proc[p].proxy = "running"
    /\ Goto(p, "wait")
    /\ UNCHANGED <<disk, hist>>

\* After an exception, or when the wait for quitBarrier returns.
Stopping(p) == At(p, "unload") \/ (At(p, "wait") /\ proc[p].quit)


\* unloadAddons: an addon that runs is deinitialized, which wakes its loop and joins it.
\* Next is Node::stop: RPCServer::stop resets running and joins the receive thread.
unloadAddons(p) ==
    /\ Stopping(p)
    /\ proc' = IF proc[p].proxy = "running"
               THEN [proc EXCEPT ![p].pc = "join", ![p].proxy = "stopping"]
               ELSE [proc EXCEPT ![p].pc = "joinServer"]
    /\ UNCHANGED <<disk, hist>>

joinProxy(p) ==
    /\ At(p, "join") /\ proc[p].proxy = "done"
    /\ Goto(p, "joinServer")
    /\ UNCHANGED <<disk, hist>>

\* RoutingTable::save, by whatever thread: the file is opened, and so truncated, first;
\* nothing is written when the table has no entry.
OpenTable == disk' = [disk EXCEPT !.table = Empty]

WriteTable(some) ==
    /\ disk' = IF some THEN [disk EXCEPT !.table = Entries] ELSE disk
    /\ hist' = [hist EXCEPT !.emptied = ~some, !.cut = @ \ {"table"}]

\* The receive thread is joined: DHT::stop saves the table; then the storage is closed and the status set.
saveOnStop(p) ==
    /\ At(p, "joinServer") /\ proc[p].rx = "done"
    /\ Goto(p, "writeTable")
    /\ OpenTable
    /\ UNCHANGED hist

stopped(p, some) ==
    /\ At(p, "writeTable")
    /\ proc' = [proc EXCEPT ![p].pc = "exit", ![p].node = "Stopped"]
    /\ WriteTable(some)

\* main returns, or calls exit: the destructor of the lock releases what was acquired,
release(p) ==
    /\ At(p, "exit")
    /\ proc' = IF proc[p].fd = NoFile
               THEN [proc EXCEPT ![p] = Gone(@.key)]
               ELSE [proc EXCEPT ![p].pc = "remove", ![p].locked = FALSE, ![p].fd = NoFile]
    /\ UNCHANGED <<disk, hist>>

\* and then removes the file at the path, whichever file that is by now.
remove(p) ==
    /\ At(p, "remove")
    /\ proc' = [proc EXCEPT ![p] = Gone(@.key)]
    /\ disk' = [disk EXCEPT !.lock = NoFile]
    /\ hist' = [hist EXCEPT !.raced =
                  @ \/ (proc[p].held /\ \E q \in Procs \ {p} : proc[q].fd # NoFile
                                                             /\ proc[q].fd = disk.lock)]

-----------------------------------------------------------------------------
(* The other threads. *)

\* The receive thread: DHT::update saves the table; the loop ends once running is reset.
update(p) ==
    /\ proc[p].rx = "loop" /\ ~ At(p, "joinServer")
    /\ proc' = [proc EXCEPT ![p].rx = "saving"]
    /\ OpenTable
    /\ UNCHANGED hist

updated(p, some) ==
    /\ proc[p].rx = "saving"
    /\ proc' = [proc EXCEPT ![p].rx = "loop"]
    /\ WriteTable(some)

\* The lookups that main waits for run in the receive thread alone: with the default
\* option no answer is taken from the local tables.
lookupEnds(p) ==
    /\ proc[p].rx = "loop" /\ At(p, "find")
    /\ Goto(p, "found")
    /\ UNCHANGED <<disk, hist>>

receiveEnds(p) ==
    /\ proc[p].rx = "loop" /\ At(p, "joinServer")
    /\ proc' = [proc EXCEPT ![p].rx = "done"]
    /\ UNCHANGED <<disk, hist>>

\* An exception of a handler, of a listener of a task or of a job ends the thread as well.
receiveThrows(p) ==
    /\ proc[p].rx = "loop"
    /\ proc' = [proc EXCEPT ![p].rx = "done"]
    /\ UNCHANGED <<disk, hist>>

\* TaskManager::dequeue holds its mutex while it starts a task. A task that ends there and
\* then, and whose listener adds another one, stops the thread for ever.
dequeue(p) ==
    /\ proc[p].rx = "loop"
    /\ proc' = [proc EXCEPT ![p].rx = "stuck"]
    /\ UNCHANGED <<disk, hist>>

\* The loop thread of ActiveProxy: the first iteration keeps startPromise; onStop closes
\* the handles, keeps stopPromise, and so lets uv_run return and the thread end.
onIteration(p) ==
    /\ proc[p].proxy = "starting"
    /\ proc' = [proc EXCEPT ![p].proxy = "running"]
    /\ UNCHANGED <<disk, hist>>

onStop(p) ==
    /\ proc[p].proxy = "stopping"
    /\ proc' = [proc EXCEPT ![p].proxy = "done"]
    /\ UNCHANGED <<disk, hist>>

-----------------------------------------------------------------------------
(* Signals and death. *)

Alive(p) == proc[p].pc \notin {"none", "gone"}

\* The kernel closes the files of a process that dies, and so drops its lock.
Die(p) ==
    /\ proc' = [proc EXCEPT ![p] = Gone(IF @.pc \in {"initKey", "writeKey"} THEN NoFile
                                        ELSE @.key)]
    /\ hist' = [hist EXCEPT !.deaths = @ + 1,
                            !.cut = @ \cup (IF At(p, "writeKey") THEN {"key"} ELSE {})
                                      \cup (IF At(p, "writeTable") \/ proc[p].rx = "saving"
                                            THEN {"table"} ELSE {})]
    /\ UNCHANGED disk

die(p) == Alive(p) /\ hist.deaths < MaxDeaths /\ Die(p)

\* A second signal sets a promise that is set: the exception leaves the handler.
signal(p) ==
    /\ Alive(p)
    /\ IF proc[p].quit THEN hist.deaths < MaxDeaths /\ Die(p)
       ELSE /\ proc' = [proc EXCEPT ![p].quit = TRUE]
            /\ UNCHANGED <<disk, hist>>

-----------------------------------------------------------------------------
main(p) ==
    \/ acquire(p)
    \/ node(p)
    \/ loadKey(p)
    \/ initKey(p)
    \/ writeKey(p)
    \/ writeIdFile(p)
    \/ \E ok \in BOOLEAN : start(p, ok)
    \/ \E configured \in {"none", "peer", "address"}, ok \in BOOLEAN : loadAddons(p, configured, ok)
    \/ \E ok \in BOOLEAN : found(p, ok)
    \/ started(p)
    \/ unloadAddons(p)
    \/ joinProxy(p)
    \/ saveOnStop(p)
    \/ \E some \in BOOLEAN : stopped(p, some)
    \/ release(p)
    \/ remove(p)

receive(p) == receiveEnds(p) \/ \E some \in BOOLEAN : updated(p, some)

loop(p) == onIteration(p) \/ onStop(p)

Next ==
    \E p \in Procs :
        \/ launch(p) \/ main(p)
        \/ update(p) \/ receive(p) \/ lookupEnds(p) \/ receiveThrows(p) \/ dequeue(p)
        \/ loop(p)
        \/ signal(p) \/ die(p)

\* Threads are scheduled, and a lookup ends, by answers or by timeouts, as long as the
\* receive thread runs, which saves the table in between. The loop of the addon announces
\* its peer through the task manager, and so may hang with a thread that is stuck there.
Fairness ==
    \A p \in Procs :
        /\ WF_vars(main(p)) /\ WF_vars(receive(p)) /\ SF_vars(lookupEnds(p))
        /\ WF_vars(proc[p].rx # "stuck" /\ loop(p))

Spec == Init /\ [][Next]_vars /\ Fairness

-----------------------------------------------------------------------------
\* Two processes never have nodes on the same data directory, and within a process the
\* addon's loop, which calls the node, runs inside the life of the node, and the node
\* inside that of the lock (main, checkAnotherInstance, stop, ApplicationLock::release).
\* The one way in for a second process is the gap in release between the unlock and the
\* removal of the file: a process that has opened the old file meanwhile keeps a file
\* that is no longer at the path.
OneInstance ==
    /\ ~hist.raced => Cardinality(Inside) <= 1
    /\ \A p \in Procs :
         /\ proc[p].proxy \in {"starting", "running", "stopping"}
               => proc[p].node = "Running"
         /\ proc[p].node = "Running" => proc[p].locked

\* The identity of the node and its table survive every sequence of launches, failures,
\* signals and deaths (Node::Node, initKey, loadKey, writeIdFile, RoutingTable::save): all
\* instances have one key, which the id file shows; the key file is empty only if a
\* process died between its open and its write; a saved table is lost only to a death
\* within save or to a save of an empty table.
FilesKept ==
    /\ ~hist.raced =>
         /\ \A p, q \in Procs :
              proc[p].node = "Running" /\ proc[q].key # NoFile => proc[p].key = proc[q].key
         /\ \A p \in Procs : proc[p].node = "Running" => disk.id = proc[p].key
    /\ disk.key = Empty => "key" \in hist.cut \/ \E p \in Procs : At(p, "writeKey")
    /\ disk.table = Empty =>
         \/ hist.emptied \/ "table" \in hist.cut
         \/ \E p \in Procs : At(p, "writeTable") \/ proc[p].rx = "saving"

\* The two ways in which the main thread waits for ever: its node's receive thread hangs,
\* in the mutex of the task manager, and is joined; or it is gone, and the futures of
\* ActiveProxy::initialize are never set.
Hung(p) == proc[p].rx = "stuck" \/ (At(p, "find") /\ proc[p].rx = "done")


=============================================================================
