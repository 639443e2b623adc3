------------------------------- MODULE Sockets -------------------------------
(***************************************************************************)
(* The sockets of an RPC server and the thread that receives from them     *)
(* (src/core/rpcserver.cc): binding, the receive loop as far as it touches *)
(* the sockets, rebinding after a connection error, stopping.  File        *)
(* descriptors belong to the process, so the rest of the process may get   *)
(* the number of a socket that was closed.  owner says who has a           *)
(* descriptor open: the server, the rest of the process ("other"), nobody  *)
(* ("free"), or a server that is gone and can no longer close it ("lost"). *)
(***************************************************************************)
EXTENDS Integers, FiniteSets

CONSTANTS Fds,         \* file descriptors
          NoFd,        \* -1
          MaxServers   \* bound: servers one after the other

ASSUME SocketsAssumption == NoFd \notin Fds /\ MaxServers \in Nat

Family == {"v4", "v6"}

VARIABLES
    owner,      \* [Fds -> {"free", "server", "lost", "other"}]
    sock,       \* sock4 and sock6
    ls,         \* ls4 and ls6, the copies of the thread
    state,      \* of the server; "NONE" when there is none
    running,
    thread,     \* where the receive thread is
    joining,    \* stop waits for it
    servers,
    unbound,    \* history: rebinding has failed
    foreign     \* history: a descriptor of the rest of the process was closed

vars == <<owner, sock, ls, state, running, thread, joining, servers, unbound, foreign>>

NoSocks == [f \in Family |-> NoFd]

Init ==
    /\ owner = [fd \in Fds |-> "free"] /\ sock = NoSocks /\ ls = NoSocks
    /\ state = "NONE" /\ running = FALSE /\ thread = "none" /\ joining = FALSE
    /\ servers = 0 /\ unbound = FALSE /\ foreign = FALSE

Free == {fd \in Fds : owner[fd] = "free"}

Lose(o) == [fd \in Fds |-> IF o[fd] = "server" THEN "lost" ELSE o[fd]]

-----------------------------------------------------------------------------
(* The server. *)

\* bindSockets succeeds when each address that is configured can be bound. bindSocket
\* throws a std::runtime_error, which none of the handlers for DhtError catches: so a
\* failure ends the constructor, also that of the attempt with the port of IPv4. What was
\* bound before stays open.
bindSockets(want, failing) ==
    LET bound == IF failing = "none" THEN want ELSE IF failing = "v6" THEN want \ {"v6"} ELSE {}
    IN  \E s \in [Family -> Fds \cup {NoFd}] :
           /\ \A f \in Family : IF f \in bound THEN s[f] \in Free ELSE s[f] = NoFd
           /\ \A f, g \in bound : f # g => s[f] # s[g]
           /\ LET o == [fd \in Fds |-> IF \E f \in bound : s[f] = fd THEN "server" ELSE owner[fd]]
              IN  IF failing = "none" /\ want # {}
                  THEN owner' = o /\ sock' = s /\ state' = "INITIAL"
                  ELSE owner' = Lose(o) /\ UNCHANGED <<sock, state>>

\* want holds the families that are configured, failing is the one that cannot be bound.
construct(want, failing) ==
    /\ state = "NONE" /\ servers < MaxServers
    /\ failing \in want \cup {"none"}
    /\ bindSockets(want, failing)
    /\ servers' = servers + 1
    /\ UNCHANGED <<ls, running, thread, joining, unbound, foreign>>

start ==
    /\ state = "INITIAL"
    /\ running' = TRUE /\ ls' = sock /\ thread' = "loop" /\ state' = "RUNNING"
    /\ UNCHANGED <<owner, sock, joining, servers, unbound, foreign>>

MutStop ==
    /\ state \notin {"NONE", "STOPPED"}
    /\ state' = "STOPPED" /\ joining' = running
    /\ UNCHANGED <<owner, sock, ls, running, thread, servers, unbound, foreign>>

\* Called by the node and by the destructor. A server that was never started has no thread
\* to close its sockets.
stop ==
    /\ state \notin {"NONE", "STOPPED"}
    /\ state' = "STOPPED" /\ running' = FALSE /\ joining' = running
    /\ owner' = IF running THEN owner ELSE Lose(owner)
    /\ UNCHANGED <<sock, ls, thread, servers, unbound, foreign>>

\* rcv_thread.join() returns, or was not called; the node drops the server.
joined ==
    /\ state = "STOPPED" /\ thread \in {"none", "done"}
    /\ state' = "NONE" /\ joining' = FALSE /\ thread' = "none" /\ sock' = NoSocks /\ ls' = NoSocks
    /\ UNCHANGED <<owner, running, servers, unbound, foreign>>

-----------------------------------------------------------------------------
(* The receive thread. *)

\* close(fd), if there is one; the number may have been given to somebody else.
closeFd(fd) ==
    /\ owner' = IF fd = NoFd THEN owner ELSE [owner EXCEPT ![fd] = "free"]
    /\ foreign' = (foreign \/ (fd # NoFd /\ owner[fd] = "other"))

\* The loop ends when running is reset, or by an exception out of a handler or a job.
leaveLoop ==
    /\ thread = "loop" /\ thread' = "close4"
    /\ UNCHANGED <<owner, sock, ls, state, running, joining, servers, unbound, foreign>>

\* recvfrom fails with EPIPE, ENOTCONN or ECONNRESET: the sockets are made anew. Nobody
\* else takes the lock, so try_to_lock succeeds.
connectionError ==
    /\ thread = "loop" /\ running
    /\ thread' = "unbind4"
    /\ UNCHANGED <<owner, sock, ls, state, running, joining, servers, unbound, foreign>>

unbind(f, at, next, after) ==
    /\ thread = at
    /\ IF ls[f] = NoFd
       THEN /\ thread' = after /\ sock' = (IF after = "loop" THEN ls ELSE sock)
            /\ UNCHANGED <<owner, foreign>>
       ELSE closeFd(ls[f]) /\ thread' = next /\ UNCHANGED sock
    /\ UNCHANGED <<ls, state, running, joining, servers, unbound>>

MutBindForgets(f, at, after) ==
    /\ thread = at
    /\ \E fd \in Free :
          /\ owner' = [owner EXCEPT ![fd] = "server"]
          /\ sock' = [sock EXCEPT ![f] = fd]
          /\ thread' = after
    /\ UNCHANGED <<ls, state, running, joining, servers, unbound, foreign>>

\* After the second family the members are set to the new sockets.
bind(f, at, after) ==
    /\ thread = at
    /\ \E fd \in Free :
          /\ owner' = [owner EXCEPT ![fd] = "server"]
          /\ ls' = [ls EXCEPT ![f] = fd]
          /\ sock' = IF after = "loop" THEN [ls EXCEPT ![f] = fd] ELSE sock
          /\ thread' = after
    /\ UNCHANGED <<state, running, joining, servers, unbound, foreign>>

\* bindSocket throws: out of the loop, with the closed descriptor still in ls.
bindFails(at) ==
    /\ thread = at
    /\ thread' = "close4" /\ unbound' = TRUE
    /\ UNCHANGED <<owner, sock, ls, state, running, joining, servers, foreign>>

\* After the loop.
closeSocket(f, at, next) ==
    /\ thread = at /\ thread' = next
    /\ closeFd(ls[f])
    /\ UNCHANGED <<sock, ls, state, running, joining, servers, unbound>>

resetSockets ==
    /\ thread = "reset" /\ thread' = "done"
    /\ sock' = NoSocks
    /\ UNCHANGED <<owner, ls, state, running, joining, servers, unbound, foreign>>

Rebind ==
    \/ unbind("v4", "unbind4", "bind4", "unbind6") \/ bind("v4", "bind4", "unbind6")
    \/ unbind("v6", "unbind6", "bind6", "loop") \/ bind("v6", "bind6", "loop")
    \/ bindFails("bind4") \/ bindFails("bind6")

Close ==
    \/ closeSocket("v4", "close4", "close6") \/ closeSocket("v6", "close6", "reset")
    \/ resetSockets

-----------------------------------------------------------------------------
\* The rest of the process: the database, the addons, the application.
otherOpens(fd) ==
    /\ owner[fd] = "free" /\ owner' = [owner EXCEPT ![fd] = "other"]
    /\ UNCHANGED <<sock, ls, state, running, thread, joining, servers, unbound, foreign>>

otherCloses(fd) ==
    /\ owner[fd] = "other" /\ owner' = [owner EXCEPT ![fd] = "free"]
    /\ UNCHANGED <<sock, ls, state, running, thread, joining, servers, unbound, foreign>>

Next ==
    \/ \E want \in SUBSET Family, failing \in Family \cup {"none"} : construct(want, failing)
    \/ start \/ stop \/ joined
    \/ leaveLoop \/ connectionError \/ Rebind \/ Close
    \/ \E fd \in Fds : otherOpens(fd) \/ otherCloses(fd)

Spec == Init /\ [][Next]_vars

\* The thread is scheduled: select waits 100 ms at most, and running is looked at in each
\* round.
Fairness == WF_vars(Rebind \/ Close) /\ WF_vars(~ running /\ leaveLoop) /\ WF_vars(joined)

-----------------------------------------------------------------------------
(* Properties. *)

\* The server uses its own descriptors and all of them. What it sends on is a socket of
\* its own while the thread is in its loop and not rebinding: sendData reads sock4 and
\* sock6 without a lock (rpcserver.cc:152-155, 340-341). It closes nothing of the rest of
\* the process, whoever gets the numbers of sockets that were closed, unless rebinding
\* has failed, after which the same number is closed once more (rpcserver.cc:312-336,
\* 357-370). And it leaves no socket open behind, however often it had to rebind and
\* however its thread ended.
OwnsItsSockets ==
    /\ state \in {"INITIAL", "RUNNING"} /\ thread \in {"none", "loop"} =>
          \A f \in Family : sock[f] # NoFd => owner[sock[f]] = "server"
    /\ foreign => unbound
    /\ state = "NONE" => \A fd \in Fds : owner[fd] # "server"

\* stop returns: the thread comes to its end wherever stop meets it.
StopReturns == joining ~> ~ joining
=============================================================================
