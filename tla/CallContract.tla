---------------------------- MODULE CallContract ----------------------------
(***************************************************************************)
(* What the RPC layer promises to those who make calls: a call that was    *)
(* sent ends exactly once, with an answer, an error or a timeout, and it   *)
(* does end, as long as its caller is not gone.  RpcServer is shown to     *)
(* implement this.                                                         *)
(***************************************************************************)
CONSTANTS Calls,
          Callers, Caller,  \* who makes calls, and the caller of each
          Outcomes,         \* how a call may end
          Unsent, Pending   \* neither of them an outcome

VARIABLES status,
          gone              \* the callers whose calls are open for ever

vars == <<status, gone>>

Init == status = [c \in Calls |-> Unsent] /\ gone = {}

Start(c) ==
    /\ status[c] = Unsent /\ Caller[c] \notin gone
    /\ status' = [status EXCEPT ![c] = Pending]
    /\ UNCHANGED gone

\* What the caller does with the outcome may be its end.
End(c) ==
    /\ status[c] = Pending /\ Caller[c] \notin gone
    /\ \E o \in Outcomes : status' = [status EXCEPT ![c] = o]
    /\ gone' \in {gone, gone \cup {Caller[c]}}

Leave(x) ==
    /\ x \notin gone
    /\ gone' = gone \cup {x}
    /\ UNCHANGED status

Next == (\E c \in Calls : Start(c) \/ End(c)) \/ \E x \in Callers : Leave(x)

\* A call ends once, if it ends, and not after its caller is gone.
EndsOnce == Init /\ [][Next]_vars

Spec == EndsOnce /\ \A c \in Calls : WF_vars(End(c))
=============================================================================
