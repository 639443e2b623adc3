---------------------------- MODULE TokenManager ----------------------------
(***************************************************************************)
(* The announce tokens of a node (src/core/token_manager.cc).  A lookup    *)
(* response carries a token; a later store or announce request is served   *)
(* only if it brings the token back.  The token is a hash over the client, *)
(* the target and a timestamp that the manager rotates lazily, whenever a  *)
(* token is made or verified.  A hash is modelled by the tuple it is taken *)
(* over; the session secret is the same for the life of the process.       *)
(*                                                                         *)
(* Time is the wall clock (utils/time.h), assumed never to be set back.    *)
(***************************************************************************)
EXTENDS Naturals

CONSTANTS Clients,        \* node id, address and port of a requester
          Targets,        \* ids that are looked up
          TOKEN_TIMEOUT,  \* rotation interval
          Start,          \* wall clock when the node starts
          MaxTime         \* bound: the clock stops there

ASSUME TokenAssumption ==
    /\ TOKEN_TIMEOUT \in Nat \ {0}
    /\ Start \in Nat
    /\ Start > TOKEN_TIMEOUT     \* the epoch is long ago
    /\ MaxTime \in Nat

VARIABLES now,                \* currentTimeMillis()
          timestamp,
          previousTimestamp,
          issued              \* history: every token handed out, and when

vars == <<now, timestamp, previousTimestamp, issued>>

Token == [client : Clients, target : Targets, ts : Nat]

\* timestamp is 0 at first; previousTimestamp has no initializer.
Init ==
    /\ now = Start
    /\ timestamp = 0
    /\ previousTimestamp \in 0..1
    /\ issued = {}

-----------------------------------------------------------------------------
Expired == now - timestamp > TOKEN_TIMEOUT

MutRotateForgets ==
    IF Expired
    THEN timestamp' = now /\ previousTimestamp' = now
    ELSE UNCHANGED <<timestamp, previousTimestamp>>

updateTokenTimestamps ==
    IF Expired
    THEN timestamp' = now /\ previousTimestamp' = timestamp
    ELSE UNCHANGED <<timestamp, previousTimestamp>>

generateToken(c, t) ==
    /\ updateTokenTimestamps
    /\ issued' = issued \cup
         {[token |-> [client |-> c, target |-> t, ts |-> timestamp'], at |-> now]}
    /\ UNCHANGED now

MutAcceptsAnyTime(c, t, token) ==
    token \in {[client |-> c, target |-> t, ts |-> x] : x \in 0..now}

\* The answer verifyToken gives now: it rotates first, then compares with the
\* token of the current and of the previous timestamp.
Accepted(c, t, token) ==
    LET current  == IF Expired THEN now ELSE timestamp
        previous == IF Expired THEN timestamp ELSE previousTimestamp
    IN  \/ token = [client |-> c, target |-> t, ts |-> current]
        \/ token = [client |-> c, target |-> t, ts |-> previous]

\* The answer is a function of the state (Accepted); the state change is the
\* rotation.
verifyToken == updateTokenTimestamps /\ UNCHANGED <<now, issued>>

Tick == now < MaxTime /\ now' = now + 1 /\ UNCHANGED <<timestamp, previousTimestamp, issued>>

Next ==
    \/ Tick
    \/ \E c \in Clients, t \in Targets : generateToken(c, t)
    \/ verifyToken

Spec == Init /\ [][Next]_vars

-----------------------------------------------------------------------------
\* The type invariant: of the two timestamps and the issued tokens.
TypeOK ==
    /\ now \in Nat
    /\ timestamp \in 0..now
    /\ previousTimestamp \in Nat
    /\ issued \subseteq [token : Token, at : Nat]

\* A token is honoured for at least TOKEN_TIMEOUT after it was handed out, to
\* the client and for the target it was made for, whatever rotations other
\* requests cause in between (token_manager.cc:49-59, 89-100).
RecentTokenAccepted ==
    \A i \in issued :
        now - i.at <= TOKEN_TIMEOUT =>
            Accepted(i.token.client, i.token.target, i.token)

\* Once a token has been rotated out it never becomes valid again: two
\* rotations bury a timestamp for good (token_manager.cc:49-59).
RejectedForGood ==
    [][\A i \in issued :
         ~ Accepted(i.token.client, i.token.target, i.token) =>
         ~ Accepted(i.token.client, i.token.target, i.token)']_vars
=============================================================================
