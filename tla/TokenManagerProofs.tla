------------------------- MODULE TokenManagerProofs -------------------------
(***************************************************************************)
(* Proofs about TokenManager for any clients, targets, rotation interval   *)
(* and length of time.                                                     *)
(***************************************************************************)
EXTENDS TokenManager, TLAPS

\* Where a token that was handed out stands: it has the current timestamp; or
\* the previous one, and was handed out before the last rotation; or it was
\* handed out more than TOKEN_TIMEOUT before the last rotation.
Standing(i) ==
    /\ i.token.ts <= i.at
    /\ i.at <= now
    /\ \/ i.token.ts = timestamp
       \/ i.token.ts = previousTimestamp /\ i.at <= timestamp
       \/ timestamp - i.at > TOKEN_TIMEOUT

IInv == TypeOK /\ \A i \in issued : Standing(i)

\* What one lazy rotation does: it keeps the types, keeps the standing of every
\* token, and leaves a timestamp that is not expired (token_manager.cc:49-59).
LEMMA RotationKeepsStanding ==
    ASSUME IInv, updateTokenTimestamps, now' = now
    PROVE  /\ timestamp' \in 0..now /\ previousTimestamp' \in Nat
           /\ \A i \in issued : Standing(i)'
           /\ ~ Expired'
<1> USE TokenAssumption DEF IInv, TypeOK, Token
<1>1. timestamp' \in 0..now /\ previousTimestamp' \in Nat
  BY DEF updateTokenTimestamps, Expired
<1>2. ~ Expired'
  BY DEF updateTokenTimestamps, Expired
<1>3. ASSUME NEW i \in issued PROVE Standing(i)'
  <2>1. i.at \in Nat /\ i.token.ts \in Nat
    OBVIOUS
  <2>2. CASE Expired
    BY <2>1, <2>2 DEF updateTokenTimestamps, Expired, Standing
  <2>3. CASE ~ Expired
    BY <2>1, <2>3 DEF updateTokenTimestamps, Expired, Standing
  <2> QED BY <2>2, <2>3
<1> QED BY <1>1, <1>2, <1>3

\* The initial states satisfy the inductive invariant.
LEMMA InitIInv == Init => IInv
BY TokenAssumption DEF Init, IInv, TypeOK

\* Every step keeps the inductive invariant.
LEMMA NextIInv == IInv /\ [Next]_vars => IInv'
<1> SUFFICES ASSUME IInv, [Next]_vars PROVE IInv'
  OBVIOUS
<1> USE TokenAssumption
<1>1. CASE Tick
  <2>1. TypeOK'
    BY <1>1 DEF Tick, IInv, TypeOK
  <2>2. ASSUME NEW i \in issued PROVE Standing(i)'
    <3>1. i.at \in Nat /\ i.token.ts \in Nat /\ now \in Nat /\ Standing(i)
      BY DEF IInv, TypeOK, Token
    <3> QED BY <1>1, <3>1 DEF Tick, Standing
  <2> QED BY <1>1, <2>1, <2>2 DEF IInv, Tick
<1>2. ASSUME NEW c \in Clients, NEW t \in Targets, generateToken(c, t)
      PROVE  IInv'
  <2> DEFINE new == [token |-> [client |-> c, target |-> t, ts |-> timestamp'],
                     at |-> now]
  <2>1. updateTokenTimestamps /\ now' = now /\ issued' = issued \cup {new}
    BY <1>2 DEF generateToken
  <2>2. /\ timestamp' \in 0..now /\ previousTimestamp' \in Nat
        /\ \A i \in issued : Standing(i)'
    BY <2>1, RotationKeepsStanding
  <2>3. new \in [token : Token, at : Nat]
    BY <2>2 DEF IInv, TypeOK, Token
  <2>4. TypeOK'
    BY <2>1, <2>2, <2>3 DEF IInv, TypeOK
  <2>5. ASSUME NEW i \in issued' PROVE Standing(i)'
    <3>1. CASE i \in issued
      BY <2>2, <3>1
    <3>2. CASE i.at = now /\ i.token.ts = timestamp'
      BY <2>1, <2>2, <3>2 DEF Standing, IInv, TypeOK
    <3> QED BY <2>1, <3>1, <3>2
  <2> QED BY <2>4, <2>5 DEF IInv
<1>3. CASE verifyToken
  <2>1. updateTokenTimestamps /\ now' = now /\ issued' = issued
    BY <1>3 DEF verifyToken
  <2>2. /\ timestamp' \in 0..now /\ previousTimestamp' \in Nat
        /\ \A i \in issued : Standing(i)'
    BY <2>1, RotationKeepsStanding
  <2> QED BY <2>1, <2>2 DEF IInv, TypeOK
<1>4. CASE UNCHANGED vars
  BY <1>4 DEF vars, IInv, TypeOK, Standing
<1> QED BY <1>1, <1>2, <1>3, <1>4 DEF Next

\* What is known of every issued token implies that it is accepted for as long as promised.
LEMMA StandingSuffices == IInv => RecentTokenAccepted
<1> SUFFICES ASSUME IInv, NEW i \in issued, now - i.at <= TOKEN_TIMEOUT
             PROVE  Accepted(i.token.client, i.token.target, i.token)
  BY DEF RecentTokenAccepted
<1>1. /\ i.at \in Nat /\ now \in Nat /\ timestamp \in 0..now
      /\ previousTimestamp \in Nat /\ i.token \in Token /\ TOKEN_TIMEOUT \in Nat
      /\ Standing(i)
  BY TokenAssumption DEF IInv, TypeOK
<1>2. i.token = [client |-> i.token.client, target |-> i.token.target,
                 ts |-> i.token.ts]
  BY <1>1 DEF Token
<1>3. i.token.ts \in Nat
  BY <1>1 DEF Token
<1>4. IF Expired THEN i.token.ts = timestamp
                 ELSE i.token.ts \in {timestamp, previousTimestamp}
  BY <1>1, <1>3 DEF Standing, Expired
<1> QED BY <1>2, <1>4 DEF Accepted

\* The types of TokenManager hold in every state.
THEOREM TypeCorrect == Spec => []TypeOK
<1>1. IInv => TypeOK
  BY DEF IInv
<1> QED BY <1>1, InitIInv, NextIInv, PTL DEF Spec

\* Every token is honoured for at least TOKEN_TIMEOUT after it was handed out
\* (token_manager.cc:49-59, 84-100), for every number of clients and targets.
THEOREM TokensLastLongEnough == Spec => []RecentTokenAccepted
BY InitIInv, NextIInv, StandingSuffices, PTL DEF Spec

\* No step makes a rejected token valid again (token_manager.cc:49-59).
LEMMA StepNeverRevives ==
    ASSUME IInv, [Next]_vars, NEW i \in issued,
           ~ Accepted(i.token.client, i.token.target, i.token)
    PROVE  ~ Accepted(i.token.client, i.token.target, i.token)'
<1> DEFINE tok == i.token
<1>1. /\ now \in Nat /\ timestamp \in 0..now /\ previousTimestamp \in Nat
      /\ tok \in Token /\ tok.ts \in Nat /\ tok.ts <= now
      /\ TOKEN_TIMEOUT \in Nat \ {0}
  BY TokenAssumption DEF IInv, TypeOK, Standing, Token
<1>2. tok = [client |-> tok.client, target |-> tok.target, ts |-> tok.ts]
  BY <1>1 DEF Token
<1>3. IF Expired THEN tok.ts \notin {now, timestamp}
                 ELSE tok.ts \notin {timestamp, previousTimestamp}
  BY <1>2 DEF Accepted
<1>4. IF Expired' THEN tok.ts \notin {now', timestamp'}
                  ELSE tok.ts \notin {timestamp', previousTimestamp'}
  <2>1. CASE Tick
    BY <2>1, <1>1, <1>3 DEF Tick, Expired
  <2>2. CASE updateTokenTimestamps /\ now' = now
    BY <2>2, <1>1, <1>3 DEF updateTokenTimestamps, Expired
  <2>3. CASE UNCHANGED vars
    BY <2>3, <1>3 DEF vars, Expired
  <2> QED BY <2>1, <2>2, <2>3 DEF Next, generateToken, verifyToken
<1> QED BY <1>4 DEF Accepted

\* A token that has been rotated out stays invalid for ever.
THEOREM RotatedOutForGood == Spec => RejectedForGood
<1>1. IInv /\ [Next]_vars =>
        [\A i \in issued :
           ~ Accepted(i.token.client, i.token.target, i.token) =>
           ~ Accepted(i.token.client, i.token.target, i.token)']_vars
  BY StepNeverRevives
<1> QED BY <1>1, InitIInv, NextIInv, PTL DEF Spec, RejectedForGood
=============================================================================
