----------------------------- MODULE NodeProofs -----------------------------
(***************************************************************************)
(* Proofs about Node, for any set of operations and each choice of DHTs.   *)
(* The argument counts: an operation is given at most one task on each     *)
(* DHT, and each task that calls completeHandler is one task less, so the  *)
(* handlers that have run and the tasks that are left never number more    *)
(* than the DHTs do; the handler that finds numDHTs reached is the last.   *)
(***************************************************************************)
EXTENDS Node, FiniteSetTheorems, TLAPS

State ==
    [status : {"Stopped", "Running"},
     dhts : SUBSET DHTs,
     live : SUBSET DHTs,
     canceling : SUBSET {"v4", "v6"},
     numDHTs : Nat,
     rx : BOOLEAN,
     threw : BOOLEAN,
     failed : BOOLEAN,
     starts : Nat,
     ops : [Ops -> Op]]

\* No exception is on its way between two steps.
TypeOK == node \in State /\ ~ node.threw

\* start has made the DHTs and the server does not run yet.
Starting(n) ==
    n.status = "Running" /\ n.live = {} /\ n.dhts = DHTs /\ n.canceling = {}

\* The operation r of a node that has the DHTs ds.
GoodOp(r, ds) ==
    /\ r \in Op
    /\ r.kind = "none" => r = NoOp
    /\ r.kind # "none" /\ r.promise = "unset" => r.tasks # {}
    /\ r.tasks \subseteq ds
    /\ r.completion + Cardinality(r.tasks) <= Cardinality(DHTs)
    /\ r.option # "OPTIMISTIC" /\ r.promise = "value" => r.tasks = {}

Good(n) == \A o \in Ops : GoodOp(n.ops[o], n.dhts)

\* num counts every DHT.
Enough(num) == num \in Nat /\ num >= Cardinality(DHTs)

\* Somebody is to blame for an exception that leaves a handler.
Blamed(n) == n.failed \/ \E o \in Ops : n.ops[o].option = "OPTIMISTIC"

\* The DHTs that run have been counted, and one that is there and does not run is
\* canceling for good, unless the node is on its way up.
Fleet(n) ==
    /\ n.live \subseteq n.dhts
    /\ n.live = n.dhts \ n.canceling \/ Starting(n)
    /\ n.live # {} => Enough(n.numDHTs)
    /\ n.starts = 0 => n.numDHTs = 0 /\ n.live = {} /\ n.status = "Stopped"
    /\ n.starts = 1 /\ n.live # {} => n.numDHTs = Cardinality(DHTs)
    /\ n.starts = 1 /\ Starting(n) => n.numDHTs = 0

\* While the node comes up and runs, no task has gone without calling its handler.
Counted(n) ==
    n.rx \/ Starting(n) =>
        \A o \in Ops : n.ops[o].tasks # {} =>
            n.ops[o].completion + Cardinality(n.ops[o].tasks) = Cardinality(DHTs)

\* A node that has stopped has no DHTs; one that receives has them all.
Matching(n) ==
    /\ n.status = "Stopped" => n.dhts = {} /\ ~ n.rx
    /\ n.rx => n.live = DHTs /\ n.canceling = {}

\* The receive thread lives as long as there is nobody to blame.
Alive(n) == ~ Blamed(n) /\ n.live # {} => n.rx

\* The inductive invariant.
IInv ==
    /\ TypeOK
    /\ Good(node)
    /\ Fleet(node)
    /\ Counted(node)
    /\ Matching(node)
    /\ Alive(node)

-----------------------------------------------------------------------------
(* One operation. *)

\* The tasks of an operation are counted: each one that goes makes them one less.
LEMMA Counting ==
    ASSUME NEW S \in SUBSET DHTs
    PROVE  /\ Cardinality(S) \in Nat /\ Cardinality(DHTs) \in Nat \ {0}
           /\ Cardinality(S) <= Cardinality(DHTs)
           /\ Cardinality(S) = 0 <=> S = {}
           /\ \A f \in S : Cardinality(S \ {f}) = Cardinality(S) - 1
<1>1. IsFiniteSet({"v4", "v6"})
  <2>1. {"v4", "v6"} = {"v4"} \cup {"v6"}
    BY Zenon
  <2>2. IsFiniteSet({"v4"})
    BY FS_Singleton, Zenon
  <2>3. IsFiniteSet({"v4"} \cup {"v6"})
    BY <2>2, FS_AddElement, Zenon
  <2> QED BY <2>1, <2>3, Zenon
<1>2. DHTs \subseteq {"v4", "v6"} /\ DHTs # {}
  BY NodeAssumption, Zenon
<1>3. IsFiniteSet(DHTs)
  BY <1>1, <1>2, FS_Subset, Zenon
<1>4. IsFiniteSet(S) /\ Cardinality(S) <= Cardinality(DHTs)
  BY <1>3, FS_Subset, Zenon
<1>5. Cardinality(S) \in Nat /\ Cardinality(DHTs) \in Nat
  BY <1>3, <1>4, FS_CardinalityType, Zenon
<1>6. (Cardinality(S) = 0 <=> S = {}) /\ Cardinality(DHTs) # 0
  BY <1>2, <1>3, <1>4, FS_EmptySet, Zenon
<1>7. \A f \in S : Cardinality(S \ {f}) = Cardinality(S) - 1
  BY <1>4, FS_RemoveElement, Zenon
<1> QED BY <1>4, <1>5, <1>6, <1>7, Zenon

\* What LoseTask leaves of an operation: its promise is broken with its last task.
LEMMA Losing ==
    ASSUME NEW ds \in SUBSET DHTs, NEW r, GoodOp(r, ds), NEW f \in r.tasks
    PROVE  /\ GoodOp(LoseTask(r, f), ds)
           /\ LoseTask(r, f).option = r.option
           /\ LoseTask(r, f).tasks = r.tasks \ {f}
<1> DEFINE l == LoseTask(r, f)
<1>1. r \in Op /\ r.kind # "none"
  BY DEF GoodOp, NoOp
<1>2. /\ r.tasks \in SUBSET DHTs /\ r.announcing \in SUBSET DHTs /\ r.completion \in Nat
      /\ r.promise \in {"unset", "value", "broken"}
  BY <1>1, Zenon DEF Op
<1>3. /\ l.kind = r.kind /\ l.option = r.option /\ l.tasks = r.tasks \ {f}
      /\ l.completion = r.completion
      /\ l.promise = IF r.tasks \ {f} = {} /\ r.promise = "unset" THEN "broken" ELSE r.promise
  BY <1>1, Zenon DEF LoseTask, Op
<1>4. l \in Op
  BY <1>1, <1>2, Zenon DEF LoseTask, Op
<1>5. Cardinality(r.tasks \ {f}) = Cardinality(r.tasks) - 1 /\ Cardinality(r.tasks) \in Nat
      /\ Cardinality(DHTs) \in Nat
  BY <1>2, Counting, Zenon
<1>6. l.completion + Cardinality(l.tasks) <= Cardinality(DHTs)
  <2>1. r.completion + Cardinality(r.tasks) <= Cardinality(DHTs)
    BY Zenon DEF GoodOp
  <2> QED BY <1>2, <1>3, <1>5, <2>1
<1>7. l.kind # "none" /\ (l.promise = "unset" => l.tasks # {})
  BY <1>1, <1>3, Zenon
<1>8. l.option # "OPTIMISTIC" /\ l.promise = "value" => l.tasks = {}
  BY <1>2, <1>3, Zenon DEF GoodOp
<1>9. l.tasks \subseteq ds
  BY <1>3, Zenon DEF GoodOp
<1> HIDE DEF l
<1>10. GoodOp(l, ds)
  BY <1>4, <1>6, <1>7, <1>8, <1>9, Zenon DEF GoodOp
<1> QED BY <1>3, <1>10, Zenon DEF l

\* What completeHandler leaves of an operation whose DHTs are all counted: a promise that
\* is kept for all of them is set by the last handler.
LEMMA Handling ==
    ASSUME NEW ds \in SUBSET DHTs, NEW r, GoodOp(r, ds), NEW f \in r.tasks,
           NEW num, Enough(num), NEW out
    PROVE  /\ GoodOp(completeHandler(r, f, num, out), ds)
           /\ completeHandler(r, f, num, out).option = r.option
           /\ completeHandler(r, f, num, out).tasks = r.tasks \ {f}
<1> DEFINE sets == Ready(r, num, out) /\ ~ Throws(r, num, out)
           h == completeHandler(r, f, num, out)
           p == [r EXCEPT !.completion = @ + 1,
                          !.results = (@ \/ out = "found") /\ ~ sets,
                          !.promise = IF sets THEN "value" ELSE @]
<1>0. h = LoseTask(p, f)
  BY Zenon DEF completeHandler
<1> HIDE DEF h
<1>1. r \in Op /\ r.kind # "none"
  BY DEF GoodOp, NoOp
<1>2. /\ r.tasks \in SUBSET DHTs /\ r.announcing \in SUBSET DHTs /\ r.completion \in Nat
      /\ r.promise \in {"unset", "value", "broken"}
      /\ r.kind \in Lookups \cup Stores \cup {"none"} /\ r.option \in Options
  BY <1>1, Zenon DEF Op
<1>4. /\ h.kind = r.kind /\ h.option = r.option /\ h.tasks = r.tasks \ {f}
      /\ h.completion = r.completion + 1
      /\ h.announcing = r.announcing \ {f}
      /\ h.results = ((r.results \/ out = "found") /\ ~ sets)
      /\ h.promise = IF r.tasks \ {f} = {} /\ (IF sets THEN "value" ELSE r.promise) = "unset"
                     THEN "broken" ELSE (IF sets THEN "value" ELSE r.promise)
  <2> HIDE DEF sets
  <2> QED BY <1>0, <1>1, Zenon DEF LoseTask, Op
<1>5. h \in Op
  <2> DEFINE value == IF sets THEN "value" ELSE r.promise
             found == (r.results \/ out = "found") /\ ~ sets
  <2>1. value \in {"unset", "value", "broken"}
    BY <1>2, Zenon
  <2>2. p = [r EXCEPT !.completion = @ + 1, !.results = found, !.promise = value]
    BY Zenon
  <2>3. found \in BOOLEAN
    BY Zenon
  <2> HIDE DEF value, found, p
  <2>4. p \in Op
    <3>1. \A c \in Nat, b \in BOOLEAN, v \in {"unset", "value", "broken"} :
             [r EXCEPT !.completion = c, !.results = b, !.promise = v] \in Op
      BY <1>1, Zenon DEF Op
    <3>2. r.completion + 1 \in Nat
      BY <1>2
    <3> QED BY <2>1, <2>2, <2>3, <3>1, <3>2, Zenon
  <2>5. p.tasks \in SUBSET DHTs /\ p.announcing \in SUBSET DHTs
        /\ p.promise \in {"unset", "value", "broken"}
    BY <2>4, Zenon DEF Op
  <2> QED BY <1>0, <2>4, <2>5, Zenon DEF LoseTask, Op
<1>6. /\ Cardinality(r.tasks \ {f}) = Cardinality(r.tasks) - 1 /\ Cardinality(r.tasks) \in Nat
      /\ Cardinality(DHTs) \in Nat
      /\ Cardinality(r.tasks \ {f}) = 0 => r.tasks \ {f} = {}
  <2>1. r.tasks \ {f} \in SUBSET DHTs
    BY <1>2, Zenon
  <2> QED BY <1>2, <2>1, Counting, Zenon
<1>7. r.completion + Cardinality(r.tasks) <= Cardinality(DHTs)
  BY Zenon DEF GoodOp
<1>8. h.completion + Cardinality(h.tasks) <= Cardinality(DHTs)
  <2> HIDE DEF sets
  <2> QED BY <1>2, <1>4, <1>6, <1>7
<1>9. sets /\ r.option # "OPTIMISTIC" => r.tasks \ {f} = {}
  <2> SUFFICES ASSUME sets, r.option # "OPTIMISTIC" PROVE r.tasks \ {f} = {}
    BY Zenon
  <2>1. r.completion + 1 >= num
    BY Zenon DEF Ready
  <2> HIDE DEF sets
  <2>2. Cardinality(r.tasks) <= 1
    BY <1>2, <1>6, <1>7, <2>1 DEF Enough
  <2>3. Cardinality(r.tasks) # 0
    BY <1>2, Counting, Zenon
  <2> QED BY <1>6, <2>2, <2>3
<1>10. r.option # "OPTIMISTIC" /\ r.promise = "value" => r.tasks = {}
  BY Zenon DEF GoodOp
<1> HIDE DEF sets
<1>11. h.option # "OPTIMISTIC" /\ h.promise = "value" => h.tasks = {}
  <2>1. CASE sets
    BY <1>4, <1>9, <2>1, Zenon
  <2>2. CASE ~ sets
    BY <1>4, <1>10, <2>2, Zenon
  <2> QED BY <2>1, <2>2, Zenon
<1>12. h.kind # "none" /\ (h.promise = "unset" => h.tasks # {})
  BY <1>1, <1>4, Zenon
<1>13. h.tasks \subseteq ds
  BY <1>4, Zenon DEF GoodOp
<1>14. GoodOp(h, ds)
  BY <1>5, <1>8, <1>11, <1>12, <1>13, Zenon DEF GoodOp
<1> QED BY <1>4, <1>14, Zenon DEF h

\* completeHandler counts.
LEMMA HandlerCounts ==
    ASSUME NEW r \in Op, NEW f, NEW num, NEW out
    PROVE  completeHandler(r, f, num, out).completion = r.completion + 1
BY Zenon DEF completeHandler, LoseTask, Op

\* The last handler sets the promise, if it is not set, when all tasks have called it and
\* numDHTs counts no others.
LEMMA Answering ==
    ASSUME NEW ds \in SUBSET DHTs, NEW r, GoodOp(r, ds), NEW f \in r.tasks, NEW out,
           r.completion + Cardinality(r.tasks) = Cardinality(DHTs),
           r.promise = "unset", ~ Throws(r, Cardinality(DHTs), out)
    PROVE  completeHandler(r, f, Cardinality(DHTs), out).promise # "broken"
<1> DEFINE num == Cardinality(DHTs)
           sets == Ready(r, num, out) /\ ~ Throws(r, num, out)
           found == (r.results \/ out = "found") /\ ~ sets
           value == IF sets THEN "value" ELSE r.promise
           p == [r EXCEPT !.completion = @ + 1, !.results = found, !.promise = value]
           h == completeHandler(r, f, num, out)
<1>1. r \in Op /\ r.tasks \in SUBSET DHTs /\ r.completion \in Nat
  BY Zenon DEF GoodOp, Op
<1>2. h = LoseTask(p, f)
  BY Zenon DEF completeHandler
<1>3. value = IF sets THEN "value" ELSE "unset"
  BY Zenon
<1> HIDE DEF found, value, h
<1>4. h.promise = IF r.tasks \ {f} = {} /\ value = "unset" THEN "broken" ELSE value
  BY ONLY <1>1, <1>2, Zenon DEF LoseTask, Op
<1>5. r.tasks \ {f} = {} => sets
  <2> SUFFICES ASSUME r.tasks \ {f} = {} PROVE Ready(r, num, out)
    BY Zenon
  <2>1. Cardinality(r.tasks \ {f}) = Cardinality(r.tasks) - 1 /\ Cardinality(r.tasks) \in Nat
    BY <1>1, Counting, Zenon
  <2>2. {} \in SUBSET DHTs
    BY Zenon
  <2>3. Cardinality({}) = 0
    BY <2>2, Counting, Zenon
  <2>4. Cardinality(r.tasks) = 1
    BY <2>1, <2>3
  <2>5. Cardinality(DHTs) \in Nat /\ r.completion + 1 = Cardinality(DHTs)
    BY <1>1, <2>4, Counting, Zenon
  <2>6. r.completion + 1 >= Cardinality(DHTs)
    BY ONLY <1>1, <2>5
  <2> QED BY <2>6, Zenon DEF Ready
<1> QED
  <2> HIDE DEF sets
  <2>1. h.promise # "broken"
    BY ONLY <1>3, <1>4, <1>5, Zenon
  <2> QED BY <2>1, Zenon DEF h

\* An operation that has no task on f is as good without f.
LEMMA Leaving ==
    ASSUME NEW ds, NEW r, GoodOp(r, ds), NEW f, f \notin r.tasks
    PROVE  GoodOp(r, ds \ {f})
BY Zenon DEF GoodOp

-----------------------------------------------------------------------------
(* stop. *)

\* x is n after a stop has gone on with its operations.
Follows(x, n) ==
    /\ x \in State /\ Good(x)
    /\ x.status = n.status /\ x.rx = n.rx /\ x.starts = n.starts /\ x.numDHTs = n.numDHTs
    /\ x.live = n.live
    /\ Blamed(n) => Blamed(x)

\* cancelAll, in any order and up to any exception: what is left of the operations is good,
\* and an exception has somebody to blame.
LEMMA Canceling ==
    ASSUME NEW n \in State, Good(n), ~ n.threw, Enough(n.numDHTs),
           NEW f \in {"v4", "v6"}, NEW outs, NEW x \in cancelAll(n, f, outs)
    PROVE  /\ Follows(x, n) /\ x.dhts = n.dhts
           /\ \/ ~ x.threw /\ x.canceling = n.canceling
              \/ x.threw /\ x.canceling = n.canceling \cup {f} /\ Blamed(x)
<1> DEFINE throwing == {o \in Ops : ~ Silent(n.ops[o], f) /\ Throws(n.ops[o], n.numDHTs, outs[o])}
           Cancel(S) == [o \in Ops |-> IF o \in S /\ f \in n.ops[o].tasks
                                       THEN CancelTask(n.ops[o], f, n.numDHTs, outs[o])
                                       ELSE n.ops[o]]
<1>1. /\ n.dhts \in SUBSET DHTs /\ n.canceling \in SUBSET {"v4", "v6"} /\ n.numDHTs \in Nat
      /\ n.failed \in BOOLEAN /\ n.ops \in [Ops -> Op] /\ n.threw = FALSE
  BY Zenon DEF State
<1>2. ASSUME NEW S
      PROVE  /\ \A o \in Ops : /\ GoodOp(Cancel(S)[o], n.dhts)
                               /\ Cancel(S)[o].option = n.ops[o].option
             /\ Cancel(S) \in [Ops -> Op]
  <2>1. ASSUME NEW o \in Ops
        PROVE  GoodOp(Cancel(S)[o], n.dhts) /\ Cancel(S)[o].option = n.ops[o].option
    <3>1. GoodOp(n.ops[o], n.dhts)
      BY Zenon DEF Good
    <3>2. CASE o \in S /\ f \in n.ops[o].tasks
      <4>1. Cancel(S)[o] = CancelTask(n.ops[o], f, n.numDHTs, outs[o])
        BY <3>2, Zenon
      <4>2. CASE Silent(n.ops[o], f)
        <5>1. Cancel(S)[o] = LoseTask(n.ops[o], f)
          BY <4>1, <4>2, Zenon DEF CancelTask
        <5>2. GoodOp(LoseTask(n.ops[o], f), n.dhts)
              /\ LoseTask(n.ops[o], f).option = n.ops[o].option
          BY <1>1, <3>1, <3>2, Losing, Zenon
        <5> QED BY <5>1, <5>2, Zenon
      <4>3. CASE ~ Silent(n.ops[o], f)
        <5>1. Cancel(S)[o] = completeHandler(n.ops[o], f, n.numDHTs, outs[o])
          BY <4>1, <4>3, Zenon DEF CancelTask
        <5>2. Enough(n.numDHTs)
          BY Zenon
        <5>3. n.dhts \in SUBSET DHTs /\ f \in n.ops[o].tasks
          BY <1>1, <3>2, Zenon
        <5>4. GoodOp(completeHandler(n.ops[o], f, n.numDHTs, outs[o]), n.dhts)
              /\ completeHandler(n.ops[o], f, n.numDHTs, outs[o]).option = n.ops[o].option
          <6> DEFINE ds == n.dhts
                     r == n.ops[o]
                     num == n.numDHTs
                     out == outs[o]
          <6>1. ds \in SUBSET DHTs /\ GoodOp(r, ds) /\ f \in r.tasks /\ Enough(num)
            BY <3>1, <5>2, <5>3, Zenon
          <6> HIDE DEF ds, r, num, out
          <6>2. GoodOp(completeHandler(r, f, num, out), ds)
                /\ completeHandler(r, f, num, out).option = r.option
            BY ONLY <6>1, Handling
          <6> QED BY <6>2, Zenon DEF ds, r, num, out
        <5> QED BY <5>1, <5>4, Zenon
      <4> QED BY <4>2, <4>3, Zenon
    <3>3. CASE ~ (o \in S /\ f \in n.ops[o].tasks)
      BY <3>1, <3>3, Zenon
    <3> QED BY <3>2, <3>3, Zenon
  <2>2. \A o \in Ops : Cancel(S)[o] \in Op
    BY <2>1, Zenon DEF GoodOp
  <2> DEFINE ops == Cancel(S)
  <2>3. ops = [o \in Ops |-> ops[o]]
    BY Zenon
  <2> HIDE DEF ops
  <2>4. ops \in [Ops -> Op]
    <3>1. \A o \in Ops : ops[o] \in Op
      BY <2>2, Zenon DEF ops
    <3> QED BY <2>3, <3>1, Zenon
  <2> QED BY <2>1, <2>4, Zenon DEF ops
<1>3. CASE throwing = {}
  <2>1. x = [n EXCEPT !.ops = Cancel(Ops)]
    BY <1>3, Zenon DEF cancelAll
  <2> DEFINE ops == Cancel(Ops)
  <2>2. /\ ops \in [Ops -> Op] /\ x = [n EXCEPT !.ops = ops]
        /\ \A o \in Ops : GoodOp(ops[o], n.dhts) /\ ops[o].option = n.ops[o].option
    BY <1>2, <2>1, Zenon
  <2> HIDE DEF ops
  <2>3. x \in State
    BY <2>2, Zenon DEF State
  <2>4. /\ x.status = n.status /\ x.rx = n.rx /\ x.starts = n.starts /\ x.numDHTs = n.numDHTs
        /\ x.live = n.live /\ x.dhts = n.dhts /\ x.threw = n.threw
        /\ x.canceling = n.canceling /\ x.failed = n.failed /\ x.ops = ops
    BY <2>2, Zenon DEF State
  <2>5. Good(x) /\ (Blamed(n) => Blamed(x))
    BY <2>2, <2>4, Zenon DEF Good, Blamed
  <2> QED BY <2>3, <2>4, <2>5, Zenon DEF Follows
<1>4. CASE throwing # {}
  <2>1. PICK o \in throwing : \E S \in SUBSET (Ops \ throwing) :
           x = [n EXCEPT !.ops = Cancel(S \cup {o}),
                         !.threw = TRUE,
                         !.failed = @ \/ outs[o] = "error",
                         !.canceling = @ \cup {f}]
    <3> DEFINE Thrown(o) == {[n EXCEPT !.ops = Cancel(S \cup {o}),
                                       !.threw = TRUE,
                                       !.failed = @ \/ outs[o] = "error",
                                       !.canceling = @ \cup {f}] : S \in SUBSET (Ops \ throwing)}
    <3>1. x \in UNION {Thrown(o) : o \in throwing}
      BY <1>4, Zenon DEF cancelAll
    <3>2. PICK o \in throwing : x \in Thrown(o)
      <4> HIDE DEF throwing, Thrown
      <4> QED BY <3>1, Zenon
    <3> HIDE DEF throwing, Cancel
    <3> QED BY <3>2, Zenon
  <2>2. PICK S \in SUBSET (Ops \ throwing) :
           x = [n EXCEPT !.ops = Cancel(S \cup {o}),
                         !.threw = TRUE,
                         !.failed = @ \/ outs[o] = "error",
                         !.canceling = @ \cup {f}]
    BY <2>1, Zenon
  <2> DEFINE failed == n.failed \/ outs[o] = "error"
             ops == Cancel(S \cup {o})
  <2>3. failed \in BOOLEAN /\ (n.failed => failed) /\ (outs[o] = "error" => failed)
    BY Zenon
  <2>4. o \in Ops /\ ~ Silent(n.ops[o], f) /\ Throws(n.ops[o], n.numDHTs, outs[o])
    BY Zenon
  <2>5. /\ ops \in [Ops -> Op]
        /\ \A p \in Ops : GoodOp(ops[p], n.dhts) /\ ops[p].option = n.ops[p].option
    BY <1>2, Zenon
  <2>6. x = [n EXCEPT !.ops = ops, !.threw = TRUE, !.failed = failed,
                      !.canceling = n.canceling \cup {f}]
    <3> HIDE DEF Cancel, throwing
    <3> QED BY <2>2, Zenon DEF State
  <2> HIDE DEF failed, ops, throwing, Cancel
  <2>7. x \in State
    BY <1>1, <2>3, <2>5, <2>6, Zenon DEF State
  <2>8. /\ x.status = n.status /\ x.rx = n.rx /\ x.starts = n.starts /\ x.numDHTs = n.numDHTs
        /\ x.live = n.live /\ x.dhts = n.dhts /\ x.threw = TRUE
        /\ x.canceling = n.canceling \cup {f} /\ x.failed = failed /\ x.ops = ops
    BY <2>6, Zenon DEF State
  <2>9. Good(x) /\ (Blamed(n) => Blamed(x))
    BY <2>3, <2>5, <2>8, Zenon DEF Good, Blamed
  <2>10. Blamed(x)
    <3>1. CASE outs[o] = "error"
      BY <2>3, <2>8, <3>1, Zenon DEF Blamed
    <3>2. CASE outs[o] # "error"
      <4>1. n.ops[o].promise = "value" /\ f \in n.ops[o].tasks
        BY <2>4, <3>2, Zenon DEF Throws, Silent
      <4>2. n.ops[o].option = "OPTIMISTIC"
        BY <2>4, <4>1, Zenon DEF Good, GoodOp
      <4> QED BY <2>4, <2>9, <4>2, Zenon DEF Blamed
    <3> QED BY <3>1, <3>2, Zenon
  <2> QED BY <2>7, <2>8, <2>9, <2>10, Zenon DEF Follows
<1> QED BY <1>3, <1>4, Zenon

\* What holds of the node between the steps of a stop. An exception leaves the DHTs that
\* have not been stopped running.
Stopping(n) ==
    /\ n \in State /\ Good(n)
    /\ n.status = "Running" /\ ~ n.rx /\ n.starts # 0
    /\ n.live \subseteq n.dhts
    /\ n.live = n.dhts \ n.canceling \/ (n.live = {} /\ ~ n.threw)
    /\ n.live # {} => Enough(n.numDHTs)
    /\ n.starts = 1 /\ n.live # {} => n.numDHTs = Cardinality(DHTs)
    /\ n.threw => Blamed(n)

\* n after the DHT f has been destroyed, with the tasks it still had.
Without(n, f) ==
    [n EXCEPT !.dhts = @ \ {f},
              !.ops = [o \in Ops |-> IF f \in n.ops[o].tasks THEN LoseTask(n.ops[o], f)
                                     ELSE n.ops[o]]]

\* The reset of the pointer to f after all its tasks have been canceled.
LEMMA Resetting ==
    ASSUME NEW n \in State, Good(n), NEW f
    PROVE  /\ Follows(Without(n, f), n)
           /\ Without(n, f).dhts = n.dhts \ {f}
           /\ Without(n, f).threw = n.threw
           /\ Without(n, f).canceling = n.canceling
<1> DEFINE ops == [o \in Ops |-> IF f \in n.ops[o].tasks THEN LoseTask(n.ops[o], f)
                                 ELSE n.ops[o]]
           x == Without(n, f)
<1>0. x = [n EXCEPT !.dhts = @ \ {f}, !.ops = ops]
  BY Zenon DEF Without
<1>1. n.dhts \in SUBSET DHTs /\ n.ops \in [Ops -> Op]
  BY Zenon DEF State
<1>2. ASSUME NEW o \in Ops
      PROVE  GoodOp(ops[o], n.dhts \ {f}) /\ ops[o].option = n.ops[o].option
  <2>1. GoodOp(n.ops[o], n.dhts)
    BY Zenon DEF Good
  <2>2. CASE f \in n.ops[o].tasks
    <3>1. ops[o] = LoseTask(n.ops[o], f)
      BY <2>2, Zenon
    <3>2. /\ GoodOp(LoseTask(n.ops[o], f), n.dhts)
          /\ LoseTask(n.ops[o], f).option = n.ops[o].option
          /\ LoseTask(n.ops[o], f).tasks = n.ops[o].tasks \ {f}
      <4> DEFINE r == n.ops[o]
                 ds == n.dhts
      <4>1. ds \in SUBSET DHTs /\ f \in r.tasks /\ GoodOp(r, ds)
        BY <1>1, <2>1, <2>2, Zenon
      <4> HIDE DEF r, ds
      <4>2. GoodOp(LoseTask(r, f), ds)
        BY ONLY <4>1, Losing, Zenon
      <4>3. LoseTask(r, f).option = r.option /\ LoseTask(r, f).tasks = r.tasks \ {f}
        BY ONLY <4>1, Losing
      <4> QED BY ONLY <4>2, <4>3, Zenon DEF r, ds
    <3>3. f \notin LoseTask(n.ops[o], f).tasks
      BY ONLY <3>2, Zenon
    <3>4. GoodOp(LoseTask(n.ops[o], f), n.dhts \ {f})
      BY ONLY <3>2, <3>3, Leaving, Zenon
    <3> QED BY ONLY <3>1, <3>2, <3>4, Zenon
  <2>3. CASE f \notin n.ops[o].tasks
    <3>1. ops[o] = n.ops[o]
      BY <2>3, Zenon
    <3>2. GoodOp(n.ops[o], n.dhts \ {f})
      BY ONLY <2>1, <2>3, Leaving, Zenon
    <3> QED BY ONLY <3>1, <3>2, Zenon
  <2> QED BY <2>2, <2>3, Zenon
<1>3. ops \in [Ops -> Op]
  <2>1. \A o \in Ops : ops[o] \in Op
    BY <1>2, Zenon DEF GoodOp
  <2>2. ops = [o \in Ops |-> ops[o]]
    BY Zenon
  <2> HIDE DEF ops
  <2> QED BY ONLY <2>1, <2>2, Zenon
<1> HIDE DEF ops, x
<1>4. x \in State
  BY ONLY <1>0, <1>1, <1>3, n \in State, Zenon DEF State
<1>5. /\ x.status = n.status /\ x.rx = n.rx /\ x.starts = n.starts /\ x.numDHTs = n.numDHTs
      /\ x.live = n.live /\ x.dhts = n.dhts \ {f} /\ x.threw = n.threw
      /\ x.canceling = n.canceling /\ x.failed = n.failed /\ x.ops = ops
  BY ONLY <1>0, n \in State, Zenon DEF State
<1>6. Good(x) /\ (Blamed(n) => Blamed(x))
  BY ONLY <1>2, <1>5, Zenon DEF Good, Blamed
<1> QED BY ONLY <1>4, <1>5, <1>6, Zenon DEF Follows, x

\* DHT::stop and the reset of its pointer: f is gone, or an exception has left.
LEMMA StopStep ==
    ASSUME NEW n, Stopping(n), NEW f \in {"v4", "v6"}, NEW outs, NEW x \in stopDHT(n, f, outs)
    PROVE  Stopping(x) /\ x.dhts \subseteq n.dhts /\ (x.threw \/ f \notin x.dhts)
<1>1. CASE n.threw \/ f \notin n.dhts
  <2>1. x = n
    BY <1>1, Zenon DEF stopDHT
  <2> QED BY <1>1, <2>1, Zenon
<1>2. CASE ~ n.threw /\ f \in n.dhts
  <2> DEFINE m == [n EXCEPT !.live = @ \ {f}]
             canceled == IF f \in n.live THEN cancelAll(m, f, outs) ELSE {n}
             Reset(y) == IF y.threw THEN y ELSE Without(y, f)
  <2>1. PICK y \in canceled : x = Reset(y)
    BY <1>2, Zenon DEF stopDHT, Without
  <2>2. n \in State /\ Good(n) /\ n.live \in SUBSET DHTs
    BY Zenon DEF Stopping, State
  <2>3. /\ y \in State /\ Good(y)
        /\ y.status = n.status /\ y.rx = n.rx /\ y.starts = n.starts /\ y.numDHTs = n.numDHTs
        /\ y.live = n.live \ {f} /\ y.dhts = n.dhts
        /\ \/ ~ y.threw /\ y.canceling = n.canceling
           \/ y.threw /\ y.canceling = n.canceling \cup {f} /\ Blamed(y) /\ f \in n.live
    <3>1. CASE f \in n.live
      <4>1. y \in cancelAll(m, f, outs)
        BY <3>1, Zenon
      <4>2. m \in State
        BY ONLY <2>2, Zenon DEF State
      <4>3. /\ m.status = n.status /\ m.rx = n.rx /\ m.starts = n.starts
            /\ m.numDHTs = n.numDHTs /\ m.live = n.live \ {f} /\ m.dhts = n.dhts
            /\ m.threw = n.threw /\ m.canceling = n.canceling /\ m.ops = n.ops
        BY ONLY <2>2, Zenon DEF State
      <4> HIDE DEF m
      <4>4. Good(m)
        BY <2>2, <4>3, Zenon DEF Good
      <4>5. Enough(m.numDHTs)
        BY <3>1, <4>3, Zenon DEF Stopping
      <4>6. ~ m.threw
        BY <1>2, <4>3, Zenon
      <4>7. /\ Follows(y, m) /\ y.dhts = m.dhts
            /\ \/ ~ y.threw /\ y.canceling = m.canceling
               \/ y.threw /\ y.canceling = m.canceling \cup {f} /\ Blamed(y)
        BY ONLY <4>1, <4>2, <4>4, <4>5, <4>6, f \in {"v4", "v6"}, Canceling
      <4> QED BY ONLY <3>1, <4>3, <4>7, Zenon DEF Follows
    <3>2. CASE f \notin n.live
      <4>1. y = n
        BY <3>2, Zenon
      <4> QED BY ONLY <1>2, <2>2, <3>2, <4>1, Zenon
    <3> QED BY ONLY <3>1, <3>2, Zenon
  <2>4. /\ n.status = "Running" /\ ~ n.rx /\ n.starts # 0
        /\ n.live \subseteq n.dhts
        /\ n.live = n.dhts \ n.canceling \/ n.live = {}
        /\ n.live # {} => Enough(n.numDHTs)
        /\ n.starts = 1 /\ n.live # {} => n.numDHTs = Cardinality(DHTs)
    BY ONLY Stopping(n), Zenon DEF Stopping
  <2>5. CASE y.threw
    <3>1. x = y
      BY <2>1, <2>5, Zenon
    <3>2. y.live = y.dhts \ y.canceling /\ y.live \subseteq y.dhts
      BY ONLY <2>3, <2>4, <2>5, Zenon
    <3>3. Stopping(y)
      BY ONLY <2>3, <2>4, <2>5, <3>2, Zenon DEF Stopping
    <3> QED BY ONLY <2>3, <2>5, <3>1, <3>3, Zenon
  <2>6. CASE ~ y.threw
    <3>1. x = Without(y, f)
      BY <2>1, <2>6, Zenon
    <3>2. y \in State /\ Good(y)
      BY ONLY <2>3, Zenon
    <3>3. /\ Follows(Without(y, f), y) /\ Without(y, f).dhts = y.dhts \ {f}
          /\ Without(y, f).threw = y.threw /\ Without(y, f).canceling = y.canceling
      BY ONLY <3>2, Resetting, Zenon
    <3>4. Follows(x, y) /\ x.dhts = y.dhts \ {f} /\ x.threw = y.threw
          /\ x.canceling = y.canceling
      BY ONLY <3>1, <3>3, Zenon
    <3>5. x.live \subseteq x.dhts /\ (x.live = x.dhts \ x.canceling \/ x.live = {})
      BY ONLY <2>3, <2>4, <2>6, <3>4, Zenon DEF Follows
    <3>6. Stopping(x)
      BY ONLY <2>3, <2>4, <2>6, <3>4, <3>5, Zenon DEF Stopping, Follows
    <3> QED BY ONLY <2>3, <3>4, <3>6, Zenon
  <2> QED BY ONLY <2>5, <2>6, Zenon
<1> QED BY <1>1, <1>2, Zenon

-----------------------------------------------------------------------------
(* The actions. *)

\* start makes the DHTs of a node that has none, and whose operations have no tasks.
LEMMA StartStep == ASSUME IInv, start PROVE IInv'
<1>1. /\ node \in State /\ ~ node.threw /\ node.status = "Stopped"
      /\ node.dhts = {} /\ ~ node.rx
  BY Zenon DEF IInv, TypeOK, Matching, start
<1>2. node' = [node EXCEPT !.status = "Running", !.starts = @ + 1, !.dhts = DHTs,
                           !.canceling = {}]
  BY Zenon DEF start
<1>3. node' \in State
  <2>1. \A k \in Nat : [node EXCEPT !.status = "Running", !.starts = k, !.dhts = DHTs,
                                   !.canceling = {}] \in State
    BY ONLY <1>1, Zenon DEF State
  <2>2. node.starts + 1 \in Nat
    BY ONLY <1>1 DEF State
  <2> QED BY <1>2, <2>1, <2>2, Zenon
<1>4. /\ node'.status = "Running" /\ node'.starts = node.starts + 1 /\ node'.dhts = DHTs
      /\ node'.canceling = {} /\ node'.live = node.live /\ node'.numDHTs = node.numDHTs
      /\ node'.rx = node.rx /\ node'.threw = node.threw /\ node'.failed = node.failed
      /\ node'.ops = node.ops
  BY ONLY <1>1, <1>2, Zenon DEF State
<1>5. node.live = {} /\ node.starts \in Nat
  BY <1>1, Zenon DEF IInv, Fleet, State
<1>6. \A o \in Ops : GoodOp(node.ops[o], DHTs) /\ node.ops[o].tasks = {}
  BY <1>1, Zenon DEF IInv, Good, GoodOp, Op
<1>7. Good(node)'
  BY ONLY <1>4, <1>6, Zenon DEF Good
<1>8. Fleet(node)'
  <2>1. Starting(node)'
    BY ONLY <1>4, <1>5, Zenon DEF Starting
  <2>2. node.starts = 0 => node.numDHTs = 0
    BY Zenon DEF IInv, Fleet
  <2>3. node'.starts # 0 /\ (node'.starts = 1 => node.starts = 0)
    BY ONLY <1>4, <1>5
  <2> QED BY ONLY <1>4, <1>5, <2>1, <2>2, <2>3, Zenon DEF Fleet
<1>9. Counted(node)' /\ Matching(node)' /\ Alive(node)'
  BY ONLY <1>1, <1>4, <1>5, <1>6, Zenon DEF Counted, Matching, Alive
<1> QED BY <1>1, <1>3, <1>4, <1>7, <1>8, <1>9, Zenon DEF IInv, TypeOK

\* The server and the DHTs run, and are counted once more.
LEMMA StartServerStep == ASSUME IInv, startServer PROVE IInv'
<1>1. node \in State /\ ~ node.threw /\ Starting(node)
  BY Zenon DEF IInv, TypeOK, Starting, startServer
<1>2. node' = [node EXCEPT !.rx = TRUE, !.live = DHTs, !.numDHTs = @ + Cardinality(DHTs)]
  BY Zenon DEF startServer
<1>3. Cardinality(DHTs) \in Nat \ {0} /\ node.numDHTs \in Nat
  BY <1>1, Counting, Zenon DEF State
<1>4. node' \in State
  <2>1. \A k \in Nat : [node EXCEPT !.rx = TRUE, !.live = DHTs, !.numDHTs = k] \in State
    BY ONLY <1>1, Zenon DEF State
  <2>2. node.numDHTs + Cardinality(DHTs) \in Nat
    BY ONLY <1>3
  <2> QED BY <1>2, <2>1, <2>2, Zenon
<1>5. /\ node'.status = "Running" /\ node'.starts = node.starts /\ node'.dhts = DHTs
      /\ node'.canceling = {} /\ node'.live = DHTs
      /\ node'.numDHTs = node.numDHTs + Cardinality(DHTs)
      /\ node'.rx = TRUE /\ node'.threw = node.threw /\ node'.failed = node.failed
      /\ node'.ops = node.ops
  BY ONLY <1>1, <1>2, Zenon DEF State, Starting
<1>6. Good(node)'
  BY <1>1, <1>5, Zenon DEF IInv, Good, Starting
<1>7. Fleet(node)'
  <2>1. node.starts = 1 => node.numDHTs = 0
    BY <1>1, Zenon DEF IInv, Fleet
  <2>2. node.starts # 0
    BY <1>1, Zenon DEF IInv, Fleet, Starting
  <2>3. Enough(node'.numDHTs) /\ (node.starts = 1 => node'.numDHTs = Cardinality(DHTs))
    BY ONLY <1>3, <1>5, <2>1 DEF Enough
  <2>4. DHTs # {}
    BY NodeAssumption, Zenon
  <2> QED BY ONLY <1>5, <2>2, <2>3, <2>4, Zenon DEF Fleet, Starting
<1>8. Counted(node)'
  BY <1>1, <1>5, Zenon DEF IInv, Counted
<1>9. Matching(node)' /\ Alive(node)'
  BY ONLY <1>5, Zenon DEF Matching, Alive
<1> QED BY <1>1, <1>4, <1>5, <1>6, <1>7, <1>8, <1>9, Zenon DEF IInv, TypeOK

\* stop, which goes through or leaves with an exception; it ends the receive thread first.
LEMMA StopsStep == ASSUME IInv, NEW outs, stop(outs) PROVE IInv' /\ ~ node'.rx
<1> DEFINE n == [node EXCEPT !.rx = FALSE]
<1>1. node \in State /\ ~ node.threw /\ node.status = "Running"
  BY Zenon DEF IInv, TypeOK, stop
<1>2. PICK n4 \in stopDHT(n, "v4", outs["v4"]) : \E n6 \in stopDHT(n4, "v6", outs["v6"]) :
         node' = IF n6.threw THEN [n6 EXCEPT !.threw = FALSE]
                 ELSE [n6 EXCEPT !.status = "Stopped"]
  BY Zenon DEF stop
<1>3. PICK n6 \in stopDHT(n4, "v6", outs["v6"]) :
         node' = IF n6.threw THEN [n6 EXCEPT !.threw = FALSE]
                 ELSE [n6 EXCEPT !.status = "Stopped"]
  BY <1>2, Zenon
<1>4. Stopping(n)
  <2>1. n \in State
    BY ONLY <1>1, Zenon DEF State
  <2>2. /\ n.status = node.status /\ n.rx = FALSE /\ n.starts = node.starts
        /\ n.numDHTs = node.numDHTs /\ n.live = node.live /\ n.dhts = node.dhts
        /\ n.threw = node.threw /\ n.canceling = node.canceling /\ n.ops = node.ops
    BY ONLY <1>1, Zenon DEF State
  <2> HIDE DEF n
  <2>3. Good(n)
    BY <2>2, Zenon DEF IInv, Good
  <2>4. /\ n.live \subseteq n.dhts /\ (n.live = n.dhts \ n.canceling \/ n.live = {})
        /\ n.starts # 0 /\ (n.live # {} => Enough(n.numDHTs))
        /\ n.starts = 1 /\ n.live # {} => n.numDHTs = Cardinality(DHTs)
    BY <1>1, <2>2, Zenon DEF IInv, Fleet, Starting
  <2> QED BY ONLY <1>1, <2>1, <2>2, <2>3, <2>4, Zenon DEF Stopping
<1> HIDE DEF n
<1>5. Stopping(n4) /\ (n4.threw \/ "v4" \notin n4.dhts)
  BY ONLY <1>2, <1>4, StopStep, Zenon
<1>6. Stopping(n6) /\ n6.dhts \subseteq n4.dhts /\ (n6.threw \/ "v6" \notin n6.dhts)
  BY ONLY <1>3, <1>5, StopStep, Zenon
<1>7. /\ n6 \in State /\ Good(n6)
      /\ n6.status = "Running" /\ ~ n6.rx /\ n6.starts # 0
      /\ n6.live \subseteq n6.dhts
      /\ n6.live = n6.dhts \ n6.canceling \/ (n6.live = {} /\ ~ n6.threw)
      /\ n6.live # {} => Enough(n6.numDHTs)
      /\ n6.starts = 1 /\ n6.live # {} => n6.numDHTs = Cardinality(DHTs)
      /\ n6.threw => Blamed(n6)
  BY ONLY <1>6, Zenon DEF Stopping
<1>8. CASE n6.threw
  <2>1. node' = [n6 EXCEPT !.threw = FALSE]
    BY <1>3, <1>8, Zenon
  <2>2. node' \in State
    BY ONLY <1>7, <2>1, Zenon DEF State
  <2>3. /\ node'.status = n6.status /\ node'.rx = n6.rx /\ node'.starts = n6.starts
        /\ node'.numDHTs = n6.numDHTs /\ node'.live = n6.live /\ node'.dhts = n6.dhts
        /\ node'.threw = FALSE /\ node'.canceling = n6.canceling /\ node'.ops = n6.ops
        /\ node'.failed = n6.failed
    BY ONLY <1>7, <2>1, Zenon DEF State
  <2>4. Good(node)'
    BY ONLY <1>7, <2>3, Zenon DEF Good
  <2>5. ~ Starting(node)'
    <3>1. DHTs # {}
      BY NodeAssumption, Zenon
    <3> QED BY ONLY <1>7, <1>8, <2>3, <3>1, Zenon DEF Starting
  <2>6. Fleet(node)'
    BY ONLY <1>7, <1>8, <2>3, <2>5, Zenon DEF Fleet
  <2>7. Blamed(node)'
    BY ONLY <1>7, <1>8, <2>3, Zenon DEF Blamed
  <2>8. Counted(node)' /\ Matching(node)' /\ Alive(node)'
    BY ONLY <1>7, <2>3, <2>5, <2>7, Zenon DEF Counted, Matching, Alive
  <2> QED BY ONLY <1>7, <2>2, <2>3, <2>4, <2>6, <2>8, Zenon DEF IInv, TypeOK
<1>9. CASE ~ n6.threw
  <2>1. node' = [n6 EXCEPT !.status = "Stopped"]
    BY <1>3, <1>9, Zenon
  <2>2. node' \in State
    BY ONLY <1>7, <2>1, Zenon DEF State
  <2>3. /\ node'.status = "Stopped" /\ node'.rx = n6.rx /\ node'.starts = n6.starts
        /\ node'.numDHTs = n6.numDHTs /\ node'.live = n6.live /\ node'.dhts = n6.dhts
        /\ node'.threw = n6.threw /\ node'.canceling = n6.canceling /\ node'.ops = n6.ops
        /\ node'.failed = n6.failed
    BY ONLY <1>7, <2>1, Zenon DEF State
  <2>4. Good(node)'
    BY ONLY <1>7, <2>3, Zenon DEF Good
  <2>5. n6.dhts = {} /\ n6.live = {}
    <3>1. ~ n4.threw
      <4>1. n4.threw => n6 = n4
        BY ONLY <1>3, Zenon DEF stopDHT
      <4> QED BY <1>9, <4>1, Zenon
    <3>2. n6.dhts \subseteq {"v4", "v6"}
      BY <1>7, NodeAssumption, Zenon DEF State
    <3> QED BY ONLY <1>5, <1>6, <1>7, <1>9, <3>1, <3>2, Zenon
  <2>6. Fleet(node)' /\ ~ Starting(node)'
    BY ONLY <1>7, <2>3, <2>5, Zenon DEF Fleet, Starting
  <2>7. Counted(node)' /\ Matching(node)' /\ Alive(node)'
    BY ONLY <1>7, <2>3, <2>5, <2>6, Zenon DEF Counted, Matching, Alive
  <2> QED BY ONLY <1>7, <1>9, <2>2, <2>3, <2>4, <2>6, <2>7, Zenon DEF IInv, TypeOK
<1> QED BY <1>8, <1>9, Zenon

\* A step in which the operation o becomes r.
Becomes(o, r) ==
    /\ node' \in State /\ node'.ops = [node.ops EXCEPT ![o] = r]
    /\ node'.status = node.status /\ node'.starts = node.starts
    /\ node'.numDHTs = node.numDHTs /\ node'.live = node.live /\ node'.dhts = node.dhts
    /\ node'.threw = node.threw /\ node'.canceling = node.canceling
    /\ node.failed => node'.failed
    /\ node'.rx => node.rx

\* A step of one operation keeps the invariant when it keeps the operation good, its tasks
\* counted, and ends the receive thread only for a reason.
LEMMA OpStep ==
    ASSUME IInv, NEW o \in Ops, NEW r, Becomes(o, r), GoodOp(r, node.dhts),
           node.ops[o].option = "OPTIMISTIC" => r.option = "OPTIMISTIC",
           (node.rx \/ Starting(node)) /\ r.tasks # {} =>
               r.completion + Cardinality(r.tasks) = Cardinality(DHTs),
           node.rx /\ ~ node'.rx => node'.failed \/ r.option = "OPTIMISTIC"
    PROVE  IInv'
<1>1. node.ops \in [Ops -> Op] /\ node \in State /\ ~ node.threw
  BY Zenon DEF IInv, TypeOK, State
<1>2. /\ node'.ops = [node.ops EXCEPT ![o] = r]
      /\ node'.status = node.status /\ node'.starts = node.starts
      /\ node'.numDHTs = node.numDHTs /\ node'.live = node.live /\ node'.dhts = node.dhts
      /\ node'.threw = node.threw /\ node'.canceling = node.canceling
      /\ node.failed => node'.failed
      /\ node'.rx => node.rx
  BY Zenon DEF Becomes
<1>3. node'.ops[o] = r /\ \A p \in Ops \ {o} : node'.ops[p] = node.ops[p]
  BY ONLY <1>1, <1>2, o \in Ops, Zenon
<1>4. Good(node)'
  BY <1>2, <1>3, Zenon DEF IInv, Good
<1>5. Starting(node)' <=> Starting(node)
  BY ONLY <1>2, Zenon DEF Starting
<1>6. Fleet(node)'
  BY <1>2, <1>5, Zenon DEF IInv, Fleet
<1>7. Counted(node)'
  <2> SUFFICES ASSUME node'.rx \/ Starting(node)', NEW p \in Ops, node'.ops[p].tasks # {}
               PROVE  node'.ops[p].completion + Cardinality(node'.ops[p].tasks)
                          = Cardinality(DHTs)
    BY Zenon DEF Counted
  <2>1. node.rx \/ Starting(node)
    BY <1>2, <1>5, Zenon
  <2>2. CASE p = o
    BY <1>3, <2>1, <2>2, Zenon
  <2>3. CASE p # o
    <3>1. node'.ops[p] = node.ops[p]
      BY <1>3, <2>3, Zenon
    <3> QED BY <2>1, <3>1, Zenon DEF IInv, Counted
  <2> QED BY <2>2, <2>3, Zenon
<1>8. Matching(node)'
  BY <1>2, Zenon DEF IInv, Matching
<1>9. Alive(node)'
  <2> SUFFICES ASSUME ~ Blamed(node)', node'.live # {} PROVE node'.rx
    BY Zenon DEF Alive
  <2>1. ~ Blamed(node)
    BY <1>2, <1>3, Zenon DEF Blamed
  <2>2. node.rx
    BY <1>2, <2>1, Zenon DEF IInv, Alive
  <2> QED BY <1>3, <2>2, Zenon DEF Blamed
<1>10. node' \in State
  BY Zenon DEF Becomes
<1> QED BY ONLY <1>1, <1>2, <1>4, <1>6, <1>7, <1>8, <1>9, <1>10, Zenon DEF IInv, TypeOK

\* While the node comes up and runs it has all its DHTs, and they take tasks.
LEMMA AllDHTs ==
    ASSUME IInv, node.rx \/ Starting(node)
    PROVE  node.dhts = DHTs /\ node.canceling = {}
BY Zenon DEF IInv, TypeOK, State, Fleet, Matching, Starting

\* A call hands one task to each DHT; in a node that runs it breaks no promise.
LEMMA CallStep ==
    ASSUME IInv, NEW o \in Ops, NEW kind \in Lookups \cup Stores, NEW option \in Options,
           NEW local \in BOOLEAN, call(o, kind, option, local)
    PROVE  /\ IInv'
           /\ node.rx => \A p \in Ops : ~ Breaks(p)
<1> DEFINE tasks == node.dhts \ node.canceling
           r == IF local
                THEN [NoOp EXCEPT !.kind = kind, !.option = option, !.promise = "value"]
                ELSE [NoOp EXCEPT !.kind = kind, !.option = option, !.tasks = tasks,
                                  !.promise = IF tasks = {} THEN "broken" ELSE "unset"]
<1>1. /\ node' = [node EXCEPT !.ops[o] = r] /\ node.ops[o].kind = "none"
  BY Zenon DEF call
<1>2. node \in State /\ node.ops \in [Ops -> Op] /\ node.dhts \in SUBSET DHTs
  BY Zenon DEF IInv, TypeOK, State
<1>3. /\ r.kind = kind /\ r.option = option /\ r.completion = 0
      /\ r.tasks = IF local THEN {} ELSE tasks
      /\ r.promise = IF local THEN "value" ELSE IF tasks = {} THEN "broken" ELSE "unset"
  BY ZenonT(30) DEF NoOp
<1>4. r \in Op /\ kind # "none"
  BY <1>2, ZenonT(30) DEF NoOp, Op, Lookups, Stores, Options
<1>5. node.ops[o].option = "CONSERVATIVE"
  BY <1>1 DEF IInv, Good, GoodOp, NoOp
<1> HIDE DEF r
<1>6. /\ Cardinality(r.tasks) \in Nat
      /\ r.completion + Cardinality(r.tasks) <= Cardinality(DHTs)
      /\ Cardinality(DHTs) \in Nat
  <2>1. r.tasks \in SUBSET DHTs
    BY <1>4, Zenon DEF Op
  <2>2. Cardinality(r.tasks) \in Nat /\ Cardinality(DHTs) \in Nat
        /\ Cardinality(r.tasks) <= Cardinality(DHTs)
    BY ONLY <2>1, Counting, Zenon
  <2> QED BY ONLY <1>3, <2>2
<1>7. GoodOp(r, node.dhts)
  BY ONLY <1>3, <1>4, <1>6, Zenon DEF GoodOp
<1>8. Becomes(o, r)
  <2>1. node' = [node EXCEPT !.ops = [node.ops EXCEPT ![o] = r]]
    BY <1>1, <1>2, Zenon DEF State
  <2>2. [node.ops EXCEPT ![o] = r] \in [Ops -> Op]
    BY <1>2, <1>4, Zenon
  <2>3. node' \in State
    BY ONLY <1>2, <2>1, <2>2, Zenon DEF State
  <2>4. /\ node'.ops = [node.ops EXCEPT ![o] = r]
        /\ node'.status = node.status /\ node'.starts = node.starts
        /\ node'.numDHTs = node.numDHTs /\ node'.live = node.live /\ node'.dhts = node.dhts
        /\ node'.threw = node.threw /\ node'.canceling = node.canceling
        /\ node'.failed = node.failed /\ node'.rx = node.rx
    BY ONLY <1>2, <2>1, Zenon DEF State
  <2> QED BY ONLY <2>3, <2>4, Zenon DEF Becomes
<1>9. node'.rx = node.rx
  BY ONLY <1>1, <1>2, Zenon DEF State
<1>10. node.rx \/ Starting(node) => tasks = DHTs
  BY AllDHTs, Zenon
<1> HIDE DEF tasks
<1>11. (node.rx \/ Starting(node)) /\ r.tasks # {} =>
          r.completion + Cardinality(r.tasks) = Cardinality(DHTs)
  BY ONLY <1>3, <1>6, <1>10
<1>12. IInv'
  BY <1>5, <1>7, <1>8, <1>9, <1>11, OpStep, Zenon
<1>13. ASSUME node.rx, NEW p \in Ops PROVE ~ Breaks(p)
  <2>1. DHTs # {}
    BY NodeAssumption, Zenon
  <2>2. r.promise # "broken"
    BY ONLY <1>3, <1>10, <1>13, <2>1, Zenon
  <2>3. node'.ops[p] = IF p = o THEN r ELSE node.ops[p]
    BY <1>2, <1>8, Zenon DEF Becomes
  <2> QED BY ONLY <2>2, <2>3, Zenon DEF Breaks
<1> QED BY <1>12, <1>13, Zenon

\* The lookup of a store has ended: the tasks are the same.
LEMMA LookupEndsStep ==
    ASSUME IInv, NEW o \in Ops, NEW f \in DHTs, lookupEnds(o, f)
    PROVE  IInv' /\ \A p \in Ops : ~ Breaks(p)
<1> DEFINE r == [node.ops[o] EXCEPT !.announcing = @ \cup {f}]
<1>1. node \in State /\ node.ops \in [Ops -> Op] /\ node.ops[o] \in Op
  BY Zenon DEF IInv, TypeOK, State
<1>2. GoodOp(node.ops[o], node.dhts) /\ node.ops[o].kind # "none"
  BY Zenon DEF IInv, Good, lookupEnds, Stores
<1>3. r \in Op
  BY ONLY <1>1, f \in DHTs, Zenon DEF Op
<1>4. /\ r.kind = node.ops[o].kind /\ r.option = node.ops[o].option
      /\ r.tasks = node.ops[o].tasks /\ r.completion = node.ops[o].completion
      /\ r.promise = node.ops[o].promise
  BY ONLY <1>1, Zenon DEF Op
<1>5. node' = [node EXCEPT !.ops = [node.ops EXCEPT ![o] = r]]
  BY <1>1, Zenon DEF lookupEnds, State
<1> HIDE DEF r
<1>6. GoodOp(r, node.dhts)
  BY ONLY <1>2, <1>3, <1>4, Zenon DEF GoodOp
<1>7. Becomes(o, r) /\ node'.rx = node.rx
  <2>1. [node.ops EXCEPT ![o] = r] \in [Ops -> Op]
    BY <1>1, <1>3, Zenon
  <2>2. node' \in State
    BY ONLY <1>1, <1>5, <2>1, Zenon DEF State
  <2>3. /\ node'.ops = [node.ops EXCEPT ![o] = r]
        /\ node'.status = node.status /\ node'.starts = node.starts
        /\ node'.numDHTs = node.numDHTs /\ node'.live = node.live /\ node'.dhts = node.dhts
        /\ node'.threw = node.threw /\ node'.canceling = node.canceling
        /\ node'.failed = node.failed /\ node'.rx = node.rx
    BY ONLY <1>1, <1>5, Zenon DEF State
  <2> QED BY ONLY <2>2, <2>3, Zenon DEF Becomes
<1>8. (node.rx \/ Starting(node)) /\ r.tasks # {} =>
          r.completion + Cardinality(r.tasks) = Cardinality(DHTs)
  BY <1>4, Zenon DEF IInv, Counted
<1>9. IInv'
  BY <1>4, <1>6, <1>7, <1>8, OpStep, Zenon
<1>10. ASSUME NEW p \in Ops PROVE ~ Breaks(p)
  <2>1. node'.ops[p] = IF p = o THEN r ELSE node.ops[p]
    BY <1>1, <1>7, Zenon DEF Becomes
  <2> QED BY ONLY <1>4, <2>1, Zenon DEF Breaks
<1> QED BY <1>9, <1>10, Zenon

\* A task ends and calls its handler; in the first run that breaks no promise.
LEMMA TaskEndsStep ==
    ASSUME IInv, NEW o \in Ops, NEW f \in DHTs, NEW out, taskEnds(o, f, out)
    PROVE  /\ IInv'
           /\ node.starts = 1 => \A p \in Ops : ~ Breaks(p)
<1> DEFINE q == node.ops[o]
           num == node.numDHTs
           ds == node.dhts
           r == completeHandler(q, f, num, out)
           threw == Throws(q, num, out)
           failed == node.failed \/ out = "error"
<1>1. node \in State /\ node.ops \in [Ops -> Op] /\ q \in Op /\ ds \in SUBSET DHTs
  BY Zenon DEF IInv, TypeOK, State
<1>2. GoodOp(q, ds) /\ f \in q.tasks /\ node.rx
  BY Zenon DEF IInv, Good, taskEnds
<1>3. Enough(num) /\ (node.starts = 1 => num = Cardinality(DHTs))
  <2>1. node.live # {}
    BY <1>2, NodeAssumption, Zenon DEF IInv, Matching
  <2> QED BY <2>1, Zenon DEF IInv, Fleet
<1>4. q.completion + Cardinality(q.tasks) = Cardinality(DHTs)
  BY <1>2, Zenon DEF IInv, Counted
<1>5. node' = [node EXCEPT !.ops = [node.ops EXCEPT ![o] = r], !.rx = ~ threw, !.failed = failed]
  BY <1>1, Zenon DEF taskEnds, State
<1>6. threw => failed \/ q.option = "OPTIMISTIC"
  BY <1>2, Zenon DEF Throws, GoodOp
<1>7. failed \in BOOLEAN /\ (~ threw) \in BOOLEAN /\ (node.failed => failed)
  BY Zenon
<1> HIDE DEF q, num, ds, r, threw, failed
<1>8. /\ GoodOp(r, ds) /\ r.option = q.option
      /\ r.tasks = q.tasks \ {f}
  BY ONLY <1>1, <1>2, <1>3, Handling DEF r
<1>9. r.completion = q.completion + 1 /\ r \in Op
  BY ONLY <1>1, <1>8, HandlerCounts DEF r, GoodOp
<1>10. r.completion + Cardinality(r.tasks) = Cardinality(DHTs)
  <2>1. q.tasks \in SUBSET DHTs /\ q.completion \in Nat
    BY ONLY <1>1, Zenon DEF Op
  <2>2. Cardinality(q.tasks \ {f}) = Cardinality(q.tasks) - 1 /\ Cardinality(q.tasks) \in Nat
    BY ONLY <1>2, <2>1, Counting, Zenon
  <2> QED BY ONLY <1>4, <1>8, <1>9, <2>1, <2>2
<1>11. /\ Becomes(o, r) /\ node'.failed = failed /\ node'.rx = (~ threw)
  <2>1. [node.ops EXCEPT ![o] = r] \in [Ops -> Op]
    BY ONLY <1>1, <1>9, Zenon
  <2> DEFINE rx == ~ threw
             ops == [node.ops EXCEPT ![o] = r]
  <2>2. rx \in BOOLEAN /\ ops \in [Ops -> Op]
        /\ node' = [node EXCEPT !.ops = ops, !.rx = rx, !.failed = failed]
    BY <1>5, <1>7, <2>1, Zenon
  <2> HIDE DEF rx, ops
  <2>3. node' \in State
    BY ONLY <1>1, <1>7, <2>2, Zenon DEF State
  <2>4. /\ node'.ops = ops
        /\ node'.status = node.status /\ node'.starts = node.starts
        /\ node'.numDHTs = node.numDHTs /\ node'.live = node.live /\ node'.dhts = node.dhts
        /\ node'.threw = node.threw /\ node'.canceling = node.canceling
        /\ node'.failed = failed /\ node'.rx = rx
    BY ONLY <1>1, <2>2, Zenon DEF State
  <2> QED BY ONLY <1>2, <1>7, <2>3, <2>4, Zenon DEF Becomes, rx, ops
<1>12. IInv'
  <2>1. GoodOp(r, node.dhts)
    BY <1>8, Zenon DEF ds
  <2>2. node.ops[o].option = "OPTIMISTIC" => r.option = "OPTIMISTIC"
    BY <1>8, Zenon DEF q
  <2>3. node.rx /\ ~ node'.rx => node'.failed \/ r.option = "OPTIMISTIC"
    BY ONLY <1>6, <1>8, <1>11, Zenon
  <2> QED BY <1>10, <1>11, <2>1, <2>2, <2>3, OpStep, Zenon
<1>13. ASSUME node.starts = 1, NEW p \in Ops PROVE ~ Breaks(p)
  <2> SUFFICES ASSUME node'.rx, node.ops[p].promise = "unset",
                      node'.ops[p].promise = "broken"
               PROVE  FALSE
    BY Zenon DEF Breaks
  <2>1. node'.ops[p] = IF p = o THEN r ELSE node.ops[p]
    BY <1>1, <1>11, Zenon DEF Becomes
  <2>2. p = o /\ r.promise = "broken" /\ q.promise = "unset"
    BY <2>1, Zenon DEF q
  <2>3. ~ Throws(q, Cardinality(DHTs), out)
    BY <1>3, <1>11, <1>13, Zenon DEF threw
  <2>4. completeHandler(q, f, Cardinality(DHTs), out).promise # "broken"
    BY ONLY <1>1, <1>2, <1>4, <2>2, <2>3, Answering, Zenon
  <2> QED BY <1>3, <1>13, <2>2, <2>4, Zenon DEF r
<1> QED BY <1>12, <1>13, Zenon

-----------------------------------------------------------------------------
(* The theorems. *)

\* The invariant holds of a node that has been constructed.
LEMMA InitIInv == Init => IInv
<1> SUFFICES ASSUME Init PROVE IInv
  BY Zenon
<1>1. /\ node.status = "Stopped" /\ node.dhts = {} /\ node.live = {} /\ node.canceling = {}
      /\ node.numDHTs = 0 /\ ~ node.rx /\ ~ node.threw /\ ~ node.failed /\ node.starts = 0
      /\ \A o \in Ops : node.ops[o] = NoOp
  BY Zenon DEF Init
<1>2. NoOp \in Op
  BY Zenon DEF NoOp, Op, Options
<1>3. TypeOK
  BY <1>2, Zenon DEF Init, TypeOK, State
<1>4. GoodOp(NoOp, {})
  <2>1. {} \in SUBSET DHTs
    BY Zenon
  <2>2. Cardinality({}) = 0 /\ Cardinality(DHTs) \in Nat
    BY <2>1, Counting, Zenon
  <2> QED BY <1>2, <2>2 DEF GoodOp, NoOp
<1>5. Good(node)
  BY ONLY <1>1, <1>4, Zenon DEF Good
<1>6. Fleet(node) /\ ~ Starting(node)
  BY ONLY <1>1, Zenon DEF Fleet, Starting
<1>7. Counted(node) /\ Matching(node) /\ Alive(node)
  BY ONLY <1>1, <1>6, Zenon DEF Counted, Matching, Alive
<1> QED BY <1>3, <1>5, <1>6, <1>7, Zenon DEF IInv

\* Every step keeps the invariant, and none in the first run but stop breaks a promise.
LEMMA NextIInv ==
    ASSUME IInv, [Next]_node
    PROVE  /\ IInv'
           /\ \A o \in Ops : node.starts = 1 => ~ Breaks(o)
<1>1. CASE start
  <2>1. ~ node.rx
    BY <1>1, Zenon DEF IInv, Matching, start
  <2> QED BY <1>1, <2>1, StartStep, Zenon DEF Breaks
<1>2. CASE startServer
  <2>1. ~ node.rx
    BY <1>2, NodeAssumption, Zenon DEF IInv, Matching, startServer
  <2> QED BY <1>2, <2>1, StartServerStep, Zenon DEF Breaks
<1>3. CASE \E outs : stop(outs)
  <2>1. IInv' /\ ~ node'.rx
    BY <1>3, StopsStep, Zenon
  <2> QED BY <2>1, Zenon DEF Breaks
<1>4. ASSUME NEW o \in Ops, NEW kind \in Lookups \cup Stores, NEW option \in Options,
             NEW local \in BOOLEAN, call(o, kind, option, local)
      PROVE  IInv' /\ \A p \in Ops : ~ Breaks(p)
  <2>1. IInv' /\ (node.rx => \A p \in Ops : ~ Breaks(p))
    BY <1>4, CallStep, Zenon
  <2> QED BY <2>1, Zenon DEF Breaks
<1>5. ASSUME NEW o \in Ops, NEW f \in DHTs, lookupEnds(o, f)
      PROVE  IInv' /\ \A p \in Ops : ~ Breaks(p)
  BY <1>5, LookupEndsStep, Zenon
<1>6. ASSUME NEW o \in Ops, TaskEnds(o)
      PROVE  IInv' /\ (node.starts = 1 => \A p \in Ops : ~ Breaks(p))
  <2>1. PICK f \in DHTs : \E out : taskEnds(o, f, out)
    BY <1>6, Zenon DEF TaskEnds
  <2>2. PICK out : taskEnds(o, f, out)
    BY <2>1, Zenon
  <2> QED BY <2>2, TaskEndsStep, Zenon
<1>7. CASE UNCHANGED node
  <2>1. \A o \in Ops : ~ Breaks(o)
    BY <1>7, Zenon DEF Breaks
  <2>2. IInv'
    BY <1>7, Zenon DEF IInv, TypeOK, Good, Fleet, Starting, Counted, Matching, Alive, Blamed
  <2> QED BY <2>1, <2>2, Zenon
<1> QED BY <1>1, <1>2, <1>3, <1>4, <1>5, <1>6, <1>7, Zenon DEF Next

\* What the invariant says of the futures.
LEMMA IInvImplies == IInv => PromisesKept /\ StoppedSettles
<1> SUFFICES ASSUME IInv PROVE PromisesKept /\ StoppedSettles
  BY Zenon
<1>1. PromisesKept
  BY Zenon DEF IInv, Good, GoodOp, Alive, Blamed, PromisesKept, Optimistic
<1>2. StoppedSettles
  BY Zenon DEF IInv, Good, GoodOp, Matching, StoppedSettles, Issued
<1> QED BY <1>1, <1>2, Zenon

\* The results of an operation that is not OPTIMISTIC are complete when its future gets
\* them, whatever the DHTs and however many the operations, starts and stops; and the
\* receive thread is never ended by a handler that sets a promise twice, unless a lookup is
\* OPTIMISTIC or the storage fails (the completeHandlers of node.cc).
THEOREM PromisesAlwaysKept == Spec => []PromisesKept
<1>1. Init => IInv
  BY InitIInv, Zenon
<1>2. IInv /\ [Next]_node => IInv'
  BY NextIInv, Zenon
<1>3. IInv => PromisesKept
  BY IInvImplies, Zenon
<1> QED BY <1>1, <1>2, <1>3, PTL DEF Spec

\* A stop that goes through leaves no future unset, whichever order cancelAll takes the
\* tasks in and whatever exceptions have ended earlier stops (Node::stop).
THEOREM StoppedAlwaysSettles == Spec => []StoppedSettles
<1>1. Init => IInv
  BY InitIInv, Zenon
<1>2. IInv /\ [Next]_node => IInv'
  BY NextIInv, Zenon
<1>3. IInv => StoppedSettles
  BY IInvImplies, Zenon
<1> QED BY <1>1, <1>2, <1>3, PTL DEF Spec

\* In the first run of a node no task that ends breaks a promise: the handlers that are
\* called reach numDHTs (Node::start, the completeHandlers of node.cc).
THEOREM FirstRunAlwaysAnswers == Spec => FirstRunAnswers
<1>1. Init => IInv
  BY InitIInv, Zenon
<1>2. IInv /\ [Next]_node => IInv'
  BY NextIInv, Zenon
<1>3. IInv /\ [Next]_node => [\A o \in Ops : node.starts = 1 => ~ Breaks(o)]_node
  BY NextIInv, Zenon
<1> QED BY <1>1, <1>2, <1>3, PTL DEF Spec, FirstRunAnswers
=============================================================================
