---------------------------- MODULE ThreadsProofs ----------------------------
(***************************************************************************)
(* What the two threads of a crawl find, and what an RPC server does with  *)
(* its sockets, for any network, any times and any number of descriptors.  *)
(***************************************************************************)
EXTENDS Sockets, Crawler, FiniteSetTheorems, TLAPS

-----------------------------------------------------------------------------
(* The crawl. *)

Call == [kind : {"ping", "getNodes"}, to : Nodes, q : SUBSET Questions, age : 0..CallTimeout]

TypeOK ==
    /\ nodes_list \in Seq(Nodes) /\ pinged_list \subseteq Nodes
    /\ sendedNo \in 0..Len(nodes_list)
    /\ calls \subseteq Call
    /\ quiet \in 0..Timeout /\ since \in 0..RequestInterval
    /\ pc \in {"loop", "stop", "stopped"} /\ awake \in BOOLEAN
    /\ interrupted \in BOOLEAN /\ lost \in BOOLEAN /\ limit \in NodeLimits

\* What is listed was pinged and answered, and only what there is to be found is pinged.
Sound ==
    /\ IsFiniteSet(Listed) /\ Cardinality(Listed) = Len(nodes_list)
    /\ Listed \subseteq Live /\ Bootstraps \subseteq pinged_list
    /\ Listed \cup (pinged_list \cap Live) \subseteq Reachable
    /\ \A c \in calls : c.to \in IF c.kind = "ping" THEN pinged_list ELSE Listed

\* Nothing that leads further is forgotten: a live node that was pinged is listed or its
\* ping is open, and for each node that was asked the answer is open or was followed.
Followed ==
    /\ \A n \in pinged_list \cap Live :
          n \in Listed \/ \E c \in calls : c.kind = "ping" /\ c.to = n
    /\ \A i \in 1..sendedNo, q \in Questions :
          \/ Answer[nodes_list[i]][q] \subseteq pinged_list
          \/ \E c \in calls : c.kind = "getNodes" /\ c.to = nodes_list[i] /\ c.q = {q}

\* The clock has not run for longer than what is open takes: a ping, a call to a node that
\* waited to be asked, or that wait.
Timely ==
    /\ ~ awake => since < RequestInterval \/ RequestInterval = 0
    /\ sendedNo < Len(nodes_list) =>
          quiet <= since \/ (awake /\ since = RequestInterval /\ quiet <= since + 1)
    /\ \A c \in calls :
          quiet <= IF c.kind = "ping" THEN c.age ELSE c.age + RequestInterval + 1

\* The crawl was not cut short.
Whole == ~ interrupted /\ Len(nodes_list) < limit

\* The inductive invariant.
IInv ==
    /\ TypeOK /\ Sound /\ Timely
    /\ lost \/ (pc = "stopped" /\ ~ Whole) \/ Followed
    /\ pc # "loop" /\ Whole => calls = {} /\ sendedNo = Len(nodes_list)

Closed(S) ==
    /\ Bootstraps \cap Live \subseteq S
    /\ \A n \in S, q \in Questions : Answer[n][q] \cap Live \subseteq S

\* The times and limits are numbers.
LEMMA Times ==
    /\ CallTimeout \in Nat /\ RequestInterval \in Nat /\ Timeout \in Nat
    /\ NodeLimits \subseteq Nat /\ Timeout > RequestInterval + CallTimeout + 1
BY CrawlerAssumption, Zenon

\* The nodes to be found are the least closed set.
LEMMA ReachableLeast ==
    /\ Closed(Reachable)
    /\ \A S \in SUBSET Nodes : Closed(S) => Reachable \subseteq S
<1>1. Reachable = {n \in Nodes : \A S \in SUBSET Nodes : Closed(S) => n \in S}
  BY Zenon DEF Reachable, Closed
<1>2. \A S \in SUBSET Nodes : Closed(S) => Reachable \subseteq S BY <1>1, Zenon
<1>3. Bootstraps \cap Live \subseteq Reachable
  <2>1. Bootstraps \cap Live \subseteq Nodes BY CrawlerAssumption, Zenon
  <2> QED BY <1>1, <2>1, Zenon DEF Closed
<1>4. ASSUME NEW n \in Reachable, NEW q \in Questions, NEW x \in Answer[n][q] \cap Live
      PROVE  x \in Reachable
  <2>1. x \in Nodes BY <1>1, <1>4, CrawlerAssumption, Zenon
  <2>2. ASSUME NEW S \in SUBSET Nodes, Closed(S) PROVE x \in S
    <3>1. n \in S BY <1>1, <2>2, Zenon
    <3> QED BY <1>4, <2>2, <3>1, Zenon DEF Closed
  <2> QED BY <1>1, <2>1, <2>2, Zenon
<1> QED BY <1>2, <1>3, <1>4, Zenon DEF Closed

\* Appending a node lists it.
LEMMA ListedAppend ==
    ASSUME NEW n \in Nodes, nodes_list \in Seq(Nodes), nodes_list' = Append(nodes_list, n)
    PROVE  /\ Listed' = Listed \cup {n} /\ Len(nodes_list') = Len(nodes_list) + 1
           /\ nodes_list' \in Seq(Nodes)
           /\ \A i \in 1..Len(nodes_list) : nodes_list'[i] = nodes_list[i]
<1>1. /\ Len(nodes_list') = Len(nodes_list) + 1 /\ nodes_list' \in Seq(Nodes)
      /\ \A i \in 1..Len(nodes_list) : nodes_list'[i] = nodes_list[i]
      /\ nodes_list'[Len(nodes_list) + 1] = n
  OBVIOUS
<1>2. DOMAIN nodes_list' = 1..(Len(nodes_list) + 1) /\ DOMAIN nodes_list = 1..Len(nodes_list)
      /\ Len(nodes_list) \in Nat
  BY <1>1
<1>3. Listed' \subseteq Listed \cup {n}
  <2>1. ASSUME NEW i \in 1..(Len(nodes_list) + 1) PROVE nodes_list'[i] \in Listed \cup {n}
    <3>1. i = Len(nodes_list) + 1 \/ i \in 1..Len(nodes_list) BY <1>2
    <3> QED BY <1>1, <1>2, <3>1, Zenon DEF Listed
  <2> QED BY <1>2, <2>1, Zenon DEF Listed
<1>4. Listed \cup {n} \subseteq Listed'
  <2>1. ASSUME NEW i \in 1..Len(nodes_list) PROVE nodes_list[i] \in Listed'
    <3>1. i \in DOMAIN nodes_list' BY <1>2
    <3> QED BY <1>1, <3>1, Zenon DEF Listed
  <2>2. n \in Listed'
    <3>1. Len(nodes_list) + 1 \in DOMAIN nodes_list' BY <1>2
    <3> QED BY <1>1, <3>1, Zenon DEF Listed
  <2> QED BY <1>2, <2>1, <2>2, Zenon DEF Listed
<1> QED BY <1>1, <1>3, <1>4, Zenon

\* The bootstrap nodes are pinged.
LEMMA InitCrawl == ASSUME CrawlInit PROVE IInv
<1>1. Listed = {} /\ nodes_list = <<>> BY DEF CrawlInit, Listed
<1>2. \A c \in calls : c.kind = "ping" /\ c.to \in Bootstraps /\ c.age = 0 /\ c \in Call
  BY CrawlerAssumption DEF CrawlInit, Ping, Call
<1>3. TypeOK
  <2>1. calls \subseteq Call BY <1>2, Zenon
  <2>2. nodes_list \in Seq(Nodes) /\ Len(nodes_list) = 0 BY <1>1
  <2>3. sendedNo \in 0..Len(nodes_list) BY <2>2 DEF CrawlInit
  <2>4. quiet \in 0..Timeout /\ since \in 0..RequestInterval BY Times DEF CrawlInit
  <2> QED BY <2>1, <2>2, <2>3, <2>4, CrawlerAssumption, Zenon DEF CrawlInit, TypeOK
<1>4. Sound
  <2>1. IsFiniteSet(Listed) /\ Cardinality(Listed) = Len(nodes_list) BY <1>1, FS_EmptySet, Zenon
  <2>2. Bootstraps \cap Live \subseteq Reachable BY ReachableLeast, Zenon DEF Closed
  <2> QED BY <1>1, <1>2, <2>1, <2>2, Zenon DEF CrawlInit, Sound
<1>5. Followed
  <2>1. \A n \in Bootstraps : Ping(n) \in calls /\ Ping(n).kind = "ping" /\ Ping(n).to = n
    BY Zenon DEF CrawlInit, Ping
  <2> QED BY <2>1 DEF CrawlInit, Followed
<1>6. Timely
  <2>1. Len(nodes_list) = 0 BY <1>1, Zenon
  <2> QED BY <1>2, <2>1 DEF CrawlInit, Timely
<1> QED BY <1>3, <1>4, <1>5, <1>6, Zenon DEF CrawlInit, IInv

\* The loop of main ends only when no call is open and every node was asked, or when it is
\* cut short; otherwise the nodes that were not asked are.
LEMMA turnStep == ASSUME IInv, turn PROVE IInv'
<1>1. /\ CallTimeout \in Nat /\ RequestInterval \in Nat /\ Timeout \in Nat
      /\ NodeLimits \subseteq Nat /\ Timeout > RequestInterval + CallTimeout + 1
  BY Times, Zenon
<1>2. TypeOK /\ Sound /\ Timely BY Zenon DEF IInv
<1>3. Listed' = Listed BY Zenon DEF turn, Listed
<1>4. CASE interrupted \/ finished
  <2>1. /\ pc' = "stop"
        /\ UNCHANGED <<calls, sendedNo, since, awake, nodes_list, pinged_list, quiet,
                       interrupted, limit, lost>>
    BY <1>4, Zenon DEF turn
  <2>2. TypeOK' /\ Sound' /\ Timely'
    BY <1>2, <1>3, <2>1, Zenon DEF TypeOK, Sound, Timely, Reachable
  <2>3. Followed => Followed' BY <1>3, <2>1 DEF Followed
  <2>4. ASSUME Whole PROVE calls = {} /\ sendedNo = Len(nodes_list)
    <3>1. limit \in Nat /\ Len(nodes_list) \in Nat BY <1>1, <1>2 DEF TypeOK
    <3>2. sendedNo = Len(nodes_list) /\ quiet = Timeout BY <1>4, <2>4, <3>1 DEF Whole, finished
    <3>3. \A c \in calls : c.age \in 0..CallTimeout BY <1>2, Zenon DEF TypeOK, Call
    <3>4. \A c \in calls : FALSE BY <1>1, <1>2, <3>2, <3>3 DEF Timely
    <3> QED BY <3>2, <3>4, Zenon
  <2>5. pc = "loop" BY Zenon DEF turn
  <2> QED BY <2>1, <2>2, <2>3, <2>4, <2>5, Zenon DEF IInv, Whole
<1>5. CASE ~ (interrupted \/ finished)
  <2>1. /\ sendNodeRequests /\ awake' = FALSE /\ pc = "loop" /\ awake
        /\ UNCHANGED <<pc, nodes_list, pinged_list, quiet, interrupted, limit, lost>>
    BY <1>5, Zenon DEF turn
  <2>2. CASE since < RequestInterval
    <3>1. UNCHANGED <<calls, sendedNo, since>> BY <2>1, <2>2 DEF sendNodeRequests
    <3>2. TypeOK' /\ Sound' BY <1>2, <1>3, <2>1, <3>1, Zenon DEF TypeOK, Sound, Reachable
    <3>3. Timely'
      <4>1. sendedNo < Len(nodes_list) => quiet <= since BY <1>1, <1>2, <2>2 DEF Timely, TypeOK
      <4> QED BY <1>2, <2>1, <2>2, <3>1, <4>1, Zenon DEF Timely
    <3>4. Followed => Followed' BY <1>3, <2>1, <3>1 DEF Followed
    <3> QED BY <2>1, <3>2, <3>3, <3>4, Zenon DEF IInv
  <2>3. CASE ~ since < RequestInterval
    <3> DEFINE new == {GetNodes(nodes_list[i], q) :
                         i \in (sendedNo + 1)..Len(nodes_list), q \in Questions}
    <3>1. calls' = calls \cup new /\ sendedNo' = Len(nodes_list) /\ since' = 0
      BY <2>1, <2>3 DEF sendNodeRequests
    <3>2. Len(nodes_list) \in Nat /\ sendedNo \in Nat /\ nodes_list \in Seq(Nodes)
          /\ DOMAIN nodes_list = 1..Len(nodes_list)
      BY <1>2 DEF TypeOK
    <3>3. \A c \in new : /\ c \in Call /\ c.kind = "getNodes" /\ c.to \in Listed /\ c.age = 0
                         /\ sendedNo < Len(nodes_list)
      <4>1. ASSUME NEW i \in (sendedNo + 1)..Len(nodes_list), NEW q \in Questions
            PROVE  LET c == GetNodes(nodes_list[i], q)
                   IN  /\ c \in Call /\ c.kind = "getNodes" /\ c.to \in Listed /\ c.age = 0
                       /\ sendedNo < Len(nodes_list)
        <5>1. i \in DOMAIN nodes_list /\ sendedNo < Len(nodes_list) BY <3>2
        <5>2. nodes_list[i] \in Nodes /\ nodes_list[i] \in Listed BY <3>2, <5>1 DEF Listed
        <5>3. 0 \in 0..CallTimeout /\ {q} \in SUBSET Questions BY <1>1
        <5>4. GetNodes(nodes_list[i], q) \in Call BY <5>2, <5>3, Zenon DEF GetNodes, Call
        <5> QED BY <5>1, <5>2, <5>4, Zenon DEF GetNodes
      <4> QED BY <4>1
    <3>4. \A i \in (sendedNo + 1)..Len(nodes_list), q \in Questions :
             \E c \in new : c.kind = "getNodes" /\ c.to = nodes_list[i] /\ c.q = {q}
      <4>1. ASSUME NEW i \in (sendedNo + 1)..Len(nodes_list), NEW q \in Questions
            PROVE  \E c \in new : c.kind = "getNodes" /\ c.to = nodes_list[i] /\ c.q = {q}
        <5>1. GetNodes(nodes_list[i], q) \in new OBVIOUS
        <5> QED BY <5>1 DEF GetNodes
      <4> HIDE DEF new
      <4> QED BY <4>1, Zenon
    <3> HIDE DEF new
    <3>5. TypeOK'
      <4>1. calls' \subseteq Call BY <1>2, <3>1, <3>3, Zenon DEF TypeOK
      <4>2. sendedNo' \in 0..Len(nodes_list)' BY <2>1, <3>1, <3>2
      <4>3. since' \in 0..RequestInterval BY <1>1, <3>1
      <4> QED BY <1>2, <2>1, <4>1, <4>2, <4>3, Zenon DEF TypeOK
    <3>6. Sound' BY <1>2, <1>3, <2>1, <3>1, <3>3, Zenon DEF Sound, Reachable
    <3>7. Timely'
      <4>1. since = RequestInterval /\ quiet \in Nat BY <1>1, <1>2, <2>3 DEF TypeOK
      <4>2. \A c \in new : quiet <= c.age + RequestInterval + 1
        BY <1>1, <1>2, <3>3, <4>1 DEF Timely
      <4>3. \A c \in calls' :
               quiet' <= IF c.kind = "ping" THEN c.age ELSE c.age + RequestInterval + 1
        BY <1>2, <2>1, <3>1, <3>3, <4>2, Zenon DEF Timely
      <4>4. ~ sendedNo' < Len(nodes_list)' BY <2>1, <3>1, <3>2
      <4>5. since' < RequestInterval \/ RequestInterval = 0 BY <1>1, <3>1
      <4> QED BY <4>3, <4>4, <4>5, Zenon DEF Timely
    <3>8. ASSUME Followed PROVE Followed'
      <4>1. \A n \in pinged_list \cap Live :
               n \in Listed \/ \E c \in calls \cup new : c.kind = "ping" /\ c.to = n
        BY <3>8, Zenon DEF Followed
      <4>2. ASSUME NEW i \in 1..Len(nodes_list), NEW q \in Questions
            PROVE  \/ Answer[nodes_list[i]][q] \subseteq pinged_list
                   \/ \E c \in calls \cup new :
                         c.kind = "getNodes" /\ c.to = nodes_list[i] /\ c.q = {q}
        <5>1. i \in 1..sendedNo \/ i \in (sendedNo + 1)..Len(nodes_list) BY <3>2
        <5>2. CASE i \in 1..sendedNo BY <3>8, <5>2 DEF Followed
        <5>3. CASE i \in (sendedNo + 1)..Len(nodes_list) BY <3>4, <5>3, Zenon
        <5> QED BY <5>1, <5>2, <5>3, Zenon
      <4>3. \A n \in pinged_list' \cap Live :
               n \in Listed' \/ \E c \in calls' : c.kind = "ping" /\ c.to = n
        BY <1>3, <2>1, <3>1, <4>1, Zenon
      <4>4. \A i \in 1..sendedNo', q \in Questions :
               \/ Answer[nodes_list'[i]][q] \subseteq pinged_list'
               \/ \E c \in calls' : c.kind = "getNodes" /\ c.to = nodes_list'[i] /\ c.q = {q}
        <5>1. nodes_list' = nodes_list /\ pinged_list' = pinged_list BY <2>1, Zenon
        <5>2. 1..sendedNo' = 1..Len(nodes_list) BY <3>1, Zenon
        <5> QED BY <3>1, <4>2, <5>1, <5>2
      <4> QED BY <4>3, <4>4, Zenon DEF Followed
    <3> QED BY <2>1, <3>5, <3>6, <3>7, <3>8, Zenon DEF IInv
  <2> QED BY <2>2, <2>3, Zenon
<1> QED BY <1>4, <1>5, Zenon

\* Calls that are open are dropped; after a whole crawl there are none.
LEMMA stopStep == ASSUME IInv, stopCrawl PROVE IInv'
<1>1. /\ pc = "stop" /\ pc' = "stopped" /\ calls' = {}
      /\ UNCHANGED <<nodes_list, pinged_list, sendedNo, quiet, since, awake, interrupted,
                     limit, lost>>
  BY Zenon DEF stopCrawl
<1>2. Listed' = Listed BY <1>1, Zenon DEF Listed
<1>3. TypeOK' /\ Sound' /\ Timely'
  BY <1>1, <1>2, Zenon DEF IInv, TypeOK, Sound, Timely, Reachable
<1>4. Followed /\ Whole => Followed' BY <1>1, <1>2, Zenon DEF IInv, Followed
<1> QED BY <1>1, <1>3, <1>4, Zenon DEF IInv, Whole

\* A signal cuts the crawl short.
LEMMA signalStep == ASSUME IInv, signal PROVE IInv'
<1>1. /\ pc = "loop" /\ interrupted' = TRUE
      /\ UNCHANGED <<nodes_list, pinged_list, sendedNo, calls, quiet, since, pc, awake, limit,
                     lost>>
  BY Zenon DEF signal
<1>2. Listed' = Listed BY <1>1, Zenon DEF Listed
<1>3. TypeOK' /\ Sound' /\ Timely'
  BY <1>1, <1>2, Zenon DEF IInv, TypeOK, Sound, Timely, Reachable
<1>4. Followed => Followed' BY <1>1, <1>2 DEF Followed
<1> QED BY <1>1, <1>3, <1>4, Zenon DEF IInv

\* A call to a live node that times out is lost.
LEMMA timedOutStep ==
    ASSUME IInv, NEW c \in calls, timedOut(c)
    PROVE  IInv'
<1>1. /\ calls' = calls \ {c} /\ lost' = (lost \/ c.to \in Live) /\ pc # "stopped"
      /\ UNCHANGED <<nodes_list, pinged_list, sendedNo, quiet, since, pc, awake, interrupted,
                     limit>>
  BY Zenon DEF timedOut
<1>2. Listed' = Listed BY <1>1, Zenon DEF Listed
<1>3. TypeOK'
  <2>1. lost' \in BOOLEAN BY <1>1, Zenon
  <2> QED BY <1>1, <2>1, Zenon DEF IInv, TypeOK
<1>4. Sound' /\ Timely' BY <1>1, <1>2, Zenon DEF IInv, Sound, Timely, Reachable
<1>5. ASSUME Followed, c.to \notin Live PROVE Followed'
  <2>1. \A n \in pinged_list \cap Live :
           n \in Listed \/ \E x \in calls \ {c} : x.kind = "ping" /\ x.to = n
    BY <1>5 DEF Followed
  <2>2. nodes_list \in Seq(Nodes) /\ sendedNo \in 0..Len(nodes_list) BY Zenon DEF IInv, TypeOK
  <2>3. \A i \in 1..sendedNo : nodes_list[i] \in Live
    <3>1. \A i \in 1..sendedNo : i \in DOMAIN nodes_list BY <2>2
    <3> QED BY <3>1, Zenon DEF IInv, Sound, Listed
  <2>4. \A i \in 1..sendedNo, q \in Questions :
           \/ Answer[nodes_list[i]][q] \subseteq pinged_list
           \/ \E x \in calls \ {c} : x.kind = "getNodes" /\ x.to = nodes_list[i] /\ x.q = {q}
    BY <1>5, <2>3 DEF Followed
  <2> QED BY <1>1, <1>2, <2>1, <2>4 DEF Followed
<1>6. pc' # "loop" /\ Whole' => calls' = {} /\ sendedNo' = Len(nodes_list')
  BY <1>1, Zenon DEF IInv, Whole
<1>7. lost' \/ Followed' BY <1>1, <1>5, Zenon DEF IInv
<1> QED BY <1>3, <1>4, <1>6, <1>7, Zenon DEF IInv

\* The handler of a ping lists the node.
LEMMA answeredStep ==
    ASSUME IInv, NEW c \in calls, c.kind = "ping", responded(c)
    PROVE  IInv'
<1>1. /\ pc # "stopped" /\ c.to \in Live /\ calls' = calls \ {c}
      /\ UNCHANGED <<pinged_list, sendedNo, since, pc, awake, interrupted, limit, lost>>
      /\ IF c.to \in Listed THEN UNCHANGED <<nodes_list, quiet>>
         ELSE nodes_list' = Append(nodes_list, c.to) /\ quiet' = 0
  BY Zenon DEF responded, answered, crawled
<1>2. TypeOK /\ Sound /\ Timely BY Zenon DEF IInv
<1>3. c.to \in Nodes /\ c.to \in pinged_list BY <1>2, Zenon DEF TypeOK, Call, Sound
<1>4. CASE c.to \in Listed
  <2>1. UNCHANGED <<nodes_list, quiet>> /\ Listed' = Listed BY <1>1, <1>4, Zenon DEF Listed
  <2>2. TypeOK' /\ Sound' /\ Timely' BY <1>1, <1>2, <2>1, Zenon DEF TypeOK, Sound, Timely, Reachable
  <2>3. ASSUME Followed PROVE Followed'
    <3>1. \A n \in pinged_list \cap Live :
             n \in Listed \/ \E x \in calls \ {c} : x.kind = "ping" /\ x.to = n
      BY <1>4, <2>3 DEF Followed
    <3>2. \A i \in 1..sendedNo, q \in Questions :
             \/ Answer[nodes_list[i]][q] \subseteq pinged_list
             \/ \E x \in calls \ {c} : x.kind = "getNodes" /\ x.to = nodes_list[i] /\ x.q = {q}
      BY <2>3 DEF Followed
    <3>3. /\ pinged_list' = pinged_list /\ calls' = calls \ {c} /\ nodes_list' = nodes_list
          /\ sendedNo' = sendedNo
      BY <1>1, <2>1, Zenon
    <3> QED BY <2>1, <3>1, <3>2, <3>3 DEF Followed
  <2>4. pc' # "loop" /\ Whole' => calls' = {} /\ sendedNo' = Len(nodes_list')
    BY <1>1, <2>1, Zenon DEF IInv, Whole
  <2> QED BY <1>1, <2>2, <2>3, <2>4, Zenon DEF IInv
<1>5. CASE c.to \notin Listed
  <2>1. nodes_list' = Append(nodes_list, c.to) /\ quiet' = 0 BY <1>1, <1>5, Zenon
  <2>2. nodes_list \in Seq(Nodes) BY <1>2, Zenon DEF TypeOK
  <2>3. /\ Listed' = Listed \cup {c.to} /\ Len(nodes_list') = Len(nodes_list) + 1
        /\ nodes_list' \in Seq(Nodes)
        /\ \A i \in 1..Len(nodes_list) : nodes_list'[i] = nodes_list[i]
        /\ Len(nodes_list) \in Nat
    BY <1>3, <2>1, <2>2, ListedAppend
  <2>4. TypeOK'
    <3>1. sendedNo' \in 0..Len(nodes_list') BY <1>1, <1>2, <2>3 DEF TypeOK
    <3>2. quiet' \in 0..Timeout BY <2>1, Times
    <3> QED BY <1>1, <1>2, <2>3, <3>1, <3>2, Zenon DEF TypeOK
  <2>5. Sound'
    <3>1. IsFiniteSet(Listed') /\ Cardinality(Listed') = Len(nodes_list')
      BY <1>2, <1>5, <2>3, FS_AddElement, Zenon DEF Sound
    <3> QED BY <1>1, <1>2, <1>3, <2>3, <3>1 DEF Sound, Reachable
  <2>6. Timely'
    <3>1. \A x \in calls' : x.age \in Nat BY <1>1, <1>2, Times DEF TypeOK, Call
    <3>2. \A x \in calls' :
             quiet' <= IF x.kind = "ping" THEN x.age ELSE x.age + RequestInterval + 1
      BY <2>1, <3>1, Times
    <3>3. quiet' <= since' BY <1>1, <1>2, <2>1, Times DEF TypeOK
    <3> QED BY <1>1, <1>2, <3>2, <3>3, Zenon DEF Timely
  <2>7. ASSUME Followed PROVE Followed'
    <3>1. \A n \in pinged_list \cap Live :
             n \in Listed' \/ \E x \in calls \ {c} : x.kind = "ping" /\ x.to = n
      BY <2>3, <2>7, Zenon DEF Followed
    <3>2. \A i \in 1..sendedNo : nodes_list'[i] = nodes_list[i] BY <1>2, <2>3 DEF TypeOK
    <3>3. \A i \in 1..sendedNo, q \in Questions :
             \/ Answer[nodes_list[i]][q] \subseteq pinged_list
             \/ \E x \in calls \ {c} : x.kind = "getNodes" /\ x.to = nodes_list[i] /\ x.q = {q}
      BY <2>7 DEF Followed
    <3>4. pinged_list' = pinged_list /\ calls' = calls \ {c} /\ sendedNo' = sendedNo BY <1>1, Zenon
    <3>5. \A i \in 1..sendedNo', q \in Questions :
             \/ Answer[nodes_list'[i]][q] \subseteq pinged_list'
             \/ \E x \in calls' : x.kind = "getNodes" /\ x.to = nodes_list'[i] /\ x.q = {q}
      BY <3>2, <3>3, <3>4
    <3> QED BY <3>1, <3>4, <3>5, Zenon DEF Followed
  <2>8. pc' # "loop" => ~ Whole'
    <3>1. limit \in Nat BY <1>2, Times, Zenon DEF TypeOK
    <3>2. Whole' => Whole BY <1>1, <2>3, <3>1 DEF Whole
    <3> QED BY <1>1, <3>2, Zenon DEF IInv
  <2> QED BY <1>1, <2>4, <2>5, <2>6, <2>7, <2>8, Zenon DEF IInv
<1> QED BY <1>4, <1>5, Zenon

\* The handler of a getNodes call pings the nodes that are new.
LEMMA gotNodesStep ==
    ASSUME IInv, NEW c \in calls, c.kind # "ping", responded(c)
    PROVE  IInv'
<1> DEFINE got == UNION {Answer[c.to][q] : q \in c.q}
           new == {n \in got : n \notin pinged_list}
           pings == {Ping(n) : n \in new}
<1>1. /\ pc # "stopped" /\ c.to \in Live
      /\ calls' = (calls \ {c}) \cup pings
      /\ pinged_list' = pinged_list \cup new
      /\ quiet' = IF new = {} THEN quiet ELSE 0
      /\ UNCHANGED <<nodes_list, sendedNo, since, pc, awake, interrupted, limit, lost>>
  BY Zenon DEF responded, gotNodes, pinged
<1>2. TypeOK /\ Sound /\ Timely BY Zenon DEF IInv
<1>3. c.to \in Nodes /\ c.to \in Listed /\ c.q \subseteq Questions
  BY <1>2, Zenon DEF TypeOK, Call, Sound
<1>4. got \subseteq Nodes /\ got \cap Live \subseteq Reachable
  <2>1. ASSUME NEW q \in c.q
        PROVE  Answer[c.to][q] \subseteq Nodes /\ Answer[c.to][q] \cap Live \subseteq Reachable
    <3>1. Answer[c.to][q] \subseteq Nodes BY <1>3, CrawlerAssumption, Zenon
    <3>2. c.to \in Reachable BY <1>2, <1>3, Zenon DEF Sound
    <3>3. Answer[c.to][q] \cap Live \subseteq Reachable BY <1>3, <3>2, ReachableLeast, Zenon DEF Closed
    <3> QED BY <3>1, <3>3, Zenon
  <2> QED BY <2>1, Zenon
<1>5. \A x \in pings : x \in Call /\ x.kind = "ping" /\ x.to \in new /\ x.age = 0
  <2>1. ASSUME NEW n \in new PROVE Ping(n) \in Call
    <3>1. n \in Nodes /\ 0 \in 0..CallTimeout BY <1>4, Times
    <3> QED BY <3>1, Zenon DEF Ping, Call
  <2> QED BY <2>1 DEF Ping
<1>6. ASSUME NEW n \in new PROVE \E x \in pings : x.kind = "ping" /\ x.to = n
  <2>1. Ping(n) \in pings BY Zenon
  <2> QED BY <2>1, Zenon DEF Ping
<1>7. c.to \in Listed /\ Listed' = Listed BY <1>1, <1>3, Zenon DEF Listed
<1>8. \A q \in c.q : Answer[c.to][q] \subseteq pinged_list \cup new BY Zenon
<1>9. new \subseteq got /\ (pings # {} => new # {}) BY Zenon
<1> HIDE DEF got, new, pings
<1>10. TypeOK'
  <2>1. pinged_list' \subseteq Nodes BY <1>1, <1>2, <1>4, <1>9, Zenon DEF TypeOK
  <2>2. calls' \subseteq Call BY <1>1, <1>2, <1>5, Zenon DEF TypeOK
  <2>3. quiet' \in 0..Timeout BY <1>1, <1>2, Times DEF TypeOK
  <2> QED BY <1>1, <1>2, <2>1, <2>2, <2>3, Zenon DEF TypeOK
<1>11. Sound'
  <2>1. \A x \in calls' : x.to \in IF x.kind = "ping" THEN pinged_list' ELSE Listed'
    BY <1>1, <1>2, <1>5, <1>7, Zenon DEF Sound
  <2>2. Listed' \cup (pinged_list' \cap Live) \subseteq Reachable
    BY <1>1, <1>2, <1>4, <1>7, <1>9, Zenon DEF Sound
  <2> QED BY <1>1, <1>2, <1>7, <2>1, <2>2, Zenon DEF Sound, Reachable
<1>12. Timely'
  <2>1. quiet' <= quiet /\ quiet' \in Nat /\ quiet \in Nat /\ since \in Nat BY <1>1, <1>2, Times DEF TypeOK
  <2>2. \A x \in calls : x.age \in Nat BY <1>2, Times DEF TypeOK, Call
  <2>3. \A x \in calls' :
           quiet' <= IF x.kind = "ping" THEN x.age ELSE x.age + RequestInterval + 1
    <3>1. ASSUME NEW x \in pings PROVE quiet' <= x.age BY <1>1, <1>5, <1>9
    <3>2. ASSUME NEW x \in calls
          PROVE  quiet' <= IF x.kind = "ping" THEN x.age ELSE x.age + RequestInterval + 1
      BY <1>2, <2>1, <2>2, Times DEF Timely
    <3> QED BY <1>1, <1>5, <3>1, <3>2, Zenon
  <2>4. sendedNo' < Len(nodes_list') =>
           quiet' <= since' \/ (awake' /\ since' = RequestInterval /\ quiet' <= since' + 1)
    BY <1>1, <1>2, <2>1 DEF Timely
  <2> QED BY <1>1, <1>2, <2>3, <2>4, Zenon DEF Timely
<1>13. ASSUME Followed PROVE Followed'
  <2>1. \A n \in pinged_list' \cap Live :
           n \in Listed \/ \E x \in calls' : x.kind = "ping" /\ x.to = n
    BY <1>1, <1>6, <1>13 DEF Followed
  <2>2. ASSUME NEW i \in 1..sendedNo, NEW q \in Questions
        PROVE  \/ Answer[nodes_list[i]][q] \subseteq pinged_list'
               \/ \E x \in calls' : x.kind = "getNodes" /\ x.to = nodes_list[i] /\ x.q = {q}
    <3>1. CASE c.to = nodes_list[i] /\ c.q = {q} BY <1>1, <1>8, <3>1, Zenon
    <3>2. CASE ~ (c.to = nodes_list[i] /\ c.q = {q}) BY <1>1, <1>13, <3>2 DEF Followed
    <3> QED BY <3>1, <3>2, Zenon
  <2> QED BY <1>1, <1>7, <2>1, <2>2 DEF Followed
<1>14. pc' # "loop" => ~ Whole' BY <1>1, Zenon DEF IInv, Whole
<1> QED BY <1>1, <1>10, <1>11, <1>12, <1>13, <1>14, Zenon DEF IInv

\* Time passes for the clock and for all that is open alike.
LEMMA tickStep == ASSUME IInv, tick PROVE IInv'
<1>1. /\ pc = "loop" /\ ~ awake /\ awake' = TRUE
      /\ \A c \in calls : c.age < CallTimeout
      /\ calls' = {[c EXCEPT !.age = @ + 1] : c \in calls}
      /\ quiet' = Least(quiet + 1, Timeout) /\ since' = Least(since + 1, RequestInterval)
      /\ UNCHANGED <<nodes_list, pinged_list, sendedNo, pc, interrupted, limit, lost>>
  BY Zenon DEF tick
<1>2. TypeOK /\ Sound /\ Timely BY Zenon DEF IInv
<1>3. Listed' = Listed BY <1>1, Zenon DEF Listed
<1>4. /\ quiet \in Nat /\ since \in Nat /\ quiet' \in 0..Timeout /\ since' \in 0..RequestInterval
      /\ quiet' <= quiet + 1
      /\ since < RequestInterval => since' = since + 1
      /\ RequestInterval = 0 => since = 0 /\ since' = 0
  <2>1. /\ quiet \in 0..Timeout /\ since \in 0..RequestInterval
        /\ quiet' = Least(quiet + 1, Timeout) /\ since' = Least(since + 1, RequestInterval)
    BY <1>1, <1>2, Zenon DEF TypeOK
  <2> QED BY ONLY <2>1, Times DEF Least
<1>5. ASSUME NEW c \in calls
      PROVE  LET x == [c EXCEPT !.age = @ + 1]
             IN  x \in Call /\ x.kind = c.kind /\ x.to = c.to /\ x.q = c.q /\ x.age = c.age + 1
  <2>1. c \in Call BY <1>2, Zenon DEF TypeOK
  <2>2. c.age + 1 \in 0..CallTimeout BY <1>1, <2>1, Times DEF Call
  <2> QED BY <2>1, <2>2, Zenon DEF Call
<1>6. \A x \in calls' : x \in Call /\ \E c \in calls : x.kind = c.kind /\ x.to = c.to /\ x.age = c.age + 1
  BY <1>1, <1>5, ZenonT(30)
<1>7. \A c \in calls : \E x \in calls' : x.kind = c.kind /\ x.to = c.to /\ x.q = c.q
  BY <1>1, <1>5, Zenon
<1>8. TypeOK' BY <1>1, <1>2, <1>4, <1>6, Zenon DEF TypeOK
<1>9. Sound' BY <1>1, <1>2, <1>3, <1>6 DEF Sound, Reachable
<1>10. Timely'
  <2>1. \A c \in calls : c.age \in Nat BY <1>2, Times DEF TypeOK, Call
  <2>2. \A x \in calls' :
           quiet' <= IF x.kind = "ping" THEN x.age ELSE x.age + RequestInterval + 1
    <3> SUFFICES ASSUME NEW x \in calls'
                 PROVE  quiet' <= IF x.kind = "ping" THEN x.age ELSE x.age + RequestInterval + 1
      BY Zenon
    <3>1. PICK c \in calls : x.kind = c.kind /\ x.age = c.age + 1 BY <1>6, Zenon
    <3>2. quiet <= IF c.kind = "ping" THEN c.age ELSE c.age + RequestInterval + 1
      BY <1>2, Zenon DEF Timely
    <3>3. c.age \in Nat /\ RequestInterval \in Nat /\ quiet \in Nat /\ quiet' \in Nat
          /\ quiet' <= quiet + 1
      BY <1>4, <2>1, Times
    <3>4. CASE c.kind = "ping" BY <3>1, <3>2, <3>3, <3>4
    <3>5. CASE c.kind # "ping" BY <3>1, <3>2, <3>3, <3>5
    <3> QED BY <3>4, <3>5, Zenon
  <2>3. ASSUME sendedNo' < Len(nodes_list')
        PROVE  quiet' <= since' \/ (awake' /\ since' = RequestInterval /\ quiet' <= since' + 1)
    <3>1. quiet <= since /\ (since < RequestInterval \/ RequestInterval = 0)
      BY <1>1, <1>2, <2>3, Zenon DEF Timely
    <3>2. CASE since < RequestInterval BY <1>4, <3>1, <3>2, Times
    <3>3. CASE RequestInterval = 0 BY <1>1, <1>4, <3>1, <3>3, Times
    <3> QED BY <3>1, <3>2, <3>3, Zenon
  <2> QED BY <1>1, <2>2, <2>3, Zenon DEF Timely
<1>11. ASSUME Followed PROVE Followed'
  <2>1. \A n \in pinged_list \cap Live :
           n \in Listed \/ \E x \in calls' : x.kind = "ping" /\ x.to = n
    BY <1>7, <1>11 DEF Followed
  <2>2. \A i \in 1..sendedNo, q \in Questions :
           \/ Answer[nodes_list[i]][q] \subseteq pinged_list
           \/ \E x \in calls' : x.kind = "getNodes" /\ x.to = nodes_list[i] /\ x.q = {q}
    BY <1>7, <1>11 DEF Followed
  <2>3. UNCHANGED <<nodes_list, pinged_list, sendedNo>> BY <1>1, Zenon
  <2> QED BY ONLY <1>3, <2>1, <2>2, <2>3 DEF Followed
<1> QED BY <1>1, <1>8, <1>9, <1>10, <1>11, Zenon DEF IInv

\* The inductive invariant holds throughout a crawl.
LEMMA CrawlIInv == CrawlSpec => []IInv
<1>1. ASSUME IInv, [CrawlNext]_crawlVars PROVE IInv'
  <2>1. ASSUME NEW c \in calls, responded(c) \/ timedOut(c) PROVE IInv'
    BY <1>1, <2>1, answeredStep, gotNodesStep, timedOutStep, Zenon
  <2>2. CASE UNCHANGED crawlVars
    <3>1. Listed' = Listed /\ Whole' = Whole BY <2>2, Zenon DEF crawlVars, Listed, Whole
    <3>2. TypeOK' /\ Sound' /\ Timely'
      BY <1>1, <2>2, <3>1, Zenon DEF crawlVars, IInv, TypeOK, Sound, Timely, Reachable
    <3>3. Followed => Followed' BY <2>2, <3>1 DEF crawlVars, Followed
    <3> QED BY <1>1, <2>2, <3>1, <3>2, <3>3, Zenon DEF crawlVars, IInv
  <2> QED BY <1>1, <2>1, <2>2, turnStep, stopStep, signalStep, tickStep, Zenon DEF CrawlNext, Settle
<1> QED BY <1>1, InitCrawl, PTL DEF CrawlSpec

\* A crawl that was not cut short and lost no call to a live node ends with exactly the
\* nodes that can be found, each once: the timeout is long enough that nothing is open when
\* both counters agree (crawler.cc:76-193).
THEOREM CrawlAlwaysComplete == CrawlSpec => []CrawlComplete
<1>1. ASSUME IInv PROVE CrawlComplete
  <2>1. TypeOK /\ Sound BY <1>1, Zenon DEF IInv
  <2>2. ASSUME pc = "stopped", ~ interrupted, ~ lost, Len(nodes_list) < limit
        PROVE  Listed = Reachable
    <3>1. Followed /\ calls = {} /\ sendedNo = Len(nodes_list) BY <1>1, <2>2, Zenon DEF IInv, Whole
    <3>2. pinged_list \cap Live \subseteq Listed BY <3>1, Zenon DEF Followed
    <3>3. DOMAIN nodes_list = 1..Len(nodes_list) /\ Listed \subseteq Nodes
      BY <2>1 DEF TypeOK, Listed
    <3>4. \A n \in Listed, q \in Questions : Answer[n][q] \subseteq pinged_list
      BY <3>1, <3>3, Zenon DEF Followed, Listed
    <3>5. Closed(Listed) BY <2>1, <3>2, <3>4, Zenon DEF Closed, Sound
    <3> QED BY <2>1, <3>3, <3>5, ReachableLeast, Zenon DEF Sound
  <2> QED BY <2>1, <2>2, Zenon DEF Sound, CrawlComplete
<1> QED BY <1>1, CrawlIInv, PTL

-----------------------------------------------------------------------------
(* The sockets. *)

SockTypeOK ==
    /\ owner \in [Fds -> {"free", "server", "lost", "other"}]
    /\ sock \in [Family -> Fds \cup {NoFd}] /\ ls \in [Family -> Fds \cup {NoFd}]
    /\ state \in {"NONE", "INITIAL", "RUNNING", "STOPPED"} /\ running = (state = "RUNNING")
    /\ thread \in {"none", "loop", "unbind4", "bind4", "unbind6", "bind6", "close4", "close6",
                   "reset", "done"}
    /\ unbound \in BOOLEAN /\ foreign \in BOOLEAN

\* The families whose descriptors are open, at the place where the thread is.
Open ==
    CASE thread = "none" -> IF state = "INITIAL" THEN Family ELSE {}
      [] thread \in {"loop", "unbind4", "unbind6", "close4"} -> Family
      [] thread \in {"bind4", "close6"} -> {"v6"}
      [] thread = "bind6" -> {"v4"}
      [] OTHER -> {}

\* The copies that say which they are.
Known == IF thread = "none" THEN sock ELSE ls

\* With the descriptors o, the server has open those of the families fs that k knows, and
\* no others; one that it knows may be closed already if loose.
Exact(o, k, fs, loose) ==
    /\ k["v4"] = k["v6"] => k["v4"] = NoFd
    /\ \A fd \in Fds : o[fd] = "server" => \E f \in fs : k[f] = fd
    /\ \A f \in fs : k[f] = NoFd \/ o[k[f]] = "server" \/ loose

\* The inductive invariant: the server has open the descriptors that it knows and no
\* others, except that a rebinding that failed has closed one already.
SockIInv ==
    /\ SockTypeOK
    /\ state \in {"NONE", "INITIAL"} => thread = "none"
    /\ state = "RUNNING" => thread # "none"
    /\ thread = "loop" => sock = ls
    /\ Exact(owner, Known, Open, thread \in {"close4", "close6"} /\ unbound)
    /\ foreign => unbound

\* close() of what k knows of f leaves the other families open.
LEMMA CloseExact ==
    ASSUME NEW o \in [Fds -> {"free", "server", "lost", "other"}],
           NEW k \in [Family -> Fds \cup {NoFd}], NoFd \notin Fds,
           NEW fs \in SUBSET Family, NEW f \in Family,
           Exact(o, k, fs, FALSE), k[f] # NoFd
    PROVE  /\ [o EXCEPT ![k[f]] = "free"] \in [Fds -> {"free", "server", "lost", "other"}]
           /\ Exact([o EXCEPT ![k[f]] = "free"], k, fs \ {f}, FALSE)
BY DEF Exact, Family

\* A new socket for f is another descriptor than the ones that are open.
LEMMA BindExact ==
    ASSUME NEW o \in [Fds -> {"free", "server", "lost", "other"}],
           NEW k \in [Family -> Fds \cup {NoFd}], NoFd \notin Fds,
           NEW f \in Family, NEW fd \in Fds, o[fd] = "free",
           Exact(o, k, Family \ {f}, FALSE)
    PROVE  /\ [o EXCEPT ![fd] = "server"] \in [Fds -> {"free", "server", "lost", "other"}]
           /\ [k EXCEPT ![f] = fd] \in [Family -> Fds \cup {NoFd}]
           /\ Exact([o EXCEPT ![fd] = "server"], [k EXCEPT ![f] = fd], Family, FALSE)
BY DEF Exact, Family

\* Nothing is open at first.
LEMMA InitSock == ASSUME Init PROVE SockIInv
<1>1. SockTypeOK BY Zenon DEF Init, SockTypeOK, NoSocks
<1>2. Exact(owner, Known, Open, FALSE) /\ thread = "none"
  BY Zenon DEF Init, NoSocks, Family, Exact, Known, Open
<1> QED BY <1>1, <1>2, Zenon DEF Init, SockIInv

\* A server has the sockets it binds; one whose construction fails leaves them behind.
LEMMA constructStep ==
    ASSUME SockIInv,
           NEW want \in SUBSET Family, NEW failing \in Family \cup {"none"},
           construct(want, failing)
    PROVE  SockIInv'
<1> DEFINE bound == IF failing = "none" THEN want
                    ELSE IF failing = "v6" THEN want \ {"v6"} ELSE {}
           o(s) == [fd \in Fds |-> IF \E f \in bound : s[f] = fd THEN "server" ELSE owner[fd]]
<1>1. /\ state = "NONE" /\ thread = "none" /\ SockTypeOK /\ (foreign => unbound)
      /\ Exact(owner, sock, {}, FALSE) /\ NoFd \notin Fds
      /\ UNCHANGED <<ls, running, thread, joining, unbound, foreign>>
  BY SocketsAssumption, Zenon DEF SockIInv, construct, Exact, Known, Open
<1>2. PICK s \in [Family -> Fds \cup {NoFd}] :
         /\ \A f \in Family : IF f \in bound THEN s[f] \in Free ELSE s[f] = NoFd
         /\ \A f, g \in bound : f # g => s[f] # s[g]
         /\ IF failing = "none" /\ want # {}
            THEN owner' = o(s) /\ sock' = s /\ state' = "INITIAL"
            ELSE owner' = Lose(o(s)) /\ UNCHANGED <<sock, state>>
  BY Zenon DEF construct, bindSockets
<1>3. bound \subseteq Family BY Zenon
<1> HIDE DEF bound
<1>4. /\ o(s) \in [Fds -> {"free", "server", "lost", "other"}]
      /\ Lose(o(s)) \in [Fds -> {"free", "server", "lost", "other"}]
      /\ \A fd \in Fds : Lose(o(s))[fd] # "server"
  BY <1>1, Zenon DEF SockTypeOK, Lose
<1>5. CASE failing = "none" /\ want # {}
  <2>1. owner' = o(s) /\ sock' = s /\ state' = "INITIAL" BY <1>2, <1>5, Zenon
  <2>2. \A fd \in Fds : o(s)[fd] = "server" => \E f \in Family : s[f] = fd
    BY <1>1, <1>3, Zenon DEF Exact
  <2>3. \A f \in Family : s[f] = NoFd \/ o(s)[s[f]] = "server"
    BY <1>2, Zenon DEF Free
  <2>4. s["v4"] = s["v6"] => s["v4"] = NoFd BY <1>2, Zenon DEF Family
  <2>5. Exact(owner', sock', Family, FALSE) BY <2>1, <2>2, <2>3, <2>4, Zenon DEF Exact
  <2>6. Known' = sock' /\ Open' = Family BY <1>1, <2>1, Zenon DEF Known, Open
  <2>7. SockTypeOK' BY <1>1, <1>2, <1>4, <2>1, Zenon DEF SockTypeOK
  <2>8. Exact(owner', Known', Open', (thread \in {"close4", "close6"} /\ unbound)')
    BY <2>5, <2>6, Zenon DEF Exact
  <2> QED BY <1>1, <2>1, <2>7, <2>8, Zenon DEF SockIInv, Exact
<1>6. CASE ~ (failing = "none" /\ want # {})
  <2>1. owner' = Lose(o(s)) /\ sock' = sock /\ state' = "NONE" BY <1>1, <1>2, <1>6, Zenon
  <2>2. Known' = sock /\ Open' = {} BY <1>1, <2>1, Zenon DEF Known, Open
  <2>3. Exact(owner', Known', Open', (thread \in {"close4", "close6"} /\ unbound)')
    BY <1>1, <1>4, <2>1, <2>2, Zenon DEF Exact
  <2>4. SockTypeOK' BY <1>1, <1>4, <2>1, Zenon DEF SockTypeOK
  <2> QED BY <1>1, <2>1, <2>3, <2>4, Zenon DEF SockIInv, Exact
<1> QED BY <1>5, <1>6, Zenon

\* The life of the server: its sockets pass to the thread, or are left behind.
LEMMA serverStep ==
    ASSUME SockIInv, start \/ stop \/ joined
    PROVE  SockIInv'
<1>1. CASE start
  <2>1. Known' = Known /\ Open' = Open
    BY <1>1, Zenon DEF SockIInv, start, Known, Open
  <2>2. SockTypeOK' BY <1>1, Zenon DEF SockIInv, SockTypeOK, start
  <2> QED BY <1>1, <2>1, <2>2, Zenon DEF SockIInv, Exact, start
<1>2. CASE stop
  <2>1. CASE running
    <3>1. Known' = Known /\ Open' = Open /\ SockTypeOK'
      BY <1>2, <2>1, Zenon DEF SockIInv, SockTypeOK, stop, Known, Open
    <3> QED BY <1>2, <2>1, <3>1, Zenon DEF SockIInv, Exact, stop, SockTypeOK
  <2>2. CASE ~ running
    <3>1. thread = "none" /\ state' = "STOPPED" /\ owner' = Lose(owner)
      BY <1>2, <2>2, Zenon DEF SockIInv, SockTypeOK, stop
    <3>2. Known' = Known /\ Open' = {} BY <1>2, <3>1, Zenon DEF stop, Known, Open
    <3>3. \A fd \in Fds : owner'[fd] # "server" BY <3>1, Zenon DEF Lose
    <3>4. SockTypeOK' BY <1>2, <3>1, Zenon DEF SockIInv, SockTypeOK, stop, Lose
    <3> QED BY <1>2, <3>1, <3>2, <3>3, <3>4, Zenon DEF SockIInv, Exact, stop
  <2> QED BY <2>1, <2>2, Zenon DEF SockIInv, SockTypeOK
<1>3. CASE joined
  <2>1. Open = {} /\ Open' = {} /\ Known' = NoSocks
    BY <1>3, Zenon DEF joined, Known, Open
  <2>2. SockTypeOK' BY <1>3, Zenon DEF SockIInv, SockTypeOK, joined, NoSocks
  <2> QED BY <1>3, <2>1, <2>2, Zenon DEF SockIInv, Exact, joined, NoSocks, Family
<1> QED BY <1>1, <1>2, <1>3, Zenon

\* The loop is left or interrupted with all sockets open.
LEMMA loopStep ==
    ASSUME SockIInv, leaveLoop \/ connectionError
    PROVE  SockIInv'
<1>1. Known' = Known /\ Open' = Open
  BY Zenon DEF leaveLoop, connectionError, Known, Open
<1>2. SockTypeOK' BY Zenon DEF SockIInv, SockTypeOK, leaveLoop, connectionError
<1> QED BY <1>1, <1>2 DEF SockIInv, Exact, leaveLoop, connectionError

\* Rebinding closes what it knows and opens another.
LEMMA rebindStep == ASSUME SockIInv, Rebind PROVE SockIInv'
<1>1. /\ SockTypeOK /\ NoFd \notin Fds /\ (foreign => unbound)
      /\ (state \in {"NONE", "INITIAL"} => thread = "none")
      /\ "v4" \in Family /\ "v6" \in Family
  BY SocketsAssumption, Zenon DEF SockIInv, Family
<1>2. ASSUME NEW f \in Family, NEW at, NEW next, NEW after, unbind(f, at, next, after),
             \/ f = "v4" /\ at = "unbind4" /\ next = "bind4" /\ after = "unbind6"
             \/ f = "v6" /\ at = "unbind6" /\ next = "bind6" /\ after = "loop"
      PROVE  SockIInv'
  <2>1. thread = at /\ UNCHANGED <<ls, state, running, joining, servers, unbound>>
    BY <1>2, Zenon DEF unbind
  <2>2. Known = ls /\ Open = Family /\ Exact(owner, ls, Family, FALSE)
    BY <1>2, <2>1, Zenon DEF SockIInv, Known, Open, Exact
  <2>3. CASE ls[f] = NoFd
    <3>1. /\ thread' = after /\ UNCHANGED <<owner, foreign>>
          /\ sock' = IF after = "loop" THEN ls ELSE sock
      BY <1>2, <2>3, Zenon DEF unbind
    <3>2. Known' = ls /\ Open' = Family BY <1>2, <2>1, <3>1, Zenon DEF Known, Open
    <3>3. SockTypeOK' BY <1>1, <1>2, <2>1, <3>1, Zenon DEF SockTypeOK
    <3> QED BY <1>1, <1>2, <2>1, <2>2, <3>1, <3>2, <3>3, Zenon DEF SockIInv, Exact
  <2>4. CASE ls[f] # NoFd
    <3>1. thread' = next /\ sock' = sock /\ closeFd(ls[f]) BY <1>2, <2>4, Zenon DEF unbind
    <3>2. owner' = [owner EXCEPT ![ls[f]] = "free"] /\ foreign' = foreign
      BY <1>1, <2>2, <2>4, <3>1, Zenon DEF closeFd, Exact, SockTypeOK
    <3>3. /\ owner' \in [Fds -> {"free", "server", "lost", "other"}]
          /\ Exact(owner', ls, Family \ {f}, FALSE)
      BY <1>1, <2>2, <2>4, <3>2, CloseExact, Zenon DEF SockTypeOK
    <3>4. Known' = ls /\ Open' = Family \ {f}
      BY <1>2, <2>1, <3>1, Zenon DEF Known, Open, Family
    <3>5. SockTypeOK' BY <1>1, <1>2, <2>1, <3>1, <3>2, <3>3, Zenon DEF SockTypeOK
    <3> QED BY <1>1, <1>2, <2>1, <3>1, <3>2, <3>3, <3>4, <3>5, Zenon DEF SockIInv, Exact
  <2> QED BY <2>3, <2>4, Zenon
<1>3. ASSUME NEW f \in Family, NEW at, NEW after, bind(f, at, after),
             \/ f = "v4" /\ at = "bind4" /\ after = "unbind6"
             \/ f = "v6" /\ at = "bind6" /\ after = "loop"
      PROVE  SockIInv'
  <2>1. PICK fd \in Free :
           /\ owner' = [owner EXCEPT ![fd] = "server"] /\ ls' = [ls EXCEPT ![f] = fd]
           /\ sock' = IF after = "loop" THEN [ls EXCEPT ![f] = fd] ELSE sock
           /\ thread' = after /\ thread = at
           /\ UNCHANGED <<state, running, joining, servers, unbound, foreign>>
    BY <1>3, Zenon DEF bind
  <2>2. Known = ls /\ Open = Family \ {f} /\ Exact(owner, ls, Family \ {f}, FALSE)
    BY <1>3, <2>1, Zenon DEF SockIInv, Known, Open, Exact, Family
  <2>3. fd \in Fds /\ owner[fd] = "free" BY Zenon DEF Free
  <2>4. /\ owner' \in [Fds -> {"free", "server", "lost", "other"}]
        /\ ls' \in [Family -> Fds \cup {NoFd}]
        /\ Exact(owner', ls', Family, FALSE)
    BY <1>1, <2>1, <2>2, <2>3, BindExact, Zenon DEF SockTypeOK
  <2>5. Known' = ls' /\ Open' = Family BY <1>3, <2>1, Zenon DEF Known, Open
  <2>6. SockTypeOK' BY <1>1, <1>3, <2>1, <2>4, Zenon DEF SockTypeOK
  <2> QED BY <1>1, <1>3, <2>1, <2>4, <2>5, <2>6, Zenon DEF SockIInv, Exact
<1>4. ASSUME NEW at, bindFails(at), at = "bind4" \/ at = "bind6"
      PROVE  SockIInv'
  <2>1. /\ thread = at /\ thread' = "close4" /\ unbound' = TRUE
        /\ UNCHANGED <<owner, sock, ls, state, running, joining, servers, foreign>>
    BY <1>4, Zenon DEF bindFails
  <2>2. Known' = ls /\ Known = ls /\ Open' = Family /\ Open \subseteq Family
    BY <1>4, <2>1, Zenon DEF Known, Open, Family
  <2>3. SockTypeOK' BY <1>1, <2>1, Zenon DEF SockTypeOK
  <2> QED BY <1>1, <1>4, <2>1, <2>2, <2>3, Zenon DEF SockIInv, Exact
<1> QED BY <1>1, <1>2, <1>3, <1>4, Zenon DEF Rebind

\* After the loop both descriptors are closed, then forgotten.
LEMMA closeStep == ASSUME SockIInv, Close PROVE SockIInv'
<1>1. /\ SockTypeOK /\ NoFd \notin Fds /\ (foreign => unbound)
      /\ (state \in {"NONE", "INITIAL"} => thread = "none")
      /\ "v4" \in Family /\ "v6" \in Family
  BY SocketsAssumption, Zenon DEF SockIInv, Family
<1>2. ASSUME NEW f \in Family, NEW at, NEW next, closeSocket(f, at, next),
             \/ f = "v4" /\ at = "close4" /\ next = "close6"
             \/ f = "v6" /\ at = "close6" /\ next = "reset"
      PROVE  SockIInv'
  <2>1. /\ thread = at /\ thread' = next /\ closeFd(ls[f])
        /\ UNCHANGED <<sock, ls, state, running, joining, servers, unbound>>
    BY <1>2, Zenon DEF closeSocket
  <2>2. Known = ls /\ Known' = ls /\ f \in Open /\ Open' = Open \ {f} /\ Open \subseteq Family
    BY <1>2, <2>1, Zenon DEF Known, Open, Family
  <2>3. Exact(owner, ls, Open, unbound) /\ unbound \in BOOLEAN
    BY <1>1, <1>2, <2>1, <2>2, Zenon DEF SockIInv, SockTypeOK
  <2>4. /\ owner' \in [Fds -> {"free", "server", "lost", "other"}]
        /\ Exact(owner', ls, Open', unbound) /\ (foreign' => unbound)
    <3>1. CASE ls[f] = NoFd
      BY <1>1, <2>1, <2>2, <2>3, <3>1, Zenon DEF closeFd, Exact, SockTypeOK
    <3>2. CASE ls[f] # NoFd
      <4>1. owner' = [owner EXCEPT ![ls[f]] = "free"] BY <2>1, <3>2, Zenon DEF closeFd
      <4>2. foreign' => unbound
        BY <1>1, <2>1, <2>2, <2>3, <3>2, Zenon DEF closeFd, Exact, SockTypeOK
      <4>3. /\ owner \in [Fds -> {"free", "server", "lost", "other"}]
            /\ ls \in [Family -> Fds \cup {NoFd}] /\ Open \in SUBSET Family
        BY <1>1, <2>2, Zenon DEF SockTypeOK
      <4>4. owner' \in [Fds -> {"free", "server", "lost", "other"}] BY <4>1, <4>3, Zenon
      <4>5. CASE unbound BY <2>2, <2>3, <4>1, <4>2, <4>3, <4>4, <4>5, Zenon DEF Exact
      <4>6. CASE ~ unbound
        <5>1. Exact(owner, ls, Open, FALSE) BY <2>3, <4>6, Zenon DEF Exact
        <5>2. Exact(owner', ls, Open \ {f}, FALSE)
          BY <1>1, <3>2, <4>1, <4>3, <5>1, CloseExact, Zenon
        <5> QED BY <2>2, <4>2, <4>4, <4>6, <5>2, Zenon DEF Exact
      <4> QED BY <4>5, <4>6, Zenon
    <3> QED BY <3>1, <3>2, Zenon
  <2>5. foreign' \in BOOLEAN BY <1>1, <2>1, Zenon DEF closeFd, SockTypeOK
  <2>6. SockTypeOK' BY <1>1, <1>2, <2>1, <2>4, <2>5, Zenon DEF SockTypeOK
  <2>7. Exact(owner', Known', Open', (thread \in {"close4", "close6"} /\ unbound)')
    BY <1>2, <2>1, <2>2, <2>4, Zenon DEF Exact, Open
  <2> QED BY <1>1, <1>2, <2>1, <2>4, <2>6, <2>7, Zenon DEF SockIInv, Exact
<1>3. CASE resetSockets
  <2>1. Known' = Known /\ Open' = Open BY <1>3, Zenon DEF resetSockets, Known, Open
  <2>2. SockTypeOK' BY <1>1, <1>3, Zenon DEF SockTypeOK, resetSockets, NoSocks
  <2> QED BY <1>1, <1>3, <2>1, <2>2, Zenon DEF SockIInv, Exact, resetSockets
<1> QED BY <1>1, <1>2, <1>3, Zenon DEF Close

\* The rest of the process gets and closes descriptors that the server does not have.
LEMMA otherStep ==
    ASSUME SockIInv, NEW fd \in Fds, otherOpens(fd) \/ otherCloses(fd)
    PROVE  SockIInv'
<1>1. Known' = Known /\ Open' = Open /\ thread' = thread /\ unbound' = unbound
  BY Zenon DEF otherOpens, otherCloses, Known, Open
<1>2. SockTypeOK /\ SockTypeOK'
  BY Zenon DEF SockIInv, SockTypeOK, otherOpens, otherCloses
<1>3. \A x \in Fds : owner'[x] = "server" <=> owner[x] = "server"
  BY <1>2, Zenon DEF otherOpens, otherCloses, SockTypeOK
<1>4. Open \subseteq Family /\ Known \in [Family -> Fds \cup {NoFd}]
  BY <1>2, Zenon DEF Open, Known, SockTypeOK, Family
<1>5. Exact(owner', Known', Open', (thread \in {"close4", "close6"} /\ unbound)')
  BY <1>1, <1>3, <1>4, Zenon DEF SockIInv, Exact
<1> QED BY <1>1, <1>2, <1>5 DEF SockIInv, Exact, otherOpens, otherCloses

\* The inductive invariant holds for every server and what comes after it.
LEMMA AlwaysSockIInv == Spec => []SockIInv
<1>1. ASSUME SockIInv, [Next]_vars PROVE SockIInv'
  <2>1. CASE UNCHANGED vars
    <3>1. Known' = Known /\ Open' = Open /\ SockTypeOK'
      BY <1>1, <2>1, Zenon DEF vars, Known, Open, SockIInv, SockTypeOK
    <3> QED BY <1>1, <2>1, <3>1, Zenon DEF vars, SockIInv, Exact
  <2> QED BY <1>1, <2>1, constructStep, serverStep, loopStep, rebindStep, closeStep, otherStep, Zenon
          DEF Next
<1> QED BY <1>1, InitSock, PTL DEF Spec

\* A server sends on sockets of its own, closes nothing of the rest of the process unless
\* rebinding has failed, and leaves none of its sockets behind once its thread was started
\* (rpcserver.cc:152-155, 312-336, 340-341, 357-370).
THEOREM SocketsAlwaysOwned == Spec => []OwnsItsSockets
<1>1. ASSUME SockIInv PROVE OwnsItsSockets
  <2>1. ASSUME state \in {"INITIAL", "RUNNING"}, thread \in {"none", "loop"},
               NEW f \in Family, sock[f] # NoFd
        PROVE  owner[sock[f]] = "server"
    <3>1. Known = sock /\ Open = Family BY <1>1, <2>1, Zenon DEF SockIInv, Known, Open
    <3> QED BY <1>1, <2>1, <3>1, Zenon DEF SockIInv, Exact
  <2>2. ASSUME state = "NONE" PROVE \A fd \in Fds : owner[fd] # "server"
    <3>1. Open = {} BY <1>1, <2>2, Zenon DEF SockIInv, Open
    <3> QED BY <1>1, <3>1, Zenon DEF SockIInv, Exact
  <2> QED BY <1>1, <2>1, <2>2, Zenon DEF SockIInv, OwnsItsSockets
<1> QED BY <1>1, AlwaysSockIInv, PTL
=============================================================================
