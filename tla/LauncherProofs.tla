--------------------------- MODULE LauncherProofs ---------------------------
(***************************************************************************)
(* Proofs about Launcher, for any number of launches and deaths: one node  *)
(* at a time on the data directory, inside the life of its lock, and one   *)
(* key for all of them.                                                    *)
(***************************************************************************)
EXTENDS Launcher, FiniteSetTheorems, TLAPS

\* Where the node runs, and where the main thread has the lock.
Running == {"addons", "find", "found", "started", "wait",
            "unload", "join", "joinServer", "writeTable"}
Holding == Running \cup {"locked", "initKey", "writeKey", "keyed", "start"}

Process ==
    [pc : Holding \cup {"none", "opened", "exit", "remove", "gone"},
     fd : Int, locked : BOOLEAN, held : BOOLEAN, key : Int,
     node : {"Stopped", "Running"},
     rx : {"none", "loop", "saving", "done", "stuck"},
     proxy : {"none", "starting", "running", "stopping", "done"},
     quit : BOOLEAN]

Disk == [lock : Int, key : Int, id : Int, table : Int]

Hist == [deaths : Nat, raced : BOOLEAN, cut : SUBSET {"key", "table"}, emptied : BOOLEAN]

TypeOK == proc \in [Procs -> Process] /\ disk \in Disk /\ hist \in Hist

\* What the order of the steps of main makes of each process by itself.
Orderly(r) ==
    /\ r.pc \in Holding => r.locked
    /\ r.locked => r.fd # NoFile /\ r.held /\ r.pc \in Holding \cup {"exit"}
    /\ r.fd # NoFile => r.pc = "opened" \/ r.locked
    /\ r.pc = "opened" => r.fd # NoFile
    /\ r.pc = "remove" => r.held
    /\ r.node = "Running" <=> r.pc \in Running
    /\ r.pc = "started" => r.proxy \in {"starting", "running"}
    /\ r.pc = "wait" => r.proxy \in {"none", "running"}
    /\ r.pc = "join" => r.proxy \in {"stopping", "done"}
    /\ r.pc \in {"unload", "joinServer", "writeTable", "exit", "remove", "gone"}
          => r.proxy \in {"none", "done"}
    /\ r.pc \in {"none", "opened", "locked", "initKey", "writeKey", "keyed", "start", "addons",
                 "find", "found"}
          => r.proxy = "none"

\* What the lock makes of them together: who has a file open has the one at the path, and
\* so at most one has its lock.
Exclusive ==
    ~hist.raced =>
        /\ \A p \in Procs : proc[p].fd # NoFile => proc[p].fd = disk.lock
        /\ \A p, q \in Procs : proc[p].locked /\ proc[q].locked => p = q

LockInv == TypeOK /\ (\A p \in Procs : Orderly(proc[p])) /\ Exclusive

\* The step of one process to record r; that it takes no lock; and that a step leaves the
\* file of the lock alone.
Becomes(p, r) == r \in Process /\ Orderly(r) /\ proc' = [proc EXCEPT ![p] = r]
Kept(old, new) == new.fd \in {old.fd, NoFile} /\ (new.locked => old.locked)
Quiet == disk' \in Disk /\ disk'.lock = disk.lock /\ hist' \in Hist /\ hist'.raced = hist.raced

-----------------------------------------------------------------------------
\* Files and keys are named by processes, and no process is NoFile or Empty.
LEMMA ProcsAreInts == Procs \subseteq Int \ {NoFile, Empty}
BY LauncherAssumption DEF LauncherAssumption, Procs, NoFile, Empty

\* The invariant holds before the first launch.
LEMMA LockInit == Init => LockInv
<1> SUFFICES ASSUME Init PROVE LockInv
  BY Zenon
<1>1. TypeOK
  BY DEF Init, TypeOK, Process, Disk, Hist, Running, Holding, NoFile
<1>2. \A p \in Procs : Orderly(proc[p])
  BY Zenon DEF Init, Orderly, Running, Holding
<1>3. Exclusive
  BY Zenon DEF Init, Exclusive
<1> QED
  BY <1>1, <1>2, <1>3, Zenon DEF LockInv

\* A step of one process changes its record and no other.
LEMMA OneChanges ==
    ASSUME LockInv, NEW p \in Procs, NEW r, Becomes(p, r), disk' \in Disk, hist' \in Hist
    PROVE  /\ TypeOK' /\ (\A q \in Procs : Orderly(proc[q]))'
           /\ proc'[p] = r /\ \A q \in Procs \ {p} : proc'[q] = proc[q]
<1>1. TypeOK'
  BY Zenon DEF LockInv, TypeOK, Becomes
<1>2. proc'[p] = r /\ \A q \in Procs \ {p} : proc'[q] = proc[q]
  BY Zenon DEF LockInv, TypeOK, Becomes
<1>3. \A q \in Procs : Orderly(proc'[q])
  BY <1>2, Zenon DEF LockInv, Becomes
<1> QED
  BY <1>1, <1>2, <1>3, Zenon DEF Orderly

\* A step that takes no lock and leaves the file of the lock alone keeps the invariant.
LEMMA QuietStep ==
    ASSUME LockInv, NEW p \in Procs, NEW r, Becomes(p, r), Kept(proc[p], r), Quiet
    PROVE  LockInv'
<1>1. Exclusive'
  BY OneChanges DEF LockInv, Quiet, Exclusive, Kept, NoFile
<1> QED
  BY <1>1, OneChanges, Zenon DEF LockInv, Quiet

\* The histories the steps make.
LEMMA HistUpdates ==
    ASSUME hist \in Hist
    PROVE  /\ \A x \in BOOLEAN, c \in SUBSET {"key", "table"} :
                LET h == [hist EXCEPT !.emptied = x, !.cut = c] IN h \in Hist /\ h.raced = hist.raced
           /\ \A x \in Nat, c \in SUBSET {"key", "table"} :
                LET h == [hist EXCEPT !.deaths = x, !.cut = c] IN h \in Hist /\ h.raced = hist.raced
           /\ \A x \in BOOLEAN : [hist EXCEPT !.raced = x] \in Hist
BY Zenon DEF Hist

\* RoutingTable::save, by whatever thread, leaves the file of the lock alone.
LEMMA TableSteps ==
    ASSUME LockInv
    PROVE  /\ OpenTable /\ UNCHANGED hist => Quiet
           /\ \A some \in BOOLEAN : WriteTable(some) => Quiet
<1>1. OpenTable /\ UNCHANGED hist => Quiet
  BY DEF OpenTable, LockInv, TypeOK, Disk, Quiet, Empty
<1>2. ASSUME NEW some \in BOOLEAN, WriteTable(some) PROVE Quiet
  <2>1. disk' \in Disk /\ disk'.lock = disk.lock
    BY <1>2 DEF WriteTable, LockInv, TypeOK, Disk, Entries
  <2>2. hist' = [hist EXCEPT !.emptied = ~some, !.cut = hist.cut \ {"table"}]
    BY <1>2, Zenon DEF WriteTable
  <2>3. (~some) \in BOOLEAN /\ hist.cut \ {"table"} \in SUBSET {"key", "table"}
    BY Zenon DEF LockInv, TypeOK, Hist
  <2>4. hist' \in Hist /\ hist'.raced = hist.raced
    BY <2>2, <2>3, HistUpdates, Zenon DEF LockInv, TypeOK
  <2> QED
    BY <2>1, <2>4, Zenon DEF Quiet
<1> QED
  BY <1>1, <1>2, Zenon

\* A process that dies lets go of its lock and touches no file.
LEMMA DieStep ==
    ASSUME LockInv, NEW p \in Procs, Die(p)
    PROVE  LockInv'
<1> DEFINE r == Gone(IF proc[p].pc \in {"initKey", "writeKey"} THEN NoFile ELSE proc[p].key)
<1>1. Becomes(p, r)
  <2>1. r \in Process
    BY DEF Gone, Process, NoFile, LockInv, TypeOK
  <2>2. Orderly(r)
    BY Zenon DEF Orderly, Gone, Running, Holding
  <2> QED
    BY <2>1, <2>2, Zenon DEF Die, Becomes
<1>2. Kept(proc[p], r)
  BY Zenon DEF Kept, Gone
<1>3. Quiet
  <2> DEFINE c == hist.cut \cup (IF At(p, "writeKey") THEN {"key"} ELSE {})
                     \cup (IF At(p, "writeTable") \/ proc[p].rx = "saving" THEN {"table"} ELSE {})
  <2>1. c \in SUBSET {"key", "table"} /\ hist.deaths + 1 \in Nat
    BY DEF LockInv, TypeOK, Hist
  <2>2. hist' = [hist EXCEPT !.deaths = hist.deaths + 1, !.cut = c]
    BY Zenon DEF Die
  <2>3. hist' \in Hist /\ hist'.raced = hist.raced
    BY <2>1, <2>2, HistUpdates, Zenon DEF LockInv, TypeOK
  <2> QED
    BY <2>3, Zenon DEF Quiet, Die, LockInv, TypeOK
<1> QED
  BY <1>1, <1>2, <1>3, QuietStep, Zenon

\* launch opens the file at the path, or creates it there.
LEMMA LaunchStep ==
    ASSUME LockInv, NEW p \in Procs, launch(p)
    PROVE  LockInv'
<1> DEFINE file == IF disk.lock = NoFile THEN p ELSE disk.lock
           r == [proc[p] EXCEPT !.pc = "opened", !.fd = file]
<1>1. file \in Int /\ file # NoFile /\ p \in Int
  BY ProcsAreInts, Zenon DEF LockInv, TypeOK, Disk
<1>2. proc[p] \in Process /\ Orderly(proc[p]) /\ proc[p].pc = "none" /\ proc[p].fd = NoFile
  BY Zenon DEF LockInv, TypeOK, launch, At, Orderly, Holding, Running
<1>3. Becomes(p, r)
  <2>1. r \in Process /\ Orderly(r)
    <3> HIDE DEF file
    <3> QED BY <1>1, <1>2, Zenon DEF Process, Orderly, Running, Holding
  <2> QED
    BY <2>1, Zenon DEF launch, Becomes, LockInv, TypeOK
<1>4. disk' \in Disk /\ disk'.lock = file /\ hist' = hist
  BY <1>1, Zenon DEF launch, LockInv, TypeOK, Disk
<1>5. r.fd = file /\ r.locked = proc[p].locked
  BY <1>2, Zenon DEF Process
<1>6. /\ TypeOK' /\ (\A q \in Procs : Orderly(proc[q]))'
      /\ proc'[p] = r /\ \A q \in Procs \ {p} : proc'[q] = proc[q]
  BY <1>3, <1>4, OneChanges, Zenon DEF LockInv, TypeOK
<1>7. Exclusive'
  BY <1>1, <1>4, <1>5, <1>6, Zenon DEF Exclusive, LockInv, NoFile
<1> QED
  BY <1>6, <1>7, Zenon DEF LockInv

\* acquire takes a lock only when no process has the one of the same file.
LEMMA AcquireStep ==
    ASSUME LockInv, NEW p \in Procs, acquire(p)
    PROVE  LockInv'
<1>1. proc[p] \in Process /\ Orderly(proc[p]) /\ proc[p].pc = "opened" /\ proc[p].fd # NoFile
  BY Zenon DEF LockInv, TypeOK, acquire, At, Orderly
<1>2. UNCHANGED <<disk, hist>> /\ Quiet
  BY Zenon DEF acquire, Quiet, LockInv, TypeOK
<1>3. CASE \E q \in Inside : proc[q].fd = proc[p].fd
  <2> DEFINE r == [proc[p] EXCEPT !.pc = "exit", !.fd = NoFile]
  <2>1. r \in Process
    <3>1. ASSUME NEW f \in Int PROVE [proc[p] EXCEPT !.pc = "exit", !.fd = f] \in Process
      BY <1>1, Zenon DEF Process, Holding, Running
    <3>2. NoFile \in Int
      BY DEF NoFile
    <3> QED
      BY <3>1, <3>2, Zenon
  <2>2. /\ r.pc = "exit" /\ r.fd = NoFile /\ ~r.locked
        /\ r.node = proc[p].node /\ r.proxy = proc[p].proxy
    BY <1>1, Zenon DEF Process, Orderly, Holding, Running
  <2>3. Orderly(r) /\ Kept(proc[p], r)
    <3> HIDE DEF r
    <3> QED BY <1>1, <2>2, Zenon DEF Orderly, Kept, Running, Holding
  <2>4. proc' = [proc EXCEPT ![p] = r]
    BY <1>3, Zenon DEF acquire, LockInv, TypeOK
  <2> QED
    BY <1>2, <2>1, <2>3, <2>4, QuietStep, Zenon DEF Becomes
<1>4. CASE ~ \E q \in Inside : proc[q].fd = proc[p].fd
  <2> DEFINE r == [proc[p] EXCEPT !.pc = "locked", !.locked = TRUE, !.held = TRUE]
  <2>1. r \in Process /\ Orderly(r) /\ r.fd = proc[p].fd
    BY <1>1, Zenon DEF Process, Orderly, Running, Holding, NoFile
  <2>2. Becomes(p, r)
    BY <1>4, <2>1, Zenon DEF acquire, LockInv, TypeOK, Becomes
  <2>3. /\ TypeOK' /\ (\A q \in Procs : Orderly(proc[q]))'
        /\ proc'[p] = r /\ \A q \in Procs \ {p} : proc'[q] = proc[q]
    BY <1>2, <2>2, OneChanges, Zenon DEF LockInv, TypeOK
  <2>4. ASSUME ~hist.raced, NEW q \in Procs \ {p} PROVE ~proc[q].locked
    BY <1>1, <1>4, <2>4 DEF LockInv, Exclusive, Orderly, Inside
  <2>5. ASSUME ~ hist.raced, NEW q \in Procs, proc'[q].fd # NoFile PROVE proc'[q].fd = disk.lock
    <3>1. proc'[q].fd = proc[q].fd BY <2>1, <2>3, Zenon
    <3>2. Exclusive BY Zenon DEF LockInv
    <3> QED BY ONLY <2>5, <3>1, <3>2, Zenon DEF Exclusive
  <2>6. ASSUME ~ hist.raced, NEW q \in Procs, proc'[q].locked PROVE q = p
    BY <2>3, <2>4, <2>6, Zenon
  <2>7. Exclusive'
    BY <1>2, <2>5, <2>6, Zenon DEF Exclusive
  <2> QED
    BY <2>3, <2>7, Zenon DEF LockInv
<1> QED
  BY <1>3, <1>4, Zenon

\* remove without a race: no other process has the file open that is taken away.
LEMMA RemoveStep ==
    ASSUME LockInv, NEW p \in Procs, remove(p)
    PROVE  LockInv'
<1> DEFINE r == Gone(proc[p].key)
<1>1. proc[p] \in Process /\ proc[p].held
  BY Zenon DEF LockInv, TypeOK, remove, At, Orderly
<1>2. Becomes(p, r) /\ r.fd = NoFile /\ ~r.locked
  <2>1. r \in Process
    BY <1>1 DEF Gone, Process, NoFile
  <2>2. Orderly(r)
    BY Zenon DEF Orderly, Gone, Running, Holding
  <2> QED
    BY <2>1, <2>2, Zenon DEF remove, Becomes, Gone
<1>3. disk' \in Disk /\ disk'.lock = NoFile
  BY DEF remove, LockInv, TypeOK, Disk, NoFile
<1>4. /\ hist' \in Hist
      /\ ~hist'.raced => /\ ~hist.raced
                         /\ \A q \in Procs \ {p} : proc[q].fd # NoFile => proc[q].fd # disk.lock
  BY <1>1, Zenon DEF remove, LockInv, TypeOK, Hist
<1>5. /\ TypeOK' /\ (\A q \in Procs : Orderly(proc[q]))'
      /\ proc'[p] = r /\ \A q \in Procs \ {p} : proc'[q] = proc[q]
  BY <1>2, <1>3, <1>4, OneChanges, Zenon
<1>6. Exclusive'
  BY <1>2, <1>3, <1>4, <1>5 DEF Exclusive, LockInv
<1> QED
  BY <1>5, <1>6, Zenon DEF LockInv

\* Every step keeps the invariant.
LEMMA LockNext == LockInv /\ [Next]_vars => LockInv'
<1> SUFFICES ASSUME LockInv, [Next]_vars PROVE LockInv'
  BY Zenon
<1>1. CASE UNCHANGED vars
  BY <1>1, Zenon DEF vars, LockInv, TypeOK, Orderly, Exclusive
<1>2. ASSUME NEW p \in Procs PROVE
        \/ launch(p) \/ main(p)
        \/ update(p) \/ receive(p) \/ lookupEnds(p) \/ receiveThrows(p) \/ dequeue(p)
        \/ loop(p) \/ signal(p) \/ die(p)
        => LockInv'
  <2> DEFINE old == proc[p]
  <2>a. old \in Process /\ Orderly(old) /\ disk \in Disk /\ hist \in Hist
    BY Zenon DEF LockInv, TypeOK
  <2>b. p \in Int /\ disk.key \in Int /\ old.key \in Int /\ NoFile \in Int
    BY <2>a, ProcsAreInts DEF Disk, Process, NoFile
  <2>c. UNCHANGED <<disk, hist>> => Quiet
    BY <2>a, Zenon DEF Quiet
  <2> USE DEF At
  <2>1. ASSUME node(p) PROVE LockInv'
    <3> DEFINE r == [old EXCEPT !.pc = "initKey", !.key = p]
    <3>1. r \in Process /\ Orderly(r) /\ Kept(old, r)
      BY <2>a, <2>b, <2>1, Zenon DEF node, Process, Orderly, Kept, Running, Holding
    <3>2. proc' = [proc EXCEPT ![p] = r]
      BY <2>a, <2>1, Zenon DEF node, LockInv, TypeOK
    <3>3. Quiet
      BY <2>1, <2>c, Zenon DEF node
    <3> QED
      BY <3>1, <3>2, <3>3, QuietStep, Zenon DEF Becomes
  <2>2. ASSUME loadKey(p) PROVE LockInv'
    <3> DEFINE r == IF disk.key = Empty THEN [old EXCEPT !.pc = "exit"]
                      ELSE [old EXCEPT !.pc = "keyed", !.key = disk.key]
    <3>1. r \in Process /\ Orderly(r) /\ Kept(old, r)
      BY <2>a, <2>b, <2>2, Zenon DEF loadKey, Process, Orderly, Kept, Running, Holding
    <3>2. proc' = [proc EXCEPT ![p] = r]
      BY <2>a, <2>2, Zenon DEF loadKey, LockInv, TypeOK
    <3>3. Quiet
      BY <2>2, <2>c, Zenon DEF loadKey
    <3> QED
      BY <3>1, <3>2, <3>3, QuietStep, Zenon DEF Becomes
  <2>3. ASSUME initKey(p) PROVE LockInv'
    <3> DEFINE r == [old EXCEPT !.pc = "writeKey"]
    <3>1. r \in Process /\ Orderly(r) /\ Kept(old, r)
      BY <2>a, <2>b, <2>3, Zenon DEF initKey, Goto, Process, Orderly, Kept, Running, Holding
    <3>2. proc' = [proc EXCEPT ![p] = r]
      BY <2>a, <2>3, Zenon DEF initKey, Goto, LockInv, TypeOK
    <3>3. Quiet
      BY <2>3, <2>a DEF initKey, Goto, Quiet, Disk, Empty
    <3> QED
      BY <3>1, <3>2, <3>3, QuietStep, Zenon DEF Becomes
  <2>4. ASSUME writeKey(p) PROVE LockInv'
    <3> DEFINE r == [old EXCEPT !.pc = "keyed"]
    <3>1. r \in Process /\ Orderly(r) /\ Kept(old, r)
      BY <2>a, <2>b, <2>4, Zenon DEF writeKey, Goto, Process, Orderly, Kept, Running, Holding
    <3>2. proc' = [proc EXCEPT ![p] = r]
      BY <2>a, <2>4, Zenon DEF writeKey, Goto, LockInv, TypeOK
    <3>3. Quiet
      BY <2>4, <2>a, <2>b, Zenon DEF writeKey, Goto, Quiet, Disk
    <3> QED
      BY <3>1, <3>2, <3>3, QuietStep, Zenon DEF Becomes
  <2>5. ASSUME writeIdFile(p) PROVE LockInv'
    <3> DEFINE r == [old EXCEPT !.pc = "start"]
    <3>1. r \in Process /\ Orderly(r) /\ Kept(old, r)
      BY <2>a, <2>b, <2>5, Zenon DEF writeIdFile, Goto, Process, Orderly, Kept, Running, Holding
    <3>2. proc' = [proc EXCEPT ![p] = r]
      BY <2>a, <2>5, Zenon DEF writeIdFile, Goto, LockInv, TypeOK
    <3>3. Quiet
      BY <2>5, <2>a, <2>b, Zenon DEF writeIdFile, Goto, Quiet, Disk
    <3> QED
      BY <3>1, <3>2, <3>3, QuietStep, Zenon DEF Becomes
  <2>6. ASSUME NEW ok \in BOOLEAN, start(p, ok) PROVE LockInv'
    <3> DEFINE r == IF ok THEN [old EXCEPT !.pc = "addons", !.node = "Running", !.rx = "loop"]
                      ELSE [old EXCEPT !.pc = "exit"]
    <3>1. r \in Process /\ Orderly(r) /\ Kept(old, r)
      BY <2>a, <2>b, <2>6, Zenon DEF start, Process, Orderly, Kept, Running, Holding
    <3>2. proc' = [proc EXCEPT ![p] = r]
      BY <2>a, <2>6, Zenon DEF start, LockInv, TypeOK
    <3>3. Quiet
      BY <2>6, <2>c, Zenon DEF start
    <3> QED
      BY <3>1, <3>2, <3>3, QuietStep, Zenon DEF Becomes
  <2>7. ASSUME NEW ok \in BOOLEAN, At(p, "addons") \/ At(p, "found"), StartProxy(p, ok),
              UNCHANGED <<disk, hist>>
        PROVE LockInv'
    <3> DEFINE r == IF ok THEN [old EXCEPT !.pc = "started", !.proxy = "starting"]
                      ELSE [old EXCEPT !.pc = "unload"]
    <3>1. r \in Process /\ Orderly(r) /\ Kept(old, r)
      BY <2>a, <2>b, <2>7, Zenon DEF StartProxy, Process, Orderly, Kept, Running, Holding
    <3>2. proc' = [proc EXCEPT ![p] = r]
      BY <2>a, <2>7, Zenon DEF StartProxy, LockInv, TypeOK
    <3>3. Quiet
      BY <2>7, <2>c, Zenon DEF StartProxy
    <3> QED
      BY <3>1, <3>2, <3>3, QuietStep, Zenon DEF Becomes
  <2>8. ASSUME At(p, "addons"), Goto(p, "wait"), UNCHANGED <<disk, hist>> PROVE LockInv'
    <3> DEFINE r == [old EXCEPT !.pc = "wait"]
    <3>1. r \in Process /\ Orderly(r) /\ Kept(old, r)
      BY <2>a, <2>b, <2>8, Zenon DEF Goto, Process, Orderly, Kept, Running, Holding
    <3>2. proc' = [proc EXCEPT ![p] = r]
      BY <2>a, <2>8, Zenon DEF Goto, LockInv, TypeOK
    <3>3. Quiet
      BY <2>8, <2>c, Zenon DEF Goto
    <3> QED
      BY <3>1, <3>2, <3>3, QuietStep, Zenon DEF Becomes
  <2>9. ASSUME At(p, "addons"), Goto(p, "find"), UNCHANGED <<disk, hist>> PROVE LockInv'
    <3> DEFINE r == [old EXCEPT !.pc = "find"]
    <3>1. r \in Process /\ Orderly(r) /\ Kept(old, r)
      BY <2>a, <2>b, <2>9, Zenon DEF Goto, Process, Orderly, Kept, Running, Holding
    <3>2. proc' = [proc EXCEPT ![p] = r]
      BY <2>a, <2>9, Zenon DEF Goto, LockInv, TypeOK
    <3>3. Quiet
      BY <2>9, <2>c, Zenon DEF Goto
    <3> QED
      BY <3>1, <3>2, <3>3, QuietStep, Zenon DEF Becomes
  <2>10. ASSUME started(p) PROVE LockInv'
    <3> DEFINE r == [old EXCEPT !.pc = "wait"]
    <3>1. r \in Process /\ Orderly(r) /\ Kept(old, r)
      BY <2>a, <2>b, <2>10, Zenon DEF started, Goto, Process, Orderly, Kept, Running, Holding
    <3>2. proc' = [proc EXCEPT ![p] = r]
      BY <2>a, <2>10, Zenon DEF started, Goto, LockInv, TypeOK
    <3>3. Quiet
      BY <2>10, <2>c, Zenon DEF started, Goto
    <3> QED
      BY <3>1, <3>2, <3>3, QuietStep, Zenon DEF Becomes
  <2>11. ASSUME unloadAddons(p) PROVE LockInv'
    <3> DEFINE r == IF old.proxy = "running" THEN [old EXCEPT !.pc = "join", !.proxy = "stopping"]
                      ELSE [old EXCEPT !.pc = "joinServer"]
    <3>1. r \in Process /\ Orderly(r) /\ Kept(old, r)
      BY <2>a, <2>b, <2>11, ZenonT(30) DEF unloadAddons, Stopping, Process, Orderly, Kept, Running, Holding
    <3>2. proc' = [proc EXCEPT ![p] = r]
      BY <2>a, <2>11, Zenon DEF unloadAddons, Stopping, LockInv, TypeOK
    <3>3. Quiet
      BY <2>11, <2>c, Zenon DEF unloadAddons, Stopping
    <3> QED
      BY <3>1, <3>2, <3>3, QuietStep, Zenon DEF Becomes
  <2>12. ASSUME joinProxy(p) PROVE LockInv'
    <3> DEFINE r == [old EXCEPT !.pc = "joinServer"]
    <3>1. r \in Process /\ Orderly(r) /\ Kept(old, r)
      BY <2>a, <2>b, <2>12, Zenon DEF joinProxy, Goto, Process, Orderly, Kept, Running, Holding
    <3>2. proc' = [proc EXCEPT ![p] = r]
      BY <2>a, <2>12, Zenon DEF joinProxy, Goto, LockInv, TypeOK
    <3>3. Quiet
      BY <2>12, <2>c, Zenon DEF joinProxy, Goto
    <3> QED
      BY <3>1, <3>2, <3>3, QuietStep, Zenon DEF Becomes
  <2>13. ASSUME saveOnStop(p) PROVE LockInv'
    <3> DEFINE r == [old EXCEPT !.pc = "writeTable"]
    <3>1. r \in Process /\ Orderly(r) /\ Kept(old, r)
      BY <2>a, <2>b, <2>13, Zenon DEF saveOnStop, Goto, Process, Orderly, Kept, Running, Holding
    <3>2. proc' = [proc EXCEPT ![p] = r]
      BY <2>a, <2>13, Zenon DEF saveOnStop, Goto, LockInv, TypeOK
    <3>3. Quiet
      BY <2>13, TableSteps, Zenon DEF saveOnStop, Goto
    <3> QED
      BY <3>1, <3>2, <3>3, QuietStep, Zenon DEF Becomes
  <2>14. ASSUME NEW some \in BOOLEAN, stopped(p, some) PROVE LockInv'
    <3> DEFINE r == [old EXCEPT !.pc = "exit", !.node = "Stopped"]
    <3>1. r \in Process /\ Orderly(r) /\ Kept(old, r)
      BY <2>a, <2>b, <2>14, Zenon DEF stopped, Process, Orderly, Kept, Running, Holding
    <3>2. proc' = [proc EXCEPT ![p] = r]
      BY <2>a, <2>14, Zenon DEF stopped, LockInv, TypeOK
    <3>3. Quiet
      BY <2>14, TableSteps, Zenon DEF stopped
    <3> QED
      BY <3>1, <3>2, <3>3, QuietStep, Zenon DEF Becomes
  <2>15. ASSUME old.fd = NoFile, release(p) PROVE LockInv'
    <3> DEFINE r == Gone(old.key)
    <3>1. r \in Process /\ Orderly(r) /\ Kept(old, r)
      BY <2>a, <2>b, <2>15, Zenon DEF release, Gone, Process, Orderly, Kept, Running, Holding
    <3>2. proc' = [proc EXCEPT ![p] = r]
      BY <2>a, <2>15, Zenon DEF release, Gone, LockInv, TypeOK
    <3>3. Quiet
      BY <2>15, <2>c, Zenon DEF release, Gone
    <3> QED
      BY <3>1, <3>2, <3>3, QuietStep, Zenon DEF Becomes
  <2>16. ASSUME old.fd # NoFile, release(p) PROVE LockInv'
    <3> DEFINE r == [old EXCEPT !.pc = "remove", !.locked = FALSE, !.fd = NoFile]
    <3>1. r \in Process /\ Orderly(r) /\ Kept(old, r)
      <4>1. r \in Process
        <5>1. ASSUME NEW f \in Int PROVE [old EXCEPT !.pc = "remove", !.locked = FALSE, !.fd = f] \in Process
          BY <2>a, Zenon DEF Process, Holding, Running
        <5> QED
          BY <2>b, <5>1, Zenon
      <4>2. /\ r.pc = "remove" /\ r.fd = NoFile /\ ~r.locked
            /\ r.held = old.held /\ r.node = old.node /\ r.proxy = old.proxy
        BY <2>a, Zenon DEF Process
      <4>3. Orderly(r) /\ Kept(old, r)
        <5> HIDE DEF r
        <5> QED BY <2>a, <2>16, <4>2, Zenon DEF release, Orderly, Kept, Running, Holding
      <4> QED
        BY <4>1, <4>3, Zenon
    <3>2. proc' = [proc EXCEPT ![p] = r]
      BY <2>a, <2>16, Zenon DEF release, LockInv, TypeOK
    <3>3. Quiet
      BY <2>16, <2>c, Zenon DEF release
    <3> QED
      BY <3>1, <3>2, <3>3, QuietStep, Zenon DEF Becomes
  <2>17. ASSUME update(p) PROVE LockInv'
    <3> DEFINE r == [old EXCEPT !.rx = "saving"]
    <3>1. r \in Process /\ Orderly(r) /\ Kept(old, r)
      BY <2>a, <2>b, <2>17, ZenonT(30) DEF update, Process, Orderly, Kept, Running, Holding
    <3>2. proc' = [proc EXCEPT ![p] = r]
      BY <2>a, <2>17, Zenon DEF update, LockInv, TypeOK
    <3>3. Quiet
      BY <2>17, TableSteps, Zenon DEF update
    <3> QED
      BY <3>1, <3>2, <3>3, QuietStep, Zenon DEF Becomes
  <2>18. ASSUME NEW some \in BOOLEAN, updated(p, some) PROVE LockInv'
    <3> DEFINE r == [old EXCEPT !.rx = "loop"]
    <3>1. r \in Process /\ Orderly(r) /\ Kept(old, r)
      BY <2>a, <2>b, <2>18 DEF updated, Process, Orderly, Kept, Running, Holding
    <3>2. proc' = [proc EXCEPT ![p] = r]
      BY <2>a, <2>18, Zenon DEF updated, LockInv, TypeOK
    <3>3. Quiet
      BY <2>18, TableSteps, Zenon DEF updated
    <3> QED
      BY <3>1, <3>2, <3>3, QuietStep, Zenon DEF Becomes
  <2>19. ASSUME receiveEnds(p) \/ receiveThrows(p) PROVE LockInv'
    <3> DEFINE r == [old EXCEPT !.rx = "done"]
    <3>1. r \in Process /\ Orderly(r) /\ Kept(old, r)
      BY <2>a, <2>b, <2>19, Zenon DEF receiveEnds, receiveThrows, Process, Orderly, Kept,
         Running, Holding
    <3>2. proc' = [proc EXCEPT ![p] = r]
      BY <2>a, <2>19, Zenon DEF receiveEnds, receiveThrows, LockInv, TypeOK
    <3>3. Quiet
      BY <2>19, <2>c, Zenon DEF receiveEnds, receiveThrows
    <3> QED
      BY <3>1, <3>2, <3>3, QuietStep, Zenon DEF Becomes
  <2>20. ASSUME onIteration(p) PROVE LockInv'
    <3> DEFINE r == [old EXCEPT !.proxy = "running"]
    <3>1. r \in Process /\ Orderly(r) /\ Kept(old, r)
      BY <2>a, <2>b, <2>20, Zenon DEF onIteration, Process, Orderly, Kept, Running, Holding
    <3>2. proc' = [proc EXCEPT ![p] = r]
      BY <2>a, <2>20, Zenon DEF onIteration, LockInv, TypeOK
    <3>3. Quiet
      BY <2>20, <2>c, Zenon DEF onIteration
    <3> QED
      BY <3>1, <3>2, <3>3, QuietStep, Zenon DEF Becomes
  <2>21. ASSUME onStop(p) PROVE LockInv'
    <3> DEFINE r == [old EXCEPT !.proxy = "done"]
    <3>1. r \in Process /\ Orderly(r) /\ Kept(old, r)
      BY <2>a, <2>b, <2>21, Zenon DEF onStop, Process, Orderly, Kept, Running, Holding
    <3>2. proc' = [proc EXCEPT ![p] = r]
      BY <2>a, <2>21, Zenon DEF onStop, LockInv, TypeOK
    <3>3. Quiet
      BY <2>21, <2>c, Zenon DEF onStop
    <3> QED
      BY <3>1, <3>2, <3>3, QuietStep, Zenon DEF Becomes
  <2>22. ASSUME ~old.quit, signal(p) PROVE LockInv'
    <3> DEFINE r == [old EXCEPT !.quit = TRUE]
    <3>1. r \in Process /\ Orderly(r) /\ Kept(old, r)
      BY <2>a, <2>b, <2>22, ZenonT(30) DEF signal, Process, Orderly, Kept, Running, Holding
    <3>2. proc' = [proc EXCEPT ![p] = r]
      BY <2>a, <2>22, Zenon DEF signal, LockInv, TypeOK
    <3>3. Quiet
      BY <2>22, <2>c, Zenon DEF signal
    <3> QED
      BY <3>1, <3>2, <3>3, QuietStep, Zenon DEF Becomes
  <2>23. ASSUME NEW configured \in {"none", "peer", "address"}, NEW ok \in BOOLEAN,
              loadAddons(p, configured, ok)
        PROVE LockInv'
    BY <2>23, <2>7, <2>8, <2>9, Zenon DEF loadAddons
  <2>24. ASSUME NEW ok \in BOOLEAN, found(p, ok) PROVE LockInv'
    BY <2>24, <2>7, Zenon DEF found
  <2>25. ASSUME main(p) PROVE LockInv'
    BY <2>25, <2>1, <2>2, <2>3, <2>4, <2>5, <2>6, <2>23, <2>24, <2>10, <2>11, <2>12, <2>13,
       <2>14, <2>15, <2>16,
       AcquireStep, RemoveStep, Zenon DEF main
  <2>26. ASSUME receive(p) \/ loop(p) PROVE LockInv'
    BY <2>26, <2>19, <2>18, <2>20, <2>21, Zenon DEF receive, loop
  <2>27. ASSUME signal(p) \/ die(p) PROVE LockInv'
    BY <2>27, <2>22, DieStep, Zenon DEF signal, die
  <2>28. ASSUME dequeue(p) PROVE LockInv'
    <3> DEFINE r == [old EXCEPT !.rx = "stuck"]
    <3>1. r \in Process /\ Orderly(r) /\ Kept(old, r)
      BY <2>a, <2>b, <2>28, ZenonT(30) DEF dequeue, Process, Orderly, Kept, Running, Holding
    <3>2. proc' = [proc EXCEPT ![p] = r]
      BY <2>a, <2>28, Zenon DEF dequeue, LockInv, TypeOK
    <3>3. Quiet
      BY <2>28, <2>c, Zenon DEF dequeue
    <3> QED
      BY <3>1, <3>2, <3>3, QuietStep, Zenon DEF Becomes
  <2>29. ASSUME lookupEnds(p) PROVE LockInv'
    <3> DEFINE r == [old EXCEPT !.pc = "found"]
    <3>1. r \in Process /\ Orderly(r) /\ Kept(old, r)
      BY <2>a, <2>b, <2>29, Zenon DEF lookupEnds, Goto, Process, Orderly, Kept, Running, Holding
    <3>2. proc' = [proc EXCEPT ![p] = r]
      BY <2>a, <2>29, Zenon DEF lookupEnds, Goto, LockInv, TypeOK
    <3>3. Quiet
      BY <2>29, <2>c, Zenon DEF lookupEnds, Goto
    <3> QED
      BY <3>1, <3>2, <3>3, QuietStep, Zenon DEF Becomes
  <2> QED
    BY <2>17, <2>19, <2>25, <2>26, <2>27, <2>28, <2>29, LaunchStep, Zenon
<1> QED
  BY <1>1, <1>2, Zenon DEF Next

\* At every moment, with any number of launches and deaths, at most one process has passed
\* checkAnotherInstance unless a lock file was removed that another process had open; the
\* addon runs inside the life of the node and the node inside that of the lock.
THEOREM OneInstanceAlways == Spec => []OneInstance
<1>1. LockInv => OneInstance
  <2> SUFFICES ASSUME LockInv PROVE OneInstance
    BY Zenon
  <2>1. ASSUME ~hist.raced PROVE Cardinality(Inside) <= 1
    <3>1. CASE Inside = {}
      BY <3>1, FS_EmptySet
    <3>2. CASE Inside # {}
      <4>1. PICK p \in Inside : TRUE
        BY <3>2, Zenon
      <4>2. Inside = {p}
        BY <2>1, <4>1, Zenon DEF Inside, LockInv, Exclusive
      <4>3. Cardinality(Inside) = 1
        BY <4>2, FS_Singleton, Zenon
      <4> QED
        BY <4>3
    <3> QED
      BY <3>1, <3>2, Zenon
  <2>2. ASSUME NEW p \in Procs PROVE
          /\ proc[p].proxy \in {"starting", "running", "stopping"} => proc[p].node = "Running"
          /\ proc[p].node = "Running" => proc[p].locked
    BY Zenon DEF LockInv, TypeOK, Process, Orderly, Running, Holding
  <2> QED
    BY <2>1, <2>2, Zenon DEF OneInstance
<1> QED
  BY <1>1, LockInit, LockNext, PTL DEF Spec

-----------------------------------------------------------------------------
\* The files. From writeIdFile on the id file shows the key of the process.
Started(r) == r.pc \in {"start"} \cup Running
Keyed(r) == r.pc = "keyed" \/ Started(r)

\* When a process has a key, and when its receive thread runs.
InOrder(r) ==
    /\ r.pc \in {"none", "opened", "locked"} => r.key = NoFile
    /\ r.pc \in {"initKey", "writeKey"} \/ Keyed(r) => r.key # NoFile
    /\ r.key # Empty
    /\ r.rx \in {"loop", "saving"} => r.pc \in Running \ {"writeTable"}

\* There is one key: it is with the process that writes the first file, and from then on in
\* the file, from where every process has it.
Agrees(r, key, id) ==
    /\ key = NoFile => r.key = NoFile \/ r.pc = "initKey"
    /\ key = Empty => r.key = NoFile \/ r.pc = "writeKey"
    /\ key \notin {NoFile, Empty} => r.key \in {NoFile, key}
    /\ r.pc = "initKey" => key = NoFile
    /\ r.pc = "writeKey" => key = Empty
    /\ Keyed(r) => r.key = key
    /\ Started(r) => r.key = id

Identity == ~hist.raced => \A p \in Procs : Agrees(proc[p], disk.key, disk.id)

\* An empty file has a writer, or a death or an empty table behind it.
KeyTraced ==
    disk.key = Empty => "key" \in hist.cut \/ \E p \in Procs : At(p, "writeKey")
TableTraced ==
    disk.table = Empty =>
         \/ hist.emptied \/ "table" \in hist.cut
         \/ \E p \in Procs : At(p, "writeTable") \/ proc[p].rx = "saving"

FilesInv == (\A p \in Procs : InOrder(proc[p])) /\ Identity /\ KeyTraced /\ TableTraced

\* A step of one process that moves no key, and one that leaves no file half written.
Changes(p, r) == proc' = [proc EXCEPT ![p] = r]

Follows(old, new) ==
    /\ InOrder(new)
    /\ new.key \in {old.key, NoFile}
    /\ new.pc \in {"initKey", "writeKey", "keyed"} => new.pc = old.pc
    /\ Started(new) => Started(old)
    /\ old.pc \in {"initKey", "writeKey"} /\ new.key # NoFile => new.pc = old.pc

Lasts(old, new) ==
    /\ old.pc = "writeKey" => new.pc = "writeKey"
    /\ old.pc = "writeTable" \/ old.rx = "saving" => new.pc = "writeTable" \/ new.rx = "saving"

\* The invariant of the files holds before the first launch.
LEMMA FilesInit == Init => FilesInv
BY DEF Init, FilesInv, InOrder, Identity, Agrees, KeyTraced, TableTraced, Keyed, Started, Running,
       At, NoFile, Empty

\* A step of one process changes its record and no other.
LEMMA Others ==
    ASSUME LockInv, NEW p \in Procs, NEW r, Changes(p, r)
    PROVE  proc'[p] = r /\ \A q \in Procs \ {p} : proc'[q] = proc[q]
BY Zenon DEF LockInv, TypeOK, Changes

\* The identity after a step, from the record that changed and those that did not.
LEMMA NewIdentity ==
    ASSUME LockInv, NEW p \in Procs, NEW r, Changes(p, r),
           ~hist'.raced => /\ Agrees(r, disk'.key, disk'.id)
                           /\ \A q \in Procs \ {p} : Agrees(proc[q], disk'.key, disk'.id)
    PROVE  Identity'
<1>1. ~hist'.raced => \A q \in Procs : Agrees(proc'[q], disk'.key, disk'.id)
  BY Others, Zenon
<1> QED
  BY <1>1, Zenon DEF Identity, Agrees, Keyed, Started

\* A step that moves no key keeps the identity.
LEMMA SameKeys ==
    ASSUME LockInv, FilesInv, NEW p \in Procs, NEW r, Changes(p, r), Follows(proc[p], r),
           disk'.key = disk.key, disk'.id = disk.id, hist.raced => hist'.raced
    PROVE  (\A q \in Procs : InOrder(proc[q]))' /\ Identity'
<1>1. \A q \in Procs : InOrder(proc'[q])
  BY Others, Zenon DEF FilesInv, Follows
<1>2. ASSUME ~hist'.raced PROVE Agrees(r, disk.key, disk.id)
  BY <1>2, Zenon DEF FilesInv, Identity, Agrees, Follows, InOrder, Keyed
<1>3. Identity'
  BY <1>2, NewIdentity, Zenon DEF FilesInv, Identity
<1> QED
  BY <1>1, <1>3, Zenon DEF InOrder, Keyed, Started

\* A step that ends no write leaves the traces of the empty files.
LEMMA SameTraces ==
    ASSUME LockInv, FilesInv, NEW p \in Procs, NEW r, Changes(p, r), Lasts(proc[p], r),
           hist'.cut = hist.cut, hist'.emptied = hist.emptied
    PROVE  /\ disk'.key = disk.key => KeyTraced'
           /\ disk'.table = disk.table => TableTraced'
BY Others DEF FilesInv, KeyTraced, TableTraced, At, Lasts

\* Every step keeps the invariant of the files.
LEMMA FilesNext == LockInv /\ FilesInv /\ [Next]_vars => FilesInv'
<1> SUFFICES ASSUME LockInv, FilesInv, [Next]_vars PROVE FilesInv'
  BY Zenon
<1>1. CASE UNCHANGED vars
  BY <1>1, Zenon DEF vars, FilesInv, InOrder, Identity, Agrees, KeyTraced, TableTraced, Keyed,
     Started, At
<1>2. ASSUME NEW p \in Procs PROVE
        \/ launch(p) \/ main(p)
        \/ update(p) \/ receive(p) \/ lookupEnds(p) \/ receiveThrows(p) \/ dequeue(p)
        \/ loop(p) \/ signal(p) \/ die(p)
        => FilesInv'
  <2> DEFINE old == proc[p]
  <2>a. old \in Process /\ Orderly(old) /\ InOrder(old) /\ disk \in Disk /\ hist \in Hist
    BY Zenon DEF LockInv, TypeOK, FilesInv
  <2>b. ASSUME NEW r, Changes(p, r), Follows(old, r), Lasts(old, r), UNCHANGED <<disk, hist>>
        PROVE  FilesInv'
    BY <2>b, SameKeys, SameTraces, Zenon DEF FilesInv
  <2> USE DEF At
  <2>1. ASSUME acquire(p) PROVE FilesInv'
    <3> DEFINE r == IF \E q \in Inside : proc[q].fd = old.fd THEN [old EXCEPT !.pc = "exit", !.fd = NoFile]
                      ELSE [old EXCEPT !.pc = "locked", !.locked = TRUE, !.held = TRUE]
    <3>1. Follows(old, r) /\ Lasts(old, r)
      BY <2>a, <2>1, Zenon DEF acquire, Process, Orderly, InOrder, Follows, Lasts, Keyed,
         Started, Running, Holding
    <3>2. Changes(p, r)
      BY <2>1, Zenon DEF acquire, LockInv, TypeOK, Changes
    <3> QED
      BY <2>1, <2>b, <3>1, <3>2, Zenon DEF acquire
  <2>2. ASSUME NEW ok \in BOOLEAN, start(p, ok) PROVE FilesInv'
    <3> DEFINE r == IF ok THEN [old EXCEPT !.pc = "addons", !.node = "Running", !.rx = "loop"]
                      ELSE [old EXCEPT !.pc = "exit"]
    <3>1. Follows(old, r) /\ Lasts(old, r)
      BY <2>a, <2>2, Zenon DEF start, Process, Orderly, InOrder, Follows, Lasts, Keyed, Started,
         Running, Holding
    <3>2. Changes(p, r)
      BY <2>2, Zenon DEF start, LockInv, TypeOK, Changes
    <3> QED
      BY <2>2, <2>b, <3>1, <3>2, Zenon DEF start
  <2>3. ASSUME NEW ok \in BOOLEAN, At(p, "addons") \/ At(p, "found"), StartProxy(p, ok),
              UNCHANGED <<disk, hist>>
        PROVE FilesInv'
    <3> DEFINE r == IF ok THEN [old EXCEPT !.pc = "started", !.proxy = "starting"]
                      ELSE [old EXCEPT !.pc = "unload"]
    <3>1. Follows(old, r) /\ Lasts(old, r)
      BY <2>a, <2>3, Zenon DEF StartProxy, Process, Orderly, InOrder, Follows, Lasts, Keyed,
         Started, Running, Holding
    <3>2. Changes(p, r)
      BY <2>3, Zenon DEF StartProxy, LockInv, TypeOK, Changes
    <3> QED
      BY <2>3, <2>b, <3>1, <3>2, Zenon DEF StartProxy
  <2>4. ASSUME At(p, "addons"), Goto(p, "wait"), UNCHANGED <<disk, hist>> PROVE FilesInv'
    <3> DEFINE r == [old EXCEPT !.pc = "wait"]
    <3>1. Follows(old, r) /\ Lasts(old, r)
      BY <2>a, <2>4, Zenon DEF Goto, Process, Orderly, InOrder, Follows, Lasts, Keyed, Started,
         Running, Holding
    <3>2. Changes(p, r)
      BY <2>4, Zenon DEF Goto, LockInv, TypeOK, Changes
    <3> QED
      BY <2>4, <2>b, <3>1, <3>2, Zenon DEF Goto
  <2>5. ASSUME At(p, "addons"), Goto(p, "find"), UNCHANGED <<disk, hist>> PROVE FilesInv'
    <3> DEFINE r == [old EXCEPT !.pc = "find"]
    <3>1. Follows(old, r) /\ Lasts(old, r)
      BY <2>a, <2>5, Zenon DEF Goto, Process, Orderly, InOrder, Follows, Lasts, Keyed, Started,
         Running, Holding
    <3>2. Changes(p, r)
      BY <2>5, Zenon DEF Goto, LockInv, TypeOK, Changes
    <3> QED
      BY <2>5, <2>b, <3>1, <3>2, Zenon DEF Goto
  <2>6. ASSUME started(p) PROVE FilesInv'
    <3> DEFINE r == [old EXCEPT !.pc = "wait"]
    <3>1. Follows(old, r) /\ Lasts(old, r)
      BY <2>a, <2>6, Zenon DEF started, Goto, Process, Orderly, InOrder, Follows, Lasts, Keyed,
         Started, Running, Holding
    <3>2. Changes(p, r)
      BY <2>6, Zenon DEF started, Goto, LockInv, TypeOK, Changes
    <3> QED
      BY <2>6, <2>b, <3>1, <3>2, Zenon DEF started, Goto
  <2>7. ASSUME unloadAddons(p) PROVE FilesInv'
    <3> DEFINE r == IF old.proxy = "running" THEN [old EXCEPT !.pc = "join", !.proxy = "stopping"]
                      ELSE [old EXCEPT !.pc = "joinServer"]
    <3>1. Follows(old, r) /\ Lasts(old, r)
      BY <2>a, <2>7, Zenon DEF unloadAddons, Stopping, Process, Orderly, InOrder, Follows, Lasts,
         Keyed, Started, Running, Holding
    <3>2. Changes(p, r)
      BY <2>7, Zenon DEF unloadAddons, Stopping, LockInv, TypeOK, Changes
    <3> QED
      BY <2>7, <2>b, <3>1, <3>2, Zenon DEF unloadAddons, Stopping
  <2>8. ASSUME joinProxy(p) PROVE FilesInv'
    <3> DEFINE r == [old EXCEPT !.pc = "joinServer"]
    <3>1. Follows(old, r) /\ Lasts(old, r)
      BY <2>a, <2>8, Zenon DEF joinProxy, Goto, Process, Orderly, InOrder, Follows, Lasts, Keyed,
         Started, Running, Holding
    <3>2. Changes(p, r)
      BY <2>8, Zenon DEF joinProxy, Goto, LockInv, TypeOK, Changes
    <3> QED
      BY <2>8, <2>b, <3>1, <3>2, Zenon DEF joinProxy, Goto
  <2>9. ASSUME old.fd = NoFile, release(p) PROVE FilesInv'
    <3> DEFINE r == Gone(old.key)
    <3>1. Follows(old, r) /\ Lasts(old, r)
      BY <2>a, <2>9, Zenon DEF release, Gone, Process, Orderly, InOrder, Follows, Lasts, Keyed,
         Started, Running, Holding
    <3>2. Changes(p, r)
      BY <2>9, Zenon DEF release, Gone, LockInv, TypeOK, Changes
    <3> QED
      BY <2>9, <2>b, <3>1, <3>2, Zenon DEF release, Gone
  <2>10. ASSUME old.fd # NoFile, release(p) PROVE FilesInv'
    <3> DEFINE r == [old EXCEPT !.pc = "remove", !.locked = FALSE, !.fd = NoFile]
    <3>1. Follows(old, r) /\ Lasts(old, r)
      BY <2>a, <2>10, Zenon DEF release, Process, Orderly, InOrder, Follows, Lasts, Keyed,
         Started, Running, Holding
    <3>2. Changes(p, r)
      BY <2>10, Zenon DEF release, LockInv, TypeOK, Changes
    <3> QED
      BY <2>10, <2>b, <3>1, <3>2, Zenon DEF release
  <2>11. ASSUME receiveEnds(p) \/ receiveThrows(p) PROVE FilesInv'
    <3> DEFINE r == [old EXCEPT !.rx = "done"]
    <3>1. Follows(old, r) /\ Lasts(old, r)
      BY <2>a, <2>11, Zenon DEF receiveEnds, receiveThrows, Process, Orderly, InOrder, Follows,
         Lasts, Keyed, Started, Running, Holding
    <3>2. Changes(p, r)
      BY <2>11, Zenon DEF receiveEnds, receiveThrows, LockInv, TypeOK, Changes
    <3> QED
      BY <2>11, <2>b, <3>1, <3>2, Zenon DEF receiveEnds, receiveThrows
  <2>12. ASSUME onIteration(p) PROVE FilesInv'
    <3> DEFINE r == [old EXCEPT !.proxy = "running"]
    <3>1. Follows(old, r) /\ Lasts(old, r)
      BY <2>a, <2>12, Zenon DEF onIteration, Process, Orderly, InOrder, Follows, Lasts, Keyed,
         Started, Running, Holding
    <3>2. Changes(p, r)
      BY <2>12, Zenon DEF onIteration, LockInv, TypeOK, Changes
    <3> QED
      BY <2>12, <2>b, <3>1, <3>2, Zenon DEF onIteration
  <2>13. ASSUME onStop(p) PROVE FilesInv'
    <3> DEFINE r == [old EXCEPT !.proxy = "done"]
    <3>1. Follows(old, r) /\ Lasts(old, r)
      BY <2>a, <2>13, Zenon DEF onStop, Process, Orderly, InOrder, Follows, Lasts, Keyed,
         Started, Running, Holding
    <3>2. Changes(p, r)
      BY <2>13, Zenon DEF onStop, LockInv, TypeOK, Changes
    <3> QED
      BY <2>13, <2>b, <3>1, <3>2, Zenon DEF onStop
  <2>14. ASSUME ~old.quit, signal(p) PROVE FilesInv'
    <3> DEFINE r == [old EXCEPT !.quit = TRUE]
    <3>1. Follows(old, r) /\ Lasts(old, r)
      BY <2>a, <2>14 DEF signal, Process, Orderly, InOrder, Follows, Lasts, Keyed, Started,
         Running, Holding
    <3>2. Changes(p, r)
      BY <2>14, Zenon DEF signal, LockInv, TypeOK, Changes
    <3> QED
      BY <2>14, <2>b, <3>1, <3>2, Zenon DEF signal
  <2>15. ASSUME launch(p) PROVE FilesInv'
    <3> DEFINE file == IF disk.lock = NoFile THEN p ELSE disk.lock
               r == [old EXCEPT !.pc = "opened", !.fd = file]
    <3>1. Follows(old, r) /\ Lasts(old, r)
      <4> HIDE DEF file
      <4> QED BY <2>a, <2>15, Zenon DEF launch, Process, Orderly, InOrder, Follows, Lasts, Keyed,
         Started, Running, Holding
    <3>2. Changes(p, r)
      BY <2>15, Zenon DEF launch, LockInv, TypeOK, Changes
    <3>3. disk'.key = disk.key /\ disk'.id = disk.id /\ disk'.table = disk.table /\ hist' = hist
      BY <2>a, <2>15, Zenon DEF launch, Disk
    <3> QED
      BY <3>1, <3>2, <3>3, SameKeys, SameTraces, Zenon DEF FilesInv
  <2>16. ASSUME remove(p) PROVE FilesInv'
    <3> DEFINE r == Gone(old.key)
    <3>1. Follows(old, r) /\ Lasts(old, r)
      BY <2>a, <2>16, Zenon DEF remove, Gone, Process, Orderly, InOrder, Follows, Lasts, Keyed,
         Started, Running, Holding
    <3>2. Changes(p, r)
      BY <2>16, Zenon DEF remove, Changes
    <3>3. disk'.key = disk.key /\ disk'.id = disk.id /\ disk'.table = disk.table
      BY <2>a, <2>16, Zenon DEF remove, Disk
    <3>4. (hist.raced => hist'.raced) /\ hist'.cut = hist.cut /\ hist'.emptied = hist.emptied
      BY <2>a, <2>16, Zenon DEF remove, Hist
    <3> QED
      BY <3>1, <3>2, <3>3, <3>4, SameKeys, SameTraces, Zenon DEF FilesInv
  <2>17. ASSUME Die(p) PROVE FilesInv'
    <3> DEFINE r == Gone(IF old.pc \in {"initKey", "writeKey"} THEN NoFile ELSE old.key)
    <3>1. Follows(old, r)
      BY <2>a DEF Gone, NoFile, Empty, Process, Orderly, InOrder, Follows, Lasts, Keyed, Started,
         Running, Holding
    <3>2. Changes(p, r)
      BY <2>17, Zenon DEF Die, Changes
    <3>3. disk' = disk /\ hist'.raced = hist.raced /\ hist'.emptied = hist.emptied
      BY <2>a, <2>17, Zenon DEF Die, Hist
    <3>4. /\ hist.cut \subseteq hist'.cut
          /\ old.pc = "writeKey" => "key" \in hist'.cut
          /\ old.pc = "writeTable" \/ old.rx = "saving" => "table" \in hist'.cut
      BY <2>a, <2>17, Zenon DEF Die, Hist
    <3>5. KeyTraced' /\ TableTraced'
      BY <3>2, <3>3, <3>4, Others DEF FilesInv, KeyTraced, TableTraced
    <3> QED
      BY <3>1, <3>2, <3>3, <3>5, SameKeys, Zenon DEF FilesInv
  <2>18. ASSUME saveOnStop(p) PROVE FilesInv'
    <3> DEFINE r == [old EXCEPT !.pc = "writeTable"]
    <3>1. /\ Follows(old, r) /\ Lasts(old, r)
          /\ r.pc = "writeTable" \/ r.rx = "saving"
      BY <2>a, <2>18, Zenon DEF saveOnStop, Goto, Process, Orderly, InOrder, Follows, Lasts,
         Keyed, Started, Running, Holding
    <3>2. Changes(p, r)
      BY <2>18, Zenon DEF saveOnStop, Goto, LockInv, TypeOK, Changes
    <3>3. disk'.key = disk.key /\ disk'.id = disk.id /\ hist' = hist
      BY <2>a, <2>18, Zenon DEF saveOnStop, Goto, OpenTable, Disk
    <3>4. TableTraced'
      BY <3>1, <3>2, Others, Zenon DEF TableTraced
    <3> QED
      BY <3>1, <3>2, <3>3, <3>4, SameKeys, SameTraces, Zenon DEF FilesInv
  <2>19. ASSUME update(p) PROVE FilesInv'
    <3> DEFINE r == [old EXCEPT !.rx = "saving"]
    <3>1. /\ Follows(old, r) /\ Lasts(old, r)
          /\ r.pc = "writeTable" \/ r.rx = "saving"
      BY <2>a, <2>19, Zenon DEF update, Process, Orderly, InOrder, Follows, Lasts, Keyed,
         Started, Running, Holding
    <3>2. Changes(p, r)
      BY <2>19, Zenon DEF update, LockInv, TypeOK, Changes
    <3>3. disk'.key = disk.key /\ disk'.id = disk.id /\ hist' = hist
      BY <2>a, <2>19, Zenon DEF update, OpenTable, Disk
    <3>4. TableTraced'
      BY <3>1, <3>2, Others, Zenon DEF TableTraced
    <3> QED
      BY <3>1, <3>2, <3>3, <3>4, SameKeys, SameTraces, Zenon DEF FilesInv
  <2>20. ASSUME NEW some \in BOOLEAN, stopped(p, some) PROVE FilesInv'
    <3> DEFINE r == [old EXCEPT !.pc = "exit", !.node = "Stopped"]
    <3>1. Follows(old, r) /\ old.pc # "writeKey"
      BY <2>a, <2>20, Zenon DEF stopped, Process, Orderly, InOrder, Follows, Lasts, Keyed,
         Started, Running, Holding
    <3>2. Changes(p, r)
      BY <2>20, Zenon DEF stopped, LockInv, TypeOK, Changes
    <3>3. /\ disk'.key = disk.key /\ disk'.id = disk.id
          /\ some => disk'.table # Empty
      BY <2>a, <2>20 DEF stopped, WriteTable, Disk, Entries, Empty
    <3>4. /\ hist'.raced = hist.raced /\ hist'.emptied = ~some
          /\ "key" \in hist.cut => "key" \in hist'.cut
      BY <2>a, <2>20, Zenon DEF stopped, WriteTable, Hist
    <3>5. TableTraced'
      BY <3>3, <3>4, Zenon DEF TableTraced
    <3>6. KeyTraced'
      BY <3>1, <3>2, <3>3, <3>4, Others, Zenon DEF KeyTraced, FilesInv
    <3> QED
      BY <3>1, <3>2, <3>3, <3>4, <3>5, <3>6, SameKeys, Zenon DEF FilesInv
  <2>21. ASSUME NEW some \in BOOLEAN, updated(p, some) PROVE FilesInv'
    <3> DEFINE r == [old EXCEPT !.rx = "loop"]
    <3>1. Follows(old, r) /\ old.pc # "writeKey"
      BY <2>a, <2>21, Zenon DEF updated, Process, Orderly, InOrder, Follows, Lasts, Keyed,
         Started, Running, Holding
    <3>2. Changes(p, r)
      BY <2>21, Zenon DEF updated, LockInv, TypeOK, Changes
    <3>3. /\ disk'.key = disk.key /\ disk'.id = disk.id
          /\ some => disk'.table # Empty
      BY <2>a, <2>21 DEF updated, WriteTable, Disk, Entries, Empty
    <3>4. /\ hist'.raced = hist.raced /\ hist'.emptied = ~some
          /\ "key" \in hist.cut => "key" \in hist'.cut
      BY <2>a, <2>21, Zenon DEF updated, WriteTable, Hist
    <3>5. TableTraced'
      BY <3>3, <3>4, Zenon DEF TableTraced
    <3>6. KeyTraced'
      BY <3>1, <3>2, <3>3, <3>4, Others, Zenon DEF KeyTraced, FilesInv
    <3> QED
      BY <3>1, <3>2, <3>3, <3>4, <3>5, <3>6, SameKeys, Zenon DEF FilesInv
  <2>22. ASSUME node(p) PROVE FilesInv'
    <3> DEFINE r == [old EXCEPT !.pc = "initKey", !.key = p]
    <3>1. InOrder(r) /\ Lasts(old, r) /\ r.pc = "initKey"
      BY <2>a, <2>22, ProcsAreInts, Zenon DEF node, Process, Orderly, InOrder, Follows, Lasts,
         Keyed, Started, Running, Holding
    <3>2. Changes(p, r)
      BY <2>22, Zenon DEF node, LockInv, TypeOK, Changes
    <3>3. UNCHANGED <<disk, hist>> /\ disk.key = NoFile
      BY <2>22, Zenon DEF node
    <3>4. \A q \in Procs : InOrder(proc'[q])
      BY <3>1, <3>2, Others, Zenon DEF FilesInv
    <3>5. Identity'
      <4>1. Agrees(r, NoFile, disk.id)
        <5> HIDE DEF r
        <5> QED BY <3>1 DEF Agrees, Keyed, Started, Running, NoFile, Empty
      <4> QED
        BY <3>2, <3>3, <4>1, NewIdentity, Zenon DEF FilesInv, Identity
    <3> QED
      BY <3>1, <3>2, <3>3, <3>4, <3>5, SameTraces, Zenon DEF FilesInv, InOrder, Keyed, Started
  <2>23. ASSUME loadKey(p) PROVE FilesInv'
    <3>1. CASE disk.key = Empty
      <4> DEFINE r == [old EXCEPT !.pc = "exit"]
      <4>1. Follows(old, r) /\ Lasts(old, r)
        BY <2>a, <2>23, Zenon DEF loadKey, Process, Orderly, InOrder, Follows, Lasts, Keyed,
           Started, Running, Holding
      <4>2. Changes(p, r)
        BY <2>23, <3>1, Zenon DEF loadKey, LockInv, TypeOK, Changes
      <4> QED
        BY <2>23, <2>b, <4>1, <4>2, Zenon DEF loadKey
    <3>2. CASE disk.key # Empty
      <4> DEFINE r == [old EXCEPT !.pc = "keyed", !.key = disk.key]
      <4>1. InOrder(r) /\ Lasts(old, r) /\ r.pc = "keyed" /\ r.key = disk.key
        BY <2>a, <2>23, <3>2, Zenon DEF loadKey, Process, Orderly, InOrder, Follows, Lasts,
           Keyed, Started, Running, Holding
      <4>2. Changes(p, r)
        BY <2>23, <3>2, Zenon DEF loadKey, LockInv, TypeOK, Changes
      <4>3. UNCHANGED <<disk, hist>> /\ disk.key \notin {NoFile, Empty}
        BY <2>23, <3>2, Zenon DEF loadKey
      <4>4. \A q \in Procs : InOrder(proc'[q])
        BY <4>1, <4>2, Others DEF FilesInv
      <4>5. Identity'
        <5>1. Agrees(r, disk.key, disk.id)
          <6> HIDE DEF r
          <6> QED BY <4>1, <4>3, Zenon DEF Agrees, Keyed, Started, Running
        <5> QED
          BY <4>2, <4>3, <5>1, NewIdentity, Zenon DEF FilesInv, Identity
      <4> QED
        BY <4>1, <4>2, <4>3, <4>4, <4>5, SameTraces, Zenon DEF FilesInv, InOrder, Keyed, Started
    <3> QED
      BY <3>1, <3>2, Zenon
  <2>24. ASSUME initKey(p) PROVE FilesInv'
    <3> DEFINE r == [old EXCEPT !.pc = "writeKey"]
    <3>1. InOrder(r) /\ Lasts(old, r) /\ r.pc = "writeKey"
      BY <2>a, <2>24, Zenon DEF initKey, Process, Orderly, InOrder, Follows, Lasts, Keyed,
         Started, Running, Holding
    <3>2. Changes(p, r)
      BY <2>24, Zenon DEF initKey, Goto, LockInv, TypeOK, Changes
    <3>3. disk'.key = Empty /\ disk'.table = disk.table /\ hist' = hist
      BY <2>a, <2>24, Zenon DEF initKey, Disk
    <3>4. \A q \in Procs : InOrder(proc'[q])
      BY <3>1, <3>2, Others, Zenon DEF FilesInv
    <3>5. ASSUME ~hist.raced, NEW q \in Procs \ {p} PROVE proc[q].key = NoFile
      <4>1. disk.key = NoFile /\ old.locked
        BY <2>a, <2>24, <3>5, Zenon DEF initKey, FilesInv, Identity, Agrees, Orderly, Holding
      <4>2. proc[q].pc # "initKey"
        BY <3>5, <4>1, Zenon DEF LockInv, Exclusive, Orderly, Holding
      <4> QED
        BY <3>5, <4>1, <4>2, Zenon DEF FilesInv, Identity, Agrees
    <3>6. Identity'
      <4>1. Agrees(r, Empty, disk'.id)
        <5> HIDE DEF r
        <5> QED BY <3>1 DEF Agrees, Keyed, Started, Running, NoFile, Empty
      <4>2. ASSUME ~hist.raced, NEW q \in Procs \ {p} PROVE Agrees(proc[q], Empty, disk'.id)
        BY <3>5, <4>2, Zenon DEF Agrees, FilesInv, InOrder, Keyed, Empty, NoFile
      <4> QED
        BY <3>2, <3>3, <4>1, <4>2, NewIdentity, Zenon
    <3>7. KeyTraced'
      BY <3>1, <3>2, Others, Zenon DEF KeyTraced
    <3> QED
      BY <3>1, <3>2, <3>3, <3>4, <3>6, <3>7, SameTraces, Zenon DEF FilesInv, InOrder, Keyed, Started
  <2>25. ASSUME writeKey(p) PROVE FilesInv'
    <3> DEFINE r == [old EXCEPT !.pc = "keyed"]
    <3>1. /\ InOrder(r) /\ r.pc = "keyed" /\ r.key = old.key /\ old.key \notin {NoFile, Empty}
          /\ old.rx \notin {"loop", "saving"} /\ r.rx = old.rx
      BY <2>a, <2>25, Zenon DEF writeKey, Process, Orderly, InOrder, Follows, Lasts, Keyed,
         Started, Running, Holding
    <3>2. Changes(p, r)
      BY <2>25, Zenon DEF writeKey, Goto, LockInv, TypeOK, Changes
    <3>3. disk'.key = old.key /\ disk'.table = disk.table /\ disk'.id = disk.id /\ hist' = hist
      BY <2>a, <2>25, Zenon DEF writeKey, Disk
    <3>4. \A q \in Procs : InOrder(proc'[q])
      BY <3>1, <3>2, Others DEF FilesInv
    <3>5. ASSUME ~hist.raced, NEW q \in Procs \ {p} PROVE proc[q].key = NoFile
      <4>1. disk.key = Empty /\ old.locked
        BY <2>a, <2>25, <3>5, Zenon DEF writeKey, FilesInv, Identity, Agrees, Orderly, Holding
      <4>2. proc[q].pc # "writeKey"
        BY <3>5, <4>1, Zenon DEF LockInv, Exclusive, Orderly, Holding
      <4> QED
        BY <3>5, <4>1, <4>2, Zenon DEF FilesInv, Identity, Agrees
    <3>6. Identity'
      <4>1. Agrees(r, old.key, disk'.id)
        <5> HIDE DEF r
        <5> QED BY <3>1, Zenon DEF Agrees, Keyed, Started, Running
      <4>2. ASSUME ~hist.raced, NEW q \in Procs \ {p} PROVE Agrees(proc[q], old.key, disk'.id)
        BY <3>1, <3>5, <4>2, Zenon DEF Agrees, FilesInv, InOrder, Keyed, Empty, NoFile
      <4> QED
        BY <3>2, <3>3, <4>1, <4>2, NewIdentity, Zenon
    <3>7. KeyTraced'
      BY <3>1, <3>3, Zenon DEF KeyTraced
    <3>8. TableTraced'
      BY <2>25, <3>1, <3>2, <3>3, Others DEF writeKey, TableTraced, FilesInv
    <3> QED
      BY <3>4, <3>6, <3>7, <3>8, Zenon DEF FilesInv, InOrder, Keyed, Started
  <2>26. ASSUME writeIdFile(p) PROVE FilesInv'
    <3> DEFINE r == [old EXCEPT !.pc = "start"]
    <3>1. InOrder(r) /\ Lasts(old, r) /\ r.pc = "start" /\ r.key = old.key
      BY <2>a, <2>26, Zenon DEF writeIdFile, Process, Orderly, InOrder, Follows, Lasts, Keyed,
         Started, Running, Holding
    <3>2. Changes(p, r)
      BY <2>26, Zenon DEF writeIdFile, Goto, LockInv, TypeOK, Changes
    <3>3. disk'.key = disk.key /\ disk'.table = disk.table /\ disk'.id = old.key /\ hist' = hist
      BY <2>a, <2>26, Zenon DEF writeIdFile, Disk
    <3>4. \A q \in Procs : InOrder(proc'[q])
      BY <3>1, <3>2, Others DEF FilesInv
    <3>5. ASSUME ~hist.raced, NEW q \in Procs \ {p} PROVE ~Started(proc[q])
      BY <2>a, <2>26, <3>5, Zenon DEF writeIdFile, LockInv, Exclusive, Orderly, Holding, Started
    <3>6. Identity'
      <4>1. ASSUME ~hist.raced PROVE Agrees(r, disk.key, old.key)
        <5>1. old.key = disk.key /\ old.key \notin {NoFile, Empty}
          BY <2>a, <2>26, <4>1, Zenon DEF writeIdFile, FilesInv, Identity, Agrees, InOrder, Keyed
        <5> HIDE DEF r
        <5> QED BY <3>1, <5>1, Zenon DEF Agrees, Keyed, Started, Running
      <4>2. ASSUME ~hist.raced, NEW q \in Procs \ {p} PROVE Agrees(proc[q], disk.key, old.key)
        BY <3>5, <4>2, Zenon DEF FilesInv, Identity, Agrees
      <4> QED
        BY <3>2, <3>3, <4>1, <4>2, NewIdentity, Zenon
    <3> QED
      BY <3>1, <3>2, <3>3, <3>4, <3>6, SameTraces, Zenon DEF FilesInv, InOrder, Keyed, Started
  <2>27. ASSUME NEW configured \in {"none", "peer", "address"}, NEW ok \in BOOLEAN,
              loadAddons(p, configured, ok)
        PROVE FilesInv'
    BY <2>27, <2>3, <2>4, <2>5, Zenon DEF loadAddons
  <2>28. ASSUME NEW ok \in BOOLEAN, found(p, ok) PROVE FilesInv'
    BY <2>28, <2>3, Zenon DEF found
  <2>29. ASSUME main(p) PROVE FilesInv'
    BY <2>29, <2>1, <2>22, <2>23, <2>24, <2>25, <2>26, <2>2,
       <2>27, <2>28, <2>6, <2>7, <2>8, <2>18, <2>20, <2>9, <2>10, <2>16, Zenon DEF main
  <2>30. ASSUME receive(p) \/ loop(p) PROVE FilesInv'
    BY <2>30, <2>11, <2>21, <2>12, <2>13, Zenon DEF receive, loop
  <2>31. ASSUME signal(p) \/ die(p) PROVE FilesInv'
    BY <2>31, <2>14, <2>17, Zenon DEF signal, die
  <2>32. ASSUME dequeue(p) PROVE FilesInv'
    <3> DEFINE r == [old EXCEPT !.rx = "stuck"]
    <3>1. Follows(old, r) /\ Lasts(old, r)
      BY <2>a, <2>32, Zenon DEF dequeue, Process, Orderly, InOrder, Follows, Lasts, Keyed,
         Started, Running, Holding
    <3>2. Changes(p, r)
      BY <2>32, Zenon DEF dequeue, LockInv, TypeOK, Changes
    <3> QED
      BY <2>32, <2>b, <3>1, <3>2, Zenon DEF dequeue
  <2>33. ASSUME lookupEnds(p) PROVE FilesInv'
    <3> DEFINE r == [old EXCEPT !.pc = "found"]
    <3>1. Follows(old, r) /\ Lasts(old, r)
      BY <2>a, <2>33, Zenon DEF lookupEnds, Goto, Process, Orderly, InOrder, Follows, Lasts,
         Keyed, Started, Running, Holding
    <3>2. Changes(p, r)
      BY <2>33, Zenon DEF lookupEnds, Goto, LockInv, TypeOK, Changes
    <3> QED
      BY <2>33, <2>b, <3>1, <3>2, Zenon DEF lookupEnds, Goto
  <2> QED
    BY <2>11, <2>15, <2>19, <2>29, <2>30, <2>31, <2>32, <2>33, Zenon
<1> QED
  BY <1>1, <1>2, Zenon DEF Next

\* At every moment, with any number of launches, signals and deaths: outside a lock file
\* race all processes have one key, which the id file shows while a node runs; an empty
\* key file comes from a death between initKey's open and its write, and an empty table
\* file from a death within RoutingTable::save or from a table without entries.
THEOREM FilesAlwaysKept == Spec => []FilesKept
<1>1. LockInv /\ FilesInv => FilesKept
  <2> SUFFICES ASSUME LockInv, FilesInv PROVE FilesKept
    BY Zenon
  <2>1. ASSUME ~hist.raced, NEW p \in Procs, proc[p].node = "Running"
        PROVE  /\ disk.id = proc[p].key /\ proc[p].key = disk.key
               /\ disk.key \notin {NoFile, Empty}
    BY <2>1 DEF LockInv, FilesInv, Orderly, InOrder, Identity, Agrees, Keyed, Started
  <2>2. ASSUME ~hist.raced, NEW p \in Procs, proc[p].node = "Running",
               NEW q \in Procs, proc[q].key # NoFile
        PROVE  proc[p].key = proc[q].key
    BY <2>1, <2>2, Zenon DEF FilesInv, Identity, Agrees
  <2> QED
    BY <2>1, <2>2, Zenon DEF FilesKept, FilesInv, KeyTraced, TableTraced
<1>2. Init => LockInv /\ FilesInv
  BY LockInit, FilesInit, Zenon
<1>3. LockInv /\ FilesInv /\ [Next]_vars => (LockInv /\ FilesInv)'
  BY LockNext, FilesNext, Zenon
<1> QED
  BY <1>1, <1>2, <1>3, PTL DEF Spec

=============================================================================
