------------------------------ MODULE MCThreads ------------------------------
(***************************************************************************)
(* Three things that keep a thread going: the sockets of an RPC server,    *)
(* the scheduler that the receive thread drives, and the main loop of the  *)
(* crawler.  A behaviour is one of one of them, the others being at rest.  *)
(***************************************************************************)
EXTENDS Sockets, Crawler, TLC

CONSTANTS p, q, OneShot, Periodic, Delays, MaxLag,                      \* Scheduler
          a, b, c, d, r                                                 \* Crawler

VARIABLES part,
          timers, lag, inRun, current, ran, rest, cancelled, missed     \* Scheduler

\* Two periodic jobs, one of them as often as can be.
MCFixedDelay == p :> 1 @@ q :> 2

\* Node d is known to others and does not answer; b is only found through a, c through both.
MCAnswer == a :> (q :> {b} @@ r :> {c, d}) @@ b :> (q :> {a} @@ r :> {c})
            @@ c :> (q :> {a, d} @@ r :> {}) @@ d :> (q :> {} @@ r :> {})

jobVars == <<timers, lag, inRun, current, ran, rest, cancelled, missed>>

Jobs == INSTANCE Scheduler WITH FixedDelay <- MCFixedDelay

ASSUME MCThreadsAssumption == Jobs!SchedulerAssumption

NoJobs ==
    /\ timers = <<>> /\ lag = 0 /\ inRun = FALSE /\ current = <<>> /\ ran = {}
    /\ rest = MCFixedDelay /\ cancelled = OneShot \cup Periodic /\ missed = {}

NoCrawl ==
    /\ nodes_list = <<>> /\ sendedNo = 0 /\ pinged_list = {} /\ calls = {} /\ quiet = 0
    /\ since = 0 /\ pc = "stopped" /\ awake = TRUE /\ interrupted = TRUE /\ limit = 0
    /\ lost = FALSE

MCInit ==
    /\ part \in {"sockets", "jobs", "crawl"}
    /\ Init
    /\ IF part = "jobs" THEN Jobs!Init ELSE NoJobs
    /\ IF part = "crawl" THEN CrawlInit ELSE NoCrawl

MCNext ==
    /\ UNCHANGED part
    /\ IF part = "sockets" THEN Next ELSE UNCHANGED vars
    /\ IF part = "jobs" THEN Jobs!Next ELSE UNCHANGED jobVars
    /\ IF part = "crawl" THEN CrawlNext ELSE UNCHANGED crawlVars

\* The receive thread calls run, run goes through its loop, and time passes.
JobsFairness ==
    /\ WF_jobVars(part = "jobs" /\ Jobs!syncTime) /\ WF_jobVars(part = "jobs" /\ Jobs!returnRun)
    /\ WF_jobVars(part = "jobs" /\ Jobs!tick)
    /\ WF_jobVars(part = "jobs" /\ \E t \in OneShot \cup Periodic : Jobs!runJob(t) \/ Jobs!jobDone(t))

\* The main thread runs, sleep(1) ends, and every call is answered or times out.
CrawlFairness ==
    /\ WF_crawlVars(turn) /\ WF_crawlVars(stopCrawl)
    /\ WF_crawlVars(Settle) /\ WF_crawlVars(tick)

MCSpec ==
    /\ MCInit /\ [][MCNext]_<<part, vars, jobVars, crawlVars>>
    /\ Fairness /\ JobsFairness /\ CrawlFairness

-----------------------------------------------------------------------------
(* The property of Scheduler, which that module explains. *)

\* Periodic jobs run again and again, never before their delay has passed; what was
\* cancelled before or during its first call does not run, and a later cancel changes
\* nothing (scheduler.h:68-114).
JobsInTime == Jobs!JobsInTime
=============================================================================
