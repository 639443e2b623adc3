------------------------------ MODULE Scheduler ------------------------------
(***************************************************************************)
(* The scheduler (src/core/scheduler.h) as the receive thread drives it    *)
(* from RPCServer::periodic: one-shot jobs such as the timers of calls,    *)
(* which may be cancelled, and periodic jobs.  Times are relative to the   *)
(* clock, so that it need not be bounded: due is when a job is to run, lag *)
(* how far the clock has moved since syncTime.                             *)
(***************************************************************************)
EXTENDS Integers, FiniteSets

CONSTANTS OneShot, Periodic,   \* the functions that are given to add
          Delays,              \* delays of one-shot jobs
          FixedDelay,          \* of the periodic jobs
          MaxLag               \* bound: how long the thread is busy elsewhere or in run

SchedulerAssumption ==
    /\ OneShot \cap Periodic = {} /\ Delays \subseteq Nat \ {0} /\ MaxLag \in Nat \ {0}
    /\ FixedDelay \in [Periodic -> Nat \ {0}]

VARIABLES timers,     \* timers, as a partial function from the functions of the jobs
          lag,        \* currentTimeMillis() - now
          inRun,      \* the thread is in run
          current,    \* what run has taken out and is calling, as timers: one job or none
          ran,        \* history: what the last step called
          rest,       \* history: time since a periodic job was called, up to its delay
          cancelled,  \* history: jobs that were cancelled through the Sp that add returned
          missed      \* history: those whose cancel came too late for that

vars == <<timers, lag, inRun, current, ran, rest, cancelled, missed>>

Tasks == OneShot \cup Periodic

\* handle: the Sp that add returned is this job, which is so until edit replaces it.
Job(due, fixedDelay, handle) ==
    [due |-> due, fixedDelay |-> fixedDelay, live |-> TRUE, handle |-> handle]

With(f, t, job) == [u \in DOMAIN f \cup {t} |-> IF u = t THEN job ELSE f[u]]
Without(f, t) == [u \in DOMAIN f \ {t} |-> f[u]]

Init ==
    /\ timers = [t \in Periodic |-> Job(FixedDelay[t], FixedDelay[t], TRUE)]
    /\ lag = 0 /\ inRun = FALSE /\ current = <<>> /\ ran = {} /\ rest = FixedDelay
    /\ cancelled = {} /\ missed = {}

\* From a handler of a message or of a job.
add(t, delay) ==
    /\ t \notin DOMAIN timers
    /\ timers' = With(timers, t, Job(delay, 0, TRUE))
    /\ cancelled' = cancelled \ {t}
    /\ ran' = {}
    /\ UNCHANGED <<lag, inRun, current, rest, missed>>

\* Job::cancel of the Sp that add returned, by any thread, as Node::stop does.
Cancelled(jobs, t) ==
    IF t \in DOMAIN jobs /\ jobs[t].handle
    THEN [jobs EXCEPT ![t].live = FALSE, ![t].fixedDelay = 0] ELSE jobs

\* The job waits, or is being called: it is not added again.
cancel(t) ==
    /\ t \notin cancelled
    /\ \E jobs \in {timers, current} : t \in DOMAIN jobs /\ jobs[t].handle
    /\ timers' = Cancelled(timers, t)
    /\ current' = Cancelled(current, t)
    /\ cancelled' = cancelled \cup {t}
    /\ ran' = {}
    /\ UNCHANGED <<lag, inRun, rest, missed>>

\* A periodic job that was called before is another one by now, and the cancel has no
\* effect on it.
cancelStale(t) ==
    /\ \A jobs \in {timers, current} : t \in DOMAIN jobs => ~ jobs[t].handle
    /\ t \in Periodic \ (cancelled \cup missed)
    /\ missed' = missed \cup {t}
    /\ ran' = {}
    /\ UNCHANGED <<timers, lag, inRun, current, rest, cancelled>>

\* RPCServer::periodic comes to syncTime and run.
syncTime ==
    /\ ~ inRun
    /\ lag' = 0 /\ inRun' = TRUE /\ ran' = {}
    /\ UNCHANGED <<timers, current, rest, cancelled, missed>>

\* The jobs that run finds: their time is not later than now.
Due(t) == timers[t].due + lag <= 0

First(t) == \A u \in DOMAIN timers : timers[t].due <= timers[u].due

\* A round of the loop of run: the first job is taken out and called, unless it was
\* cancelled.
runJob(t) ==
    /\ inRun /\ current = <<>>
    /\ t \in DOMAIN timers /\ First(t) /\ Due(t)
    /\ ran' = IF timers[t].live THEN {t} ELSE {}
    /\ rest' = [p \in Periodic |-> IF p \in ran' THEN 0 ELSE rest[p]]
    /\ timers' = Without(timers, t)
    /\ current' = With(<<>>, t, timers[t])
    /\ UNCHANGED <<lag, inRun, cancelled, missed>>

MutEditOnce(job) == Job(job.fixedDelay, 0, FALSE)

\* edit: the function moves to a new job.
edit(job) == Job(job.fixedDelay, job.fixedDelay, FALSE)

jobDone(t) ==
    /\ t \in DOMAIN current
    /\ timers' = IF current[t].fixedDelay > 0 THEN With(timers, t, edit(current[t])) ELSE timers
    /\ current' = <<>> /\ ran' = {}
    /\ UNCHANGED <<lag, inRun, rest, cancelled, missed>>

returnRun ==
    /\ inRun /\ current = <<>>
    /\ \A t \in DOMAIN timers : ~ Due(t)
    /\ inRun' = FALSE /\ ran' = {}
    /\ UNCHANGED <<timers, lag, current, rest, cancelled, missed>>

\* The clock moves, at any time; the thread is not kept from run for ever.
tick ==
    /\ lag < MaxLag
    /\ lag' = lag + 1
    /\ timers' = [t \in DOMAIN timers |-> [timers[t] EXCEPT !.due = @ - 1]]
    /\ rest' = [p \in Periodic |-> IF rest[p] < FixedDelay[p] THEN rest[p] + 1 ELSE rest[p]]
    /\ ran' = {}
    /\ UNCHANGED <<inRun, current, cancelled, missed>>

Next ==
    \/ \E t \in OneShot, d \in Delays : add(t, d)
    \/ \E t \in Tasks : cancel(t) \/ cancelStale(t)
    \/ syncTime
    \/ \E t \in Tasks : runJob(t) \/ jobDone(t)
    \/ returnRun
    \/ tick

-----------------------------------------------------------------------------
(* Properties. *)

\* A periodic job runs again and again, though the clock moves while jobs run and others
\* are added and cancelled; it does not run before its delay has passed, in particular not
\* twice in one run, which would never return. A job that is cancelled through the handle
\* that add returned, before or during its first call, does not run any more: a call that
\* was answered has no timer that could touch it once it is deleted (scheduler.h:68-114).
\* After the first call of a periodic job that handle is of no use: cancelling it, as
\* Node::stop does with the announce job (node.cc:261-264), leaves the job running.
JobsInTime ==
    /\ \A p \in Periodic : []<>(p \in ran \/ p \in cancelled)
    /\ [][\A p \in Periodic \cap ran' : rest[p] = FixedDelay[p]]_vars
    /\ [](ran \cap cancelled = {} /\ missed \cap cancelled = {})
=============================================================================
