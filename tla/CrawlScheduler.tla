--------------------------- MODULE CrawlScheduler ---------------------------
(***************************************************************************)
(* PriorityScheduler and the two loops that drive it:                      *)
(*                                                                         *)
(*   scheduler_worker.py     reconciles the outbox and the stale jobs,     *)
(*                           then schedules the channels that are due      *)
(*   rescan_scheduler_loop   the loop inside validator.py (off in          *)
(*                           docker-compose.yml): schedules only           *)
(*                                                                         *)
(* A cycle runs under a lock in Redis that names no owner.  A job is       *)
(* inserted as 'pending', pushed, and only then marked 'queued' and its    *)
(* channel's next_crawl_at moved on; a push that failed leaves the channel *)
(* due and the job to the reconciler.                                      *)
(*                                                                         *)
(* The class unpacks rows as tuples: setup.rows says whether they are.     *)
(***************************************************************************)
EXTENDS CrawlStore

CONSTANTS
  Schedulers,   \* the loops
  Embedded,     \* those that run in validator.py
  StaleEvery,   \* the stale jobs are looked at in every StaleEvery-th cycle
  PressureAt    \* the total queue length at which scheduling pauses

ASSUME SchedulerAssumption ==
  /\ Schedulers \subseteq Processes /\ Embedded \subseteq Schedulers
  /\ StaleEvery \in Nat \ {0}
  /\ PressureAt \in Nat \ {0}

VARIABLE sched  \* what each loop is doing

SchedulerAt == {"idle", "reconcile", "repush", "requeue", "readvance", "stale",
                "pressure", "select", "schedule", "fill", "insert", "push",
                "queued", "advance", "failed", "release"}

\* A channel that was due when the batch was selected, with its watermark then.
DueRow == [channel : Channels, mark : Mark]

SchedulerState ==
  [at : SchedulerAt, beat : 0..(StaleEvery - 1), stuck : SUBSET Jobs,
   todo : SUBSET DueRow, channel : Channels \cup {None}, mark : Mark,
   job : Jobs \cup {None}]

IdleScheduler == [at |-> "idle", beat |-> 0, stuck |-> {}, todo |-> {},
                  channel |-> None, mark |-> 0, job |-> None]

SchedulerTypeOK == sched \in [Schedulers -> SchedulerState]
SchedulerInit   == sched = [s \in Schedulers |-> IdleScheduler]

At(s, where) == sched[s].at = where
Goto(s, where) == sched' = [sched EXCEPT ![s].at = where]

\* On to the next channel of the batch, or to the end of the cycle.
NextDue(s) ==
  sched' = [sched EXCEPT ![s].at = IF sched[s].todo = {} THEN "release" ELSE "schedule",
                         ![s].channel = None, ![s].mark = 0, ![s].job = None]

\* On to the next stuck job, or out of the reconciler.
NextStuck(s, left) ==
  sched' = [sched EXCEPT ![s].at = IF left = {} THEN "stale" ELSE "repush",
                         ![s].stuck = left, ![s].job = None]

InCycle(s) == sched[s].at # "idle"

JobPayload(j, c, m) == [job |-> j, channel |-> c, mark |-> m, source |-> None]
Outstanding(j) == \E q \in QueueNames : \E i \in 1..Len(queues[q]) : queues[q][i].job = j

Pushed(j) == [pushes EXCEPT ![j] = IF @ = 2 THEN 2 ELSE @ + 1]

-----------------------------------------------------------------------------
\* The leader lock.

\* Slip: SET EX without NX.
SlipAcquireLeaderLock(s) ==
  /\ At(s, "idle")
  /\ s \in Embedded => Queued < PressureAt
  /\ leader' = s
  /\ sched' = [sched EXCEPT ![s].at = IF s \in Embedded THEN "select" ELSE "reconcile",
                            ![s].beat = (@ + 1) % StaleEvery]
  /\ UNCHANGED <<setup, database, queues, marks, cache, posts, observed, faults>>

\* SET NX EX; an exception counts as success.
AcquireLeaderLock(s) ==
  /\ At(s, "idle")
  /\ s \in Embedded => Queued < PressureAt
  /\ \/ leader = None /\ leader' = s /\ UNCHANGED <<lapsed, faults>>
     \/ Fault /\ lapsed' = TRUE /\ UNCHANGED leader
  /\ sched' = [sched EXCEPT ![s].at = IF s \in Embedded THEN "select" ELSE "reconcile",
                            ![s].beat = (@ + 1) % StaleEvery]
  /\ UNCHANGED <<setup, database, queues, marks, cache, posts, read, cut, unsaved, pushes,
                 handled, dropped, redisFailed>>

\* DEL, whoever holds the lock by now; an exception leaves it to its TTL.
ReleaseLeaderLock(s) ==
  /\ At(s, "release")
  /\ \/ leader' = None /\ UNCHANGED faults
     \/ Fault /\ UNCHANGED leader
  /\ Goto(s, "idle")
  /\ UNCHANGED <<setup, database, queues, marks, cache, posts, observed>>

\* The 45 (30 in the embedded scheduler) seconds of the lock pass.
LeaderExpires ==
  /\ leader # None
  /\ leader' = None
  /\ lapsed' = (lapsed \/ \E s \in Schedulers : InCycle(s))
  /\ UNCHANGED <<setup, database, queues, marks, cache, posts, read, cut, unsaved, pushes, handled,
                 dropped, redisFailed, faults, sched>>

-----------------------------------------------------------------------------
\* Reconciliation.

\* enqueue_failed, or pending for 2 minutes; younger than 2 hours.
StuckJobs == {j \in Jobs : \/ jobs[j].status = "enqueue_failed" /\ jobs[j].age < 3
                           \/ jobs[j].status = "pending" /\ jobs[j].age \in 1..2}

\* With dictionary rows the unpacking yields column names: the push goes to a
\* list nobody reads and the UPDATE fails, which ends the loop.  A SELECT that
\* fails finds nothing.
SelectStuckJobs(s) ==
  /\ At(s, "reconcile")
  /\ \/ /\ NextStuck(s, IF setup.rows = "tuple" THEN StuckJobs ELSE {})
        /\ UNCHANGED faults
     \/ Fault /\ NextStuck(s, {})
  /\ UNCHANGED <<setup, database, redis, posts, observed>>

RepushJob(s) ==
  /\ At(s, "repush")
  /\ \E j \in sched[s].stuck :
       /\ PushLeft(jobs[j].queue, JobPayload(j, jobs[j].channel, jobs[j].mark))
       /\ pushes' = Pushed(j)
       /\ sched' = [sched EXCEPT ![s].at = "requeue", ![s].job = j]
  /\ UNCHANGED <<setup, database, marks, cache, leader, posts, read, cut, unsaved, handled,
                 dropped, lapsed, redisFailed, faults>>

\* The push fails: the loop ends.
RepushFails(s) ==
  /\ At(s, "repush")
  /\ Fault
  /\ NextStuck(s, {})
  /\ redisFailed' = TRUE
  /\ UNCHANGED <<setup, database, redis, posts, read, cut, unsaved, pushes, handled, dropped,
                 lapsed>>

\* UPDATE crawl_jobs: 'queued', whatever the status is by now.
RequeueJob(s) ==
  /\ At(s, "requeue")
  /\ \/ jobs' = JobSet(sched[s].job, "queued") /\ Goto(s, "readvance") /\ UNCHANGED faults
     \/ Fault /\ NextStuck(s, {}) /\ UNCHANGED jobs
  /\ UNCHANGED <<setup, leads, blacklist, redis, posts, observed>>

\* UPDATE leads: next_crawl_at in 2 hours.
ReadvanceLead(s) ==
  /\ At(s, "readvance")
  /\ \/ /\ leads' = [leads EXCEPT ![jobs[sched[s].job].channel].due = FALSE]
        /\ NextStuck(s, sched[s].stuck \ {sched[s].job})
        /\ UNCHANGED faults
     \/ Fault /\ NextStuck(s, {}) /\ UNCHANGED leads
  /\ UNCHANGED <<setup, jobs, blacklist, redis, posts, observed>>

\* Slip: only jobs that still wait in a queue are timed out.
SlipFailStaleJobs(s) ==
  /\ At(s, "stale")
  /\ jobs' = [j \in Jobs |-> IF jobs[j].status = "queued" /\ jobs[j].overdue
                             THEN [jobs[j] EXCEPT !.status = "failed"] ELSE jobs[j]]
  /\ Goto(s, "pressure")
  /\ UNCHANGED <<setup, leads, blacklist, redis, posts, observed, faults>>

\* reconcile_stale_running_jobs: next_crawl_at stays as it is.
FailStaleJobs(s) ==
  /\ At(s, "stale")
  /\ \/ /\ sched[s].beat = 0
        /\ jobs' = [j \in Jobs |-> IF jobs[j].status = "running" /\ jobs[j].overdue
                                   THEN [jobs[j] EXCEPT !.status = "failed"] ELSE jobs[j]]
        /\ UNCHANGED faults
     \/ sched[s].beat # 0 /\ UNCHANGED <<jobs, faults>>
     \/ Fault /\ UNCHANGED jobs
  /\ Goto(s, "pressure")
  /\ UNCHANGED <<setup, leads, blacklist, redis, posts, observed>>

CheckPressure(s) ==
  /\ At(s, "pressure")
  /\ Goto(s, IF Queued >= PressureAt THEN "release" ELSE "select")
  /\ UNCHANGED store

-----------------------------------------------------------------------------
\* Scheduling.

\* Slip: no limit of 30 minutes.
SlipInFlight(j) == jobs[j].status \in {"pending", "queued", "running"}

\* A job of the channel is under way: scheduled within the last 30 minutes.
InFlight(j) == jobs[j].status \in {"pending", "queued", "running"} /\ jobs[j].age < 2

\* Slip: the sub-query on crawl_jobs is left out.
SlipDueChannels == {c \in Channels : leads[c].status \notin {"none", "rejected"} /\ leads[c].due}

DueChannels ==
  {c \in Channels : /\ leads[c].status \notin {"none", "rejected"} /\ leads[c].due
                    /\ \A j \in Jobs : jobs[j].channel = c => ~InFlight(j)}

\* A job id nobody holds and no service will look at again: as good as a new one.
Unused(j) ==
  /\ ~Outstanding(j)
  /\ \A r \in Schedulers : j # sched[r].job /\ j \notin sched[r].stuck
  /\ \/ jobs[j].status = "none"
     \/ jobs[j].age = 3 /\ jobs[j].status # "running"

\* get_channels_due_for_crawl.  With dictionary rows, every field of a due
\* channel is the name of its column; comparing the watermark with 0 raises
\* TypeError (int() of it ValueError), which ends the cycle.  A SELECT that fails finds nothing.
\* Bound: a cycle that would find no job id to draw selects nothing.
SelectDueChannels(s, fresh) ==
  /\ At(s, "select")
  /\ LET due == IF setup.rows = "tuple" /\ \E j \in fresh : Unused(j)
                THEN DueChannels ELSE {}
     IN \/ /\ sched' = [sched EXCEPT
                ![s].todo = {[channel |-> c, mark |-> leads[c].mark] : c \in due},
                ![s].at = IF due = {} THEN "release" ELSE "schedule"]
           /\ UNCHANGED faults
        \/ Fault /\ Goto(s, "release")
  /\ UNCHANGED <<setup, database, redis, posts, observed>>

\* The watermark comes from the row, or else from the cache, or else from a
\* second query, whose result is put into the cache by a later command.
ScheduleChannel(s) ==
  /\ At(s, "schedule")
  /\ \E d \in sched[s].todo :
       LET c == d.channel
           cached == cache[c]["id"]
           found == IF d.mark > 0 THEN d.mark
                    ELSE IF cached # NoMark THEN cached ELSE leads[c].mark
       IN sched' = [sched EXCEPT
            ![s].at = IF d.mark = 0 /\ cached = NoMark THEN "fill" ELSE "insert",
            ![s].todo = @ \ {d}, ![s].channel = c, ![s].mark = found]
  /\ UNCHANGED store

FillCache(s) ==
  /\ At(s, "fill")
  /\ cache' = [cache EXCEPT ![sched[s].channel]["id"] = sched[s].mark]
  /\ Goto(s, "insert")
  /\ UNCHANGED <<setup, database, queues, marks, leader, posts, observed, faults>>

\* INSERT: 'pending'.  A failure is logged and the job is pushed all the same.
InsertJob(s, q, fresh) ==
  /\ At(s, "insert")
  /\ \E j \in fresh : Unused(j)
  /\ LET j == CHOOSE j \in fresh : Unused(j)
         row == [NoJobRow EXCEPT !.status = "pending", !.channel = sched[s].channel,
                                 !.mark = sched[s].mark, !.queue = q]
     IN /\ \/ jobs' = [jobs EXCEPT ![j] = row] /\ UNCHANGED faults
           \/ Fault /\ jobs' = [jobs EXCEPT ![j] = NoJobRow]
        /\ pushes' = [pushes EXCEPT ![j] = 0]
        /\ sched' = [sched EXCEPT ![s].at = "push", ![s].job = j]
  /\ UNCHANGED <<setup, leads, blacklist, redis, posts, read, cut, unsaved, handled, dropped,
                 lapsed, redisFailed>>

\* LPUSH: in front of everything that was queued before.
PushJob(s, q) ==
  /\ At(s, "push")
  /\ jobs[sched[s].job].queue \in {None, q}
  /\ PushLeft(q, JobPayload(sched[s].job, sched[s].channel, sched[s].mark))
  /\ pushes' = Pushed(sched[s].job)
  /\ Goto(s, "queued")
  /\ UNCHANGED <<setup, database, marks, cache, leader, posts, read, cut, unsaved, handled,
                 dropped, lapsed, redisFailed, faults>>

\* Slip: the exception is swallowed, and the outbox resolved as after a push.
SlipPushFails(s) ==
  /\ At(s, "push")
  /\ Fault
  /\ redisFailed' = TRUE
  /\ Goto(s, "queued")
  /\ UNCHANGED <<setup, database, redis, posts, read, cut, unsaved, pushes, handled, dropped,
                 lapsed>>

PushFails(s) ==
  /\ At(s, "push")
  /\ Fault
  /\ redisFailed' = TRUE
  /\ Goto(s, "failed")
  /\ UNCHANGED <<setup, database, redis, posts, read, cut, unsaved, pushes, handled, dropped,
                 lapsed>>

\* UPDATE crawl_jobs: 'queued', whatever the status is by now.
MarkQueued(s) ==
  /\ At(s, "queued")
  /\ \/ jobs' = JobSet(sched[s].job, "queued") /\ Goto(s, "advance") /\ UNCHANGED faults
     \/ Fault /\ NextDue(s) /\ UNCHANGED jobs
  /\ UNCHANGED <<setup, leads, blacklist, redis, posts, observed>>

\* UPDATE leads: the next next_crawl_at.
AdvanceLead(s) ==
  /\ At(s, "advance")
  /\ \/ leads' = [leads EXCEPT ![sched[s].channel].due = FALSE] /\ UNCHANGED faults
     \/ Fault /\ UNCHANGED leads
  /\ NextDue(s)
  /\ UNCHANGED <<setup, jobs, blacklist, redis, posts, observed>>

\* UPDATE crawl_jobs: 'enqueue_failed'; next_crawl_at stays as it is.
MarkEnqueueFailed(s) ==
  /\ At(s, "failed")
  /\ \/ jobs' = JobSet(sched[s].job, "enqueue_failed") /\ UNCHANGED faults
     \/ Fault /\ UNCHANGED jobs
  /\ NextDue(s)
  /\ UNCHANGED <<setup, leads, blacklist, redis, posts, observed>>

\* The process dies and starts again; the lock stays until it expires.
SchedulerCrash(s) ==
  /\ InCycle(s)
  /\ Fault
  /\ sched' = [sched EXCEPT ![s] = IdleScheduler]
  /\ UNCHANGED <<setup, database, redis, posts, observed>>

\* fresh: the job ids that no validator holds.
SchedulerStep(s, fresh) ==
  \/ AcquireLeaderLock(s) \/ ReleaseLeaderLock(s)
  \/ SelectStuckJobs(s) \/ RepushJob(s) \/ RepushFails(s)
  \/ RequeueJob(s) \/ ReadvanceLead(s)
  \/ FailStaleJobs(s) \/ CheckPressure(s)
  \/ SelectDueChannels(s, fresh) \/ ScheduleChannel(s) \/ FillCache(s)
  \/ \E q \in Tiers : InsertJob(s, q, fresh)
  \/ \E q \in Tiers : PushJob(s, q)
  \/ PushFails(s) \/ MarkQueued(s) \/ AdvanceLead(s) \/ MarkEnqueueFailed(s)
  \/ SchedulerCrash(s)
=============================================================================
