--------------------------- MODULE CrawlPipeline ----------------------------
(***************************************************************************)
(* The crawl services together: schedulers, discovery, seed intake and     *)
(* validators on one database and one Redis.                               *)
(***************************************************************************)
EXTENDS CrawlScheduler, LinkValidation

vars == <<store, sched, hand, marked, val>>

TypeOK == StoreTypeOK /\ SchedulerTypeOK /\ DiscoveryTypeOK /\ ValidationTypeOK

Init == StoreInit /\ SchedulerInit /\ DiscoveryInit /\ ValidationInit

\* The job ids that no validator holds.
Fresh == {j \in setup.jobs : \A v \in Validators : val[v].job # j}

Scheduling(s)  == SchedulerStep(s, Fresh) /\ UNCHANGED <<discovery, val>>
Discovering(p) == DiscoveryStep(p) /\ UNCHANGED <<sched, val>>
Seeding        == SeedStep /\ UNCHANGED <<sched, val>>
Validating(v)  == ValidatorStep(v) /\ UNCHANGED sched
Elapsing ==
  \/ StoreNext /\ UNCHANGED <<sched, discovery, val>>
  \/ LeaderExpires /\ UNCHANGED <<discovery, val>>
  \/ \E c \in Channels : (ReserveExpires(c) \/ CountExpires(c)) /\ UNCHANGED <<sched, val>>

Next ==
  \/ \E s \in Schedulers \cap setup.run : Scheduling(s)
  \/ \E p \in Producers \cap setup.run : Discovering(p)
  \/ SeedWorker \in setup.run /\ Seeding
  \/ \E v \in Validators \cap setup.run : Validating(v)
  \/ Elapsing

Spec == Init /\ [][Next]_vars

-----------------------------------------------------------------------------
\* A running process goes on: docker-compose.yml restarts the services, and their
\* loops catch what a cycle raises.  Commands and sessions fail only so often,
\* the web page is asked for once, and time passes.
FairSpec ==
  /\ Spec
  /\ \A s \in Schedulers : WF_vars(s \in setup.run /\ Scheduling(s) /\ faults' = faults)
  /\ \A v \in Validators :
       WF_vars(v \in setup.run /\ Validating(v) /\ faults' = faults /\ ~WebPageFails(v))
  /\ WF_vars(SeedWorker \in setup.run /\ Seeding /\ faults' = faults)
  /\ WF_vars(LeaderExpires /\ UNCHANGED <<discovery, val>>)
  /\ \A j \in Jobs :
       WF_vars((AgeJob(j) \/ RunOverdue(j)) /\ UNCHANGED <<sched, discovery, val>>)

-----------------------------------------------------------------------------
\* Properties.

Upto(m) == 1..m

\* A stored or cached watermark, or one that a job, a scheduler or a validator
\* works with.
MarkInUse(c, m) ==
  \/ m = leads[c].mark
  \/ \E k \in Keys : m = cache[c][k]
  \/ \E j \in Jobs : jobs[j].channel = c /\ m = jobs[j].mark
  \/ \E q \in QueueNames : \E i \in 1..Len(queues[q]) :
       queues[q][i].channel = c /\ queues[q][i].mark = m
  \/ \E s \in Schedulers : sched[s].channel = c /\ sched[s].mark = m
  \/ \E s \in Schedulers : [channel |-> c, mark |-> m] \in sched[s].todo
  \/ \E v \in Validators : val[v].ch = c /\ val[v].mark = m

\* The crawler passes over posts in two ways only: they are too old for the limit
\* of one fetch, or the lead of the crawl that fetched them was not saved, which
\* process_link takes for a success (a defect: validator.py, lines 1083 and 3255).
\* No crash, lost update, stale cache or race of two crawls adds a third: whatever
\* else lies under a watermark went into a saved lead.
NoPostSkipped ==
  \A c \in Channels, m \in Mark :
    MarkInUse(c, m) => Upto(m) \subseteq read[c] \cup cut[c] \cup unsaved[c]

\* "Guarantees only ONE scheduler instance executes cycles at any given time":
\* as long as the lock outlives the cycles and Redis answers.
OneLeaderUntilLapse ==
  ~lapsed => \A s, t \in Schedulers : InCycle(s) /\ InCycle(t) => s = t

\* "In-flight crawl job deduplication (never re-schedule an active channel)":
\* a channel has two jobs under way only after the lock lapsed; or after a push
\* failed, which leaves the old job to the reconciler and the channel due; or if
\* the reconciler pushed one of them a second time, and both copies are taken up.
OneInFlight ==
  ~lapsed /\ ~redisFailed =>
    \A i, j \in Jobs :
      InFlight(i) /\ InFlight(j) /\ jobs[i].channel = jobs[j].channel /\ i # j
        => pushes[i] = 2 \/ pushes[j] = 2

\* next_crawl_at moves on only when the lead was just saved, or when the channel
\* has a job that was pushed: otherwise the channel would miss a crawl.
AdvanceOnlyAfterPush ==
  [][\A c \in Channels : leads[c].due /\ ~leads'[c].due =>
       \/ \E v \in Validators : val[v].ch = c /\ val'[v] # val[v]
       \/ \E s \in Schedulers : LET j == sched[s].job IN
            j # None /\ pushes[j] > 0 /\ c \in {sched[s].channel, jobs[j].channel}]_vars

\* A link that some service took note of, so that no other queues it any more,
\* is queued, in somebody's hands or done, unless it was lost on the way: popped
\* and given up, or claimed by a service that died before the push.
KnownLinkAccounted ==
  \A c \in seen \cup counted \cup spidered :
    \/ c \in handled \cup dropped
    \/ \E q \in QueueNames : \E i \in 1..Len(queues[q]) : queues[q][i].channel = c
    \/ \E p \in Processes : hand[p].ch = c
    \/ \E v \in Validators : val[v].ch = c

\* With one validator, a channel that was blacklisted and rejected does not
\* become a lead again by what the crawl services do.  (Two writers outside them
\* ignore the blacklist: the command-line tool similar_channels_crawler.py, line 395,
\* sets status = 'new', and a delivery sets 'contacted'.)
BlacklistHonoured ==
  [][(\A v, w \in Validators \cap setup.run : v = w) =>
       \A c \in blacklist : leads[c].status = "rejected" => leads'[c].status = "rejected"]_vars

\* With tuple rows, a due channel is crawled or rejected, whatever dies.
DueIsScheduled ==
  \A c \in Channels :
    setup.rows = "tuple" /\ Schedulers \cap setup.run # {} /\ leads[c].due /\ leads[c].status = "new"
      ~> ~leads[c].due \/ leads[c].status # "new"

\* "Polls PostgreSQL for due channels using PriorityScheduler", "Enqueues crawl jobs":
\* a due channel is crawled or rejected.  The rows of the loops' own connection do not unpack.
DueIsCrawled ==
  \A c \in Channels :
    Schedulers \cap setup.run # {} /\ leads[c].due /\ leads[c].status = "new"
      ~> ~leads[c].due \/ leads[c].status # "new"

\* A job that a validator took up is closed, by the validator or by the
\* reconciler of the dedicated scheduler.
RunningJobCloses ==
  \A j \in Jobs : (Schedulers \ Embedded) \cap setup.run # {} /\ jobs[j].status = "running"
    ~> jobs[j].status # "running"
=============================================================================
