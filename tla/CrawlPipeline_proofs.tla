------------------------ MODULE CrawlPipeline_proofs ------------------------
(* Proofs of the safety properties of CrawlPipeline, for any channels, jobs, *)
(* processes, settings and bounds.                                           *)
EXTENDS CrawlPipeline, SequenceTheorems, TLAPS

-----------------------------------------------------------------------------
(* Type correctness.  Which fields are in use at which step comes along.     *)

JobInv == \A j \in Jobs : jobs[j].status # "none" =>
                            jobs[j].channel # None /\ jobs[j].queue # None

\* What the record r of a scheduler says, with the rows `rows` of crawl_jobs.
SchedulerOK(r, rows) ==
  /\ r.at \in {"fill", "insert", "push", "queued", "advance", "failed"} => r.channel # None
  /\ r.at \in {"push", "queued", "advance", "failed", "requeue", "readvance"} => r.job # None
  /\ r.at \in {"requeue", "readvance"} => rows[r.job].status # "none"
  /\ \A j \in r.stuck : rows[j].status # "none"

SchedInv == \A s \in Schedulers : SchedulerOK(sched[s], jobs)

HandInv == \A p \in Processes : ~Empty(p) => /\ hand[p].ch # None
                                            /\ hand[p].step \in 1..Len(Route[hand[p].way])

ValInv == \A v \in Validators : /\ Busy(v) => val[v].ch # None
                                /\ ValAt(v, "writes") => val[v].plan # <<>>

TypeInv == TypeOK /\ JobInv /\ SchedInv /\ HandInv /\ ValInv

\* The constants are what they are declared to be.
LEMMA Constants ==
  /\ None \notin Channels /\ None \notin Jobs /\ None \notin Processes
  /\ None \notin QueueNames
  /\ Schedulers \subseteq Processes /\ Producers \subseteq Processes
  /\ Validators \subseteq Processes
  /\ Setups \subseteq SetupRecord /\ Tiers \subseteq QueueNames
  /\ MaxPosts \in Nat /\ MaxFaults \in Nat /\ StaleEvery \in Nat \ {0}
BY StoreAssumption, SchedulerAssumption, DiscoveryAssumption, ValidationAssumption

\* What a setting may say.
LEMMA SettingType ==
  ASSUME setup \in Setups
  PROVE  /\ setup.run \subseteq Processes /\ setup.known \subseteq Channels
         /\ setup.found \subseteq Channels /\ setup.jobs \subseteq Jobs
         /\ setup.links \in [Channels -> SUBSET Channels]
         /\ setup.posts \in [Channels -> 0..MaxPosts]
         /\ setup.faults \in 0..MaxFaults
BY Constants DEF SetupRecord, Mark

LEMMA InitType == Init => TypeInv
<1> SUFFICES ASSUME Init PROVE TypeInv OBVIOUS
<1> USE Constants, SettingType
<1>a. 0 \in Mark /\ 0 \in 0..(StaleEvery - 1) /\ NoJobRow \in JobRow /\ NoLeadRow \in LeadRow
  BY DEF LeadRow, JobRow, NoLeadRow, NoJobRow, LeadStatus, JobStatus, Mark
<1>b. [NoLeadRow EXCEPT !.status = "new", !.due = TRUE] \in LeadRow
  BY <1>a DEF LeadRow, NoLeadRow, LeadStatus
<1>1. /\ setup \in Setups /\ leads \in [Channels -> LeadRow]
      /\ jobs \in [Jobs -> JobRow] /\ blacklist \subseteq Channels
  BY <1>a, <1>b DEF Init, StoreInit
<1>2. /\ queues \in [QueueNames -> Seq(Payload)]
      /\ seen \subseteq Channels /\ counted \subseteq Channels
      /\ spidered \subseteq Channels /\ badGroups \subseteq Channels
      /\ cache \in [Channels -> [Keys -> Mark \cup {NoMark}]]
      /\ leader \in Processes \cup {None}
  BY DEF Init, StoreInit
<1>3. posts \in [Channels -> Mark]
  BY DEF Init, StoreInit, Mark
<1>9. /\ read \in [Channels -> SUBSET (1..MaxPosts)]
      /\ cut \in [Channels -> SUBSET (1..MaxPosts)]
      /\ unsaved \in [Channels -> SUBSET (1..MaxPosts)]
      /\ pushes \in [Jobs -> 0..2]
  BY DEF Init, StoreInit
<1>4. /\ handled \subseteq Channels /\ dropped \subseteq Channels
      /\ faults \in 0..MaxFaults
  BY DEF Init, StoreInit
<1>10. lapsed \in BOOLEAN /\ redisFailed \in BOOLEAN
  BY DEF Init, StoreInit
<1>5. SchedulerTypeOK /\ SchedInv
  <2>1. IdleScheduler \in SchedulerState
    BY <1>a DEF SchedulerState, SchedulerAt, IdleScheduler
  <2>2. sched = [s \in Schedulers |-> IdleScheduler]  BY DEF Init, SchedulerInit
  <2>4. SchedulerTypeOK  BY <2>1, <2>2 DEF SchedulerTypeOK
  <2>3. SchedInv  BY <2>2 DEF IdleScheduler, SchedInv, SchedulerOK
  <2> QED  BY <2>3, <2>4
<1>6. DiscoveryTypeOK /\ HandInv
  BY DEF Init, DiscoveryInit, DiscoveryTypeOK, HandState, EmptyHand, HandInv, Empty
<1>7. ValidationTypeOK /\ ValInv
  BY DEF Init, ValidationInit, ValidationTypeOK, ValidatorState, ValidatorAt, IdleValidator,
         ValInv, Busy, ValAt, Mark
<1>8. JobInv
  BY DEF Init, StoreInit, JobInv, NoJobRow
<1> QED
  BY <1>1, <1>2, <1>3, <1>4, <1>5, <1>6, <1>7, <1>8, <1>9, <1>10
  DEF TypeInv, TypeOK, StoreTypeOK

\* Rows with one field changed are rows.
LEMMA JobRows ==
  ASSUME jobs \in [Jobs -> JobRow], NEW j \in Jobs
  PROVE  /\ \A st \in JobStatus : [jobs EXCEPT ![j].status = st] \in [Jobs -> JobRow]
         /\ [jobs EXCEPT ![j].overdue = TRUE] \in [Jobs -> JobRow]
         /\ jobs[j].age < 3 => [jobs EXCEPT ![j].age = @ + 1] \in [Jobs -> JobRow]
         /\ jobs[j].age \in 0..3 /\ jobs[j].mark \in Mark
         /\ jobs[j].channel \in Channels \cup {None}
         /\ jobs[j].queue \in QueueNames \cup {None}
<1>1. \A st \in JobStatus : [jobs EXCEPT ![j].status = st] \in [Jobs -> JobRow]
  BY DEF JobRow
<1>2. [jobs EXCEPT ![j].overdue = TRUE] \in [Jobs -> JobRow]  BY DEF JobRow
<1>3. jobs[j].age < 3 => [jobs EXCEPT ![j].age = @ + 1] \in [Jobs -> JobRow]
  BY DEF JobRow
<1> QED  BY <1>1, <1>2, <1>3 DEF JobRow

LEMMA JobSetRows ==
  ASSUME jobs \in [Jobs -> JobRow], NEW j \in Jobs \cup {None},
         NEW st \in JobStatus \ {"none"}
  PROVE  /\ JobSet(j, st) \in [Jobs -> JobRow]
         /\ \A k \in Jobs : /\ JobSet(j, st)[k].channel = jobs[k].channel
                            /\ JobSet(j, st)[k].queue = jobs[k].queue
                            /\ JobSet(j, st)[k].mark = jobs[k].mark
                            /\ jobs[k].status # "none" <=> JobSet(j, st)[k].status # "none"
<1>1. CASE j # None /\ jobs[j].status # "none"
  BY <1>1, Constants, JobRows DEF JobSet, JobRow
<1>2. CASE ~(j # None /\ jobs[j].status # "none")  BY <1>2 DEF JobSet
<1> QED  BY <1>1, <1>2

LEMMA LeadRows ==
  ASSUME NEW row \in LeadRow
  PROVE  /\ \A st \in {"new", "rejected"} :
              /\ Upserted(row, st) \in LeadRow
              /\ [Upserted(row, st) EXCEPT !.due = FALSE] \in LeadRow
         /\ Stubbed(row) \in LeadRow /\ Rejected(row) \in LeadRow
         /\ \A b \in BOOLEAN : /\ [row EXCEPT !.due = b] \in LeadRow
                               /\ [row EXCEPT !.scanned = b] \in LeadRow
         /\ \A m \in Mark : [row EXCEPT !.mark = Higher(@, m)] \in LeadRow
BY DEF LeadRow, LeadStatus, Upserted, Stubbed, Rejected, Higher

LEMMA QueueEntries ==
  ASSUME queues \in [QueueNames -> Seq(Payload)], NEW q \in QueueNames, NEW p \in Payload
  PROVE  /\ PushLeft(q, p) => queues' \in [QueueNames -> Seq(Payload)]
         /\ PushRight(q, p) => queues' \in [QueueNames -> Seq(Payload)]
         /\ queues[q] # <<>> => /\ Head(queues[q]) \in Payload
                                /\ [queues EXCEPT ![q] = Tail(@)] \in [QueueNames -> Seq(Payload)]
<1>1. queues[q] \in Seq(Payload)  OBVIOUS
<1>2. <<p>> \o queues[q] \in Seq(Payload) /\ Append(queues[q], p) \in Seq(Payload)
  BY <1>1
<1>3. queues[q] # <<>> => Head(queues[q]) \in Payload /\ Tail(queues[q]) \in Seq(Payload)
  BY <1>1
<1> QED  BY <1>2, <1>3 DEF PushLeft, PushRight

\* What a step leaves alone keeps its type.
LEMMA JobFrame ==
  ASSUME JobInv,
         \A k \in Jobs : /\ jobs'[k].status # "none" => jobs[k].status # "none"
                         /\ jobs'[k].channel = jobs[k].channel
                         /\ jobs'[k].queue = jobs[k].queue
  PROVE  JobInv'
BY DEF JobInv

LEMMA SchedulerFrame ==
  ASSUME SchedulerTypeOK, SchedInv, UNCHANGED sched,
         \A k \in Jobs : jobs[k].status # "none" => jobs'[k].status # "none"
  PROVE  SchedulerTypeOK' /\ SchedInv'
<1>1. \A s \in Schedulers : sched[s].stuck \subseteq Jobs /\ sched[s].job \in Jobs \cup {None}
  BY DEF SchedulerTypeOK, SchedulerState
<1> QED  BY <1>1 DEF SchedulerTypeOK, SchedInv, SchedulerOK

LEMMA DiscoveryFrame ==
  ASSUME DiscoveryTypeOK, HandInv, UNCHANGED discovery  PROVE DiscoveryTypeOK' /\ HandInv'
BY DEF DiscoveryTypeOK, HandInv, discovery, Empty

LEMMA ValidationFrame ==
  ASSUME ValidationTypeOK, ValInv, UNCHANGED val  PROVE ValidationTypeOK' /\ ValInv'
BY DEF ValidationTypeOK, ValInv, Busy, ValAt

\* Time keeps the types.
LEMMA StoreType ==
  TypeInv /\ StoreNext /\ UNCHANGED <<sched, discovery, val>> => TypeInv'
<1> SUFFICES ASSUME TypeInv, StoreNext, UNCHANGED <<sched, discovery, val>> PROVE TypeInv'
  OBVIOUS
<1> USE Constants
<1>a. /\ StoreTypeOK /\ SchedulerTypeOK /\ SchedInv /\ JobInv
      /\ DiscoveryTypeOK' /\ HandInv' /\ ValidationTypeOK' /\ ValInv'
  BY DiscoveryFrame, ValidationFrame DEF TypeInv, TypeOK
<1>b. ASSUME UNCHANGED jobs PROVE JobInv' /\ SchedulerTypeOK' /\ SchedInv'
  BY <1>a, <1>b, SchedulerFrame, JobFrame
<1>1. CASE \E c \in Channels : Post(c)
  <2>1. StoreTypeOK'
    BY <1>1, <1>a, SettingType DEF Post, Mark, StoreTypeOK, database, redis, marks, observed
  <2>2. UNCHANGED jobs  BY <1>1 DEF Post, database
  <2> QED  BY <1>a, <1>b, <2>1, <2>2 DEF TypeInv, TypeOK
<1>2. CASE \E c \in Channels : FallDue(c)
  <2> PICK c \in Channels : FallDue(c)  BY <1>2
  <2>1. leads' \in [Channels -> LeadRow]
    <3>1. leads \in [Channels -> LeadRow]  BY <1>a DEF StoreTypeOK
    <3>2. [leads[c] EXCEPT !.due = TRUE] \in LeadRow  BY <3>1 DEF LeadRow
    <3>3. leads' = [leads EXCEPT ![c] = [leads[c] EXCEPT !.due = TRUE]]
      BY <3>1 DEF FallDue
    <3> QED  BY <3>1, <3>2, <3>3
  <2>2. StoreTypeOK'  BY <2>1, <1>a DEF FallDue, StoreTypeOK, redis, marks, observed
  <2> QED  BY <1>a, <1>b, <2>2 DEF TypeInv, TypeOK, FallDue
<1>3. ASSUME NEW j \in Jobs, AgeJob(j) \/ RunOverdue(j)  PROVE TypeInv'
  <2>1. jobs' \in [Jobs -> JobRow]
    <3> jobs \in [Jobs -> JobRow]  BY <1>a DEF StoreTypeOK
    <3>1. CASE AgeJob(j)  BY <3>1, JobRows DEF AgeJob
    <3>2. CASE RunOverdue(j)  BY <3>2, JobRows DEF RunOverdue
    <3> QED  BY <1>3, <3>1, <3>2
  <2>2. StoreTypeOK'
    BY <1>3, <2>1, <1>a DEF AgeJob, RunOverdue, StoreTypeOK, redis, marks, observed
  <2>3. \A k \in Jobs : /\ jobs'[k].status = jobs[k].status
                        /\ jobs'[k].channel = jobs[k].channel /\ jobs'[k].queue = jobs[k].queue
    <3> jobs \in [Jobs -> JobRow]  BY <1>a DEF StoreTypeOK
    <3>1. CASE AgeJob(j)  BY <3>1 DEF AgeJob, JobRow
    <3>2. CASE RunOverdue(j)  BY <3>2 DEF RunOverdue, JobRow
    <3> QED  BY <1>3, <3>1, <3>2
  <2>4. UNCHANGED sched  BY <1>3
  <2> QED  BY <1>a, <2>2, <2>3, <2>4, JobFrame, SchedulerFrame DEF TypeInv, TypeOK
<1>4. CASE \E c \in Channels, k \in Keys : CacheExpires(c, k)
  <2>1. cache' \in [Channels -> [Keys -> Mark \cup {NoMark}]]
    BY <1>4, <1>a DEF CacheExpires, StoreTypeOK
  <2>2. StoreTypeOK' /\ UNCHANGED jobs
    BY <1>4, <1>a, <2>1 DEF CacheExpires, StoreTypeOK, database, marks, observed
  <2> QED  BY <1>a, <1>b, <2>2 DEF TypeInv, TypeOK
<1> QED  BY <1>1, <1>2, <1>3, <1>4 DEF StoreNext

\* A scheduler's step changes its own record only.
LEMMA SchedulerMove ==
  ASSUME SchedulerTypeOK, SchedInv, NEW s \in Schedulers, NEW r \in SchedulerState,
         sched' = [sched EXCEPT ![s] = r], SchedulerOK(r, jobs'),
         \A k \in Jobs : \A t \in Schedulers \ {s} :
           (k = sched[t].job \/ k \in sched[t].stuck) /\ jobs[k].status # "none"
             => jobs'[k].status # "none"
  PROVE  SchedulerTypeOK' /\ SchedInv'
<1>1. SchedulerTypeOK'  BY DEF SchedulerTypeOK
<1>2. ASSUME NEW t \in Schedulers PROVE SchedulerOK(sched'[t], jobs')
  <2>1. CASE t = s  BY <2>1 DEF SchedulerTypeOK
  <2>2. CASE t # s
    <3>1. sched'[t] = sched[t] /\ sched[t] \in SchedulerState  BY <2>2 DEF SchedulerTypeOK
    <3>2. sched[t].stuck \subseteq Jobs /\ sched[t].job \in Jobs \cup {None}
      BY <3>1 DEF SchedulerState
    <3> QED  BY <2>2, <3>1, <3>2 DEF SchedInv, SchedulerOK
  <2> QED  BY <2>1, <2>2
<1> QED  BY <1>1, <1>2 DEF SchedInv

\* The usual moves: to another step, to the next channel, to the next stuck job.
LEMMA SchedulerGoto ==
  ASSUME SchedulerTypeOK, SchedInv, NEW s \in Schedulers,
         NEW w \in {"idle", "release", "pressure", "stale", "select", "reconcile"},
         Goto(s, w),
         \A k \in Jobs : jobs[k].status # "none" => jobs'[k].status # "none"
  PROVE  SchedulerTypeOK' /\ SchedInv'
<1> DEFINE r == [sched[s] EXCEPT !.at = w]
<1>1. /\ sched[s] \in SchedulerState /\ SchedulerOK(sched[s], jobs)
      /\ \A t \in Schedulers : sched[t].stuck \subseteq Jobs /\ sched[t].job \in Jobs \cup {None}
  BY DEF SchedulerTypeOK, SchedInv, SchedulerState
<1>2. r \in SchedulerState  BY <1>1 DEF SchedulerState, SchedulerAt
<1>3. SchedulerOK(r, jobs')  BY <1>1 DEF SchedulerOK, SchedulerState
<1>4. sched' = [sched EXCEPT ![s] = r]  BY DEF Goto, SchedulerTypeOK
<1> HIDE DEF r
<1> QED  BY <1>1, <1>2, <1>3, <1>4, SchedulerMove

LEMMA SchedulerNextDue ==
  ASSUME SchedulerTypeOK, SchedInv, NEW s \in Schedulers, NextDue(s),
         \A k \in Jobs : jobs[k].status # "none" => jobs'[k].status # "none"
  PROVE  SchedulerTypeOK' /\ SchedInv'
<1> DEFINE r == [sched[s] EXCEPT
                   !.at = IF sched[s].todo = {} THEN "release" ELSE "schedule",
                   !.channel = None, !.mark = 0, !.job = None]
<1>1. /\ sched[s] \in SchedulerState /\ SchedulerOK(sched[s], jobs)
      /\ \A t \in Schedulers : sched[t].stuck \subseteq Jobs /\ sched[t].job \in Jobs \cup {None}
  BY DEF SchedulerTypeOK, SchedInv, SchedulerState
<1>2. r \in SchedulerState
  <2>1. 0 \in Mark  BY Constants DEF Mark
  <2> QED  BY <1>1, <2>1 DEF SchedulerState, SchedulerAt
<1>3. SchedulerOK(r, jobs')  BY <1>1 DEF SchedulerOK, SchedulerState
<1>4. sched' = [sched EXCEPT ![s] = r]  BY DEF NextDue, SchedulerTypeOK
<1> HIDE DEF r
<1> QED  BY <1>1, <1>2, <1>3, <1>4, SchedulerMove

LEMMA SchedulerNextStuck ==
  ASSUME SchedulerTypeOK, SchedInv, NEW s \in Schedulers, NEW left \in SUBSET Jobs,
         \A j \in left : jobs[j].status # "none", NextStuck(s, left),
         \A k \in Jobs : jobs[k].status # "none" => jobs'[k].status # "none"
  PROVE  SchedulerTypeOK' /\ SchedInv'
<1> DEFINE r == [sched[s] EXCEPT !.at = IF left = {} THEN "stale" ELSE "repush",
                                 !.stuck = left, !.job = None]
<1>1. /\ sched[s] \in SchedulerState /\ SchedulerOK(sched[s], jobs)
      /\ \A t \in Schedulers : sched[t].stuck \subseteq Jobs /\ sched[t].job \in Jobs \cup {None}
  BY DEF SchedulerTypeOK, SchedInv, SchedulerState
<1>2. r \in SchedulerState  BY <1>1 DEF SchedulerState, SchedulerAt
<1>3. SchedulerOK(r, jobs')  BY <1>1 DEF SchedulerOK, SchedulerState
<1>4. sched' = [sched EXCEPT ![s] = r]  BY DEF NextStuck, SchedulerTypeOK
<1> HIDE DEF r
<1> QED  BY <1>1, <1>2, <1>3, <1>4, SchedulerMove

\* A failure stays within the bound.
LEMMA FaultType ==
  ASSUME StoreTypeOK, Fault \/ UNCHANGED faults  PROVE faults' \in 0..MaxFaults
BY Constants, SettingType DEF StoreTypeOK, Fault

\* What is pushed for a job, and how often.
LEMMA PushType ==
  ASSUME StoreTypeOK, NEW j \in Jobs, NEW c \in Channels, NEW m \in Mark
  PROVE  JobPayload(j, c, m) \in Payload /\ Pushed(j) \in [Jobs -> 0..2]
BY DEF StoreTypeOK, JobPayload, Payload, Pushed

\* The leader lock and the reconciler.
LEMMA ReconcilerType ==
  ASSUME TypeInv, NEW s \in Schedulers, UNCHANGED <<discovery, val>>,
         \/ AcquireLeaderLock(s) \/ ReleaseLeaderLock(s) \/ SchedulerCrash(s)
         \/ SelectStuckJobs(s) \/ RepushJob(s) \/ RepushFails(s)
         \/ RequeueJob(s) \/ ReadvanceLead(s) \/ FailStaleJobs(s) \/ CheckPressure(s)
  PROVE  TypeInv'
<1>a. /\ StoreTypeOK /\ SchedulerTypeOK /\ SchedInv /\ JobInv
      /\ DiscoveryTypeOK' /\ HandInv' /\ ValidationTypeOK' /\ ValInv'
  BY DiscoveryFrame, ValidationFrame DEF TypeInv, TypeOK
<1>b. /\ sched[s] \in SchedulerState /\ SchedulerOK(sched[s], jobs)
      /\ sched[s].stuck \subseteq Jobs /\ sched[s].job \in Jobs \cup {None}
  BY <1>a DEF SchedulerTypeOK, SchedInv, SchedulerState
<1>c. ASSUME UNCHANGED jobs PROVE JobInv'  BY <1>a, <1>c, JobFrame
<1>d. SUFFICES StoreTypeOK' /\ JobInv' /\ SchedulerTypeOK' /\ SchedInv'
  BY <1>a DEF TypeInv, TypeOK
<1>e. {"idle", "reconcile", "stale", "pressure", "select", "release"} \subseteq SchedulerAt
  BY DEF SchedulerAt
<1> USE DEF database, redis, marks, observed
<1>1. CASE AcquireLeaderLock(s)
  <2> DEFINE r == [sched[s] EXCEPT
                     !.at = IF s \in Embedded THEN "select" ELSE "reconcile",
                     !.beat = (@ + 1) % StaleEvery]
  <2>1. sched' = [sched EXCEPT ![s] = r]  BY <1>1, <1>a DEF AcquireLeaderLock, SchedulerTypeOK
  <2>2. sched[s].beat \in 0..(StaleEvery - 1)  BY <1>b DEF SchedulerState
  <2>3. (sched[s].beat + 1) % StaleEvery \in 0..(StaleEvery - 1)  BY <2>2, Constants
  <2>4. r \in SchedulerState  BY <1>b, <1>e, <2>3 DEF SchedulerState
  <2>5. UNCHANGED jobs  BY <1>1 DEF AcquireLeaderLock
  <2>6. SchedulerOK(r, jobs')
    <3>1. r.at \in {"select", "reconcile"} /\ r.stuck = sched[s].stuck
      BY <1>b DEF SchedulerState
    <3> QED  BY <1>b, <2>5, <3>1 DEF SchedulerOK
  <2>7. leader' \in Processes \cup {None} /\ lapsed' \in BOOLEAN /\ faults' \in 0..MaxFaults
    BY <1>1, <1>a, FaultType, Constants DEF AcquireLeaderLock, StoreTypeOK
  <2>8. StoreTypeOK'  BY <1>1, <1>a, <2>7 DEF AcquireLeaderLock, StoreTypeOK
  <2> HIDE DEF r
  <2> QED  BY <1>a, <1>c, <2>1, <2>4, <2>5, <2>6, <2>8, SchedulerMove
<1>2. CASE ReleaseLeaderLock(s)
  <2>1. leader' \in Processes \cup {None} /\ faults' \in 0..MaxFaults /\ UNCHANGED jobs
    BY <1>2, <1>a, FaultType DEF ReleaseLeaderLock, StoreTypeOK
  <2>2. StoreTypeOK'  BY <1>2, <1>a, <2>1 DEF ReleaseLeaderLock, StoreTypeOK
  <2>3. Goto(s, "idle")  BY <1>2 DEF ReleaseLeaderLock
  <2> QED  BY <1>a, <1>c, <2>1, <2>2, <2>3, SchedulerGoto
<1>3. CASE SchedulerCrash(s)
  <2>1. IdleScheduler \in SchedulerState /\ SchedulerOK(IdleScheduler, jobs)
    <3>1. 0 \in Mark /\ 0 \in 0..(StaleEvery - 1)  BY Constants DEF Mark
    <3> QED  BY <3>1 DEF IdleScheduler, SchedulerState, SchedulerAt, SchedulerOK
  <2>2. faults' \in 0..MaxFaults /\ UNCHANGED jobs
    BY <1>3, <1>a, FaultType DEF SchedulerCrash
  <2>3. StoreTypeOK'  BY <1>3, <1>a, <2>2 DEF SchedulerCrash, StoreTypeOK
  <2>4. sched' = [sched EXCEPT ![s] = IdleScheduler]  BY <1>3 DEF SchedulerCrash
  <2> QED  BY <1>a, <1>c, <2>1, <2>2, <2>3, <2>4, SchedulerMove
<1>4. CASE SelectStuckJobs(s)
  <2>1. faults' \in 0..MaxFaults /\ UNCHANGED jobs
    BY <1>4, <1>a, FaultType DEF SelectStuckJobs
  <2>2. StoreTypeOK'  BY <1>4, <1>a, <2>1 DEF SelectStuckJobs, StoreTypeOK
  <2>3. StuckJobs \subseteq Jobs /\ \A j \in StuckJobs : jobs[j].status # "none"
    BY DEF StuckJobs
  <2>4. NextStuck(s, StuckJobs) \/ NextStuck(s, {})  BY <1>4 DEF SelectStuckJobs
  <2> QED  BY <1>a, <1>c, <2>1, <2>2, <2>3, <2>4, SchedulerNextStuck
<1>5. CASE RepushJob(s)
  <2> PICK j \in sched[s].stuck :
         /\ PushLeft(jobs[j].queue, JobPayload(j, jobs[j].channel, jobs[j].mark))
         /\ pushes' = Pushed(j)
         /\ sched' = [sched EXCEPT ![s].at = "requeue", ![s].job = j]
    BY <1>5 DEF RepushJob
  <2>1. j \in Jobs /\ jobs[j].status # "none"  BY <1>b DEF SchedulerOK
  <2>2. jobs[j].channel \in Channels /\ jobs[j].mark \in Mark /\ jobs[j].queue \in QueueNames
    BY <1>a, <2>1, JobRows DEF JobInv, StoreTypeOK
  <2>3. queues' \in [QueueNames -> Seq(Payload)] /\ pushes' \in [Jobs -> 0..2]
    BY <1>a, <2>1, <2>2, PushType, QueueEntries DEF StoreTypeOK
  <2>4. StoreTypeOK' /\ UNCHANGED jobs  BY <1>5, <1>a, <2>3 DEF RepushJob, StoreTypeOK
  <2> DEFINE r == [sched[s] EXCEPT !.at = "requeue", !.job = j]
  <2>5. sched' = [sched EXCEPT ![s] = r]  BY <1>a DEF SchedulerTypeOK
  <2>6. r \in SchedulerState  BY <1>b, <2>1 DEF SchedulerState, SchedulerAt
  <2>7. SchedulerOK(r, jobs')  BY <1>b, <2>1, <2>4, Constants DEF SchedulerOK, SchedulerState
  <2> HIDE DEF r
  <2> QED  BY <1>a, <1>c, <2>4, <2>5, <2>6, <2>7, SchedulerMove
<1>6. CASE RepushFails(s)
  <2>1. faults' \in 0..MaxFaults /\ redisFailed' \in BOOLEAN /\ UNCHANGED jobs
    BY <1>6, <1>a, FaultType DEF RepushFails
  <2>2. StoreTypeOK'  BY <1>6, <1>a, <2>1 DEF RepushFails, StoreTypeOK
  <2>3. NextStuck(s, {})  BY <1>6 DEF RepushFails
  <2> QED  BY <1>a, <1>c, <2>1, <2>2, <2>3, SchedulerNextStuck
<1>7. CASE RequeueJob(s)
  <2>1. sched[s].job \in Jobs /\ jobs[sched[s].job].status # "none"
    BY <1>7, <1>b DEF RequeueJob, At, SchedulerOK
  <2>2. CASE jobs' = JobSet(sched[s].job, "queued") /\ Goto(s, "readvance") /\ UNCHANGED faults
    <3>1. /\ jobs' \in [Jobs -> JobRow]
          /\ \A k \in Jobs : /\ jobs'[k].channel = jobs[k].channel
                             /\ jobs'[k].queue = jobs[k].queue
                             /\ jobs[k].status # "none" <=> jobs'[k].status # "none"
      BY <2>1, <2>2, <1>a, JobSetRows DEF StoreTypeOK, JobStatus
    <3>2. JobInv'  BY <1>a, <3>1, JobFrame
    <3>3. StoreTypeOK'  BY <1>7, <1>a, <2>2, <3>1 DEF RequeueJob, StoreTypeOK
    <3> DEFINE r == [sched[s] EXCEPT !.at = "readvance"]
    <3>4. sched' = [sched EXCEPT ![s] = r]  BY <2>2, <1>a DEF Goto, SchedulerTypeOK
    <3>5. r \in SchedulerState  BY <1>b DEF SchedulerState, SchedulerAt
    <3>6. SchedulerOK(r, jobs')
      BY <1>b, <2>1, <3>1, Constants DEF SchedulerOK, SchedulerState
    <3>7. \A k \in Jobs : jobs[k].status # "none" => jobs'[k].status # "none"  BY <3>1
    <3>8. \A t \in Schedulers : sched[t].stuck \subseteq Jobs /\ sched[t].job \in Jobs \cup {None}
      BY <1>a DEF SchedulerTypeOK, SchedulerState
    <3> HIDE DEF r
    <3> QED  BY <1>a, <3>2, <3>3, <3>4, <3>5, <3>6, <3>7, SchedulerMove
  <2>3. CASE Fault /\ NextStuck(s, {}) /\ UNCHANGED jobs
    <3>1. faults' \in 0..MaxFaults  BY <2>3, <1>a, FaultType
    <3>2. StoreTypeOK'  BY <1>7, <1>a, <2>3, <3>1 DEF RequeueJob, StoreTypeOK
    <3> QED  BY <1>a, <1>c, <2>3, <3>2, SchedulerNextStuck
  <2> QED  BY <1>7, <2>2, <2>3 DEF RequeueJob
<1>8. CASE ReadvanceLead(s)
  <2>1. sched[s].job \in Jobs /\ jobs[sched[s].job].status # "none"
    BY <1>8, <1>b DEF ReadvanceLead, At, SchedulerOK
  <2>2. jobs[sched[s].job].channel \in Channels
    BY <1>a, <2>1, JobRows DEF JobInv, StoreTypeOK
  <2>3. leads \in [Channels -> LeadRow]  BY <1>a DEF StoreTypeOK
  <2>4. \A c \in Channels : [leads EXCEPT ![c].due = FALSE] \in [Channels -> LeadRow]
    BY <2>3 DEF LeadRow
  <2>5. leads' \in [Channels -> LeadRow] /\ faults' \in 0..MaxFaults /\ UNCHANGED jobs
    BY <1>8, <1>a, <2>2, <2>3, <2>4, FaultType DEF ReadvanceLead
  <2>6. StoreTypeOK'  BY <1>8, <1>a, <2>5 DEF ReadvanceLead, StoreTypeOK
  <2>7. NextStuck(s, sched[s].stuck \ {sched[s].job}) \/ NextStuck(s, {})
    BY <1>8 DEF ReadvanceLead
  <2>8. \A j \in sched[s].stuck \ {sched[s].job} : jobs[j].status # "none"
    BY <1>b DEF SchedulerOK
  <2> QED  BY <1>a, <1>b, <1>c, <2>5, <2>6, <2>7, <2>8, SchedulerNextStuck
<1>9. CASE FailStaleJobs(s)
  <2>1. jobs \in [Jobs -> JobRow]  BY <1>a DEF StoreTypeOK
  <2>2. \A row \in JobRow : [row EXCEPT !.status = "failed"] \in JobRow
    BY DEF JobRow, JobStatus
  <2>3. /\ jobs' \in [Jobs -> JobRow]
        /\ \A k \in Jobs : /\ jobs'[k].channel = jobs[k].channel
                           /\ jobs'[k].queue = jobs[k].queue
                           /\ jobs[k].status # "none" <=> jobs'[k].status # "none"
    <3>1. CASE UNCHANGED jobs  BY <2>1, <3>1
    <3>2. CASE jobs' = [j \in Jobs |-> IF jobs[j].status = "running" /\ jobs[j].overdue
                                   THEN [jobs[j] EXCEPT !.status = "failed"] ELSE jobs[j]]
      <4>1. jobs' \in [Jobs -> JobRow]  BY <2>1, <2>2, <3>2
      <4>2. \A k \in Jobs : /\ jobs'[k].channel = jobs[k].channel
                            /\ jobs'[k].queue = jobs[k].queue
                            /\ jobs[k].status # "none" <=> jobs'[k].status # "none"
        BY <2>1, <3>2 DEF JobRow
      <4> QED  BY <4>1, <4>2
    <3> QED  BY <1>9, <3>1, <3>2 DEF FailStaleJobs
  <2>4. JobInv'  BY <1>a, <2>3, JobFrame
  <2>5. faults' \in 0..MaxFaults  BY <1>9, <1>a, FaultType DEF FailStaleJobs
  <2>6. StoreTypeOK'  BY <1>9, <1>a, <2>3, <2>5 DEF FailStaleJobs, StoreTypeOK
  <2>7. Goto(s, "pressure")  BY <1>9 DEF FailStaleJobs
  <2> QED  BY <1>a, <2>3, <2>4, <2>6, <2>7, SchedulerGoto
<1>10. CASE CheckPressure(s)
  <2>1. UNCHANGED store  BY <1>10 DEF CheckPressure
  <2>2. StoreTypeOK' /\ UNCHANGED jobs  BY <1>a, <2>1 DEF StoreTypeOK, store
  <2>3. \E w \in {"release", "select"} : Goto(s, w)  BY <1>10 DEF CheckPressure
  <2> QED  BY <1>a, <1>c, <2>2, <2>3, SchedulerGoto
<1> QED  BY <1>1, <1>2, <1>3, <1>4, <1>5, <1>6, <1>7, <1>8, <1>9, <1>10

\* The scheduling of due channels.
LEMMA SchedulingType ==
  ASSUME TypeInv, NEW s \in Schedulers, UNCHANGED <<discovery, val>>,
         \/ SelectDueChannels(s, Fresh) \/ ScheduleChannel(s) \/ FillCache(s)
         \/ \E q \in Tiers : InsertJob(s, q, Fresh) \/ PushJob(s, q)
         \/ PushFails(s) \/ MarkQueued(s) \/ AdvanceLead(s) \/ MarkEnqueueFailed(s)
  PROVE  TypeInv'
<1>a. /\ StoreTypeOK /\ SchedulerTypeOK /\ SchedInv /\ JobInv
      /\ DiscoveryTypeOK' /\ HandInv' /\ ValidationTypeOK' /\ ValInv'
  BY DiscoveryFrame, ValidationFrame DEF TypeInv, TypeOK
<1>b. /\ sched[s] \in SchedulerState /\ SchedulerOK(sched[s], jobs)
      /\ sched[s].stuck \subseteq Jobs /\ sched[s].job \in Jobs \cup {None}
      /\ sched[s].channel \in Channels \cup {None} /\ sched[s].mark \in Mark
      /\ sched[s].todo \subseteq DueRow
  BY <1>a DEF SchedulerTypeOK, SchedInv, SchedulerState
<1>c. ASSUME UNCHANGED jobs PROVE JobInv'  BY <1>a, <1>c, JobFrame
<1>d. SUFFICES StoreTypeOK' /\ JobInv' /\ SchedulerTypeOK' /\ SchedInv'
  BY <1>a DEF TypeInv, TypeOK
<1>e. /\ leads \in [Channels -> LeadRow] /\ jobs \in [Jobs -> JobRow]
      /\ \A c \in Channels : /\ leads[c].mark \in Mark
                             /\ cache[c]["id"] \in Mark \cup {NoMark}
                             /\ [leads EXCEPT ![c].due = FALSE] \in [Channels -> LeadRow]
  <2>1. leads \in [Channels -> LeadRow] /\ jobs \in [Jobs -> JobRow]  BY <1>a DEF StoreTypeOK
  <2>2. ASSUME NEW c \in Channels
        PROVE  leads[c].mark \in Mark /\ [leads EXCEPT ![c].due = FALSE] \in [Channels -> LeadRow]
    BY <2>1 DEF LeadRow
  <2>3. \A c \in Channels : cache[c]["id"] \in Mark \cup {NoMark}
    BY <1>a DEF StoreTypeOK, Keys
  <2> QED  BY <2>1, <2>2, <2>3
<1> USE DEF database, redis, marks, observed
<1>1. CASE SelectDueChannels(s, Fresh)
  <2>1. faults' \in 0..MaxFaults /\ UNCHANGED jobs
    BY <1>1, <1>a, FaultType DEF SelectDueChannels
  <2>2. StoreTypeOK'  BY <1>1, <1>a, <2>1 DEF SelectDueChannels, StoreTypeOK
  <2>3. CASE Goto(s, "release")  BY <1>a, <1>c, <2>1, <2>2, <2>3, SchedulerGoto
  <2>4. ASSUME NEW todo \in SUBSET DueRow, NEW w \in {"release", "schedule"},
               sched' = [sched EXCEPT ![s].todo = todo, ![s].at = w]
        PROVE  SchedulerTypeOK' /\ SchedInv'
    <3> DEFINE r == [sched[s] EXCEPT !.todo = todo, !.at = w]
    <3>2. sched' = [sched EXCEPT ![s] = r]  BY <2>4, <1>a DEF SchedulerTypeOK
    <3>3. r \in SchedulerState  BY <1>b DEF SchedulerState, SchedulerAt
    <3>4. SchedulerOK(r, jobs')  BY <1>b, <2>1 DEF SchedulerOK, SchedulerState
    <3> HIDE DEF r
    <3> QED  BY <1>a, <2>1, <3>2, <3>3, <3>4, SchedulerMove
  <2> DEFINE Rows(due) == {[channel |-> c, mark |-> leads[c].mark] : c \in due}
  <2>5. \A due \in SUBSET Channels : Rows(due) \subseteq DueRow
    <3>1. \A c \in Channels : leads[c].mark \in Mark  BY <1>e
    <3> QED  BY <3>1 DEF DueRow
  <2>6. DueChannels \subseteq Channels  BY DEF DueChannels
  <2>7. \/ Goto(s, "release")
        \/ \E due \in SUBSET Channels : sched' = [sched EXCEPT
             ![s].todo = Rows(due), ![s].at = IF due = {} THEN "release" ELSE "schedule"]
    BY <1>1, <2>6 DEF SelectDueChannels
  <2>8. \/ Goto(s, "release")
        \/ \E todo \in SUBSET DueRow, w \in {"release", "schedule"} :
             sched' = [sched EXCEPT ![s].todo = todo, ![s].at = w]
    <3> HIDE DEF Rows
    <3> QED  BY <2>5, <2>7
  <2> QED  BY <1>c, <2>1, <2>2, <2>3, <2>4, <2>8
<1>2. CASE ScheduleChannel(s)
  <2> PICK d \in sched[s].todo :
         LET c == d.channel
             cached == cache[c]["id"]
             found == IF d.mark > 0 THEN d.mark
                      ELSE IF cached # NoMark THEN cached ELSE leads[c].mark
         IN sched' = [sched EXCEPT
              ![s].at = IF d.mark = 0 /\ cached = NoMark THEN "fill" ELSE "insert",
              ![s].todo = @ \ {d}, ![s].channel = c, ![s].mark = found]
    BY <1>2 DEF ScheduleChannel
  <2>1. d.channel \in Channels /\ d.mark \in Mark  BY <1>b DEF DueRow
  <2> DEFINE cached == cache[d.channel]["id"]
             found  == IF d.mark > 0 THEN d.mark
                       ELSE IF cached # NoMark THEN cached ELSE leads[d.channel].mark
             to     == IF d.mark = 0 /\ cached = NoMark THEN "fill" ELSE "insert"
             r == [sched[s] EXCEPT !.at = to, !.todo = @ \ {d}, !.channel = d.channel,
                                   !.mark = found]
  <2>2. found \in Mark  BY <1>e, <2>1
  <2>3. to \in {"fill", "insert"}  OBVIOUS
  <2>4. sched' = [sched EXCEPT ![s] = r]  BY <1>a DEF SchedulerTypeOK
  <2> HIDE DEF found, to
  <2>5. r \in SchedulerState  BY <1>b, <2>1, <2>2, <2>3 DEF SchedulerState, SchedulerAt
  <2>6. StoreTypeOK' /\ UNCHANGED jobs  BY <1>2, <1>a DEF ScheduleChannel, store, StoreTypeOK
  <2>7. SchedulerOK(r, jobs')
    BY <1>b, <2>1, <2>3, <2>6, Constants DEF SchedulerOK, SchedulerState
  <2> HIDE DEF r
  <2> QED  BY <1>a, <1>c, <2>4, <2>5, <2>6, <2>7, SchedulerMove
<1>3. CASE FillCache(s)
  <2>1. sched[s].channel \in Channels  BY <1>3, <1>b DEF FillCache, At, SchedulerOK
  <2>2. cache' \in [Channels -> [Keys -> Mark \cup {NoMark}]]
    BY <1>3, <1>a, <1>b, <2>1 DEF FillCache, StoreTypeOK, Keys
  <2>3. StoreTypeOK' /\ UNCHANGED jobs  BY <1>3, <1>a, <2>2 DEF FillCache, StoreTypeOK
  <2> DEFINE r == [sched[s] EXCEPT !.at = "insert"]
  <2>4. sched' = [sched EXCEPT ![s] = r]  BY <1>3, <1>a DEF FillCache, Goto, SchedulerTypeOK
  <2>5. r \in SchedulerState  BY <1>b DEF SchedulerState, SchedulerAt
  <2>6. SchedulerOK(r, jobs')
    BY <1>b, <2>1, <2>3, Constants DEF SchedulerOK, SchedulerState
  <2> HIDE DEF r
  <2> QED  BY <1>a, <1>c, <2>3, <2>4, <2>5, <2>6, SchedulerMove
<1>4. ASSUME NEW q \in Tiers, InsertJob(s, q, Fresh)
      PROVE  StoreTypeOK' /\ JobInv' /\ SchedulerTypeOK' /\ SchedInv'
  <2> DEFINE j == CHOOSE j \in Fresh : Unused(j)
             row == [NoJobRow EXCEPT !.status = "pending", !.channel = sched[s].channel,
                                     !.mark = sched[s].mark, !.queue = q]
             r == [sched[s] EXCEPT !.at = "push", !.job = j]
  <2>1. j \in Fresh /\ Unused(j)  BY <1>4 DEF InsertJob
  <2>2. j \in Jobs  BY <1>a, <2>1, SettingType DEF Fresh, StoreTypeOK
  <2>3. \A t \in Schedulers : j # sched[t].job /\ j \notin sched[t].stuck
    BY <2>1 DEF Unused
  <2>4. /\ jobs' = [jobs EXCEPT ![j] = row] \/ jobs' = [jobs EXCEPT ![j] = NoJobRow]
        /\ pushes' = [pushes EXCEPT ![j] = 0]
        /\ sched' = [sched EXCEPT ![s].at = "push", ![s].job = j]
    BY <1>4 DEF InsertJob
  <2> HIDE DEF j
  <2>5. sched[s].channel \in Channels  BY <1>4, <1>b DEF InsertJob, At, SchedulerOK
  <2>6. /\ row \in JobRow /\ NoJobRow \in JobRow
        /\ row.channel = sched[s].channel /\ row.queue = q /\ NoJobRow.status = "none"
    <3>1. 0 \in Mark /\ q \in QueueNames  BY Constants DEF Mark
    <3>2. NoJobRow \in JobRow  BY <3>1 DEF JobRow, NoJobRow, JobStatus
    <3>3. row \in JobRow  BY <1>b, <2>5, <3>1, <3>2 DEF JobRow, NoJobRow, JobStatus
    <3> QED  BY <3>2, <3>3 DEF NoJobRow
  <2>7. \A k \in Jobs \ {j} : jobs'[k] = jobs[k]  BY <1>e, <2>4
  <2>8. jobs' \in [Jobs -> JobRow] /\ jobs'[j] \in {row, NoJobRow}  BY <1>e, <2>2, <2>4, <2>6
  <2>9. JobInv'
    <3> SUFFICES ASSUME NEW k \in Jobs, jobs'[k].status # "none"
                 PROVE  jobs'[k].channel # None /\ jobs'[k].queue # None
      BY DEF JobInv
    <3>1. CASE k = j
      <4>1. q # None /\ sched[s].channel # None  BY <2>5, Constants
      <4> QED  BY <2>6, <2>8, <3>1, <4>1
    <3>2. CASE k # j  BY <1>a, <2>7, <3>2 DEF JobInv
    <3> QED  BY <3>1, <3>2
  <2>10. faults' \in 0..MaxFaults /\ pushes' \in [Jobs -> 0..2]
    <3>1. Fault \/ UNCHANGED faults  BY <1>4 DEF InsertJob
    <3>2. pushes \in [Jobs -> 0..2]  BY <1>a DEF StoreTypeOK
    <3>3. pushes' \in [Jobs -> 0..2]
      <4>1. pushes' = [pushes EXCEPT ![j] = 0]  BY <2>4
      <4>2. 0 \in 0..2  OBVIOUS
      <4> HIDE DEF j
      <4> QED  BY <2>2, <3>2, <4>1, <4>2
    <3> QED  BY <1>a, <3>1, <3>3, FaultType
  <2>11. StoreTypeOK'  BY <1>4, <1>a, <2>8, <2>10 DEF InsertJob, StoreTypeOK
  <2> HIDE DEF row
  <2>12. sched' = [sched EXCEPT ![s] = r]  BY <1>a, <2>4 DEF SchedulerTypeOK
  <2>13. r \in SchedulerState  BY <1>b, <2>2 DEF SchedulerState, SchedulerAt
  <2>14. SchedulerOK(r, jobs')
    BY <1>b, <2>2, <2>3, <2>5, <2>7, Constants DEF SchedulerOK, SchedulerState
  <2>15. \A t \in Schedulers : sched[t].stuck \subseteq Jobs
    BY <1>a DEF SchedulerTypeOK, SchedulerState
  <2> HIDE DEF r
  <2>16. SchedulerTypeOK' /\ SchedInv'
    BY <1>a, <2>3, <2>7, <2>12, <2>13, <2>14, SchedulerMove
  <2> QED  BY <2>9, <2>11, <2>16
<1>5. ASSUME NEW q \in Tiers, PushJob(s, q)
      PROVE  StoreTypeOK' /\ JobInv' /\ SchedulerTypeOK' /\ SchedInv'
  <2>1. sched[s].job \in Jobs /\ sched[s].channel \in Channels
    BY <1>5, <1>b DEF PushJob, At, SchedulerOK
  <2>2. queues' \in [QueueNames -> Seq(Payload)] /\ pushes' \in [Jobs -> 0..2]
    BY <1>5, <1>a, <1>b, <2>1, PushType, QueueEntries, Constants DEF PushJob, StoreTypeOK
  <2>3. StoreTypeOK' /\ UNCHANGED jobs  BY <1>5, <1>a, <2>2 DEF PushJob, StoreTypeOK
  <2> DEFINE r == [sched[s] EXCEPT !.at = "queued"]
  <2>4. sched' = [sched EXCEPT ![s] = r]  BY <1>5, <1>a DEF PushJob, Goto, SchedulerTypeOK
  <2>5. r \in SchedulerState  BY <1>b DEF SchedulerState, SchedulerAt
  <2>6. SchedulerOK(r, jobs')
    BY <1>b, <2>1, <2>3, Constants DEF SchedulerOK, SchedulerState
  <2> HIDE DEF r
  <2>7. SchedulerTypeOK' /\ SchedInv'  BY <1>a, <2>3, <2>4, <2>5, <2>6, SchedulerMove
  <2> QED  BY <1>c, <2>3, <2>7
<1>6. CASE PushFails(s)
  <2>1. sched[s].job \in Jobs /\ sched[s].channel # None
    BY <1>6, <1>b DEF PushFails, At, SchedulerOK
  <2>2. faults' \in 0..MaxFaults /\ redisFailed' \in BOOLEAN /\ UNCHANGED jobs
    BY <1>6, <1>a, FaultType DEF PushFails
  <2>3. StoreTypeOK'  BY <1>6, <1>a, <2>2 DEF PushFails, StoreTypeOK
  <2> DEFINE r == [sched[s] EXCEPT !.at = "failed"]
  <2>4. sched' = [sched EXCEPT ![s] = r]  BY <1>6, <1>a DEF PushFails, Goto, SchedulerTypeOK
  <2>5. r \in SchedulerState  BY <1>b DEF SchedulerState, SchedulerAt
  <2>6. SchedulerOK(r, jobs')
    BY <1>b, <2>1, <2>2, Constants DEF SchedulerOK, SchedulerState
  <2> HIDE DEF r
  <2> QED  BY <1>a, <1>c, <2>2, <2>3, <2>4, <2>5, <2>6, SchedulerMove
<1>f. ASSUME NEW st \in JobStatus \ {"none"}, jobs' \in {JobSet(sched[s].job, st), jobs},
             At(s, "queued") \/ At(s, "failed")
      PROVE  /\ jobs' \in [Jobs -> JobRow] /\ JobInv'
             /\ \A k \in Jobs : jobs[k].status # "none" => jobs'[k].status # "none"
  <2>1. CASE jobs' = jobs  BY <1>e, <1>c, <2>1
  <2>2. CASE jobs' = JobSet(sched[s].job, st)
    <3>1. /\ jobs' \in [Jobs -> JobRow]
          /\ \A k \in Jobs : /\ jobs'[k].channel = jobs[k].channel
                             /\ jobs'[k].queue = jobs[k].queue
                             /\ jobs[k].status # "none" <=> jobs'[k].status # "none"
      <4>1. jobs \in [Jobs -> JobRow]  BY <1>e
      <4> QED  BY <1>b, <2>2, <4>1, JobSetRows
    <3>2. JobInv'  BY <1>a, <3>1, JobFrame
    <3> QED  BY <3>1, <3>2
  <2> QED  BY <1>f, <2>1, <2>2
<1>7. CASE MarkQueued(s)
  <2>1. At(s, "queued") /\ jobs' \in {JobSet(sched[s].job, "queued"), jobs}
    BY <1>7 DEF MarkQueued
  <2>2. /\ jobs' \in [Jobs -> JobRow] /\ JobInv'
        /\ \A k \in Jobs : jobs[k].status # "none" => jobs'[k].status # "none"
    BY <1>f, <2>1 DEF JobStatus
  <2>3. faults' \in 0..MaxFaults  BY <1>7, <1>a, FaultType DEF MarkQueued
  <2>4. StoreTypeOK'  BY <1>7, <1>a, <2>2, <2>3 DEF MarkQueued, StoreTypeOK
  <2>5. CASE NextDue(s)  BY <1>a, <2>2, <2>4, <2>5, SchedulerNextDue
  <2>6. CASE Goto(s, "advance")
    <3> DEFINE r == [sched[s] EXCEPT !.at = "advance"]
    <3>1. sched' = [sched EXCEPT ![s] = r]  BY <2>6, <1>a DEF Goto, SchedulerTypeOK
    <3>2. r \in SchedulerState  BY <1>b DEF SchedulerState, SchedulerAt
    <3>3. SchedulerOK(r, jobs')
      BY <1>b, <2>1, <2>2, Constants DEF SchedulerOK, SchedulerState, At
    <3>4. \A t \in Schedulers : sched[t].stuck \subseteq Jobs /\ sched[t].job \in Jobs \cup {None}
      BY <1>a DEF SchedulerTypeOK, SchedulerState
    <3> HIDE DEF r
    <3> QED  BY <1>a, <2>2, <2>4, <3>1, <3>2, <3>3, SchedulerMove
  <2> QED  BY <1>7, <2>5, <2>6 DEF MarkQueued
<1>8. CASE AdvanceLead(s)
  <2>1. sched[s].channel \in Channels  BY <1>8, <1>b DEF AdvanceLead, At, SchedulerOK
  <2>2. leads' \in [Channels -> LeadRow] /\ faults' \in 0..MaxFaults /\ UNCHANGED jobs
    BY <1>8, <1>a, <1>e, <2>1, FaultType DEF AdvanceLead
  <2>3. StoreTypeOK'  BY <1>8, <1>a, <2>2 DEF AdvanceLead, StoreTypeOK
  <2>4. NextDue(s)  BY <1>8 DEF AdvanceLead
  <2> QED  BY <1>a, <1>c, <2>2, <2>3, <2>4, SchedulerNextDue
<1>9. CASE MarkEnqueueFailed(s)
  <2>1. At(s, "failed") /\ jobs' \in {JobSet(sched[s].job, "enqueue_failed"), jobs}
    BY <1>9 DEF MarkEnqueueFailed
  <2>2. /\ jobs' \in [Jobs -> JobRow] /\ JobInv'
        /\ \A k \in Jobs : jobs[k].status # "none" => jobs'[k].status # "none"
    BY <1>f, <2>1 DEF JobStatus
  <2>3. faults' \in 0..MaxFaults  BY <1>9, <1>a, FaultType DEF MarkEnqueueFailed
  <2>4. StoreTypeOK'  BY <1>9, <1>a, <2>2, <2>3 DEF MarkEnqueueFailed, StoreTypeOK
  <2>5. NextDue(s)  BY <1>9 DEF MarkEnqueueFailed
  <2> QED  BY <1>a, <2>2, <2>4, <2>5, SchedulerNextDue
<1> QED  BY <1>1, <1>2, <1>3, <1>4, <1>5, <1>6, <1>7, <1>8, <1>9

LEMMA LeaderType == TypeInv /\ LeaderExpires /\ UNCHANGED <<discovery, val>> => TypeInv'
<1> SUFFICES ASSUME TypeInv, LeaderExpires, UNCHANGED <<discovery, val>> PROVE TypeInv'
  OBVIOUS
<1>1. lapsed' \in BOOLEAN /\ leader' \in Processes \cup {None}
  BY DEF LeaderExpires, TypeInv, TypeOK, StoreTypeOK
<1>2. UNCHANGED <<jobs, sched>>  BY DEF LeaderExpires, database
<1>3. StoreTypeOK'
  BY <1>1 DEF LeaderExpires, TypeInv, TypeOK, StoreTypeOK, database, marks
<1> QED
  BY <1>2, <1>3, DiscoveryFrame, ValidationFrame, SchedulerFrame, JobFrame DEF TypeInv, TypeOK

\* The routes.
LEMMA RouteLength ==
  ASSUME NEW way \in Ways  PROVE Len(Route[way]) \in 1..5
<1>1. CASE way = "radar"  BY <1>1 DEF Route, RadarRoute
<1>2. CASE way = "scan"  BY <1>2 DEF Route, ScanRoute
<1>3. CASE way = "forward"  BY <1>3 DEF Route, ForwardRoute
<1>4. CASE way = "graph"  BY <1>4 DEF Route, GraphRoute
<1>5. CASE way = "recommendation"  BY <1>5 DEF Route, RecommendationRoute
<1>6. CASE way = "search"  BY <1>6 DEF Route, SearchRoute
<1>7. CASE way = "spider"  BY <1>7 DEF Route, SpiderRoute
<1>8. CASE way = "join"  BY <1>8 DEF Route, JoinRoute
<1> QED  BY <1>1, <1>2, <1>3, <1>4, <1>5, <1>6, <1>7, <1>8 DEF Ways

LEMMA RouteSteps ==
  ASSUME NEW n \in 1..5  PROVE 1 \in 1..n /\ n \in 1..n /\ 1..n \subseteq 1..5
OBVIOUS

\* A service's step changes what it has in hand only.
LEMMA HandMove ==
  ASSUME DiscoveryTypeOK, HandInv, NEW p \in Processes, NEW h \in HandState,
         h.way # None => h.ch # None /\ h.step \in 1..Len(Route[h.way]),
         hand' = [hand EXCEPT ![p] = h], UNCHANGED marked
  PROVE  DiscoveryTypeOK' /\ HandInv'
<1>1. hand \in [Processes -> HandState]  BY DEF DiscoveryTypeOK
<1>2. DiscoveryTypeOK'  BY <1>1 DEF DiscoveryTypeOK
<1> QED  BY <1>1, <1>2 DEF HandInv, Empty

LEMMA HandLetGo ==
  ASSUME DiscoveryTypeOK, HandInv, NEW p \in Processes, LetGo(p), UNCHANGED marked
  PROVE  DiscoveryTypeOK' /\ HandInv'
<1>1. EmptyHand \in HandState /\ EmptyHand.way = None  BY DEF EmptyHand, HandState
<1> QED  BY <1>1, HandMove DEF LetGo

\* Onwards on the route, to the next stage or to its last.
LEMMA HandStage ==
  ASSUME DiscoveryTypeOK, HandInv, NEW p \in Processes, ~Empty(p), UNCHANGED marked,
         NextStage(p) \/ hand' = [hand EXCEPT ![p].step = Len(Route[hand[p].way])]
  PROVE  DiscoveryTypeOK' /\ HandInv'
<1>1. /\ hand \in [Processes -> HandState] /\ hand[p] \in HandState
      /\ hand[p].ch # None /\ hand[p].step \in 1..Len(Route[hand[p].way])
  BY DEF DiscoveryTypeOK, HandInv
<1>2. hand[p].way \in Ways /\ hand[p].step \in 1..5  BY <1>1 DEF HandState, Empty
<1>3. Len(Route[hand[p].way]) \in 1..5  BY <1>2, RouteLength
<1>4. CASE LetGo(p)  BY <1>4, HandLetGo
<1>5. ASSUME NEW n \in 1..Len(Route[hand[p].way]), hand' = [hand EXCEPT ![p].step = n]
      PROVE  DiscoveryTypeOK' /\ HandInv'
  <2> DEFINE h == [hand[p] EXCEPT !.step = n]
  <2>1. hand' = [hand EXCEPT ![p] = h]  BY <1>1, <1>5
  <2>3. n \in 1..5  BY <1>3, RouteSteps
  <2>2. h \in HandState /\ h.way = hand[p].way /\ h.ch = hand[p].ch /\ h.step = n
    BY <1>1, <2>3 DEF HandState
  <2> HIDE DEF h
  <2> QED  BY <1>1, <2>1, <2>2, HandMove
<1>6. CASE NextStage(p) /\ ~LetGo(p)
  <2>1. hand' = [hand EXCEPT ![p].step = @ + 1] /\ hand[p].step # Len(Route[hand[p].way])
    BY <1>6 DEF NextStage
  <2>2. hand[p].step + 1 \in 1..Len(Route[hand[p].way])  BY <1>1, <1>3, <2>1
  <2>3. hand' = [hand EXCEPT ![p].step = hand[p].step + 1]  BY <1>1, <2>1
  <2> QED  BY <1>5, <2>2, <2>3
<1>7. CASE hand' = [hand EXCEPT ![p].step = Len(Route[hand[p].way])]
  <2>1. Len(Route[hand[p].way]) \in 1..Len(Route[hand[p].way])  BY <1>3, RouteSteps
  <2> QED  BY <1>5, <1>7, <2>1
<1> QED  BY <1>4, <1>6, <1>7

\* A step with the link in hand, of a service or of a validator.
LEMMA HandType ==
  ASSUME TypeInv, NEW p \in Processes, HandStep(p), UNCHANGED <<sched, val>>
  PROVE  TypeInv'
<1>a. /\ StoreTypeOK /\ SchedulerTypeOK /\ SchedInv /\ JobInv
      /\ DiscoveryTypeOK /\ HandInv /\ ValidationTypeOK' /\ ValInv'
  BY ValidationFrame DEF TypeInv, TypeOK
<1>1. ~Empty(p)
  BY DEF HandStep, CheckSeen, ClaimSeen, CountFirst, Tally, Reserve, PushLink, StubLink, Doing
<1>2. /\ hand[p].ch \in Channels /\ hand[p].src \in Channels \cup {None}
  BY <1>1, <1>a DEF HandInv, DiscoveryTypeOK, HandState
<1> USE DEF database, redis, marks, observed
<1>3. StoreTypeOK' /\ UNCHANGED jobs
  <2>1. CASE CheckSeen(p)  BY <2>1, <1>a DEF CheckSeen, StoreTypeOK, store
  <2>2. CASE ClaimSeen(p)  BY <2>2, <1>a, <1>2 DEF ClaimSeen, StoreTypeOK
  <2>3. CASE CountFirst(p)  BY <2>3, <1>a, <1>2 DEF CountFirst, StoreTypeOK
  <2>4. CASE Tally(p)  BY <2>4, <1>a, <1>2 DEF Tally, StoreTypeOK
  <2>5. CASE Reserve(p)  BY <2>5, <1>a, <1>2 DEF Reserve, StoreTypeOK
  <2>6. ASSUME NEW q \in Tiers, PushLink(p, q)  PROVE StoreTypeOK' /\ UNCHANGED jobs
    <3>1. LinkTo(hand[p].ch, SourceOf(p)) \in Payload
      <4>1. 0 \in Mark  BY Constants DEF Mark
      <4> QED  BY <1>2, <4>1 DEF LinkTo, SourceOf, Payload
    <3>2. queues' \in [QueueNames -> Seq(Payload)]
      <4>1. q \in QueueNames  BY Constants
      <4> QED  BY <2>6, <3>1, <4>1, <1>a, QueueEntries DEF PushLink, StoreTypeOK
    <3> QED  BY <2>6, <3>2, <1>a DEF PushLink, StoreTypeOK
  <2>7. CASE StubLink(p)
    <3>1. leads \in [Channels -> LeadRow]  BY <1>a DEF StoreTypeOK
    <3>2. Stubbed(leads[hand[p].ch]) \in LeadRow  BY <1>2, <3>1, LeadRows
    <3>3. leads' \in [Channels -> LeadRow]  BY <2>7, <3>1, <3>2 DEF StubLink
    <3> QED  BY <2>7, <3>3, <1>a DEF StubLink, StoreTypeOK
  <2> QED  BY <2>1, <2>2, <2>3, <2>4, <2>5, <2>6, <2>7 DEF HandStep
<1>4. /\ UNCHANGED marked
      /\ \/ NextStage(p) \/ LetGo(p)
         \/ hand' = [hand EXCEPT ![p].step = Len(Route[hand[p].way])]
  BY DEF HandStep, CheckSeen, ClaimSeen, CountFirst, Tally, Reserve, PushLink, StubLink
<1>5. DiscoveryTypeOK' /\ HandInv'  BY <1>a, <1>1, <1>4, HandStage, HandLetGo
<1>6. JobInv' /\ SchedulerTypeOK' /\ SchedInv'  BY <1>a, <1>3, JobFrame, SchedulerFrame
<1> QED  BY <1>a, <1>3, <1>5, <1>6 DEF TypeInv, TypeOK

\* The other steps of discovery and seed intake, and the expiry of their keys.
LEMMA DiscoveryType ==
  ASSUME TypeInv, UNCHANGED <<sched, val>>,
         \/ \E p \in Producers : DiscoveryStep(p)
         \/ SeedStep
         \/ \E c \in Channels : ReserveExpires(c) \/ CountExpires(c)
  PROVE  TypeInv'
<1>a. /\ StoreTypeOK /\ SchedulerTypeOK /\ SchedInv /\ JobInv
      /\ DiscoveryTypeOK /\ HandInv /\ ValidationTypeOK' /\ ValInv'
  BY ValidationFrame DEF TypeInv, TypeOK
<1> USE DEF database, redis, marks, observed
<1>b. ASSUME StoreTypeOK', UNCHANGED jobs, DiscoveryTypeOK' /\ HandInv'  PROVE TypeInv'
  BY <1>a, <1>b, JobFrame, SchedulerFrame DEF TypeInv, TypeOK
<1>1. ASSUME NEW p \in Producers, NEW way \in Routes[p], NEW c \in setup.found,
             NEW source \in setup.known \cup {None}, FindLink(p, way, c, source)
      PROVE  TypeInv'
  <2>1. way \in Ways /\ p \in Processes  BY DiscoveryAssumption
  <2>2. c \in Channels /\ source \in Channels \cup {None}
    BY <1>a, SettingType DEF StoreTypeOK
  <2>3. c # None /\ 1 \in 1..Len(Route[way])
    <3>1. 1 \in 1..Len(Route[way])  BY <2>1, RouteLength, RouteSteps
    <3>2. c # None  BY <2>2, Constants
    <3> QED  BY <3>1, <3>2
  <2> DEFINE h == HandOf(way, c, source)
  <2>4. h \in HandState /\ h.way = way /\ h.ch = c /\ h.step = 1
    BY <2>1, <2>2 DEF HandOf, HandState
  <2>5. hand' = [hand EXCEPT ![p] = h] /\ UNCHANGED marked  BY <1>1 DEF FindLink
  <2> HIDE DEF h
  <2>6. DiscoveryTypeOK' /\ HandInv'  BY <1>a, <2>1, <2>3, <2>4, <2>5, HandMove
  <2>7. StoreTypeOK' /\ UNCHANGED jobs  BY <1>1, <1>a DEF FindLink, store, StoreTypeOK
  <2> QED  BY <1>b, <2>6, <2>7
<1>2. ASSUME NEW p \in Producers, LoseLink(p)  PROVE TypeInv'
  <2>1. ~Empty(p) /\ p \in Processes  BY <1>2, Constants DEF LoseLink
  <2>2. hand[p].ch \in Channels
    BY <2>1, <1>a DEF HandInv, DiscoveryTypeOK, HandState
  <2>3. DiscoveryTypeOK' /\ HandInv'  BY <1>2, <2>1, <1>a, HandLetGo DEF LoseLink
  <2>4. faults' \in 0..MaxFaults  BY <1>2, <1>a, FaultType DEF LoseLink
  <2>5. StoreTypeOK' /\ UNCHANGED jobs  BY <1>2, <2>2, <2>4, <1>a DEF LoseLink, StoreTypeOK
  <2> QED  BY <1>b, <2>3, <2>5
<1>3. ASSUME NEW c \in Channels, NEW q \in Tiers, EnqueueSeed(c, q)  PROVE TypeInv'
  <2>1. LinkTo(c, None) \in Payload /\ q \in QueueNames
    <3>1. 0 \in Mark  BY Constants DEF Mark
    <3> QED  BY <3>1, Constants DEF LinkTo, Payload
  <2>2. queues' \in [QueueNames -> Seq(Payload)]
    BY <1>3, <2>1, <1>a, QueueEntries DEF EnqueueSeed, StoreTypeOK
  <2>3. StoreTypeOK' /\ UNCHANGED jobs  BY <1>3, <2>2, <1>a DEF EnqueueSeed, StoreTypeOK
  <2>4. DiscoveryTypeOK' /\ HandInv'
    BY <1>3, <1>a DEF EnqueueSeed, DiscoveryTypeOK, HandInv, Empty
  <2> QED  BY <1>b, <2>3, <2>4
<1>4. CASE SeedFault
  <2>1. faults' \in 0..MaxFaults  BY <1>4, <1>a, FaultType DEF SeedFault
  <2>2. StoreTypeOK' /\ UNCHANGED jobs  BY <1>4, <2>1, <1>a DEF SeedFault, StoreTypeOK
  <2>3. DiscoveryTypeOK' /\ HandInv'
    BY <1>4, <1>a DEF SeedFault, DiscoveryTypeOK, HandInv, Empty
  <2> QED  BY <1>b, <2>2, <2>3
<1>5. ASSUME NEW c \in Channels, ReserveExpires(c) \/ CountExpires(c)  PROVE TypeInv'
  <2>1. StoreTypeOK' /\ UNCHANGED <<jobs, discovery>>
    BY <1>5, <1>a DEF ReserveExpires, CountExpires, StoreTypeOK
  <2> QED  BY <1>a, <1>b, <2>1, DiscoveryFrame
<1>6. ASSUME NEW p \in Producers, HandStep(p)  PROVE TypeInv'
  BY <1>6, HandType, Constants
<1> QED  BY <1>1, <1>2, <1>3, <1>4, <1>5, <1>6 DEF DiscoveryStep, SeedStep

LEMMA LongTail ==
  ASSUME NEW S, NEW p \in Seq(S), p # <<>>, Len(p) # 1
  PROVE  Tail(p) \in Seq(S) /\ Tail(p) # <<>>
<1>1. Len(p) \in Nat /\ Len(p) # 0  BY EmptySeq
<1>2. Len(Tail(p)) = Len(p) - 1 /\ Tail(p) \in Seq(S)  BY HeadTailProperties
<1>3. Len(Tail(p)) # 0  BY <1>1, <1>2
<1> QED  BY <1>2, <1>3, EmptySeq

\* A validator's step changes its own record only.
LEMMA ValMove ==
  ASSUME ValidationTypeOK, ValInv, NEW v \in Validators, NEW r \in ValidatorState,
         r.at # "idle" => r.ch # None, r.at = "writes" => r.plan # <<>>,
         val' = [val EXCEPT ![v] = r]
  PROVE  ValidationTypeOK' /\ ValInv'
<1>1. val \in [Validators -> ValidatorState]  BY DEF ValidationTypeOK
<1>2. ValidationTypeOK'  BY <1>1 DEF ValidationTypeOK
<1> QED  BY <1>1, <1>2 DEF ValInv, Busy, ValAt

LEMMA Idle == IdleValidator \in ValidatorState /\ IdleValidator.at = "idle"
<1>1. 0 \in Mark  BY Constants DEF Mark
<1>2. <<>> \in Seq(Writes)  OBVIOUS
<1> QED  BY <1>1, <1>2 DEF IdleValidator, ValidatorState, ValidatorAt

LEMMA PlannedType ==
  ASSUME NEW v \in Validators, val[v] \in ValidatorState, NEW plan \in Seq(Writes),
         NEW low \in Mark, NEW top \in Mark, NEW links \in SUBSET Channels
  PROVE  /\ Planned(v, plan, low, top, links) \in ValidatorState
         /\ Planned(v, plan, low, top, links).at = "writes"
         /\ Planned(v, plan, low, top, links).plan = plan
         /\ Planned(v, plan, low, top, links).ch = val[v].ch
         /\ Planned(v, plan, low, top, links).job = val[v].job
         /\ Planned(v, plan, low, top, links).mark \in {val[v].mark, 0}
         /\ Planned(v, plan, low, top, links).top \in {top, 0}
<1>1. 0 \in Mark  BY Constants DEF Mark
<1> DEFINE needs(w) == \E i \in 1..Len(plan) : plan[i] = w
           m == IF needs("save") \/ needs("cacheMark") THEN val[v].mark ELSE 0
           l == IF needs("save") THEN low ELSE 0
           t == IF needs("save") THEN top ELSE 0
           ls == IF needs("extract") THEN links ELSE {}
<1>2. val[v].mark \in Mark  BY DEF ValidatorState
<1> HIDE DEF needs
<1>3. m \in Mark /\ l \in Mark /\ t \in Mark /\ ls \in SUBSET Channels  BY <1>1, <1>2
<1>4. Planned(v, plan, low, top, links)
        = [val[v] EXCEPT !.at = "writes", !.src = None, !.plan = plan,
                         !.mark = m, !.low = l, !.top = t, !.links = ls]
  BY DEF Planned, needs
<1> DEFINE r == Planned(v, plan, low, top, links)
<1> HIDE DEF m, l, t, ls, r
<1>5. /\ r \in ValidatorState /\ r.at = "writes" /\ r.plan = plan /\ r.ch = val[v].ch
      /\ r.job = val[v].job /\ r.mark = m /\ r.top = t
  <2>1. r = [val[v] EXCEPT !.at = "writes", !.src = None, !.plan = plan,
                           !.mark = m, !.low = l, !.top = t, !.links = ls]
    BY <1>4 DEF r
  <2> QED  BY <1>3, <2>1 DEF ValidatorState, ValidatorAt
<1>6. m \in {val[v].mark, 0} /\ t \in {top, 0}  BY DEF m, t
<1> QED  BY <1>5, <1>6 DEF r

LEMMA EndType ==
  ASSUME ValidationTypeOK, ValInv, NEW v \in Validators, Busy(v), End(v), handled \subseteq Channels
  PROVE  ValidationTypeOK' /\ ValInv' /\ handled' \subseteq Channels
<1>1. val[v].ch \in Channels  BY DEF ValidationTypeOK, ValidatorState, ValInv
<1> QED  BY <1>1, Idle, ValMove DEF End

LEMMA FollowType ==
  ASSUME ValidationTypeOK, ValInv, NEW v \in Validators, Busy(v),
         NEW plan \in Seq(Writes), Follow(v, plan), handled \subseteq Channels
  PROVE  ValidationTypeOK' /\ ValInv' /\ handled' \subseteq Channels
<1>1. CASE plan = <<>>  BY <1>1, EndType DEF Follow
<1>2. CASE plan # <<>>
  <2>1. val' = [val EXCEPT ![v] = Planned(v, plan, 0, 0, {})] /\ UNCHANGED handled
    BY <1>2 DEF Follow
  <2>2. val[v] \in ValidatorState /\ val[v].ch # None /\ 0 \in Mark
    BY Constants DEF ValidationTypeOK, ValInv, Mark
  <2>3. /\ Planned(v, plan, 0, 0, {}) \in ValidatorState
        /\ Planned(v, plan, 0, 0, {}).plan = plan
        /\ Planned(v, plan, 0, 0, {}).ch = val[v].ch
    BY <2>2, PlannedType
  <2> QED  BY <1>2, <2>1, <2>2, <2>3, ValMove
<1> QED  BY <1>1, <1>2

LEMMA DoneType ==
  ASSUME ValidationTypeOK, ValInv, NEW v \in Validators, ValAt(v, "writes"),
         Done(v), handled \subseteq Channels
  PROVE  ValidationTypeOK' /\ ValInv' /\ handled' \subseteq Channels
<1>1. CASE Len(val[v].plan) = 1  BY <1>1, EndType DEF Done, Busy, ValAt
<1>2. CASE Len(val[v].plan) # 1
  <2>1. /\ val \in [Validators -> ValidatorState] /\ val[v].ch # None
        /\ val[v].plan \in Seq(Writes) /\ val[v].plan # <<>> /\ val[v].at = "writes"
    BY DEF ValidationTypeOK, ValidatorState, ValInv, Busy, ValAt
  <2>2. Tail(val[v].plan) \in Seq(Writes) /\ Tail(val[v].plan) # <<>>
    BY <1>2, <2>1, LongTail
  <2> DEFINE r == [val[v] EXCEPT !.plan = Tail(val[v].plan)]
  <2>3. val' = [val EXCEPT ![v] = r] /\ UNCHANGED handled  BY <1>2, <2>1 DEF Done
  <2>4. /\ r \in ValidatorState /\ r.ch = val[v].ch /\ r.plan = Tail(val[v].plan)
    BY <2>1, <2>2 DEF ValidatorState
  <2> HIDE DEF r
  <2> QED  BY <2>1, <2>2, <2>3, <2>4, ValMove
<1> QED  BY <1>1, <1>2

LEMMA PlanTypes ==
  /\ Malformed \in Seq(Writes) /\ Blacklisted \in Seq(Writes) /\ BadSource \in Seq(Writes)
  /\ InCoolDown \in Seq(Writes)
  /\ Refused \cup FromWebPage \subseteq Seq(Writes)
  /\ Failure \subseteq Seq(Writes) \ {<<>>}
  /\ {NoPosts, UpToDate, Saved, Unsaved} \subseteq Seq(Writes) \ {<<>>}
  /\ Inactive \cup Group \cup Disqualified \subseteq Seq(Writes) \ {<<>>}
<1>1. /\ Malformed \in Seq(Writes) /\ Blacklisted \in Seq(Writes)
      /\ BadSource \in Seq(Writes) /\ InCoolDown \in Seq(Writes)
  BY DEF Malformed, Blacklisted, BadSource, InCoolDown, Writes
<1>2. Refused \cup FromWebPage \subseteq Seq(Writes)  BY DEF Refused, FromWebPage, Writes
<1>3. Failure \subseteq Seq(Writes) \ {<<>>}  BY DEF Failure, Writes
<1>4. {NoPosts, UpToDate} \subseteq Seq(Writes) \ {<<>>}  BY DEF NoPosts, UpToDate, Writes
<1>5. /\ Saved \in Seq(Writes) \ {<<>>}
      /\ Unsaved \in Seq(Writes) \ {<<>>}
  BY DEF Saved, Unsaved, Writes
<1>6. Inactive \subseteq Seq(Writes) \ {<<>>}  BY DEF Inactive, Writes
<1>7. Group \subseteq Seq(Writes) \ {<<>>}  BY DEF Group, Writes
<1>8. Disqualified \subseteq Seq(Writes) \ {<<>>}  BY DEF Disqualified, Writes
<1> QED  BY <1>1, <1>2, <1>3, <1>4, <1>5, <1>6, <1>7, <1>8

LEMMA JudgedType ==
  ASSUME NEW m, NEW l, NEW t  PROVE Judged(m, l, t) \subseteq Seq(Writes) \ {<<>>}
BY PlanTypes DEF Judged

\* The channel that a busy validator has.
LEMMA ValFacts ==
  ASSUME TypeInv, NEW v \in Validators
  PROVE  /\ StoreTypeOK /\ SchedulerTypeOK /\ SchedInv /\ JobInv
         /\ DiscoveryTypeOK /\ HandInv /\ ValidationTypeOK /\ ValInv
         /\ v \in Processes /\ val \in [Validators -> ValidatorState]
         /\ val[v] \in ValidatorState /\ val[v].mark \in Mark /\ val[v].low \in Mark
         /\ val[v].top \in Mark /\ val[v].plan \in Seq(Writes)
         /\ val[v].links \subseteq Channels /\ val[v].job \in Jobs \cup {None}
         /\ val[v].at # "idle" => val[v].ch \in Channels /\ Busy(v)
         /\ val[v].at = "writes" => val[v].plan # <<>>
<1>1. /\ StoreTypeOK /\ SchedulerTypeOK /\ SchedInv /\ JobInv
      /\ DiscoveryTypeOK /\ HandInv /\ ValidationTypeOK /\ ValInv
  BY DEF TypeInv, TypeOK
<1>2. val \in [Validators -> ValidatorState] /\ val[v] \in ValidatorState /\ v \in Processes
  BY <1>1, Constants DEF ValidationTypeOK
<1> QED  BY <1>1, <1>2 DEF ValidatorState, ValInv, Busy, ValAt

\* From the queue to the plan.
LEMMA InspectionType ==
  ASSUME TypeInv, NEW v \in Validators, UNCHANGED sched,
         \/ Pop(v) \/ Checkout(v) \/ LookupMark(v) \/ CacheMark(v) \/ Gate(v) \/ GiveUp(v)
         \/ \E plan \in Refused \cup FromWebPage \cup Failure : Dismiss(v, plan)
         \/ WebPageFails(v) \/ FetchNothing(v) \/ \E budget \in Budgets : Fetch(v, budget)
  PROVE  TypeInv'
<1>a. /\ StoreTypeOK /\ SchedulerTypeOK /\ SchedInv /\ JobInv
      /\ DiscoveryTypeOK /\ HandInv /\ ValidationTypeOK /\ ValInv
      /\ val \in [Validators -> ValidatorState] /\ val[v] \in ValidatorState
      /\ handled \subseteq Channels
  BY ValFacts DEF StoreTypeOK
<1>b. ASSUME StoreTypeOK', UNCHANGED jobs, UNCHANGED discovery, ValidationTypeOK' /\ ValInv'
      PROVE  TypeInv'
  BY <1>a, <1>b, JobFrame, SchedulerFrame, DiscoveryFrame DEF TypeInv, TypeOK
<1>c. ASSUME val[v].at # "idle"
      PROVE  val[v].ch \in Channels /\ val[v].ch # None /\ Busy(v)
  BY <1>c, ValFacts, Constants
<1>d. val[v].mark \in Mark /\ val[v].job \in Jobs \cup {None}  BY ValFacts
<1>e. ASSUME NEW w \in {"lookup", "cache", "gate", "inspect"}, NEW m \in Mark,
             val[v].at # "idle",
             \/ val' = [val EXCEPT ![v].at = w]
             \/ val' = [val EXCEPT ![v].mark = m, ![v].at = w]
      PROVE  ValidationTypeOK' /\ ValInv'
  <2> DEFINE r1 == [val[v] EXCEPT !.at = w]
             r2 == [val[v] EXCEPT !.mark = m, !.at = w]
  <2>1. val' = [val EXCEPT ![v] = r1] \/ val' = [val EXCEPT ![v] = r2]  BY <1>a, <1>e
  <2>2. /\ r1 \in ValidatorState /\ r1.at = w /\ r1.ch = val[v].ch
        /\ r2 \in ValidatorState /\ r2.at = w /\ r2.ch = val[v].ch
    BY <1>a DEF ValidatorState, ValidatorAt
  <2> HIDE DEF r1, r2
  <2> QED  BY <1>a, <1>c, <1>e, <2>1, <2>2, ValMove
<1> USE DEF database, redis, marks, observed
<1>1. CASE Pop(v)
  <2> PICK q \in QueueNames :
         /\ queues[q] # <<>>
         /\ queues' = [queues EXCEPT ![q] = Tail(@)]
         /\ val' = [val EXCEPT ![v] = LET p == Head(queues[q]) IN
              [IdleValidator EXCEPT !.at = "checkout", !.job = p.job, !.ch = p.channel,
                                    !.src = p.source, !.mark = p.mark]]
    BY <1>1 DEF Pop
  <2> DEFINE p == Head(queues[q])
             r == [IdleValidator EXCEPT !.at = "checkout", !.job = p.job, !.ch = p.channel,
                                        !.src = p.source, !.mark = p.mark]
  <2>1. p \in Payload /\ queues' \in [QueueNames -> Seq(Payload)]
    <3>1. queues[q] \in Seq(Payload) /\ queues \in [QueueNames -> Seq(Payload)]
      BY <1>a DEF StoreTypeOK
    <3>2. Head(queues[q]) \in Payload /\ Tail(queues[q]) \in Seq(Payload)  BY <3>1
    <3> QED  BY <3>1, <3>2
  <2>2. StoreTypeOK' /\ UNCHANGED <<jobs, discovery>>  BY <1>1, <1>a, <2>1 DEF Pop, StoreTypeOK
  <2>3. val' = [val EXCEPT ![v] = r]  OBVIOUS
  <2> HIDE DEF p
  <2>4. r \in ValidatorState /\ r.at = "checkout" /\ r.ch \in Channels
    BY <2>1, Idle DEF Payload, ValidatorState, ValidatorAt
  <2> HIDE DEF r
  <2>5. r.ch # None  BY <2>4, Constants
  <2>6. ValidationTypeOK' /\ ValInv'  BY <1>a, <2>3, <2>4, <2>5, ValMove
  <2> QED  BY <1>b, <2>2, <2>6
<1>2. CASE Checkout(v)
  <2>1. ValAt(v, "checkout") /\ Busy(v) /\ val[v].at # "idle"  BY <1>2 DEF Checkout, ValAt, Busy
  <2>2. /\ jobs' \in [Jobs -> JobRow]
        /\ \A k \in Jobs : /\ jobs'[k].channel = jobs[k].channel
                           /\ jobs'[k].queue = jobs[k].queue
                           /\ jobs[k].status # "none" <=> jobs'[k].status # "none"
    <3>1. jobs \in [Jobs -> JobRow]  BY <1>a DEF StoreTypeOK
    <3>2. "running" \in JobStatus \ {"none"}  BY DEF JobStatus
    <3>3. jobs' = JobSet(val[v].job, "running") \/ jobs' = jobs  BY <1>2 DEF Checkout
    <3>4. CASE jobs' = jobs  BY <3>1, <3>4
    <3>5. CASE jobs' = JobSet(val[v].job, "running")
      <4> DEFINE st == "running"
      <4>1. st \in JobStatus \ {"none"} /\ jobs' = JobSet(val[v].job, st)  BY <3>2, <3>5
      <4> HIDE DEF st
      <4> QED  BY <1>d, <3>1, <4>1, JobSetRows
    <3> QED  BY <3>3, <3>4, <3>5
  <2>3. ValidationTypeOK' /\ ValInv' /\ handled' \subseteq Channels
    <3>1. CASE Follow(v, Malformed)  BY <1>a, <2>1, <3>1, FollowType, PlanTypes
    <3>2. CASE /\ val' = [val EXCEPT ![v].at = IF val[v].mark = 0 THEN "lookup" ELSE "gate"]
               /\ UNCHANGED handled
      BY <1>a, <1>d, <1>e, <2>1, <3>2
    <3> QED  BY <1>2, <3>1, <3>2 DEF Checkout
  <2>4. faults' \in 0..MaxFaults  BY <1>2, <1>a, FaultType DEF Checkout
  <2>5. StoreTypeOK' /\ UNCHANGED discovery
    BY <1>2, <1>a, <2>2, <2>3, <2>4 DEF Checkout, StoreTypeOK
  <2>6. JobInv' /\ SchedulerTypeOK' /\ SchedInv'  BY <1>a, <2>2, JobFrame, SchedulerFrame
  <2> QED  BY <1>a, <2>3, <2>5, <2>6, DiscoveryFrame DEF TypeInv, TypeOK
<1>3. CASE LookupMark(v)
  <2>1. ValAt(v, "lookup") /\ val[v].at # "idle"  BY <1>3 DEF LookupMark, ValAt
  <2>2. val[v].ch \in Channels  BY <1>c, <2>1
  <2>3. cache[val[v].ch]["name"] \in Mark \cup {NoMark} /\ leads[val[v].ch].mark \in Mark
    <3>1. leads[val[v].ch] \in LeadRow  BY <1>a, <2>2 DEF StoreTypeOK
    <3> QED  BY <1>a, <2>2, <3>1 DEF StoreTypeOK, Keys, LeadRow
  <2>4. \E m \in Mark, w \in {"cache", "gate"} :
          \/ val' = [val EXCEPT ![v].at = w]
          \/ val' = [val EXCEPT ![v].mark = m, ![v].at = w]
    <3> DEFINE m == IF cache[val[v].ch]["name"] # NoMark THEN cache[val[v].ch]["name"]
                    ELSE leads[val[v].ch].mark
               w == IF cache[val[v].ch]["name"] = NoMark /\ leads[val[v].ch].status # "none"
                    THEN "cache" ELSE "gate"
    <3>1. m \in Mark /\ w \in {"cache", "gate"}  BY <2>3
    <3>2. \/ val' = [val EXCEPT ![v].at = "gate"]
          \/ val' = [val EXCEPT ![v].mark = m, ![v].at = w]
      BY <1>3 DEF LookupMark
    <3> HIDE DEF m, w
    <3> QED  BY <3>1, <3>2
  <2>5. faults' \in 0..MaxFaults  BY <1>3, <1>a, FaultType DEF LookupMark
  <2>6. StoreTypeOK' /\ UNCHANGED <<jobs, discovery>>
    BY <1>3, <1>a, <2>5 DEF LookupMark, StoreTypeOK
  <2> QED  BY <1>b, <1>e, <2>1, <2>4, <2>6
<1>4. CASE CacheMark(v)
  <2>1. ValAt(v, "cache") /\ val[v].at # "idle"  BY <1>4 DEF CacheMark, ValAt
  <2>2. cache' \in [Channels -> [Keys -> Mark \cup {NoMark}]]
    BY <1>4, <1>a, <1>d DEF CacheMark, StoreTypeOK
  <2>3. StoreTypeOK' /\ UNCHANGED <<jobs, discovery>>
    BY <1>4, <1>a, <2>2 DEF CacheMark, StoreTypeOK
  <2>4. ValidationTypeOK' /\ ValInv'  BY <1>4, <1>d, <1>e, <2>1 DEF CacheMark
  <2> QED  BY <1>b, <2>3, <2>4
<1>5. CASE Gate(v)
  <2>1. ValAt(v, "gate") /\ Busy(v) /\ val[v].at # "idle"  BY <1>5 DEF Gate, ValAt, Busy
  <2>2. \/ Follow(v, Blacklisted) \/ Follow(v, BadSource) \/ Follow(v, InCoolDown)
        \/ val' = [val EXCEPT ![v].at = "inspect"] /\ UNCHANGED handled
    BY <1>5 DEF Gate
  <2>3. ValidationTypeOK' /\ ValInv' /\ handled' \subseteq Channels
    <3>1. CASE val' = [val EXCEPT ![v].at = "inspect"] /\ UNCHANGED handled
      BY <1>a, <1>d, <1>e, <2>1, <3>1
    <3>2. ASSUME NEW plan \in Seq(Writes), Follow(v, plan)
          PROVE  ValidationTypeOK' /\ ValInv' /\ handled' \subseteq Channels
      BY <1>a, <2>1, <3>2, FollowType
    <3> QED  BY <2>2, <3>1, <3>2, PlanTypes
  <2>4. StoreTypeOK' /\ UNCHANGED <<jobs, discovery>>
    BY <1>5, <1>a, <2>3 DEF Gate, StoreTypeOK
  <2> QED  BY <1>b, <2>3, <2>4
<1>6. CASE GiveUp(v)
  <2>1. val[v].ch \in Channels  BY <1>6, <1>c DEF GiveUp, ValAt
  <2>2. faults' \in 0..MaxFaults  BY <1>6, <1>a, FaultType DEF GiveUp
  <2>3. StoreTypeOK' /\ UNCHANGED <<jobs, discovery>>
    BY <1>6, <1>a, <2>1, <2>2 DEF GiveUp, StoreTypeOK
  <2>4. ValidationTypeOK' /\ ValInv'  BY <1>6, <1>a, Idle, ValMove DEF GiveUp
  <2> QED  BY <1>b, <2>3, <2>4
<1>7. ASSUME NEW plan \in Refused \cup FromWebPage \cup Failure, Dismiss(v, plan)  PROVE TypeInv'
  <2>1. Busy(v) /\ plan \in Seq(Writes)  BY <1>7, PlanTypes DEF Dismiss, ValAt, Busy
  <2>2. ValidationTypeOK' /\ ValInv' /\ handled' \subseteq Channels
    BY <1>7, <1>a, <2>1, FollowType DEF Dismiss
  <2>3. StoreTypeOK' /\ UNCHANGED <<jobs, discovery>>
    BY <1>7, <1>a, <2>2 DEF Dismiss, StoreTypeOK
  <2> QED  BY <1>b, <2>2, <2>3
<1>8. CASE WebPageFails(v)
  <2>1. val[v].ch \in Channels  BY <1>8, <1>c DEF WebPageFails, ValAt
  <2>2. leads \in [Channels -> LeadRow]  BY <1>a DEF StoreTypeOK
  <2>3. Stubbed(leads[val[v].ch]) \in LeadRow  BY <2>1, <2>2, LeadRows
  <2>4. leads' \in [Channels -> LeadRow]  BY <1>8, <2>2, <2>3 DEF WebPageFails
  <2>5. StoreTypeOK' /\ UNCHANGED <<jobs, discovery, val>>
    BY <1>8, <1>a, <2>4 DEF WebPageFails, StoreTypeOK
  <2> QED  BY <1>a, <1>b, <2>5, ValidationFrame
<1>f. ASSUME NEW m \in Mark, NEW l \in Mark, NEW t \in Mark, NEW ls \in SUBSET Channels,
             NEW plan \in Judged(m, l, t), val[v].at # "idle",
             val' = [val EXCEPT ![v] = Planned(v, plan, l, t, ls)]
      PROVE  ValidationTypeOK' /\ ValInv'
  <2>1. plan \in Seq(Writes) /\ plan # <<>>  BY JudgedType
  <2>2. /\ Planned(v, plan, l, t, ls) \in ValidatorState
        /\ Planned(v, plan, l, t, ls).plan = plan
        /\ Planned(v, plan, l, t, ls).ch = val[v].ch
    BY <1>a, <2>1, PlannedType
  <2> QED  BY <1>a, <1>c, <1>f, <2>1, <2>2, ValMove
<1>9. CASE FetchNothing(v)
  <2>1. val[v].at # "idle"  BY <1>9 DEF FetchNothing, ValAt
  <2>2. ValidationTypeOK' /\ ValInv'  BY <1>9, <1>d, <1>f, <2>1 DEF FetchNothing
  <2>3. faults' \in 0..MaxFaults  BY <1>9, <1>a, FaultType DEF FetchNothing
  <2>4. StoreTypeOK' /\ UNCHANGED <<jobs, discovery>>
    BY <1>9, <1>a, <2>3 DEF FetchNothing, StoreTypeOK
  <2> QED  BY <1>b, <2>2, <2>4
<1>10. ASSUME NEW budget \in Budgets, Fetch(v, budget)  PROVE TypeInv'
  <2>1. val[v].at # "idle"  BY <1>10 DEF Fetch, ValAt
  <2> DEFINE t == Higher(posts[val[v].ch], val[v].mark)
             l == Higher(t - budget, val[v].mark)
             ls == setup.links[val[v].ch]
  <2>2. PICK plan \in Judged(val[v].mark, l, t) :
          val' = [val EXCEPT ![v] = Planned(v, plan, l, t, ls)]
    BY <1>10 DEF Fetch
  <2>3. posts[val[v].ch] \in Mark /\ ls \in SUBSET Channels
    BY <1>a, <1>c, <2>1, SettingType DEF StoreTypeOK
  <2>4. t \in Mark /\ l \in Mark
    <3>1. budget \in Nat /\ MaxPosts \in Nat  BY StoreAssumption
    <3> QED  BY <1>d, <2>3, <3>1 DEF Higher, Mark
  <2> HIDE DEF t, l, ls
  <2>5. ValidationTypeOK' /\ ValInv'  BY <1>d, <1>f, <2>1, <2>2, <2>3, <2>4
  <2>6. StoreTypeOK' /\ UNCHANGED <<jobs, discovery>>
    BY <1>10, <1>a DEF Fetch, store, StoreTypeOK
  <2> QED  BY <1>b, <2>5, <2>6
<1> QED  BY <1>1, <1>2, <1>3, <1>4, <1>5, <1>6, <1>7, <1>8, <1>9, <1>10

\* The writes that end in Done or Follow, and change leads, blacklist, read, cut,
\* badGroups or cache; `discovery` and jobs stay.
LEMMA WriteType ==
  ASSUME TypeInv, NEW v \in Validators, UNCHANGED sched,
         \/ Blacklist(v) \/ Upsert(v) \/ Stub(v) \/ Extracted(v) \/ Shun(v) \/ Save(v)
         \/ AdvanceMark(v) \/ CacheAdvanced(v) \/ CoolOff(v) \/ Log(v)
  PROVE  TypeInv'
<1>a. /\ StoreTypeOK /\ SchedulerTypeOK /\ SchedInv /\ JobInv
      /\ DiscoveryTypeOK /\ HandInv /\ ValidationTypeOK /\ ValInv
      /\ handled \subseteq Channels /\ leads \in [Channels -> LeadRow]
  BY ValFacts DEF StoreTypeOK
<1>b. ASSUME StoreTypeOK', UNCHANGED jobs, UNCHANGED discovery, ValidationTypeOK' /\ ValInv'
      PROVE  TypeInv'
  BY <1>a, <1>b, JobFrame, SchedulerFrame, DiscoveryFrame DEF TypeInv, TypeOK
<1>c. ValAt(v, "writes") /\ Done(v)
  BY DEF Blacklist, Upsert, Stub, Extracted, Shun, Save, AdvanceMark, CacheAdvanced, CacheSet,
         CoolOff, Log, Now
<1>d. /\ val[v].ch \in Channels /\ val[v].mark \in Mark /\ val[v].low \in Mark
      /\ val[v].top \in Mark
  BY <1>c, ValFacts DEF ValAt
<1>e. ValidationTypeOK' /\ ValInv' /\ handled' \subseteq Channels  BY <1>a, <1>c, DoneType
<1>f. ASSUME NEW row \in LeadRow, leads' = [leads EXCEPT ![val[v].ch] = row]
      PROVE  leads' \in [Channels -> LeadRow]
  BY <1>a, <1>f
<1>g. leads[val[v].ch] \in LeadRow  BY <1>a, <1>d
<1> USE DEF database, redis, marks, observed
<1>1. CASE Blacklist(v)
  <2>1. leads' \in [Channels -> LeadRow]
    <3>1. Rejected(leads[val[v].ch]) \in LeadRow  BY <1>g, LeadRows
    <3> QED  BY <1>1, <1>f, <3>1 DEF Blacklist
  <2>2. StoreTypeOK' /\ UNCHANGED <<jobs, discovery>>
    BY <1>1, <1>a, <1>d, <1>e, <2>1 DEF Blacklist, StoreTypeOK
  <2> QED  BY <1>b, <1>e, <2>2
<1>2. CASE Upsert(v)
  <2>1. leads' \in [Channels -> LeadRow]
    <3>1. /\ Upserted(leads[val[v].ch], "new") \in LeadRow
          /\ Upserted(leads[val[v].ch], "rejected") \in LeadRow
      BY <1>g, LeadRows
    <3>2. \/ leads' = [leads EXCEPT ![val[v].ch] = Upserted(leads[val[v].ch], "new")]
          \/ leads' = [leads EXCEPT ![val[v].ch] = Upserted(leads[val[v].ch], "rejected")]
      BY <1>2, <1>a, <1>d DEF Upsert
    <3> QED  BY <1>f, <3>1, <3>2
  <2>2. StoreTypeOK' /\ UNCHANGED <<jobs, discovery>>
    BY <1>2, <1>a, <1>e, <2>1 DEF Upsert, StoreTypeOK
  <2> QED  BY <1>b, <1>e, <2>2
<1>3. CASE Stub(v)
  <2>1. leads' \in [Channels -> LeadRow]
    <3>1. Stubbed(leads[val[v].ch]) \in LeadRow  BY <1>g, LeadRows
    <3> QED  BY <1>3, <1>f, <3>1 DEF Stub
  <2>2. StoreTypeOK' /\ UNCHANGED <<jobs, discovery>>
    BY <1>3, <1>a, <1>e, <2>1 DEF Stub, StoreTypeOK
  <2> QED  BY <1>b, <1>e, <2>2
<1>4. CASE Extracted(v)
  <2>1. StoreTypeOK' /\ UNCHANGED <<jobs, discovery>>
    BY <1>4, <1>a, <1>e DEF Extracted, StoreTypeOK
  <2> QED  BY <1>b, <1>e, <2>1
<1>5. CASE Shun(v)
  <2>1. StoreTypeOK' /\ UNCHANGED <<jobs, discovery>>
    BY <1>5, <1>a, <1>d, <1>e DEF Shun, StoreTypeOK
  <2> QED  BY <1>b, <1>e, <2>1
<1>6. CASE Save(v)
  <2> PICK status \in {"new", "rejected"} :
        leads' = [leads EXCEPT ![val[v].ch] = [Upserted(@, status) EXCEPT !.due = FALSE]]
    BY <1>6 DEF Save
  <2>1. leads' \in [Channels -> LeadRow]
    <3> DEFINE row == [Upserted(leads[val[v].ch], status) EXCEPT !.due = FALSE]
    <3>1. row \in LeadRow  BY <1>g, LeadRows
    <3>2. leads' = [leads EXCEPT ![val[v].ch] = row]  BY <1>a, <1>d
    <3> HIDE DEF row
    <3> QED  BY <1>f, <3>1, <3>2
  <2>2. /\ (val[v].low + 1)..val[v].top \subseteq 1..MaxPosts
        /\ (val[v].mark + 1)..val[v].low \subseteq 1..MaxPosts
    BY <1>d, Constants DEF Mark
  <2>3. /\ read' \in [Channels -> SUBSET (1..MaxPosts)]
        /\ cut' \in [Channels -> SUBSET (1..MaxPosts)]
    <3>1. /\ read' = [read EXCEPT ![val[v].ch] = @ \cup ((val[v].low + 1)..val[v].top)]
          /\ cut' = [cut EXCEPT ![val[v].ch] = @ \cup ((val[v].mark + 1)..val[v].low)]
      BY <1>6 DEF Save
    <3>2. /\ read \in [Channels -> SUBSET (1..MaxPosts)]
          /\ cut \in [Channels -> SUBSET (1..MaxPosts)]
      BY <1>a DEF StoreTypeOK
    <3> QED  BY <1>d, <2>2, <3>1, <3>2
  <2>4. StoreTypeOK' /\ UNCHANGED <<jobs, discovery>>
    BY <1>6, <1>a, <1>e, <2>1, <2>3 DEF Save, StoreTypeOK
  <2> QED  BY <1>b, <1>e, <2>4
<1>7. CASE AdvanceMark(v)
  <2>1. leads' \in [Channels -> LeadRow]
    <3> DEFINE row == [leads[val[v].ch] EXCEPT !.mark = Higher(@, val[v].top)]
    <3>1. row \in LeadRow  BY <1>d, <1>g, LeadRows
    <3>2. leads' = [leads EXCEPT ![val[v].ch] = row] \/ UNCHANGED leads
      BY <1>7, <1>a, <1>d DEF AdvanceMark
    <3> HIDE DEF row
    <3> QED  BY <1>a, <1>f, <3>1, <3>2
  <2>2. faults' \in 0..MaxFaults  BY <1>7, <1>a, FaultType DEF AdvanceMark
  <2>3. StoreTypeOK' /\ UNCHANGED <<jobs, discovery>>
    BY <1>7, <1>a, <1>e, <2>1, <2>2 DEF AdvanceMark, StoreTypeOK
  <2> QED  BY <1>b, <1>e, <2>3
<1>8. ASSUME NEW what, NEW k \in Keys, NEW m \in Mark, CacheSet(v, what, k, m)  PROVE TypeInv'
  <2>1. cache' \in [Channels -> [Keys -> Mark \cup {NoMark}]]
    <3>1. cache \in [Channels -> [Keys -> Mark \cup {NoMark}]]  BY <1>a DEF StoreTypeOK
    <3>2. cache' = cache \/ cache' = [cache EXCEPT ![val[v].ch][k] = m]
      BY <1>8 DEF CacheSet
    <3> QED  BY <1>d, <3>1, <3>2
  <2>2. faults' \in 0..MaxFaults  BY <1>8, <1>a, FaultType DEF CacheSet
  <2>3. StoreTypeOK' /\ UNCHANGED <<jobs, discovery>>
    BY <1>8, <1>a, <1>e, <2>1, <2>2 DEF CacheSet, StoreTypeOK
  <2> QED  BY <1>b, <1>e, <2>3
<1>9. CASE CoolOff(v)
  <2>1. leads' \in [Channels -> LeadRow]
    <3> DEFINE row == [leads[val[v].ch] EXCEPT !.scanned = leads[val[v].ch].status # "none"]
    <3>1. (leads[val[v].ch].status # "none") \in BOOLEAN  OBVIOUS
    <3>2. row \in LeadRow  BY <1>g, <3>1, LeadRows
    <3>3. leads' = [leads EXCEPT ![val[v].ch] = row]  BY <1>9, <1>a, <1>d DEF CoolOff
    <3> HIDE DEF row
    <3> QED  BY <1>f, <3>2, <3>3
  <2>2. StoreTypeOK' /\ UNCHANGED <<jobs, discovery>>
    BY <1>9, <1>a, <1>e, <2>1 DEF CoolOff, StoreTypeOK
  <2> QED  BY <1>b, <1>e, <2>2
<1>10. CASE Log(v)
  <2>1. StoreTypeOK' /\ UNCHANGED <<jobs, discovery>>  BY <1>10, <1>a, <1>e DEF Log, StoreTypeOK
  <2> QED  BY <1>b, <1>e, <2>1
<1>11. CASE CacheAdvanced(v)  BY <1>8, <1>11, <1>d DEF CacheAdvanced, Keys
<1> QED  BY <1>1, <1>2, <1>3, <1>4, <1>5, <1>6, <1>7, <1>9, <1>10, <1>11

\* The save that fails: the posts fetched are noted as lost.
LEMMA SaveFailsType ==
  ASSUME TypeInv, NEW v \in Validators, UNCHANGED sched, SaveFails(v)
  PROVE  TypeInv'
<1>a. /\ StoreTypeOK /\ SchedulerTypeOK /\ SchedInv /\ JobInv
      /\ DiscoveryTypeOK /\ HandInv /\ ValidationTypeOK /\ ValInv
      /\ val \in [Validators -> ValidatorState] /\ val[v] \in ValidatorState
      /\ val[v].mark \in Mark /\ val[v].top \in Mark
      /\ unsaved \in [Channels -> SUBSET (1..MaxPosts)]
  BY ValFacts DEF StoreTypeOK
<1>b. val[v].at # "idle"  BY DEF SaveFails, Now, ValAt
<1>c. val[v].ch \in Channels /\ val[v].ch # None  BY <1>b, ValFacts, Constants
<1>1. ValidationTypeOK' /\ ValInv'
  <2> DEFINE r == [val[v] EXCEPT !.plan = Unsaved]
  <2>1. Unsaved \in Seq(Writes) /\ Unsaved # <<>>  BY PlanTypes
  <2>2. r \in ValidatorState /\ r.ch = val[v].ch /\ r.plan = Unsaved
    BY <1>a, <2>1 DEF ValidatorState
  <2>3. val' = [val EXCEPT ![v] = r]  BY <1>a DEF SaveFails
  <2> HIDE DEF r
  <2> QED  BY <1>a, <1>c, <2>1, <2>2, <2>3, ValMove
<1>2. unsaved' \in [Channels -> SUBSET (1..MaxPosts)]
  <2>1. (val[v].mark + 1)..val[v].top \subseteq 1..MaxPosts  BY <1>a, Constants DEF Mark
  <2>2. unsaved' = [unsaved EXCEPT ![val[v].ch] = @ \cup ((val[v].mark + 1)..val[v].top)]
    BY DEF SaveFails
  <2> QED  BY <1>a, <1>c, <2>1, <2>2
<1>3. faults' \in 0..MaxFaults  BY <1>a, FaultType DEF SaveFails
<1>4. StoreTypeOK' /\ UNCHANGED <<jobs, discovery>>
  BY <1>a, <1>2, <1>3 DEF SaveFails, StoreTypeOK, database, redis, marks
<1> QED
  BY <1>a, <1>1, <1>4, JobFrame, SchedulerFrame, DiscoveryFrame DEF TypeInv, TypeOK

\* What is left of a plan after a report that failed.
LEMMA AfterReportType ==
  ASSUME NEW plan \in Seq(Writes), plan # <<>>  PROVE AfterReport(plan) \in Seq(Writes)
<1>1. Tail(plan) \in Seq(Writes)  BY HeadTailProperties
<1>2. <<>> \in Seq(Writes) /\ <<"log">> \in Seq(Writes)  BY DEF Writes
<1> QED  BY <1>1, <1>2 DEF AfterReport

\* The other steps of a validator that has a plan.
LEMMA PlanType ==
  ASSUME TypeInv, NEW v \in Validators, UNCHANGED sched,
         \/ \E c \in Channels, way \in {"scan", "forward"} : Extract(v, c, way)
         \/ CloseJob(v) \/ (\E plan \in Failure : Raise(v, plan)) \/ ValidatorCrash(v)
  PROVE  TypeInv'
<1>a. /\ StoreTypeOK /\ SchedulerTypeOK /\ SchedInv /\ JobInv
      /\ DiscoveryTypeOK /\ HandInv /\ ValidationTypeOK /\ ValInv
      /\ handled \subseteq Channels /\ v \in Processes
      /\ val \in [Validators -> ValidatorState] /\ val[v] \in ValidatorState
  BY ValFacts DEF StoreTypeOK
<1>b. val[v].at # "idle"  BY DEF Extract, CloseJob, Raise, ValidatorCrash, Now, ValAt, Busy
<1>c. val[v].ch \in Channels /\ val[v].ch # None /\ Busy(v)  BY <1>b, ValFacts, Constants
<1>d. ~Empty(v) => hand[v].ch \in Channels  BY <1>a DEF HandInv, DiscoveryTypeOK, HandState
<1> USE DEF database, redis, marks, observed
<1>1. ASSUME NEW c \in Channels, NEW way \in {"scan", "forward"}, Extract(v, c, way)  PROVE TypeInv'
  <2> DEFINE r == [val[v] EXCEPT !.links = @ \ {c}]
             h == HandOf(way, c, val[v].ch)
  <2>1. ValAt(v, "writes") /\ val[v].plan # <<>>
    BY <1>1, ValFacts DEF Extract, Now, ValAt
  <2>2. r \in ValidatorState /\ r.ch = val[v].ch /\ r.plan = val[v].plan
    BY <1>a DEF ValidatorState
  <2>3. val' = [val EXCEPT ![v] = r]  BY <1>1, <1>a DEF Extract
  <2>4. way \in Ways /\ c # None  BY Constants DEF Ways
  <2>5. h \in HandState /\ h.way = way /\ h.ch = c /\ h.step = 1
    BY <1>c, <2>4 DEF HandOf, HandState
  <2>6. 1 \in 1..Len(Route[way])  BY <2>4, RouteLength, RouteSteps
  <2>7. hand' = [hand EXCEPT ![v] = h] /\ UNCHANGED <<store, marked>>  BY <1>1 DEF Extract
  <2> HIDE DEF r, h
  <2>8. ValidationTypeOK' /\ ValInv'  BY <1>a, <1>c, <2>1, <2>2, <2>3, ValMove
  <2>9. DiscoveryTypeOK' /\ HandInv'  BY <1>a, <2>4, <2>5, <2>6, <2>7, HandMove
  <2>10. StoreTypeOK' /\ UNCHANGED jobs  BY <1>a, <2>7 DEF store, StoreTypeOK
  <2> QED  BY <1>a, <2>8, <2>9, <2>10, JobFrame, SchedulerFrame DEF TypeInv, TypeOK
<1>2. CASE CloseJob(v)
  <2>1. ValAt(v, "writes")  BY <1>2 DEF CloseJob, Now
  <2>2. val[v].plan \in Seq(Writes) /\ val[v].plan # <<>> /\ val[v].job \in Jobs \cup {None}
    BY <2>1, ValFacts DEF ValAt
  <2>3. AfterReport(val[v].plan) \in Seq(Writes)  BY <2>2, AfterReportType
  <2>4. ValidationTypeOK' /\ ValInv' /\ handled' \subseteq Channels
    <3>1. Done(v) \/ Follow(v, AfterReport(val[v].plan))  BY <1>2 DEF CloseJob
    <3> QED  BY <1>a, <1>c, <2>1, <2>3, <3>1, DoneType, FollowType
  <2>5. /\ jobs' \in [Jobs -> JobRow]
        /\ \A k \in Jobs : /\ jobs'[k].channel = jobs[k].channel
                           /\ jobs'[k].queue = jobs[k].queue
                           /\ jobs[k].status # "none" <=> jobs'[k].status # "none"
    <3>1. jobs \in [Jobs -> JobRow]  BY <1>a DEF StoreTypeOK
    <3>2. PICK st \in {"completed", "failed"} :
            jobs' = JobSet(val[v].job, st) \/ jobs' = jobs
      BY <1>2 DEF CloseJob
    <3>3. st \in JobStatus \ {"none"}  BY DEF JobStatus
    <3>4. CASE jobs' = jobs  BY <3>1, <3>4
    <3>5. CASE jobs' = JobSet(val[v].job, st)  BY <2>2, <3>1, <3>3, <3>5, JobSetRows
    <3> QED  BY <3>2, <3>4, <3>5
  <2>6. faults' \in 0..MaxFaults  BY <1>2, <1>a, FaultType DEF CloseJob
  <2>7. StoreTypeOK' /\ UNCHANGED discovery
    BY <1>2, <1>a, <2>4, <2>5, <2>6 DEF CloseJob, StoreTypeOK
  <2>8. JobInv' /\ SchedulerTypeOK' /\ SchedInv'  BY <1>a, <2>5, JobFrame, SchedulerFrame
  <2> QED  BY <1>a, <2>4, <2>7, <2>8, DiscoveryFrame DEF TypeInv, TypeOK
<1>e. ASSUME dropped' \subseteq Channels, LetGo(v), Fault, ValidationTypeOK' /\ ValInv',
             UNCHANGED <<setup, database, redis, posts, read, cut, unsaved, pushes, handled, lapsed,
                         redisFailed, marked>>
      PROVE  TypeInv'
  <2>1. faults' \in 0..MaxFaults  BY <1>a, <1>e, FaultType
  <2>2. StoreTypeOK' /\ UNCHANGED jobs  BY <1>a, <1>e, <2>1 DEF StoreTypeOK
  <2>3. DiscoveryTypeOK' /\ HandInv'  BY <1>a, <1>e, HandLetGo
  <2> QED  BY <1>a, <1>e, <2>2, <2>3, JobFrame, SchedulerFrame DEF TypeInv, TypeOK
<1>f. dropped \subseteq Channels  BY <1>a DEF StoreTypeOK
<1>3. ASSUME NEW plan \in Failure, Raise(v, plan)  PROVE TypeInv'
  <2>1. plan \in Seq(Writes) /\ plan # <<>> /\ 0 \in Mark  BY PlanTypes, Constants DEF Mark
  <2>2. /\ Planned(v, plan, 0, 0, {}) \in ValidatorState
        /\ Planned(v, plan, 0, 0, {}).plan = plan
        /\ Planned(v, plan, 0, 0, {}).ch = val[v].ch
    BY <1>a, <2>1, PlannedType
  <2>3. ValidationTypeOK' /\ ValInv'  BY <1>3, <1>a, <1>c, <2>1, <2>2, ValMove DEF Raise
  <2>4. dropped' \subseteq Channels  BY <1>3, <1>d, <1>f DEF Raise, Claimed
  <2> QED  BY <1>3, <1>e, <2>3, <2>4 DEF Raise
<1>4. CASE ValidatorCrash(v)
  <2>1. ValidationTypeOK' /\ ValInv'  BY <1>4, <1>a, Idle, ValMove DEF ValidatorCrash
  <2>2. dropped' \subseteq Channels  BY <1>4, <1>c, <1>d, <1>f DEF ValidatorCrash, Claimed
  <2> QED  BY <1>4, <1>e, <2>1, <2>2 DEF ValidatorCrash
<1> QED  BY <1>1, <1>2, <1>3, <1>4

\* Every step keeps the types.
LEMMA NextType == TypeInv /\ [Next]_vars => TypeInv'
<1> SUFFICES ASSUME TypeInv, [Next]_vars PROVE TypeInv'  OBVIOUS
<1>1. ASSUME NEW s \in Schedulers, Scheduling(s)  PROVE TypeInv'
  BY <1>1, ReconcilerType, SchedulingType DEF Scheduling, SchedulerStep
<1>2. ASSUME NEW p \in Producers, Discovering(p)  PROVE TypeInv'
  BY <1>2, DiscoveryType DEF Discovering
<1>3. CASE Seeding  BY <1>3, DiscoveryType DEF Seeding
<1>4. ASSUME NEW v \in Validators, Validating(v)  PROVE TypeInv'
  <2>1. CASE HandStep(v) /\ UNCHANGED val
    BY <1>4, <2>1, HandType, Constants DEF Validating
  <2>2. CASE ~(HandStep(v) /\ UNCHANGED val)
    BY <1>4, <2>2, InspectionType, WriteType, SaveFailsType, PlanType
    DEF Validating, ValidatorStep
  <2> QED  BY <2>1, <2>2
<1>5. CASE Elapsing  BY <1>5, StoreType, LeaderType, DiscoveryType DEF Elapsing, discovery
<1>6. CASE UNCHANGED vars
  <2> USE <1>6 DEF vars, store, database, redis, marks, observed
  <2>1. StoreTypeOK'  BY DEF TypeInv, TypeOK, StoreTypeOK
  <2>2. UNCHANGED <<jobs, sched, discovery, val>>  BY DEF discovery
  <2> QED  BY <2>1, <2>2, JobFrame, SchedulerFrame, DiscoveryFrame, ValidationFrame
           DEF TypeInv, TypeOK
<1> QED  BY <1>1, <1>2, <1>3, <1>4, <1>5, <1>6 DEF Next

LEMMA TypesHold == Spec => []TypeInv
BY InitType, NextType, PTL DEF Spec

\* Every variable keeps its type, whatever the settings are.
THEOREM TypeCorrect == Spec => []TypeOK
BY TypesHold, PTL DEF TypeInv

-----------------------------------------------------------------------------
(* One scheduler at a time: who is in a cycle holds the lock.                *)

LeaderInv == ~lapsed => \A s \in Schedulers : InCycle(s) => leader = s

\* What a step of s leaves alone.
LEMMA SchedulerLocal ==
  ASSUME SchedulerTypeOK, NEW s \in Schedulers, SchedulerStep(s, Fresh)
  PROVE  /\ \A t \in Schedulers \ {s} : sched'[t] = sched[t]
         /\ AcquireLeaderLock(s) \/ InCycle(s)
         /\ AcquireLeaderLock(s) \/ ReleaseLeaderLock(s) \/ UNCHANGED leader
         /\ AcquireLeaderLock(s) \/ UNCHANGED lapsed
<1> sched \in [Schedulers -> SchedulerState]  BY DEF SchedulerTypeOK
<1> USE DEF database, redis, marks, observed, Goto, NextDue, NextStuck, At, InCycle
<1>1. CASE AcquireLeaderLock(s) \/ ReleaseLeaderLock(s) \/ SchedulerCrash(s)
  BY <1>1 DEF AcquireLeaderLock, ReleaseLeaderLock, SchedulerCrash
<1>2. CASE SelectStuckJobs(s) \/ RepushJob(s) \/ RepushFails(s)
  BY <1>2 DEF SelectStuckJobs, RepushJob, RepushFails
<1>3. CASE RequeueJob(s) \/ ReadvanceLead(s) \/ FailStaleJobs(s) \/ CheckPressure(s)
  BY <1>3 DEF RequeueJob, ReadvanceLead, FailStaleJobs, CheckPressure, store
<1>4. CASE SelectDueChannels(s, Fresh)  BY <1>4 DEF SelectDueChannels
<1>5. CASE ScheduleChannel(s) \/ FillCache(s)  BY <1>5 DEF ScheduleChannel, FillCache, store
<1>6. CASE \E q \in Tiers : InsertJob(s, q, Fresh)  BY <1>6 DEF InsertJob
<1>7. CASE \E q \in Tiers : PushJob(s, q)  BY <1>7 DEF PushJob
<1>8. CASE PushFails(s) \/ MarkQueued(s)  BY <1>8 DEF PushFails, MarkQueued
<1>9. CASE AdvanceLead(s) \/ MarkEnqueueFailed(s)  BY <1>9 DEF AdvanceLead, MarkEnqueueFailed
<1> QED  BY <1>1, <1>2, <1>3, <1>4, <1>5, <1>6, <1>7, <1>8, <1>9 DEF SchedulerStep

\* The lock and the schedulers are nobody else's business.
LEMMA LeaderLocal ==
  ASSUME Next
  PROVE  \/ \E s \in Schedulers : Scheduling(s)
         \/ LeaderExpires
         \/ UNCHANGED <<sched, leader, lapsed>>
<1> USE DEF database, redis, marks, observed, store
<1>1. ASSUME NEW p, HandStep(p)  PROVE UNCHANGED <<leader, lapsed>>
  BY <1>1 DEF HandStep, CheckSeen, ClaimSeen, CountFirst, Tally, Reserve, PushLink, StubLink
<1>2. ASSUME NEW p, DiscoveryStep(p)  PROVE UNCHANGED <<leader, lapsed>>
  BY <1>1, <1>2 DEF DiscoveryStep, FindLink, LoseLink
<1>3. ASSUME SeedStep  PROVE UNCHANGED <<leader, lapsed>>
  BY <1>3 DEF SeedStep, EnqueueSeed, SeedFault
<1>4. ASSUME NEW v, ValidatorStep(v)  PROVE UNCHANGED <<leader, lapsed>>
  <2>1. CASE Pop(v) \/ Checkout(v) \/ LookupMark(v) \/ CacheMark(v) \/ Gate(v) \/ GiveUp(v)
    BY <2>1 DEF Pop, Checkout, LookupMark, CacheMark, Gate, GiveUp
  <2>2. CASE \/ \E plan \in Refused \cup FromWebPage \cup Failure : Dismiss(v, plan)
             \/ WebPageFails(v) \/ FetchNothing(v) \/ \E budget \in Budgets : Fetch(v, budget)
    BY <2>2 DEF Dismiss, WebPageFails, FetchNothing, Fetch
  <2>3. CASE Blacklist(v) \/ Upsert(v) \/ Stub(v) \/ Extracted(v) \/ Shun(v) \/ Save(v)
             \/ SaveFails(v)
    BY <2>3 DEF Blacklist, Upsert, Stub, Extracted, Shun, Save, SaveFails
  <2>4. CASE AdvanceMark(v) \/ CacheAdvanced(v) \/ CoolOff(v) \/ Log(v) \/ CloseJob(v)
    BY <2>4 DEF AdvanceMark, CacheAdvanced, CacheSet, CoolOff, Log, CloseJob
  <2>5. CASE \/ \E c \in Channels, way \in {"scan", "forward"} : Extract(v, c, way)
             \/ (\E plan \in Failure : Raise(v, plan)) \/ ValidatorCrash(v)
    BY <2>5 DEF Extract, Raise, ValidatorCrash
  <2> QED  BY <1>1, <1>4, <2>1, <2>2, <2>3, <2>4, <2>5 DEF ValidatorStep
<1>5. ASSUME Elapsing, ~LeaderExpires  PROVE UNCHANGED <<sched, leader, lapsed>>
  BY <1>5 DEF Elapsing, StoreNext, Post, FallDue, AgeJob, RunOverdue, CacheExpires,
              ReserveExpires, CountExpires
<1> QED  BY <1>2, <1>3, <1>4, <1>5 DEF Next, Discovering, Seeding, Validating

LEMMA LeaderStep == TypeInv /\ LeaderInv /\ [Next]_vars => LeaderInv'
<1> SUFFICES ASSUME TypeInv, LeaderInv, [Next]_vars PROVE LeaderInv'  OBVIOUS
<1>a. SchedulerTypeOK /\ sched \in [Schedulers -> SchedulerState] /\ lapsed \in BOOLEAN
  BY DEF TypeInv, TypeOK, SchedulerTypeOK, StoreTypeOK
<1>b. \A s \in Schedulers : s # None  BY Constants
<1>1. ASSUME NEW s \in Schedulers, Scheduling(s)  PROVE LeaderInv'
  <2>a. SchedulerStep(s, Fresh)  BY <1>1 DEF Scheduling
  <2>b. \A t \in Schedulers \ {s} : InCycle(t)' <=> InCycle(t)
    BY <1>a, <2>a, SchedulerLocal DEF InCycle
  <2>1. CASE AcquireLeaderLock(s)
    BY <1>b, <2>1, <2>b DEF AcquireLeaderLock, LeaderInv
  <2>2. CASE ReleaseLeaderLock(s)
    <3>1. ~InCycle(s)'  BY <1>a, <2>2 DEF ReleaseLeaderLock, Goto, InCycle
    <3>2. InCycle(s) /\ UNCHANGED lapsed
      BY <2>2 DEF ReleaseLeaderLock, At, InCycle, observed
    <3>3. leader' = leader \/ leader' = None  BY <2>2 DEF ReleaseLeaderLock
    <3> QED  BY <2>b, <3>1, <3>2, <3>3 DEF LeaderInv
  <2>3. CASE ~AcquireLeaderLock(s) /\ ~ReleaseLeaderLock(s)
    <3>1. InCycle(s) /\ UNCHANGED <<leader, lapsed>>  BY <1>a, <2>a, <2>3, SchedulerLocal
    <3> QED  BY <2>b, <3>1 DEF LeaderInv
  <2> QED  BY <2>1, <2>2, <2>3
<1>2. CASE LeaderExpires  BY <1>2 DEF LeaderExpires, LeaderInv, InCycle
<1>3. CASE UNCHANGED <<sched, leader, lapsed>>  BY <1>3 DEF LeaderInv, InCycle
<1>4. CASE UNCHANGED vars
  <2>1. UNCHANGED <<sched, leader, lapsed>>  BY <1>4 DEF vars, store, redis, observed
  <2> QED  BY <1>3, <2>1
<1> QED  BY <1>1, <1>2, <1>3, <1>4, LeaderLocal

\* "Guarantees only ONE scheduler instance executes cycles at any given time"
\* (priority_scheduler.py), however many loops there are: as long as no cycle outlives
\* its lock and no SET of the lock raises.
THEOREM OneLeader == Spec => []OneLeaderUntilLapse
<1>1. Init => LeaderInv
  BY DEF Init, SchedulerInit, LeaderInv, InCycle, IdleScheduler
<1>2. LeaderInv => OneLeaderUntilLapse  BY DEF LeaderInv, OneLeaderUntilLapse
<1> QED  BY <1>1, <1>2, TypesHold, LeaderStep, PTL DEF Spec

-----------------------------------------------------------------------------
(* No post is passed over: everything under a watermark, wherever the        *)
(* watermark is, was read into a saved lead, cut off or lost with a save     *)
(* that failed; and a plan saves, or has tried to, before it moves a         *)
(* watermark on.                                                             *)

Covered(c, m) == Upto(m) \subseteq read[c] \cup cut[c] \cup unsaved[c]

\* The writes that store the top of the fetched posts.
TopWrites == {"advance", "cacheId", "cacheName"}
SaveFirst(plan) == \A i \in 1..Len(plan) : plan[i] \in TopWrites =>
                     \E k \in 1..(i - 1) : plan[k] = "save"

LeadMarks  == \A c \in Channels : Covered(c, leads[c].mark)
CacheMarks == \A c \in Channels, k \in Keys : Covered(c, cache[c][k])
JobMarks   == \A j \in Jobs : jobs[j].channel \in Channels => Covered(jobs[j].channel, jobs[j].mark)
QueueMarks == \A q \in QueueNames : \A i \in 1..Len(queues[q]) :
                Covered(queues[q][i].channel, queues[q][i].mark)

\* The record r of a scheduler, and that of a validator.
SchedMarked(r) == /\ r.channel \in Channels => Covered(r.channel, r.mark)
                  /\ \A d \in r.todo : Covered(d.channel, d.mark)
ValMarked(r) == /\ r.ch \in Channels => Covered(r.ch, r.mark)
                /\ r.at = "writes" => SaveFirst(r.plan) \/ Covered(r.ch, r.top)

SchedMarks == \A s \in Schedulers : SchedMarked(sched[s])
ValMarks   == \A v \in Validators : ValMarked(val[v])

MarkInv == LeadMarks /\ CacheMarks /\ JobMarks /\ QueueMarks /\ SchedMarks /\ ValMarks

\* What is covered stays so.
LEMMA CoveredStays ==
  ASSUME \A c \in Channels : /\ read[c] \subseteq read'[c] /\ cut[c] \subseteq cut'[c]
                             /\ unsaved[c] \subseteq unsaved'[c]
  PROVE  \A c \in Channels : \A m : Covered(c, m) => Covered(c, m)'
BY DEF Covered, Upto

\* The rows of leads keep their watermarks.
LEMMA LeadMarkRows ==
  ASSUME NEW row \in LeadRow
  PROVE  /\ \A st \in {"new", "rejected"} :
              /\ Upserted(row, st).mark = row.mark
              /\ [Upserted(row, st) EXCEPT !.due = FALSE].mark = row.mark
         /\ Stubbed(row).mark = row.mark /\ Rejected(row).mark = row.mark
         /\ \A b : [row EXCEPT !.due = b].mark = row.mark
         /\ \A b : [row EXCEPT !.scanned = b].mark = row.mark
BY DEF LeadRow, Upserted, Stubbed, Rejected

LEMMA LeadMarksKept ==
  ASSUME TypeInv, MarkInv, UNCHANGED <<read, cut, unsaved>>, \A c \in Channels : leads'[c].mark = leads[c].mark
  PROVE  LeadMarks'
BY DEF MarkInv, LeadMarks, Covered

LEMMA CacheMarksKept ==
  ASSUME MarkInv, UNCHANGED <<read, cut, unsaved, cache>>  PROVE CacheMarks'
BY DEF MarkInv, CacheMarks, Covered

LEMMA JobMarksKept ==
  ASSUME MarkInv, UNCHANGED <<read, cut, unsaved>>,
         \A j \in Jobs : jobs'[j].channel = jobs[j].channel /\ jobs'[j].mark = jobs[j].mark
  PROVE  JobMarks'
BY DEF MarkInv, JobMarks, Covered

LEMMA QueueMarksKept ==
  ASSUME MarkInv, UNCHANGED <<read, cut, unsaved, queues>>  PROVE QueueMarks'
BY DEF MarkInv, QueueMarks, Covered

LEMMA SchedMarksKept ==
  ASSUME MarkInv, UNCHANGED <<read, cut, unsaved, sched>>  PROVE SchedMarks'
BY DEF MarkInv, SchedMarks, SchedMarked, Covered

LEMMA ValMarksKept ==
  ASSUME MarkInv, UNCHANGED <<read, cut, unsaved, val>>  PROVE ValMarks'
BY DEF MarkInv, ValMarks, ValMarked, Covered

\* A covered watermark is queued, or an entry is taken out.
LEMMA QueueMarksPush ==
  ASSUME TypeInv, MarkInv, UNCHANGED <<read, cut, unsaved>>, NEW q \in QueueNames, NEW p \in Payload,
         Covered(p.channel, p.mark), PushLeft(q, p) \/ PushRight(q, p)
  PROVE  QueueMarks'
<1>1. queues \in [QueueNames -> Seq(Payload)] /\ queues[q] \in Seq(Payload)
  BY DEF TypeInv, TypeOK, StoreTypeOK
<1>2. \A i \in 1..Len(queues[q]) : Covered(queues[q][i].channel, queues[q][i].mark)
  BY DEF MarkInv, QueueMarks
<1>3. /\ queues'[q] = <<p>> \o queues[q] \/ queues'[q] = Append(queues[q], p)
      /\ \A r \in QueueNames \ {q} : queues'[r] = queues[r]
  BY <1>1 DEF PushLeft, PushRight
<1>4. \A i \in 1..Len(queues'[q]) : Covered(queues'[q][i].channel, queues'[q][i].mark)
  <2>1. CASE queues'[q] = <<p>> \o queues[q]
    <3>1. /\ Len(queues'[q]) = 1 + Len(queues[q]) /\ queues'[q][1] = p
          /\ \A i \in 2..Len(queues'[q]) : queues'[q][i] = queues[q][i - 1] /\ i - 1 \in 1..Len(queues[q])
      BY <1>1, <2>1
    <3>2. \A i \in 1..Len(queues'[q]) : i = 1 \/ i \in 2..Len(queues'[q])  BY <1>1, <3>1
    <3> QED  BY <1>2, <3>1, <3>2
  <2>2. CASE queues'[q] = Append(queues[q], p)
    <3>1. /\ Len(queues'[q]) = Len(queues[q]) + 1 /\ queues'[q][Len(queues[q]) + 1] = p
          /\ \A i \in 1..Len(queues[q]) : queues'[q][i] = queues[q][i]
      BY <1>1, <2>2
    <3>2. \A i \in 1..Len(queues'[q]) : i = Len(queues[q]) + 1 \/ i \in 1..Len(queues[q])
      BY <1>1, <3>1
    <3> QED  BY <1>2, <3>1, <3>2
  <2> QED  BY <1>3, <2>1, <2>2
<1> QED  BY <1>3, <1>4 DEF MarkInv, QueueMarks, Covered

LEMMA QueueMarksPop ==
  ASSUME TypeInv, MarkInv, UNCHANGED <<read, cut, unsaved>>, NEW q \in QueueNames,
         queues[q] # <<>>, queues' = [queues EXCEPT ![q] = Tail(@)]
  PROVE  QueueMarks' /\ Covered(Head(queues[q]).channel, Head(queues[q]).mark)
<1>1. queues \in [QueueNames -> Seq(Payload)] /\ queues[q] \in Seq(Payload)
  BY DEF TypeInv, TypeOK, StoreTypeOK
<1>2. /\ queues'[q] = Tail(queues[q])
      /\ \A r \in QueueNames \ {q} : queues'[r] = queues[r]
  BY <1>1
<1>3. \A i \in 1..Len(queues[q]) : Covered(queues[q][i].channel, queues[q][i].mark)
  BY DEF MarkInv, QueueMarks
<1>4. /\ 1 \in 1..Len(queues[q]) /\ Head(queues[q]) = queues[q][1]
      /\ \A i \in 1..Len(queues'[q]) : queues'[q][i] = queues[q][i + 1] /\ i + 1 \in 1..Len(queues[q])
  BY <1>1, <1>2
<1>5. Covered(Head(queues[q]).channel, Head(queues[q]).mark)  BY <1>3, <1>4
<1>6. \A r \in QueueNames : \A i \in 1..Len(queues'[r]) :
        Covered(queues'[r][i].channel, queues'[r][i].mark)
  BY <1>2, <1>3, <1>4 DEF MarkInv, QueueMarks
<1>7. QueueMarks'  BY <1>6 DEF QueueMarks, Covered
<1> QED  BY <1>5, <1>7

\* A record of a scheduler or a validator changes.
LEMMA SchedMarksMove ==
  ASSUME TypeInv, MarkInv, UNCHANGED <<read, cut, unsaved>>, NEW s \in Schedulers, NEW r,
         sched' = [sched EXCEPT ![s] = r], SchedMarked(r)
  PROVE  SchedMarks'
<1>1. sched \in [Schedulers -> SchedulerState]  BY DEF TypeInv, TypeOK, SchedulerTypeOK
<1> QED  BY <1>1 DEF MarkInv, SchedMarks, SchedMarked, Covered

LEMMA ValMarksMove ==
  ASSUME TypeInv, MarkInv, UNCHANGED <<read, cut, unsaved>>, NEW v \in Validators, NEW r,
         val' = [val EXCEPT ![v] = r], ValMarked(r)
  PROVE  ValMarks'
<1>1. val \in [Validators -> ValidatorState]  BY DEF TypeInv, TypeOK, ValidationTypeOK
<1> QED  BY <1>1 DEF MarkInv, ValMarks, ValMarked, Covered

\* A scheduler that goes on, and takes no watermark up.
LEMMA SchedMarksSame ==
  ASSUME TypeInv, MarkInv, UNCHANGED <<read, cut, unsaved>>, NEW s \in Schedulers,
         \/ \E w : Goto(s, w)
         \/ \E w, b : sched' = [sched EXCEPT ![s].at = w, ![s].beat = b]
         \/ \E w, j : sched' = [sched EXCEPT ![s].at = w, ![s].job = j]
         \/ NextDue(s) \/ (\E left : NextStuck(s, left))
         \/ sched' = [sched EXCEPT ![s] = IdleScheduler]
  PROVE  SchedMarks'
<1>1. sched \in [Schedulers -> SchedulerState] /\ sched[s] \in SchedulerState
  BY DEF TypeInv, TypeOK, SchedulerTypeOK
<1>2. SchedMarked(sched[s]) /\ None \notin Channels  BY Constants DEF MarkInv, SchedMarks
<1>3. \A t \in Schedulers \ {s} : sched'[t] = sched[t]
  BY <1>1 DEF Goto, NextDue, NextStuck
<1>4. /\ sched'[s].todo \subseteq sched[s].todo
      /\ \/ sched'[s].channel = None
         \/ sched'[s].channel = sched[s].channel /\ sched'[s].mark = sched[s].mark
  <2>1. CASE \E w : Goto(s, w)  BY <1>1, <2>1 DEF Goto, SchedulerState
  <2>2. CASE \E w, b : sched' = [sched EXCEPT ![s].at = w, ![s].beat = b]
    BY <1>1, <2>2 DEF SchedulerState
  <2>3. CASE \E w, j : sched' = [sched EXCEPT ![s].at = w, ![s].job = j]
    BY <1>1, <2>3 DEF SchedulerState
  <2>4. CASE NextDue(s)  BY <1>1, <2>4 DEF NextDue, SchedulerState
  <2>5. CASE \E left : NextStuck(s, left)
    <3> PICK left : NextStuck(s, left)  BY <2>5
    <3> DEFINE w == IF left = {} THEN "stale" ELSE "repush"
    <3>1. sched' = [sched EXCEPT ![s].at = w, ![s].stuck = left, ![s].job = None]
      BY DEF NextStuck
    <3> HIDE DEF w
    <3> QED  BY <1>1, <3>1 DEF SchedulerState
  <2>6. CASE sched' = [sched EXCEPT ![s] = IdleScheduler]  BY <1>1, <2>6 DEF IdleScheduler
  <2> QED  BY <2>1, <2>2, <2>3, <2>4, <2>5, <2>6
<1>5. SchedMarked(sched'[s])  BY <1>2, <1>4 DEF SchedMarked
<1> QED  BY <1>3, <1>5 DEF MarkInv, SchedMarks, SchedMarked, Covered

LEMMA SchedulerMarks ==
  ASSUME TypeInv, MarkInv, NEW s \in Schedulers, SchedulerStep(s, Fresh), UNCHANGED <<discovery, val>>
  PROVE  MarkInv'
<1>a. /\ StoreTypeOK /\ SchedInv /\ JobInv /\ jobs \in [Jobs -> JobRow]
      /\ leads \in [Channels -> LeadRow] /\ None \notin Channels
      /\ sched \in [Schedulers -> SchedulerState] /\ sched[s] \in SchedulerState
      /\ SchedulerOK(sched[s], jobs)
  BY Constants DEF TypeInv, TypeOK, StoreTypeOK, SchedulerTypeOK, SchedInv
<1>b. /\ sched[s].stuck \subseteq Jobs /\ sched[s].job \in Jobs \cup {None}
      /\ sched[s].channel \in Channels \cup {None} /\ sched[s].mark \in Mark
      /\ sched[s].todo \subseteq DueRow
  BY <1>a DEF SchedulerState
<1>c. SchedMarked(sched[s])  BY DEF MarkInv, SchedMarks
<1>d. ASSUME UNCHANGED <<read, cut, unsaved>>, LeadMarks', CacheMarks', JobMarks', QueueMarks', SchedMarks'
      PROVE  MarkInv'
  BY <1>d, ValMarksKept DEF MarkInv
<1>e. ASSUME UNCHANGED <<read, cut, unsaved, queues, cache>>, SchedMarks',
             \A c \in Channels : leads'[c].mark = leads[c].mark,
             \A j \in Jobs : jobs'[j].channel = jobs[j].channel /\ jobs'[j].mark = jobs[j].mark
      PROVE  MarkInv'
  BY <1>d, <1>e, LeadMarksKept, CacheMarksKept, JobMarksKept, QueueMarksKept
<1>f. ASSUME NEW j \in Jobs \cup {None}, NEW st \in JobStatus \ {"none"},
             jobs' = JobSet(j, st) \/ UNCHANGED jobs
      PROVE  \A k \in Jobs : jobs'[k].channel = jobs[k].channel /\ jobs'[k].mark = jobs[k].mark
  <2>1. CASE UNCHANGED jobs  BY <2>1
  <2>2. CASE jobs' = JobSet(j, st)  BY <1>a, <2>2, JobSetRows
  <2> QED  BY <1>f, <2>1, <2>2
<1>g. ASSUME NEW c \in Channels, leads' = [leads EXCEPT ![c].due = FALSE] \/ UNCHANGED leads
      PROVE  \A d \in Channels : leads'[d].mark = leads[d].mark
  <2>1. \A d \in Channels : leads[d] \in LeadRow  BY <1>a
  <2> QED  BY <1>a, <1>g, <2>1 DEF LeadRow
<1> USE DEF database, redis, marks, observed
<1>1. CASE AcquireLeaderLock(s)
  <2>1. SchedMarks'  BY <1>1, SchedMarksSame DEF AcquireLeaderLock
  <2> QED  BY <1>1, <1>e, <2>1 DEF AcquireLeaderLock
<1>2. CASE ReleaseLeaderLock(s) \/ SchedulerCrash(s)
  <2>1. SchedMarks'  BY <1>2, SchedMarksSame DEF ReleaseLeaderLock, SchedulerCrash
  <2> QED  BY <1>2, <1>e, <2>1 DEF ReleaseLeaderLock, SchedulerCrash
<1>3. CASE SelectStuckJobs(s) \/ RepushFails(s) \/ CheckPressure(s)
  <2>1. SchedMarks'  BY <1>3, SchedMarksSame DEF SelectStuckJobs, RepushFails, CheckPressure, store
  <2> QED  BY <1>3, <1>e, <2>1 DEF SelectStuckJobs, RepushFails, CheckPressure, store
<1>4. CASE RepushJob(s)
  <2> PICK j \in sched[s].stuck :
         /\ PushLeft(jobs[j].queue, JobPayload(j, jobs[j].channel, jobs[j].mark))
         /\ pushes' = Pushed(j)
         /\ sched' = [sched EXCEPT ![s].at = "requeue", ![s].job = j]
    BY <1>4 DEF RepushJob
  <2>1. j \in Jobs /\ jobs[j].status # "none"  BY <1>a, <1>b DEF SchedulerOK
  <2>2. jobs[j].channel \in Channels /\ jobs[j].mark \in Mark /\ jobs[j].queue \in QueueNames
    BY <1>a, <2>1, JobRows DEF JobInv
  <2>3. Covered(jobs[j].channel, jobs[j].mark)  BY <2>1, <2>2 DEF MarkInv, JobMarks
  <2> DEFINE p == JobPayload(j, jobs[j].channel, jobs[j].mark)
  <2>4. p \in Payload /\ p.channel = jobs[j].channel /\ p.mark = jobs[j].mark
    BY <1>a, <2>1, <2>2, PushType DEF JobPayload
  <2>5. UNCHANGED <<read, cut, unsaved, cache, leads, jobs>>  BY <1>4 DEF RepushJob
  <2>6. QueueMarks'
    <3> HIDE DEF p
    <3> QED  BY <2>2, <2>3, <2>4, <2>5, QueueMarksPush DEF p
  <2>7. SchedMarks'  BY <2>5, SchedMarksSame
  <2> QED  BY <1>d, <2>5, <2>6, <2>7, LeadMarksKept, CacheMarksKept, JobMarksKept
<1>5. CASE RequeueJob(s)
  <2>1. SchedMarks'  BY <1>5, SchedMarksSame DEF RequeueJob
  <2>2. \A k \in Jobs : jobs'[k].channel = jobs[k].channel /\ jobs'[k].mark = jobs[k].mark
    <3>1. jobs' = JobSet(sched[s].job, "queued") \/ UNCHANGED jobs  BY <1>5 DEF RequeueJob
    <3> QED  BY <1>b, <1>f, <3>1 DEF JobStatus
  <2> QED  BY <1>5, <1>e, <2>1, <2>2 DEF RequeueJob
<1>6. CASE ReadvanceLead(s)
  <2>1. SchedMarks'  BY <1>6, SchedMarksSame DEF ReadvanceLead
  <2>2. sched[s].job \in Jobs /\ jobs[sched[s].job].status # "none"
    BY <1>6, <1>a, <1>b DEF ReadvanceLead, At, SchedulerOK
  <2>3. jobs[sched[s].job].channel \in Channels  BY <1>a, <2>2, JobRows DEF JobInv
  <2>4. \A d \in Channels : leads'[d].mark = leads[d].mark
    BY <1>6, <1>g, <2>3 DEF ReadvanceLead
  <2> QED  BY <1>6, <1>e, <2>1, <2>4 DEF ReadvanceLead
<1>7. CASE FailStaleJobs(s)
  <2>1. SchedMarks'  BY <1>7, SchedMarksSame DEF FailStaleJobs
  <2>2. \A k \in Jobs : jobs'[k].channel = jobs[k].channel /\ jobs'[k].mark = jobs[k].mark
    <3>1. \A k \in Jobs : jobs[k] \in JobRow  BY <1>a
    <3>2. CASE UNCHANGED jobs  BY <3>2
    <3>3. CASE jobs' = [j \in Jobs |-> IF jobs[j].status = "running" /\ jobs[j].overdue
                                   THEN [jobs[j] EXCEPT !.status = "failed"] ELSE jobs[j]]
      BY <3>1, <3>3 DEF JobRow
    <3> QED  BY <1>7, <3>2, <3>3 DEF FailStaleJobs
  <2> QED  BY <1>7, <1>e, <2>1, <2>2 DEF FailStaleJobs
<1>8. CASE SelectDueChannels(s, Fresh)
  <2>1. UNCHANGED <<read, cut, unsaved, queues, cache, leads, jobs>>  BY <1>8 DEF SelectDueChannels
  <2> DEFINE Rows(due) == {[channel |-> c, mark |-> leads[c].mark] : c \in due}
  <2>2. \A due \in SUBSET Channels : \A d \in Rows(due) : Covered(d.channel, d.mark)
    BY DEF MarkInv, LeadMarks
  <2>3. \/ Goto(s, "release")
        \/ \E due \in SUBSET Channels : sched' = [sched EXCEPT
             ![s].todo = Rows(due), ![s].at = IF due = {} THEN "release" ELSE "schedule"]
    <3>1. DueChannels \subseteq Channels  BY DEF DueChannels
    <3> QED  BY <1>8, <3>1 DEF SelectDueChannels
  <2>4. ASSUME NEW todo, NEW w, \A d \in todo : Covered(d.channel, d.mark),
               sched' = [sched EXCEPT ![s].todo = todo, ![s].at = w]
        PROVE  SchedMarks'
    <3> DEFINE r == [sched[s] EXCEPT !.todo = todo, !.at = w]
    <3>1. sched' = [sched EXCEPT ![s] = r]  BY <2>4, <1>a
    <3>2. r.channel = sched[s].channel /\ r.mark = sched[s].mark /\ r.todo = todo
      BY <1>a DEF SchedulerState
    <3> HIDE DEF r
    <3>3. SchedMarked(r)  BY <1>c, <2>4, <3>2 DEF SchedMarked
    <3> QED  BY <2>1, <3>1, <3>3, SchedMarksMove
  <2>5. SchedMarks'
    <3>1. CASE Goto(s, "release")  BY <2>1, <3>1, SchedMarksSame
    <3>2. ASSUME NEW due \in SUBSET Channels, sched' = [sched EXCEPT
             ![s].todo = Rows(due), ![s].at = IF due = {} THEN "release" ELSE "schedule"]
          PROVE  SchedMarks'
      <4> DEFINE todo == Rows(due)
                 w    == IF due = {} THEN "release" ELSE "schedule"
      <4>1. \A d \in todo : Covered(d.channel, d.mark)  BY <2>2
      <4>2. sched' = [sched EXCEPT ![s].todo = todo, ![s].at = w]  BY <3>2
      <4> HIDE DEF todo, w
      <4> QED  BY <2>4, <4>1, <4>2
    <3> QED  BY <2>3, <3>1, <3>2
  <2> QED  BY <1>e, <2>1, <2>5
<1>9. CASE ScheduleChannel(s)
  <2>1. UNCHANGED <<read, cut, unsaved, queues, cache, leads, jobs>>  BY <1>9 DEF ScheduleChannel, store
  <2> PICK d \in sched[s].todo :
         LET c == d.channel
             cached == cache[c]["id"]
             found == IF d.mark > 0 THEN d.mark
                      ELSE IF cached # NoMark THEN cached ELSE leads[c].mark
         IN sched' = [sched EXCEPT
              ![s].at = IF d.mark = 0 /\ cached = NoMark THEN "fill" ELSE "insert",
              ![s].todo = @ \ {d}, ![s].channel = c, ![s].mark = found]
    BY <1>9 DEF ScheduleChannel
  <2>2. d.channel \in Channels /\ Covered(d.channel, d.mark)
    BY <1>b, <1>c DEF DueRow, SchedMarked
  <2> DEFINE cached == cache[d.channel]["id"]
             found  == IF d.mark > 0 THEN d.mark
                       ELSE IF cached # NoMark THEN cached ELSE leads[d.channel].mark
             to     == IF d.mark = 0 /\ cached = NoMark THEN "fill" ELSE "insert"
             r == [sched[s] EXCEPT !.at = to, !.todo = @ \ {d}, !.channel = d.channel,
                                   !.mark = found]
  <2>3. Covered(d.channel, found)
    <3>1. Covered(d.channel, leads[d.channel].mark)  BY <2>2 DEF MarkInv, LeadMarks
    <3>2. Covered(d.channel, cached)  BY <2>2 DEF MarkInv, CacheMarks, Keys
    <3> QED  BY <2>2, <3>1, <3>2
  <2>4. sched' = [sched EXCEPT ![s] = r]  BY <1>a
  <2> HIDE DEF found, to
  <2>5. r.channel = d.channel /\ r.mark = found /\ r.todo = sched[s].todo \ {d}
    BY <1>a DEF SchedulerState
  <2> HIDE DEF r
  <2>6. SchedMarked(r)  BY <1>c, <2>3, <2>5 DEF SchedMarked
  <2>7. SchedMarks'  BY <2>1, <2>4, <2>6, SchedMarksMove
  <2> QED  BY <1>e, <2>1, <2>7
<1>10. CASE FillCache(s)
  <2>1. UNCHANGED <<read, cut, unsaved, queues, leads, jobs>>  BY <1>10 DEF FillCache
  <2>2. sched[s].channel \in Channels  BY <1>10, <1>a, <1>b DEF FillCache, At, SchedulerOK
  <2>3. Covered(sched[s].channel, sched[s].mark)  BY <1>c, <2>2 DEF SchedMarked
  <2>4. CacheMarks'
    <3>1. cache \in [Channels -> [Keys -> Mark \cup {NoMark}]]  BY <1>a DEF StoreTypeOK
    <3>2. cache' = [cache EXCEPT ![sched[s].channel]["id"] = sched[s].mark]
      BY <1>10 DEF FillCache
    <3>3. \A c \in Channels, k \in Keys :
            \/ cache'[c][k] = cache[c][k]
            \/ c = sched[s].channel /\ cache'[c][k] = sched[s].mark
      BY <3>1, <3>2
    <3> QED  BY <2>1, <2>3, <3>3 DEF MarkInv, CacheMarks, Covered
  <2>5. SchedMarks'  BY <1>10, <2>1, SchedMarksSame DEF FillCache
  <2> QED  BY <1>d, <2>1, <2>4, <2>5, LeadMarksKept, JobMarksKept, QueueMarksKept
<1>11. ASSUME NEW q \in Tiers, InsertJob(s, q, Fresh)  PROVE MarkInv'
  <2> DEFINE j == CHOOSE j \in Fresh : Unused(j)
             row == [NoJobRow EXCEPT !.status = "pending", !.channel = sched[s].channel,
                                     !.mark = sched[s].mark, !.queue = q]
  <2>1. j \in Jobs
    <3>1. j \in Fresh  BY <1>11 DEF InsertJob
    <3> QED  BY <1>a, <3>1, SettingType DEF Fresh, StoreTypeOK
  <2>2. /\ jobs' = [jobs EXCEPT ![j] = row] \/ jobs' = [jobs EXCEPT ![j] = NoJobRow]
        /\ sched' = [sched EXCEPT ![s].at = "push", ![s].job = j]
        /\ UNCHANGED <<read, cut, unsaved, queues, cache, leads>>
    BY <1>11 DEF InsertJob
  <2> HIDE DEF j
  <2>3. SchedMarks'  BY <2>2, SchedMarksSame
  <2>4. row.channel = sched[s].channel /\ row.mark = sched[s].mark /\ NoJobRow.channel = None
    BY DEF NoJobRow
  <2> HIDE DEF row
  <2>5. JobMarks'
    <3>1. \A k \in Jobs : jobs'[k] = jobs[k] \/ jobs'[k] \in {row, NoJobRow}
      BY <1>a, <2>1, <2>2
    <3>2. \A k \in Jobs : jobs'[k].channel \in Channels => Covered(jobs'[k].channel, jobs'[k].mark)
      BY <1>a, <1>c, <2>4, <3>1 DEF MarkInv, JobMarks, SchedMarked
    <3> QED  BY <2>2, <3>2 DEF JobMarks, Covered
  <2> QED  BY <1>d, <2>2, <2>3, <2>5, LeadMarksKept, CacheMarksKept, QueueMarksKept
<1>12. ASSUME NEW q \in Tiers, PushJob(s, q)  PROVE MarkInv'
  <2>1. sched[s].job \in Jobs /\ sched[s].channel \in Channels
    BY <1>12, <1>a, <1>b DEF PushJob, At, SchedulerOK
  <2> DEFINE p == JobPayload(sched[s].job, sched[s].channel, sched[s].mark)
  <2>2. p \in Payload /\ p.channel = sched[s].channel /\ p.mark = sched[s].mark
    BY <1>a, <1>b, <2>1, PushType DEF JobPayload
  <2>3. UNCHANGED <<read, cut, unsaved, cache, leads, jobs>> /\ PushLeft(q, p)  BY <1>12 DEF PushJob
  <2>4. Covered(p.channel, p.mark)  BY <1>c, <2>1, <2>2 DEF SchedMarked
  <2>5. QueueMarks'
    <3> HIDE DEF p
    <3> QED  BY <2>2, <2>3, <2>4, QueueMarksPush, Constants
  <2>6. SchedMarks'  BY <1>12, <2>3, SchedMarksSame DEF PushJob
  <2> QED  BY <1>d, <2>3, <2>5, <2>6, LeadMarksKept, CacheMarksKept, JobMarksKept
<1>13. CASE PushFails(s)
  <2>1. SchedMarks'  BY <1>13, SchedMarksSame DEF PushFails
  <2> QED  BY <1>13, <1>e, <2>1 DEF PushFails
<1>14. CASE MarkQueued(s)
  <2>1. SchedMarks'  BY <1>14, SchedMarksSame DEF MarkQueued
  <2>2. \A k \in Jobs : jobs'[k].channel = jobs[k].channel /\ jobs'[k].mark = jobs[k].mark
    <3>1. jobs' = JobSet(sched[s].job, "queued") \/ UNCHANGED jobs  BY <1>14 DEF MarkQueued
    <3> QED  BY <1>b, <1>f, <3>1 DEF JobStatus
  <2> QED  BY <1>14, <1>e, <2>1, <2>2 DEF MarkQueued
<1>15. CASE MarkEnqueueFailed(s)
  <2>1. SchedMarks'  BY <1>15, SchedMarksSame DEF MarkEnqueueFailed
  <2>2. \A k \in Jobs : jobs'[k].channel = jobs[k].channel /\ jobs'[k].mark = jobs[k].mark
    <3>1. jobs' = JobSet(sched[s].job, "enqueue_failed") \/ UNCHANGED jobs
      BY <1>15 DEF MarkEnqueueFailed
    <3> QED  BY <1>b, <1>f, <3>1 DEF JobStatus
  <2> QED  BY <1>15, <1>e, <2>1, <2>2 DEF MarkEnqueueFailed
<1>16. CASE AdvanceLead(s)
  <2>1. SchedMarks'  BY <1>16, SchedMarksSame DEF AdvanceLead
  <2>2. sched[s].channel \in Channels  BY <1>16, <1>a, <1>b DEF AdvanceLead, At, SchedulerOK
  <2>3. \A d \in Channels : leads'[d].mark = leads[d].mark
    BY <1>16, <1>g, <2>2 DEF AdvanceLead
  <2> QED  BY <1>16, <1>e, <2>1, <2>3 DEF AdvanceLead
<1> QED
  BY <1>1, <1>2, <1>3, <1>4, <1>5, <1>6, <1>7, <1>8, <1>9, <1>10, <1>11, <1>12, <1>13, <1>14,
     <1>15, <1>16 DEF SchedulerStep

\* Discovery, time, and the expiry of keys.
LEMMA HandMarks ==
  ASSUME TypeInv, MarkInv, NEW p \in Processes, HandStep(p), UNCHANGED <<sched, val>>
  PROVE  MarkInv'
<1>a. ~Empty(p)
  BY DEF HandStep, CheckSeen, ClaimSeen, CountFirst, Tally, Reserve, PushLink, StubLink, Doing
<1>b. /\ hand[p].ch \in Channels /\ hand[p].src \in Channels \cup {None}
      /\ leads \in [Channels -> LeadRow]
  BY <1>a DEF TypeInv, TypeOK, StoreTypeOK, HandInv, DiscoveryTypeOK, HandState
<1> USE DEF database, redis, marks, observed
<1>1. UNCHANGED <<read, cut, unsaved, cache, jobs>>
  BY DEF HandStep, CheckSeen, ClaimSeen, CountFirst, Tally, Reserve, PushLink, StubLink, store
<1>2. \A c \in Channels : leads'[c].mark = leads[c].mark
  <2>1. CASE StubLink(p)
    <3>1. leads' = [leads EXCEPT ![hand[p].ch] = Stubbed(@)]  BY <2>1 DEF StubLink
    <3>2. Stubbed(leads[hand[p].ch]).mark = leads[hand[p].ch].mark  BY <1>b, LeadMarkRows
    <3> QED  BY <1>b, <3>1, <3>2
  <2>2. CASE UNCHANGED leads  BY <2>2
  <2> QED  BY <2>1, <2>2
           DEF HandStep, CheckSeen, ClaimSeen, CountFirst, Tally, Reserve, PushLink, store
<1>3. QueueMarks'
  <2>1. ASSUME NEW q \in Tiers, PushLink(p, q)  PROVE QueueMarks'
    <3> DEFINE e == LinkTo(hand[p].ch, SourceOf(p))
    <3>1. e \in Payload /\ e.mark = 0
      <4>1. 0 \in Mark  BY Constants DEF Mark
      <4> QED  BY <1>b, <4>1 DEF LinkTo, SourceOf, Payload
    <3>2. Covered(e.channel, 0)  BY DEF Covered, Upto
    <3>3. PushRight(q, e) /\ q \in QueueNames  BY <2>1, Constants DEF PushLink
    <3> HIDE DEF e
    <3> QED  BY <1>1, <3>1, <3>2, <3>3, QueueMarksPush
  <2>2. CASE UNCHANGED queues  BY <1>1, <2>2, QueueMarksKept
  <2> QED  BY <2>1, <2>2
           DEF HandStep, CheckSeen, ClaimSeen, CountFirst, Tally, Reserve, StubLink, store
<1> QED
  BY <1>1, <1>2, <1>3, LeadMarksKept, CacheMarksKept, JobMarksKept, SchedMarksKept, ValMarksKept
  DEF MarkInv

LEMMA OtherMarks ==
  ASSUME TypeInv, MarkInv, UNCHANGED <<sched, val>>,
         \/ \E p \in Producers : DiscoveryStep(p)
         \/ SeedStep \/ StoreNext \/ LeaderExpires
         \/ \E c \in Channels : ReserveExpires(c) \/ CountExpires(c)
  PROVE  MarkInv'
<1>a. /\ leads \in [Channels -> LeadRow] /\ jobs \in [Jobs -> JobRow]
      /\ cache \in [Channels -> [Keys -> Mark \cup {NoMark}]]
  BY DEF TypeInv, TypeOK, StoreTypeOK
<1>b. ASSUME UNCHANGED <<read, cut, unsaved, queues, cache>>,
             \A c \in Channels : leads'[c].mark = leads[c].mark,
             \A j \in Jobs : jobs'[j].channel = jobs[j].channel /\ jobs'[j].mark = jobs[j].mark
      PROVE  MarkInv'
  BY <1>b, LeadMarksKept, CacheMarksKept, JobMarksKept, QueueMarksKept, SchedMarksKept,
     ValMarksKept DEF MarkInv
<1> USE DEF database, redis, marks, observed
<1>1. ASSUME NEW p \in Producers, HandStep(p)  PROVE MarkInv'  BY <1>1, HandMarks, Constants
<1>2. ASSUME NEW p, LoseLink(p) \/ \E way, c, source : FindLink(p, way, c, source)  PROVE MarkInv'
  BY <1>2, <1>b DEF LoseLink, FindLink, store
<1>3. ASSUME NEW c \in Channels, NEW q \in Tiers, EnqueueSeed(c, q)  PROVE MarkInv'
  <2>1. UNCHANGED <<read, cut, unsaved, cache, jobs, leads>>  BY <1>3 DEF EnqueueSeed
  <2>2. QueueMarks'
    <3> DEFINE e == LinkTo(c, None)
    <3>1. e \in Payload /\ e.mark = 0
      <4>1. 0 \in Mark  BY Constants DEF Mark
      <4> QED  BY <4>1 DEF LinkTo, Payload
    <3>2. Covered(e.channel, 0)  BY DEF Covered, Upto
    <3>3. PushRight(q, e) \/ UNCHANGED queues  BY <1>3 DEF EnqueueSeed
    <3>4. q \in QueueNames  BY Constants
    <3> HIDE DEF e
    <3> QED  BY <2>1, <3>1, <3>2, <3>3, <3>4, QueueMarksPush, QueueMarksKept
  <2> QED
    BY <2>1, <2>2, LeadMarksKept, CacheMarksKept, JobMarksKept, SchedMarksKept, ValMarksKept
    DEF MarkInv
<1>4. CASE SeedFault \/ LeaderExpires \/ \E c \in Channels : Post(c)
  BY <1>4, <1>b DEF SeedFault, LeaderExpires, Post
<1>5. ASSUME NEW c \in Channels, ReserveExpires(c) \/ CountExpires(c)  PROVE MarkInv'
  BY <1>5, <1>b DEF ReserveExpires, CountExpires
<1>6. ASSUME NEW c \in Channels, FallDue(c)  PROVE MarkInv'
  <2>1. \A d \in Channels : leads[d] \in LeadRow  BY <1>a
  <2>2. \A d \in Channels : leads'[d].mark = leads[d].mark
    BY <1>6, <1>a, <2>1 DEF FallDue, LeadRow
  <2> QED  BY <1>6, <1>b, <2>2 DEF FallDue
<1>7. ASSUME NEW j \in Jobs, AgeJob(j) \/ RunOverdue(j)  PROVE MarkInv'
  <2>1. \A k \in Jobs : jobs[k] \in JobRow  BY <1>a
  <2>2. \A k \in Jobs : jobs'[k].channel = jobs[k].channel /\ jobs'[k].mark = jobs[k].mark
    <3>1. CASE AgeJob(j)  BY <3>1, <1>a, <2>1 DEF AgeJob, JobRow
    <3>2. CASE RunOverdue(j)  BY <3>2, <1>a, <2>1 DEF RunOverdue, JobRow
    <3> QED  BY <1>7, <3>1, <3>2
  <2> QED  BY <1>7, <1>b, <2>2 DEF AgeJob, RunOverdue
<1>8. ASSUME NEW c \in Channels, NEW k \in Keys, CacheExpires(c, k)  PROVE MarkInv'
  <2>1. UNCHANGED <<read, cut, unsaved, queues, leads, jobs>>  BY <1>8 DEF CacheExpires
  <2>2. CacheMarks'
    <3>1. \A d \in Channels, l \in Keys : cache'[d][l] \in {cache[d][l], NoMark}
      BY <1>8, <1>a DEF CacheExpires
    <3>2. \A d \in Channels : Covered(d, NoMark)  BY DEF Covered, Upto, NoMark
    <3> QED  BY <2>1, <3>1, <3>2 DEF MarkInv, CacheMarks, Covered
  <2> QED
    BY <2>1, <2>2, LeadMarksKept, JobMarksKept, QueueMarksKept, SchedMarksKept, ValMarksKept
    DEF MarkInv
<1> QED
  BY <1>1, <1>2, <1>3, <1>4, <1>5, <1>6, <1>7, <1>8 DEF DiscoveryStep, SeedStep, StoreNext

\* Every plan saves first, and so does what is left of it.
LEMMA PlansSaveFirst ==
  /\ SaveFirst(Malformed) /\ SaveFirst(Blacklisted) /\ SaveFirst(BadSource)
  /\ SaveFirst(InCoolDown)
  /\ \A plan \in Refused \cup FromWebPage \cup Failure : SaveFirst(plan)
  /\ \A m, l, t : \A plan \in Judged(m, l, t) : SaveFirst(plan)
<1> USE DEF SaveFirst, TopWrites
<1>1. SaveFirst(Malformed) /\ SaveFirst(Blacklisted) /\ SaveFirst(BadSource)
  BY DEF Malformed, Blacklisted, BadSource
<1>2. SaveFirst(InCoolDown)  BY DEF InCoolDown
<1>3. \A plan \in Refused \cup FromWebPage : SaveFirst(plan)  BY DEF Refused, FromWebPage
<1>4. \A plan \in Failure : SaveFirst(plan)  BY DEF Failure
<1>5. SaveFirst(NoPosts) /\ SaveFirst(UpToDate)  BY DEF NoPosts, UpToDate
<1>6. \A plan \in Inactive : SaveFirst(plan)  BY DEF Inactive
<1>7. \A plan \in Group : SaveFirst(plan)  BY DEF Group
<1>8. \A plan \in Disqualified : SaveFirst(plan)  BY DEF Disqualified
<1>9. SaveFirst(Saved)
  <2>1. /\ Len(Saved) = 10 /\ Saved[1] = "stub" /\ Saved[2] = "extract" /\ Saved[3] = "save"
    BY DEF Saved
  <2>2. \A i \in 1..10 : i = 1 \/ i = 2 \/ i = 3 \/ 3 \in 1..(i - 1)  OBVIOUS
  <2> QED  BY <2>1, <2>2
<1> HIDE DEF SaveFirst, TopWrites
<1> QED  BY <1>1, <1>2, <1>3, <1>4, <1>5, <1>6, <1>7, <1>8, <1>9 DEF Judged

LEMMA TailSavesFirst ==
  ASSUME NEW plan \in Seq(Writes), plan # <<>>, SaveFirst(plan), Head(plan) # "save"
  PROVE  SaveFirst(Tail(plan)) /\ Head(plan) \notin TopWrites
<1>1. /\ Tail(plan) \in Seq(Writes) /\ Len(plan) \in Nat \ {0}
      /\ Len(Tail(plan)) = Len(plan) - 1
      /\ \A i \in 1..Len(Tail(plan)) : Tail(plan)[i] = plan[i + 1]
  BY HeadTailProperties, EmptySeq
<1>2. plan[1] # "save" /\ plan[1] \notin TopWrites /\ Head(plan) = plan[1]
  <2>1. 1 \in 1..Len(plan) /\ 1..(1 - 1) = {} /\ Head(plan) = plan[1]  BY <1>1
  <2> QED  BY <2>1 DEF SaveFirst
<1>3. ASSUME NEW i \in 1..Len(Tail(plan)), Tail(plan)[i] \in TopWrites
      PROVE  \E k \in 1..(i - 1) : Tail(plan)[k] = "save"
  <2>1. plan[i + 1] \in TopWrites /\ i + 1 \in 1..Len(plan)  BY <1>1, <1>3
  <2>2. PICK k \in 1..((i + 1) - 1) : plan[k] = "save"  BY <2>1 DEF SaveFirst
  <2>3. k # 1  BY <1>2, <2>2
  <2>4. k - 1 \in 1..(i - 1) /\ k - 1 \in 1..Len(Tail(plan)) /\ (k - 1) + 1 = k
    BY <1>1, <2>3
  <2>5. Tail(plan)[k - 1] = plan[k]  BY <1>1, <2>4
  <2> QED  BY <2>2, <2>4, <2>5
<1> QED  BY <1>2, <1>3 DEF SaveFirst

\* How a validator goes on with its plan, or sets out to follow one.
LEMMA ValMarksDone ==
  ASSUME TypeInv, MarkInv, UNCHANGED <<read, cut, unsaved>>, NEW v \in Validators,
         ValAt(v, "writes"), Done(v), Head(val[v].plan) # "save"
  PROVE  ValMarks'
<1>1. /\ val \in [Validators -> ValidatorState] /\ val[v] \in ValidatorState
      /\ val[v].plan \in Seq(Writes) /\ val[v].plan # <<>> /\ val[v].at = "writes"
  BY ValFacts DEF ValAt
<1>2. ValMarked(val[v])  BY DEF MarkInv, ValMarks
<1>3. CASE Len(val[v].plan) = 1
  <2>1. ValMarked(IdleValidator)
    <3>1. IdleValidator.ch \notin Channels /\ IdleValidator.at = "idle"
      BY Constants DEF IdleValidator
    <3> QED  BY <3>1 DEF ValMarked
  <2> QED  BY <1>3, <2>1, ValMarksMove DEF Done, End
<1>4. CASE Len(val[v].plan) # 1
  <2> DEFINE r == [val[v] EXCEPT !.plan = Tail(val[v].plan)]
  <2>1. val' = [val EXCEPT ![v] = r]  BY <1>1, <1>4 DEF Done
  <2>2. /\ r.ch = val[v].ch /\ r.mark = val[v].mark /\ r.top = val[v].top
        /\ r.plan = Tail(val[v].plan) /\ r.at = "writes"
    BY <1>1 DEF ValidatorState
  <2> HIDE DEF r
  <2>3. SaveFirst(r.plan) \/ Covered(r.ch, r.top)
    BY <1>1, <1>2, <2>2, TailSavesFirst DEF ValMarked
  <2>4. ValMarked(r)  BY <1>2, <2>2, <2>3 DEF ValMarked
  <2> QED  BY <2>1, <2>4, ValMarksMove
<1> QED  BY <1>3, <1>4

LEMMA ValMarksPlanned ==
  ASSUME TypeInv, MarkInv, UNCHANGED <<read, cut, unsaved>>, NEW v \in Validators, val[v].at # "idle",
         NEW plan \in Seq(Writes), NEW l \in Mark, NEW t \in Mark, SaveFirst(plan) \/ t = 0,
         NEW ls \in SUBSET Channels, val' = [val EXCEPT ![v] = Planned(v, plan, l, t, ls)]
  PROVE  ValMarks'
<1> DEFINE r == Planned(v, plan, l, t, ls)
<1>1. val[v] \in ValidatorState /\ ValMarked(val[v])  BY ValFacts DEF MarkInv, ValMarks
<1>2. r.plan = plan /\ r.ch = val[v].ch /\ r.mark \in {val[v].mark, 0} /\ r.top \in {t, 0}
  BY <1>1, PlannedType
<1>3. val' = [val EXCEPT ![v] = r]  OBVIOUS
<1> HIDE DEF r
<1>4. Covered(r.ch, 0)  BY DEF Covered, Upto
<1>5. ValMarked(r)  BY <1>1, <1>2, <1>4 DEF ValMarked
<1> QED  BY <1>3, <1>5, ValMarksMove

LEMMA ValMarksIdle ==
  ASSUME TypeInv, MarkInv, UNCHANGED <<read, cut, unsaved>>, NEW v \in Validators,
         val' = [val EXCEPT ![v] = IdleValidator]
  PROVE  ValMarks'
<1>1. IdleValidator.ch \notin Channels /\ IdleValidator.at = "idle"
  BY Constants DEF IdleValidator
<1>2. ValMarked(IdleValidator)  BY <1>1 DEF ValMarked
<1> QED  BY <1>2, ValMarksMove

LEMMA ValMarksFollow ==
  ASSUME TypeInv, MarkInv, UNCHANGED <<read, cut, unsaved>>, NEW v \in Validators, val[v].at # "idle",
         NEW plan \in Seq(Writes), Follow(v, plan)
  PROVE  ValMarks'
<1>1. CASE plan = <<>>  BY <1>1, ValMarksIdle DEF Follow, End
<1>2. CASE plan # <<>>
  <2> DEFINE ls == {}
             l  == 0
  <2>1. /\ val' = [val EXCEPT ![v] = Planned(v, plan, l, l, ls)]
        /\ l \in Mark /\ l = 0 /\ ls \in SUBSET Channels
    BY <1>2, Constants DEF Follow, Mark
  <2> HIDE DEF ls, l
  <2> QED  BY <2>1, ValMarksPlanned
<1> QED  BY <1>1, <1>2

\* A validator gets its marks from the queue, the cache and the leads, and goes
\* from step to step with them.
LEMMA ValMarksGoto ==
  ASSUME TypeInv, MarkInv, UNCHANGED <<read, cut, unsaved>>, NEW v \in Validators,
         NEW w \in {"lookup", "cache", "gate", "inspect"}, NEW m,
         Covered(val[v].ch, m),
         \/ val' = [val EXCEPT ![v].at = w]
         \/ val' = [val EXCEPT ![v].mark = m, ![v].at = w]
  PROVE  ValMarks'
<1>1. val \in [Validators -> ValidatorState] /\ val[v] \in ValidatorState /\ ValMarked(val[v])
  BY ValFacts DEF MarkInv, ValMarks
<1> DEFINE r1 == [val[v] EXCEPT !.at = w]
           r2 == [val[v] EXCEPT !.mark = m, !.at = w]
<1>2. val' = [val EXCEPT ![v] = r1] \/ val' = [val EXCEPT ![v] = r2]  BY <1>1
<1>3. /\ r1.at = w /\ r1.ch = val[v].ch /\ r1.mark = val[v].mark
      /\ r2.at = w /\ r2.ch = val[v].ch /\ r2.mark = m
  BY <1>1 DEF ValidatorState
<1>4. w # "writes"  OBVIOUS
<1> HIDE DEF r1, r2
<1>5. ValMarked(r1) /\ ValMarked(r2)  BY <1>1, <1>3, <1>4 DEF ValMarked
<1> QED  BY <1>2, <1>5, ValMarksMove

LEMMA InspectionMarks ==
  ASSUME TypeInv, MarkInv, NEW v \in Validators, UNCHANGED sched,
         \/ Pop(v) \/ Checkout(v) \/ LookupMark(v) \/ CacheMark(v) \/ Gate(v) \/ GiveUp(v)
         \/ \E plan \in Refused \cup FromWebPage \cup Failure : Dismiss(v, plan)
         \/ WebPageFails(v) \/ FetchNothing(v) \/ \E budget \in Budgets : Fetch(v, budget)
  PROVE  MarkInv'
<1>a. /\ StoreTypeOK /\ val \in [Validators -> ValidatorState] /\ val[v] \in ValidatorState
      /\ leads \in [Channels -> LeadRow] /\ jobs \in [Jobs -> JobRow]
      /\ val[v].mark \in Mark /\ val[v].job \in Jobs \cup {None}
  BY ValFacts DEF StoreTypeOK
<1>b. val[v].at # "idle" => val[v].ch \in Channels /\ Covered(val[v].ch, val[v].mark)
  BY ValFacts DEF MarkInv, ValMarks, ValMarked
<1>c. ASSUME UNCHANGED <<read, cut, unsaved, queues, cache, jobs>>, ValMarks',
             \A c \in Channels : leads'[c].mark = leads[c].mark
      PROVE  MarkInv'
  BY <1>c, LeadMarksKept, CacheMarksKept, JobMarksKept, QueueMarksKept, SchedMarksKept DEF MarkInv
<1> USE DEF database, redis, marks, observed
<1>1. CASE Pop(v)
  <2> PICK q \in QueueNames :
         /\ queues[q] # <<>>
         /\ queues' = [queues EXCEPT ![q] = Tail(@)]
         /\ val' = [val EXCEPT ![v] = LET p == Head(queues[q]) IN
              [IdleValidator EXCEPT !.at = "checkout", !.job = p.job, !.ch = p.channel,
                                    !.src = p.source, !.mark = p.mark]]
    BY <1>1 DEF Pop
  <2> DEFINE p == Head(queues[q])
             r == [IdleValidator EXCEPT !.at = "checkout", !.job = p.job, !.ch = p.channel,
                                        !.src = p.source, !.mark = p.mark]
  <2>1. UNCHANGED <<read, cut, unsaved, cache, jobs, leads>>  BY <1>1 DEF Pop
  <2>2. QueueMarks' /\ Covered(p.channel, p.mark)  BY <2>1, QueueMarksPop
  <2>3. val' = [val EXCEPT ![v] = r]  OBVIOUS
  <2> HIDE DEF p
  <2>4. r.at = "checkout" /\ r.ch = p.channel /\ r.mark = p.mark  BY DEF IdleValidator
  <2> HIDE DEF r
  <2>5. ValMarked(r)  BY <2>2, <2>4 DEF ValMarked
  <2>6. ValMarks'  BY <2>1, <2>3, <2>5, ValMarksMove
  <2> QED
    BY <2>1, <2>2, <2>6, LeadMarksKept, CacheMarksKept, JobMarksKept, SchedMarksKept DEF MarkInv
<1>2. CASE Checkout(v)
  <2>1. val[v].at # "idle"  BY <1>2 DEF Checkout, ValAt
  <2>2. UNCHANGED <<read, cut, unsaved, queues, cache, leads>>  BY <1>2 DEF Checkout
  <2>3. \A k \in Jobs : jobs'[k].channel = jobs[k].channel /\ jobs'[k].mark = jobs[k].mark
    <3> DEFINE st == "running"
    <3>1. st \in JobStatus \ {"none"} /\ (jobs' = JobSet(val[v].job, st) \/ UNCHANGED jobs)
      BY <1>2 DEF Checkout, JobStatus
    <3> HIDE DEF st
    <3>2. CASE UNCHANGED jobs  BY <3>2
    <3>3. CASE jobs' = JobSet(val[v].job, st)  BY <1>a, <3>1, <3>3, JobSetRows
    <3> QED  BY <3>1, <3>2, <3>3
  <2>4. ValMarks'
    <3>1. CASE Follow(v, Malformed)
      BY <2>1, <2>2, <3>1, ValMarksFollow, PlanTypes, PlansSaveFirst
    <3>2. CASE val' = [val EXCEPT ![v].at = IF val[v].mark = 0 THEN "lookup" ELSE "gate"]
      BY <1>b, <2>1, <2>2, <3>2, ValMarksGoto
    <3> QED  BY <1>2, <3>1, <3>2 DEF Checkout
  <2> QED
    BY <2>2, <2>3, <2>4, LeadMarksKept, CacheMarksKept, JobMarksKept, QueueMarksKept,
       SchedMarksKept DEF MarkInv
<1>3. CASE LookupMark(v)
  <2>1. val[v].at # "idle" /\ val[v].ch \in Channels  BY <1>3, <1>b DEF LookupMark, ValAt
  <2>2. UNCHANGED <<read, cut, unsaved, queues, cache, jobs, leads>>  BY <1>3 DEF LookupMark
  <2> DEFINE m == IF cache[val[v].ch]["name"] # NoMark THEN cache[val[v].ch]["name"]
                  ELSE leads[val[v].ch].mark
             w == IF cache[val[v].ch]["name"] = NoMark /\ leads[val[v].ch].status # "none"
                  THEN "cache" ELSE "gate"
  <2>3. Covered(val[v].ch, m)  BY <2>1 DEF MarkInv, CacheMarks, LeadMarks, Keys
  <2>4. w \in {"cache", "gate"}  OBVIOUS
  <2>5. \/ val' = [val EXCEPT ![v].at = "gate"]
        \/ val' = [val EXCEPT ![v].mark = m, ![v].at = w]
    BY <1>3 DEF LookupMark
  <2> HIDE DEF m, w
  <2>6. CASE val' = [val EXCEPT ![v].at = "gate"]
    <3>1. ValMarks'  BY <2>2, <2>3, <2>6, ValMarksGoto
    <3> QED  BY <1>c, <2>2, <3>1
  <2>7. CASE val' = [val EXCEPT ![v].mark = m, ![v].at = w]
    <3>1. ValMarks'  BY <2>2, <2>3, <2>4, <2>7, ValMarksGoto
    <3> QED  BY <1>c, <2>2, <3>1
  <2> QED  BY <2>5, <2>6, <2>7
<1>4. CASE CacheMark(v)
  <2>1. val[v].at # "idle"  BY <1>4 DEF CacheMark, ValAt
  <2>2. UNCHANGED <<read, cut, unsaved, queues, jobs, leads>>  BY <1>4 DEF CacheMark
  <2>3. ValMarks'  BY <1>4, <1>b, <2>1, <2>2, ValMarksGoto DEF CacheMark
  <2>4. CacheMarks'
    <3>1. cache \in [Channels -> [Keys -> Mark \cup {NoMark}]]  BY <1>a DEF StoreTypeOK
    <3>2. \A c \in Channels, k \in Keys :
            \/ cache'[c][k] = cache[c][k]
            \/ c = val[v].ch /\ cache'[c][k] = val[v].mark
      BY <1>4, <3>1 DEF CacheMark
    <3> QED  BY <1>b, <2>1, <2>2, <3>2 DEF MarkInv, CacheMarks, Covered
  <2> QED
    BY <2>2, <2>3, <2>4, LeadMarksKept, JobMarksKept, QueueMarksKept, SchedMarksKept DEF MarkInv
<1>5. CASE Gate(v)
  <2>1. val[v].at # "idle"  BY <1>5 DEF Gate, ValAt
  <2>2. UNCHANGED <<read, cut, unsaved, queues, cache, jobs, leads>>  BY <1>5 DEF Gate
  <2>3. \/ Follow(v, Blacklisted) \/ Follow(v, BadSource) \/ Follow(v, InCoolDown)
        \/ val' = [val EXCEPT ![v].at = "inspect"]
    BY <1>5 DEF Gate
  <2>4. ValMarks'
    <3>1. CASE val' = [val EXCEPT ![v].at = "inspect"]
      BY <1>b, <2>1, <2>2, <3>1, ValMarksGoto
    <3>2. ASSUME NEW plan \in Seq(Writes), SaveFirst(plan), Follow(v, plan)  PROVE ValMarks'
      BY <2>1, <2>2, <3>2, ValMarksFollow
    <3> QED  BY <2>3, <3>1, <3>2, PlanTypes, PlansSaveFirst
  <2> QED  BY <1>c, <2>2, <2>4
<1>6. CASE GiveUp(v)
  <2>1. ValMarks'  BY <1>6, ValMarksIdle DEF GiveUp
  <2> QED  BY <1>6, <1>c, <2>1 DEF GiveUp
<1>7. ASSUME NEW plan \in Refused \cup FromWebPage \cup Failure, Dismiss(v, plan)  PROVE MarkInv'
  <2>1. val[v].at # "idle" /\ plan \in Seq(Writes) /\ SaveFirst(plan)
    BY <1>7, PlanTypes, PlansSaveFirst DEF Dismiss, ValAt
  <2>2. ValMarks'  BY <1>7, <2>1, ValMarksFollow DEF Dismiss
  <2> QED  BY <1>7, <1>c, <2>2 DEF Dismiss
<1>8. CASE WebPageFails(v)
  <2>1. val[v].ch \in Channels  BY <1>8, <1>b DEF WebPageFails, ValAt
  <2>2. Stubbed(leads[val[v].ch]).mark = leads[val[v].ch].mark
    BY <1>a, <2>1, LeadMarkRows
  <2>3. \A c \in Channels : leads'[c].mark = leads[c].mark
    BY <1>8, <1>a, <2>1, <2>2 DEF WebPageFails
  <2>4. ValMarks'  BY <1>8, ValMarksKept DEF WebPageFails
  <2> QED  BY <1>8, <1>c, <2>3, <2>4 DEF WebPageFails
<1>9. CASE FetchNothing(v)
  <2>1. val[v].at # "idle"  BY <1>9 DEF FetchNothing, ValAt
  <2>2. UNCHANGED <<read, cut, unsaved, queues, cache, jobs, leads>>  BY <1>9 DEF FetchNothing
  <2>3. PICK plan \in Judged(val[v].mark, val[v].mark, val[v].mark) :
          val' = [val EXCEPT ![v] = Planned(v, plan, val[v].mark, val[v].mark, {})]
    BY <1>9 DEF FetchNothing
  <2>4. plan \in Seq(Writes) /\ SaveFirst(plan)  BY JudgedType, PlansSaveFirst
  <2>5. ValMarks'
    <3> DEFINE ls == {}
               l  == val[v].mark
    <3>1. /\ val' = [val EXCEPT ![v] = Planned(v, plan, l, l, ls)]
          /\ l \in Mark /\ ls \in SUBSET Channels
      BY <1>a, <2>3
    <3> HIDE DEF ls, l
    <3> QED  BY <2>1, <2>2, <2>4, <3>1, ValMarksPlanned
  <2> QED  BY <1>c, <2>2, <2>5
<1>10. ASSUME NEW budget \in Budgets, Fetch(v, budget)  PROVE MarkInv'
  <2>1. val[v].at # "idle"  BY <1>10 DEF Fetch, ValAt
  <2> DEFINE t == Higher(posts[val[v].ch], val[v].mark)
             l == Higher(t - budget, val[v].mark)
             ls == setup.links[val[v].ch]
  <2>2. PICK plan \in Judged(val[v].mark, l, t) :
          val' = [val EXCEPT ![v] = Planned(v, plan, l, t, ls)]
    BY <1>10 DEF Fetch
  <2>3. posts[val[v].ch] \in Mark /\ ls \in SUBSET Channels
    BY <1>a, <1>b, <2>1, SettingType DEF StoreTypeOK
  <2>4. t \in Mark /\ l \in Mark
    <3>1. budget \in Nat /\ MaxPosts \in Nat  BY StoreAssumption
    <3> QED  BY <1>a, <2>3, <3>1 DEF Higher, Mark
  <2> HIDE DEF t, l, ls
  <2>5. plan \in Seq(Writes) /\ SaveFirst(plan)  BY JudgedType, PlansSaveFirst
  <2>6. UNCHANGED <<read, cut, unsaved, queues, cache, jobs, leads>>  BY <1>10 DEF Fetch, store
  <2>7. ValMarks'  BY <2>1, <2>2, <2>3, <2>4, <2>5, <2>6, ValMarksPlanned
  <2> QED  BY <1>c, <2>6, <2>7
<1> QED  BY <1>1, <1>2, <1>3, <1>4, <1>5, <1>6, <1>7, <1>8, <1>9, <1>10

\* The writes other than the save.
LEMMA WriteMarks ==
  ASSUME TypeInv, MarkInv, NEW v \in Validators, UNCHANGED sched,
         \/ Blacklist(v) \/ Upsert(v) \/ Stub(v) \/ Extracted(v) \/ Shun(v)
         \/ AdvanceMark(v) \/ CacheAdvanced(v) \/ CoolOff(v) \/ Log(v)
  PROVE  MarkInv'
<1>a. /\ StoreTypeOK /\ val[v] \in ValidatorState /\ leads \in [Channels -> LeadRow]
      /\ val[v].plan \in Seq(Writes) /\ ValMarked(val[v])
  BY ValFacts DEF StoreTypeOK, MarkInv, ValMarks
<1>b. \E w \in Writes \ {"save"} : Now(v, w)
  BY DEF Blacklist, Upsert, Stub, Extracted, Shun, AdvanceMark, CacheAdvanced, CacheSet,
         CoolOff, Log, Writes
<1>c. /\ ValAt(v, "writes") /\ Head(val[v].plan) # "save" /\ Done(v)
      /\ UNCHANGED <<read, cut, unsaved, queues, jobs>>
  <2> USE DEF database, redis, marks, observed
  <2>1. UNCHANGED <<read, cut, unsaved, queues, jobs>>
    BY DEF Blacklist, Upsert, Stub, Extracted, Shun, AdvanceMark, CacheAdvanced, CacheSet,
           CoolOff, Log
  <2>2. Done(v)
    BY DEF Blacklist, Upsert, Stub, Extracted, Shun, AdvanceMark, CacheAdvanced, CacheSet,
           CoolOff, Log
  <2> QED  BY <1>b, <2>1, <2>2 DEF Now
<1>d. val[v].ch \in Channels /\ val[v].plan # <<>>  BY <1>c, ValFacts DEF ValAt
<1>e. ValMarks'  BY <1>c, ValMarksDone
<1>f. leads[val[v].ch] \in LeadRow /\ Covered(val[v].ch, val[v].mark)
  BY <1>a, <1>d DEF ValMarked
<1>g. ASSUME UNCHANGED cache, \A c \in Channels : leads'[c].mark = leads[c].mark  PROVE MarkInv'
  BY <1>c, <1>e, <1>g, LeadMarksKept, CacheMarksKept, JobMarksKept, QueueMarksKept,
     SchedMarksKept DEF MarkInv
<1>h. ASSUME NEW row, row.mark = leads[val[v].ch].mark, leads' = [leads EXCEPT ![val[v].ch] = row]
      PROVE  \A c \in Channels : leads'[c].mark = leads[c].mark
  BY <1>a, <1>d, <1>h
\* When the watermark moves, its new value is covered.
<1>i. ASSUME Head(val[v].plan) \in TopWrites  PROVE Covered(val[v].ch, val[v].top)
  <2>1. ~SaveFirst(val[v].plan)
    <3>1. 1 \in 1..Len(val[v].plan) /\ 1..(1 - 1) = {} /\ Head(val[v].plan) = val[v].plan[1]
      BY <1>a, <1>d
    <3> QED  BY <1>i, <3>1 DEF SaveFirst
  <2> QED  BY <1>a, <1>c, <2>1 DEF ValMarked, ValAt
<1> USE DEF database, redis, marks, observed
<1>1. CASE Blacklist(v)
  <2>1. Rejected(leads[val[v].ch]).mark = leads[val[v].ch].mark  BY <1>f, LeadMarkRows
  <2> QED  BY <1>1, <1>g, <1>h, <2>1 DEF Blacklist
<1>2. CASE Upsert(v)
  <2> DEFINE st == IF Head(val[v].plan) = "accept" THEN "new" ELSE "rejected"
  <2>1. st \in {"new", "rejected"}  OBVIOUS
  <2>2. leads' = [leads EXCEPT ![val[v].ch] = Upserted(@, st)] /\ UNCHANGED cache
    BY <1>2 DEF Upsert
  <2> HIDE DEF st
  <2>3. leads' = [leads EXCEPT ![val[v].ch] = Upserted(leads[val[v].ch], st)]
    BY <1>a, <1>d, <2>2
  <2>4. Upserted(leads[val[v].ch], st).mark = leads[val[v].ch].mark  BY <1>f, <2>1, LeadMarkRows
  <2>5. \A c \in Channels : leads'[c].mark = leads[c].mark  BY <1>h, <2>3, <2>4
  <2> QED  BY <1>g, <2>2, <2>5
<1>3. CASE Stub(v)
  <2>1. Stubbed(leads[val[v].ch]).mark = leads[val[v].ch].mark  BY <1>f, LeadMarkRows
  <2> QED  BY <1>3, <1>g, <1>h, <2>1 DEF Stub
<1>4. CASE Extracted(v) \/ Shun(v) \/ Log(v)  BY <1>4, <1>g DEF Extracted, Shun, Log
<1>5. CASE CoolOff(v)
  <2> DEFINE b == leads[val[v].ch].status # "none"
             row == [leads[val[v].ch] EXCEPT !.scanned = b]
  <2>1. leads' = [leads EXCEPT ![val[v].ch] = row] /\ UNCHANGED cache
    BY <1>5, <1>a, <1>d DEF CoolOff
  <2> HIDE DEF b
  <2>2. row.mark = leads[val[v].ch].mark  BY <1>f, LeadMarkRows
  <2> HIDE DEF row
  <2> QED  BY <1>g, <1>h, <2>1, <2>2
<1>6. CASE AdvanceMark(v)
  <2>1. UNCHANGED <<read, cut, unsaved, cache>> /\ Covered(val[v].ch, val[v].top)
    BY <1>6, <1>i DEF AdvanceMark, Now, TopWrites
  <2>2. \A c \in Channels : \/ leads'[c].mark = leads[c].mark
                            \/ c = val[v].ch /\ leads'[c].mark = val[v].top
    <3>1. CASE leads' = [leads EXCEPT ![val[v].ch].mark = Higher(@, val[v].top)]
      BY <3>1, <1>a, <1>d, <1>f DEF LeadRow, Higher
    <3> QED  BY <1>6, <3>1 DEF AdvanceMark
  <2>3. LeadMarks'  BY <2>1, <2>2 DEF MarkInv, LeadMarks, Covered
  <2> QED
    BY <1>c, <1>e, <2>1, <2>3, CacheMarksKept, JobMarksKept, QueueMarksKept, SchedMarksKept
    DEF MarkInv
<1>7. ASSUME NEW what, NEW k \in Keys, NEW m, CacheSet(v, what, k, m), Covered(val[v].ch, m)
      PROVE  MarkInv'
  <2>1. UNCHANGED <<read, cut, unsaved, leads>>  BY <1>7 DEF CacheSet
  <2>2. CacheMarks'
    <3>1. cache \in [Channels -> [Keys -> Mark \cup {NoMark}]]  BY <1>a DEF StoreTypeOK
    <3>2. cache' = cache \/ cache' = [cache EXCEPT ![val[v].ch][k] = m]  BY <1>7 DEF CacheSet
    <3>3. \A c \in Channels, l \in Keys :
            cache'[c][l] = cache[c][l] \/ (c = val[v].ch /\ cache'[c][l] = m)
      BY <3>1, <3>2
    <3> QED  BY <1>7, <2>1, <3>3 DEF MarkInv, CacheMarks, Covered
  <2> QED
    BY <1>c, <1>e, <2>1, <2>2, LeadMarksKept, JobMarksKept, QueueMarksKept, SchedMarksKept
    DEF MarkInv
<1>8. CASE CacheAdvanced(v)
  <2>1. CASE CacheSet(v, "cacheId", "id", val[v].top)
    <3>1. Covered(val[v].ch, val[v].top)  BY <1>i, <2>1 DEF CacheSet, Now, TopWrites
    <3> QED  BY <1>7, <2>1, <3>1 DEF Keys
  <2>2. CASE CacheSet(v, "cacheName", "name", val[v].top)
    <3>1. Covered(val[v].ch, val[v].top)  BY <1>i, <2>2 DEF CacheSet, Now, TopWrites
    <3> QED  BY <1>7, <2>2, <3>1 DEF Keys
  <2>3. CASE CacheSet(v, "cacheMark", "name", val[v].mark)  BY <1>7, <1>f, <2>3 DEF Keys
  <2> QED  BY <1>8, <2>1, <2>2, <2>3 DEF CacheAdvanced
<1> QED  BY <1>1, <1>2, <1>3, <1>4, <1>5, <1>6, <1>8

\* The save: the posts fetched have been read or cut off from now on.
LEMMA SaveMarks ==
  ASSUME TypeInv, MarkInv, NEW v \in Validators, UNCHANGED sched, Save(v)
  PROVE  MarkInv'
<1>a. /\ StoreTypeOK /\ SchedulerTypeOK /\ ValidationTypeOK /\ ValInv
      /\ val \in [Validators -> ValidatorState] /\ val[v] \in ValidatorState
      /\ leads \in [Channels -> LeadRow] /\ val[v].plan \in Seq(Writes)
      /\ val[v].mark \in Mark /\ val[v].low \in Mark /\ val[v].top \in Mark
      /\ read \in [Channels -> SUBSET (1..MaxPosts)] /\ cut \in [Channels -> SUBSET (1..MaxPosts)]
  BY ValFacts DEF StoreTypeOK
<1>b. ValAt(v, "writes") /\ val[v].at = "writes"  BY DEF Save, Now, ValAt
<1>c. val[v].ch \in Channels /\ val[v].plan # <<>>  BY <1>b, ValFacts
<1> USE DEF database, redis, marks, observed
<1>d. UNCHANGED <<queues, cache, jobs, unsaved>>  BY DEF Save
<1>e. /\ read' = [read EXCEPT ![val[v].ch] = @ \cup ((val[v].low + 1)..val[v].top)]
      /\ cut' = [cut EXCEPT ![val[v].ch] = @ \cup ((val[v].mark + 1)..val[v].low)]
  BY DEF Save
<1>f. \A c \in Channels : \A m : Covered(c, m) => Covered(c, m)'
  <2>1. \A c \in Channels : /\ read[c] \subseteq read'[c] /\ cut[c] \subseteq cut'[c]
                            /\ unsaved[c] \subseteq unsaved'[c]
    BY <1>a, <1>d, <1>e
  <2> QED  BY <2>1, CoveredStays
<1>g. Covered(val[v].ch, val[v].mark) /\ ValMarked(val[v])
  BY <1>c DEF MarkInv, ValMarks, ValMarked
<1> PICK ch \in Channels, mk \in Mark, top \in Mark :
      ch = val[v].ch /\ mk = val[v].mark /\ top = val[v].top
  BY <1>a, <1>c
<1>h. Covered(ch, mk)' /\ Covered(ch, top)'
  <2>1. /\ read'[ch] = read[ch] \cup ((val[v].low + 1)..top)
        /\ cut'[ch] = cut[ch] \cup ((mk + 1)..val[v].low)
    BY <1>a, <1>e
  <2>2. ASSUME NEW i \in 1..top
        PROVE  i \in 1..mk \/ i \in (mk + 1)..val[v].low \/ i \in (val[v].low + 1)..top
    BY <1>a DEF Mark
  <2>3. 1..top \subseteq read'[ch] \cup cut'[ch] \cup unsaved'[ch]
    BY <1>d, <1>g, <2>1, <2>2 DEF Covered, Upto
  <2>4. Covered(ch, mk)'  BY <1>f, <1>g
  <2> QED  BY <2>3, <2>4 DEF Covered, Upto
<1>1. LeadMarks'
  <2> PICK status \in {"new", "rejected"} :
        leads' = [leads EXCEPT ![val[v].ch] = [Upserted(@, status) EXCEPT !.due = FALSE]]
    BY DEF Save
  <2> DEFINE row == [Upserted(leads[val[v].ch], status) EXCEPT !.due = FALSE]
  <2>1. leads[val[v].ch] \in LeadRow  BY <1>a, <1>c
  <2>2. leads' = [leads EXCEPT ![val[v].ch] = row]  BY <1>a, <1>c
  <2>3. row.mark = leads[val[v].ch].mark  BY <2>1, LeadMarkRows
  <2> HIDE DEF row
  <2>4. \A c \in Channels : leads'[c].mark = leads[c].mark  BY <1>a, <1>c, <2>2, <2>3
  <2> QED  BY <1>f, <2>4 DEF MarkInv, LeadMarks, Covered
<1>2. CacheMarks'  BY <1>d, <1>f DEF MarkInv, CacheMarks, Covered
<1>3. JobMarks'  BY <1>d, <1>f DEF MarkInv, JobMarks, Covered
<1>4. QueueMarks'
  <2>1. ASSUME NEW q \in QueueNames, NEW i \in 1..Len(queues[q])
        PROVE  queues[q][i].channel \in Channels
    <3>1. queues[q] \in Seq(Payload)  BY <1>a DEF StoreTypeOK
    <3>2. queues[q][i] \in Payload  BY <3>1, ElementOfSeq
    <3> QED  BY <3>2 DEF Payload
  <2> QED  BY <1>d, <1>f, <2>1 DEF MarkInv, QueueMarks, Covered
<1>5. SchedMarks'
  <2>1. \A s \in Schedulers : \A d \in sched[s].todo : d.channel \in Channels
    BY <1>a DEF SchedulerTypeOK, SchedulerState, DueRow
  <2> QED  BY <1>f, <2>1 DEF MarkInv, SchedMarks, SchedMarked, Covered
<1>6. ValMarks'
  <2>1. ASSUME NEW w \in Validators \ {v}  PROVE ValMarked(val[w])'
    <3>1. val'[w] = val[w]  BY <1>a DEF Save, Done, End
    <3>2. val[w].at = "writes" => val[w].ch \in Channels  BY ValFacts
    <3> QED  BY <1>f, <3>1, <3>2 DEF MarkInv, ValMarks, ValMarked, Covered
  <2>2. ValMarked(val[v])'
    <3>1. CASE Len(val[v].plan) = 1
      <4>1. val'[v] = IdleValidator  BY <1>a, <3>1 DEF Save, Done, End
      <4>2. IdleValidator.ch \notin Channels /\ IdleValidator.at = "idle"
        BY Constants DEF IdleValidator
      <4> QED  BY <4>1, <4>2 DEF ValMarked
    <3>2. CASE Len(val[v].plan) # 1
      <4>1. val' = [val EXCEPT ![v].plan = Tail(@)]  BY <3>2 DEF Save, Done
      <4>2. /\ val'[v].ch = val[v].ch /\ val'[v].mark = val[v].mark
            /\ val'[v].top = val[v].top
        BY <1>a, <4>1 DEF ValidatorState
      <4> QED  BY <1>h, <4>2 DEF ValMarked, Covered
    <3> QED  BY <3>1, <3>2
  <2> QED  BY <2>1, <2>2 DEF ValMarks
<1> QED  BY <1>1, <1>2, <1>3, <1>4, <1>5, <1>6 DEF MarkInv

\* The save that fails: the posts fetched count as lost from now on.
LEMMA SaveFailsMarks ==
  ASSUME TypeInv, MarkInv, NEW v \in Validators, UNCHANGED sched, SaveFails(v)
  PROVE  MarkInv'
<1>a. /\ StoreTypeOK /\ SchedulerTypeOK
      /\ val \in [Validators -> ValidatorState] /\ val[v] \in ValidatorState
      /\ val[v].mark \in Mark /\ val[v].top \in Mark
      /\ unsaved \in [Channels -> SUBSET (1..MaxPosts)]
  BY ValFacts DEF StoreTypeOK
<1>b. val[v].at = "writes"  BY DEF SaveFails, Now, ValAt
<1>c. val[v].ch \in Channels  BY <1>b, ValFacts
<1> USE DEF database, redis, marks, observed
<1>d. UNCHANGED <<read, cut, queues, cache, jobs, leads>>  BY DEF SaveFails
<1>e. unsaved' = [unsaved EXCEPT ![val[v].ch] = @ \cup ((val[v].mark + 1)..val[v].top)]
  BY DEF SaveFails
<1>f. \A c \in Channels : \A m : Covered(c, m) => Covered(c, m)'
  <2>1. \A c \in Channels : /\ read[c] \subseteq read'[c] /\ cut[c] \subseteq cut'[c]
                            /\ unsaved[c] \subseteq unsaved'[c]
    BY <1>a, <1>d, <1>e
  <2> QED  BY <2>1, CoveredStays
<1>g. Covered(val[v].ch, val[v].mark)  BY <1>c DEF MarkInv, ValMarks, ValMarked
<1> PICK ch \in Channels, mk \in Mark, top \in Mark :
      ch = val[v].ch /\ mk = val[v].mark /\ top = val[v].top
  BY <1>a, <1>c
<1>h. Covered(ch, mk)' /\ Covered(ch, top)'
  <2>1. unsaved'[ch] = unsaved[ch] \cup ((mk + 1)..top)  BY <1>a, <1>e
  <2>2. ASSUME NEW i \in 1..top  PROVE i \in 1..mk \/ i \in (mk + 1)..top
    BY DEF Mark
  <2>3. 1..top \subseteq read'[ch] \cup cut'[ch] \cup unsaved'[ch]
    BY <1>d, <1>g, <2>1, <2>2 DEF Covered, Upto
  <2>4. Covered(ch, mk)'  BY <1>f, <1>g
  <2> QED  BY <2>3, <2>4 DEF Covered, Upto
<1>1. LeadMarks'  BY <1>d, <1>f DEF MarkInv, LeadMarks, Covered
<1>2. CacheMarks'  BY <1>d, <1>f DEF MarkInv, CacheMarks, Covered
<1>3. JobMarks'  BY <1>d, <1>f DEF MarkInv, JobMarks, Covered
<1>4. QueueMarks'
  <2>1. ASSUME NEW q \in QueueNames, NEW i \in 1..Len(queues[q])
        PROVE  queues[q][i].channel \in Channels
    <3>1. queues[q] \in Seq(Payload)  BY <1>a DEF StoreTypeOK
    <3>2. queues[q][i] \in Payload  BY <3>1, ElementOfSeq
    <3> QED  BY <3>2 DEF Payload
  <2> QED  BY <1>d, <1>f, <2>1 DEF MarkInv, QueueMarks, Covered
<1>5. SchedMarks'
  <2>1. \A s \in Schedulers : \A d \in sched[s].todo : d.channel \in Channels
    BY <1>a DEF SchedulerTypeOK, SchedulerState, DueRow
  <2> QED  BY <1>f, <2>1 DEF MarkInv, SchedMarks, SchedMarked, Covered
<1>6. ValMarks'
  <2>1. ASSUME NEW w \in Validators \ {v}  PROVE ValMarked(val[w])'
    <3>1. val'[w] = val[w]  BY <1>a DEF SaveFails
    <3>2. val[w].at = "writes" => val[w].ch \in Channels  BY ValFacts
    <3> QED  BY <1>f, <3>1, <3>2 DEF MarkInv, ValMarks, ValMarked, Covered
  <2>2. ValMarked(val[v])'
    <3>1. val'[v] = [val[v] EXCEPT !.plan = Unsaved]  BY <1>a DEF SaveFails
    <3>2. val'[v].ch = val[v].ch /\ val'[v].mark = val[v].mark /\ val'[v].top = val[v].top
      BY <1>a, <3>1 DEF ValidatorState
    <3> QED  BY <1>h, <3>2 DEF ValMarked, Covered
  <2> QED  BY <2>1, <2>2 DEF ValMarks
<1> QED  BY <1>1, <1>2, <1>3, <1>4, <1>5, <1>6 DEF MarkInv

\* The other steps of a validator that has a plan.
LEMMA PlanMarks ==
  ASSUME TypeInv, MarkInv, NEW v \in Validators, UNCHANGED sched,
         \/ \E c \in Channels, way \in {"scan", "forward"} : Extract(v, c, way)
         \/ CloseJob(v) \/ (\E plan \in Failure : Raise(v, plan)) \/ ValidatorCrash(v)
  PROVE  MarkInv'
<1>a. /\ val \in [Validators -> ValidatorState] /\ val[v] \in ValidatorState
      /\ jobs \in [Jobs -> JobRow] /\ val[v].job \in Jobs \cup {None} /\ val[v].plan \in Seq(Writes)
  BY ValFacts DEF StoreTypeOK
<1>b. val[v].at # "idle"  BY DEF Extract, CloseJob, Raise, ValidatorCrash, Now, ValAt, Busy
<1>c. ValMarked(val[v])  BY DEF MarkInv, ValMarks
<1>d. ASSUME UNCHANGED <<read, cut, unsaved, queues, cache, leads>>, ValMarks',
             \A k \in Jobs : jobs'[k].channel = jobs[k].channel /\ jobs'[k].mark = jobs[k].mark
      PROVE  MarkInv'
  BY <1>d, LeadMarksKept, CacheMarksKept, JobMarksKept, QueueMarksKept, SchedMarksKept DEF MarkInv
<1> USE DEF database, redis, marks, observed
<1>1. ASSUME NEW c \in Channels, NEW way \in {"scan", "forward"}, Extract(v, c, way)  PROVE MarkInv'
  <2> DEFINE r == [val[v] EXCEPT !.links = @ \ {c}]
  <2>1. val' = [val EXCEPT ![v] = r]  BY <1>1, <1>a DEF Extract
  <2>2. /\ r.ch = val[v].ch /\ r.mark = val[v].mark /\ r.at = val[v].at
        /\ r.plan = val[v].plan /\ r.top = val[v].top
    BY <1>a DEF ValidatorState
  <2> HIDE DEF r
  <2>3. ValMarked(r)  BY <1>c, <2>2 DEF ValMarked
  <2>4. UNCHANGED <<read, cut, unsaved, queues, cache, leads, jobs>>  BY <1>1 DEF Extract, store
  <2>5. ValMarks'  BY <2>1, <2>3, <2>4, ValMarksMove
  <2> QED  BY <1>d, <2>4, <2>5
<1>2. CASE CloseJob(v)
  <2>1. UNCHANGED <<read, cut, unsaved, queues, cache, leads>>  BY <1>2 DEF CloseJob
  <2>2. ValAt(v, "writes") /\ Head(val[v].plan) \in {"complete", "fail"}
    BY <1>2 DEF CloseJob, Now
  <2>3. val[v].plan # <<>>  BY <2>2, ValFacts DEF ValAt
  <2>4. \A k \in Jobs : jobs'[k].channel = jobs[k].channel /\ jobs'[k].mark = jobs[k].mark
    <3>1. PICK st \in {"completed", "failed"} :
            jobs' = JobSet(val[v].job, st) \/ jobs' = jobs
      BY <1>2 DEF CloseJob
    <3>2. st \in JobStatus \ {"none"}  BY DEF JobStatus
    <3>3. CASE jobs' = jobs  BY <3>3
    <3>4. CASE jobs' = JobSet(val[v].job, st)  BY <1>a, <3>2, <3>4, JobSetRows
    <3> QED  BY <3>1, <3>3, <3>4
  <2>5. CASE Done(v)
    <3>1. ValMarks'  BY <2>1, <2>2, <2>5, ValMarksDone
    <3> QED  BY <1>d, <2>1, <2>4, <3>1
  <2>6. CASE Follow(v, AfterReport(val[v].plan))
    <3>1. AfterReport(val[v].plan) \in Seq(Writes)  BY <1>a, <2>3, AfterReportType
    <3>2. ValMarks'  BY <1>b, <2>1, <2>6, <3>1, ValMarksFollow
    <3> QED  BY <1>d, <2>1, <2>4, <3>2
  <2> QED  BY <1>2, <2>5, <2>6 DEF CloseJob
<1>3. ASSUME NEW plan \in Failure, Raise(v, plan)  PROVE MarkInv'
  <2> DEFINE ls == {}
             l  == 0
  <2>1. /\ val' = [val EXCEPT ![v] = Planned(v, plan, l, l, ls)]
        /\ l \in Mark /\ ls \in SUBSET Channels
    BY <1>3, Constants DEF Raise, Mark
  <2>2. plan \in Seq(Writes) /\ SaveFirst(plan)  BY PlanTypes, PlansSaveFirst
  <2>3. UNCHANGED <<read, cut, unsaved, queues, cache, leads, jobs>>  BY <1>3 DEF Raise
  <2> HIDE DEF ls, l
  <2>4. ValMarks'  BY <1>b, <2>1, <2>2, <2>3, ValMarksPlanned
  <2> QED  BY <1>d, <2>3, <2>4
<1>4. CASE ValidatorCrash(v)
  <2>1. ValMarks'  BY <1>4, ValMarksIdle DEF ValidatorCrash
  <2> QED  BY <1>4, <1>d, <2>1 DEF ValidatorCrash
<1> QED  BY <1>1, <1>2, <1>3, <1>4

\* Every step keeps what is under a watermark covered.
LEMMA MarkStep == TypeInv /\ MarkInv /\ [Next]_vars => MarkInv'
<1> SUFFICES ASSUME TypeInv, MarkInv, [Next]_vars PROVE MarkInv'  OBVIOUS
<1> USE DEF discovery
<1>1. ASSUME NEW s \in Schedulers, Scheduling(s)  PROVE MarkInv'
  BY <1>1, SchedulerMarks DEF Scheduling
<1>2. ASSUME NEW p \in Producers, Discovering(p)  PROVE MarkInv'
  BY <1>2, OtherMarks DEF Discovering
<1>3. CASE Seeding  BY <1>3, OtherMarks DEF Seeding
<1>4. ASSUME NEW v \in Validators, Validating(v)  PROVE MarkInv'
  <2>1. CASE HandStep(v) /\ UNCHANGED val
    BY <1>4, <2>1, HandMarks, Constants DEF Validating
  <2>2. CASE ~(HandStep(v) /\ UNCHANGED val)
    BY <1>4, <2>2, InspectionMarks, WriteMarks, SaveMarks, SaveFailsMarks, PlanMarks
    DEF Validating, ValidatorStep
  <2> QED  BY <2>1, <2>2
<1>5. CASE Elapsing
  <2>1. UNCHANGED <<sched, val>>
    BY <1>5 DEF Elapsing, LeaderExpires
  <2> QED  BY <1>5, <2>1, OtherMarks DEF Elapsing
<1>6. CASE UNCHANGED vars
  <2> USE <1>6 DEF vars, store, database, redis, marks, observed
  <2> QED
    BY LeadMarksKept, CacheMarksKept, JobMarksKept, QueueMarksKept, SchedMarksKept, ValMarksKept
    DEF MarkInv
<1> QED  BY <1>1, <1>2, <1>3, <1>4, <1>5, <1>6 DEF Next

LEMMA MarkInit == Init => MarkInv
<1> SUFFICES ASSUME Init PROVE MarkInv  OBVIOUS
<1>1. TypeInv  BY InitType
<1>2. \A c : Covered(c, 0) /\ Covered(c, NoMark)  BY DEF Covered, Upto, NoMark
<1>3. LeadMarks
  <2>1. \A c \in Channels : leads[c].mark = 0  BY DEF Init, StoreInit, NoLeadRow
  <2> QED  BY <1>2, <2>1 DEF LeadMarks
<1>4. CacheMarks  BY <1>2 DEF CacheMarks, Init, StoreInit
<1>5. JobMarks
  <2>1. \A j \in Jobs : jobs[j].mark = 0  BY DEF Init, StoreInit, NoJobRow
  <2> QED  BY <1>2, <2>1 DEF JobMarks
<1>6. QueueMarks  BY DEF QueueMarks, Init, StoreInit
<1>7. SchedMarks  BY Constants DEF SchedMarks, SchedMarked, Init, SchedulerInit, IdleScheduler
<1>8. ValMarks  BY Constants DEF ValMarks, ValMarked, Init, ValidationInit, IdleValidator
<1> QED  BY <1>3, <1>4, <1>5, <1>6, <1>7, <1>8 DEF MarkInv

LEMMA MarkMeans == TypeInv /\ MarkInv => NoPostSkipped
<1> SUFFICES ASSUME TypeInv, MarkInv, NEW c \in Channels, NEW m \in Mark, MarkInUse(c, m)
             PROVE  Covered(c, m)
  BY DEF NoPostSkipped, Covered
<1>1. CASE m = leads[c].mark  BY <1>1 DEF MarkInv, LeadMarks
<1>2. CASE \E k \in Keys : m = cache[c][k]  BY <1>2 DEF MarkInv, CacheMarks
<1>3. CASE \E j \in Jobs : jobs[j].channel = c /\ m = jobs[j].mark
  BY <1>3 DEF MarkInv, JobMarks
<1>4. CASE \E q \in QueueNames : \E i \in 1..Len(queues[q]) :
             queues[q][i].channel = c /\ queues[q][i].mark = m
  BY <1>4 DEF MarkInv, QueueMarks
<1>5. CASE \E s \in Schedulers : sched[s].channel = c /\ sched[s].mark = m
  BY <1>5 DEF MarkInv, SchedMarks, SchedMarked
<1>6. CASE \E s \in Schedulers : [channel |-> c, mark |-> m] \in sched[s].todo
  BY <1>6 DEF MarkInv, SchedMarks, SchedMarked
<1>7. CASE \E v \in Validators : val[v].ch = c /\ val[v].mark = m
  BY <1>7 DEF MarkInv, ValMarks, ValMarked
<1> QED  BY <1>1, <1>2, <1>3, <1>4, <1>5, <1>6, <1>7 DEF MarkInUse

\* The crawler passes over no post: every watermark that is stored, cached,
\* queued or in use, has only posts under it that a saved lead has taken in, that
\* one fetch could not hold, or whose lead was not saved because the statement of
\* upsert_lead_v5 failed.
THEOREM NoPostsSkipped == Spec => []NoPostSkipped
<1>1. Init => TypeInv /\ MarkInv  BY InitType, MarkInit
<1>2. (TypeInv /\ MarkInv) /\ [Next]_vars => (TypeInv /\ MarkInv)'  BY NextType, MarkStep
<1> QED  BY <1>1, <1>2, MarkMeans, PTL DEF Spec
=============================================================================
