-------------------------- MODULE CrawlJobs_proofs ---------------------------
(* Proof that a channel has one job under way: how often a job may be taken  *)
(* up, which jobs stay closed, and what the single scheduler in a cycle      *)
(* knows of the channels of its batch.                                       *)
EXTENDS CrawlLinks_proofs

-----------------------------------------------------------------------------
(* The copies of a job: in the queues and with the validators.               *)

\* Validator v has taken job k from a queue.
Holds(v, k) == val[v].job = k

\* Job k stands in the queues once at most.
QueuedOnce(k) ==
  \A q, r \in QueueNames : \A m \in 1..Len(queues[q]), n \in 1..Len(queues[r]) :
    queues[q][m].job = k /\ queues[r][n].job = k => q = r /\ m = n

\* There are no more copies of a job than there were pushes.
CopyOK(k) ==
  /\ pushes[k] = 0 => /\ ~Outstanding(k) /\ \A v \in Validators : ~Holds(v, k)
                      /\ jobs[k].status \in {"none", "pending", "enqueue_failed"}
  /\ pushes[k] = 1 => /\ QueuedOnce(k)
                      /\ \A v \in Validators : Holds(v, k) =>
                           ~Outstanding(k) /\ \A w \in Validators : Holds(w, k) => v = w

\* A job that was pushed once and closed early is not taken up again.
Closed(k) == jobs[k].status \in {"completed", "failed"} /\ jobs[k].age < 2
ClosedOK(k) ==
  Closed(k) /\ pushes[k] # 2 =>
    ~Outstanding(k) /\ \A v \in Validators : Holds(v, k) => ~ValAt(v, "checkout")

OverdueOK(k) == jobs[k].overdue => jobs[k].age >= 2

JobOK(k) == CopyOK(k) /\ ClosedOK(k) /\ OverdueOK(k)
CopyInv  == \A k \in Jobs : JobOK(k)

\* The queues after a step, when each entry for job k was there before, at
\* a place that differs by the same number throughout its queue.
LEMMA Shifted ==
  ASSUME NEW k \in Jobs, queues \in [QueueNames -> Seq(Payload)], NEW off \in [QueueNames -> Int],
         \A r \in QueueNames : \A m \in 1..Len(queues'[r]) : queues'[r][m].job = k =>
           m + off[r] \in 1..Len(queues[r]) /\ queues[r][m + off[r]].job = k,
         \A r \in QueueNames : Len(queues'[r]) \in Nat
  PROVE  /\ Outstanding(k)' => Outstanding(k)
         /\ QueuedOnce(k) => QueuedOnce(k)'
<1>1. ASSUME Outstanding(k)'  PROVE Outstanding(k)
  <2> PICK r \in QueueNames : \E m \in 1..Len(queues'[r]) : queues'[r][m].job = k
    BY <1>1 DEF Outstanding
  <2> PICK m \in 1..Len(queues'[r]) : queues'[r][m].job = k  OBVIOUS
  <2>1. m + off[r] \in 1..Len(queues[r]) /\ queues[r][m + off[r]].job = k  OBVIOUS
  <2> QED  BY <2>1 DEF Outstanding
<1>2. ASSUME QueuedOnce(k)  PROVE QueuedOnce(k)'
  <2> SUFFICES ASSUME NEW q \in QueueNames, NEW r \in QueueNames,
                      NEW m \in 1..Len(queues'[q]), NEW n \in 1..Len(queues'[r]),
                      queues'[q][m].job = k, queues'[r][n].job = k
               PROVE  q = r /\ m = n
    BY DEF QueuedOnce
  <2>1. /\ m + off[q] \in 1..Len(queues[q]) /\ queues[q][m + off[q]].job = k
        /\ n + off[r] \in 1..Len(queues[r]) /\ queues[r][n + off[r]].job = k
    OBVIOUS
  <2>2. q = r /\ m + off[q] = n + off[r]  BY <1>2, <2>1 DEF QueuedOnce
  <2>3. m \in Int /\ n \in Int /\ off[q] \in Int  OBVIOUS
  <2> QED  BY <2>2, <2>3
<1> QED  BY <1>1, <1>2

LEMMA CopyPushed ==
  ASSUME StoreTypeOK, NEW q \in QueueNames, NEW e \in Payload, PushLeft(q, e) \/ PushRight(q, e),
         NEW k \in Jobs
  PROVE  /\ e.job # k => /\ Outstanding(k)' => Outstanding(k)
                         /\ QueuedOnce(k) => QueuedOnce(k)'
         /\ e.job = k /\ ~Outstanding(k) => QueuedOnce(k)'
<1>1. queues \in [QueueNames -> Seq(Payload)] /\ queues[q] \in Seq(Payload)  BY DEF StoreTypeOK
<1>2. /\ queues'[q] = <<e>> \o queues[q] \/ queues'[q] = Append(queues[q], e)
      /\ \A r \in QueueNames \ {q} : queues'[r] = queues[r]
  BY <1>1 DEF PushLeft, PushRight
<1>3. \A r \in QueueNames : Len(queues[r]) \in Nat  BY <1>1
<1> DEFINE new == IF queues'[q] = <<e>> \o queues[q] THEN 1 ELSE Len(queues[q]) + 1
           d == IF queues'[q] = <<e>> \o queues[q] THEN -1 ELSE 0
           off == [r \in QueueNames |-> IF r = q THEN d ELSE 0]
<1>4. /\ Len(queues'[q]) = Len(queues[q]) + 1 /\ queues'[q][new] = e
      /\ \A m \in 1..Len(queues'[q]) :
           m = new \/ (m + d \in 1..Len(queues[q]) /\ queues'[q][m] = queues[q][m + d])
  <2>1. CASE queues'[q] = <<e>> \o queues[q]
    <3>1. /\ Len(queues'[q]) = Len(queues[q]) + 1 /\ queues'[q][1] = e
          /\ \A i \in 1..Len(queues[q]) : queues'[q][i + 1] = queues[q][i]
      BY <1>1, <2>1
    <3>2. ASSUME NEW m \in 1..Len(queues'[q]), m # 1
          PROVE  m + (-1) \in 1..Len(queues[q]) /\ queues'[q][m] = queues[q][m + (-1)]
      <4>1. m - 1 \in 1..Len(queues[q]) /\ (m - 1) + 1 = m /\ m + (-1) = m - 1
        BY <1>3, <3>1, <3>2
      <4>2. queues'[q][(m - 1) + 1] = queues[q][m - 1]  BY <3>1, <4>1
      <4> QED  BY <4>1, <4>2
    <3>3. new = 1 /\ d = -1  BY <2>1
    <3> HIDE DEF new, d
    <3> QED  BY <3>1, <3>2, <3>3
  <2>2. CASE queues'[q] = Append(queues[q], e) /\ queues'[q] # <<e>> \o queues[q]
    <3>1. /\ Len(queues'[q]) = Len(queues[q]) + 1 /\ queues'[q][Len(queues[q]) + 1] = e
          /\ \A i \in 1..Len(queues[q]) : queues'[q][i] = queues[q][i]
      BY <1>1, <2>2
    <3>2. ASSUME NEW m \in 1..Len(queues'[q]), m # Len(queues[q]) + 1
          PROVE  m + 0 \in 1..Len(queues[q]) /\ queues'[q][m] = queues[q][m + 0]
      BY <1>3, <3>1, <3>2
    <3>3. new = Len(queues[q]) + 1 /\ d = 0  BY <2>2
    <3> HIDE DEF new, d
    <3> QED  BY <3>1, <3>2, <3>3
  <2> QED  BY <1>2, <2>1, <2>2
<1>5. d \in Int /\ off \in [QueueNames -> Int] /\ off[q] = d
      /\ \A r \in QueueNames \ {q} : off[r] = 0
  OBVIOUS
<1> HIDE DEF new, d, off
<1>6. \A r \in QueueNames \ {q} : \A m \in 1..Len(queues'[r]) :
        m + off[r] \in 1..Len(queues[r]) /\ queues'[r][m] = queues[r][m + off[r]]
  <2> TAKE r \in QueueNames \ {q}
  <2> TAKE m \in 1..Len(queues'[r])
  <2>1. queues'[r] = queues[r] /\ off[r] = 0 /\ m + 0 = m  BY <1>2, <1>5
  <2> QED  BY <2>1
<1>7. \A r \in QueueNames : Len(queues'[r]) \in Nat
  BY <1>2, <1>3, <1>4
<1>8. ASSUME e.job # k
      PROVE  (Outstanding(k)' => Outstanding(k)) /\ (QueuedOnce(k) => QueuedOnce(k)')
  <2>1. ASSUME NEW r \in QueueNames, NEW m \in 1..Len(queues'[r]), queues'[r][m].job = k
        PROVE  m + off[r] \in 1..Len(queues[r]) /\ queues[r][m + off[r]].job = k
    <3>1. CASE r = q  BY <1>4, <1>5, <1>8, <2>1, <3>1
    <3>2. CASE r # q  BY <1>6, <2>1, <3>2
    <3> QED  BY <3>1, <3>2
  <2> QED  BY <1>1, <1>5, <1>7, <2>1, Shifted
<1>9. ASSUME e.job = k, ~Outstanding(k)  PROVE QueuedOnce(k)'
  <2>1. ASSUME NEW r \in QueueNames, NEW m \in 1..Len(queues'[r]), queues'[r][m].job = k
        PROVE  r = q /\ m = new
    <3>1. CASE r = q
      <4>1. \A i \in 1..Len(queues[q]) : queues[q][i].job # k  BY <1>9 DEF Outstanding
      <4> QED  BY <1>4, <2>1, <3>1, <4>1
    <3>2. CASE r # q
      <4>1. \A i \in 1..Len(queues[r]) : queues[r][i].job # k  BY <1>9 DEF Outstanding
      <4> QED  BY <1>6, <2>1, <3>2, <4>1
    <3> QED  BY <3>1, <3>2
  <2> QED  BY <2>1 DEF QueuedOnce
<1> QED  BY <1>8, <1>9

LEMMA CopyPopped ==
  ASSUME StoreTypeOK, NEW q \in QueueNames, queues[q] # <<>>,
         queues' = [queues EXCEPT ![q] = Tail(@)], NEW k \in Jobs
  PROVE  /\ Outstanding(k)' => Outstanding(k)
         /\ QueuedOnce(k) => QueuedOnce(k)'
         /\ Head(queues[q]).job = k => Outstanding(k) /\ (QueuedOnce(k) => ~Outstanding(k)')
<1>1. queues \in [QueueNames -> Seq(Payload)] /\ queues[q] \in Seq(Payload)  BY DEF StoreTypeOK
<1>2. /\ queues'[q] = Tail(queues[q]) /\ \A r \in QueueNames \ {q} : queues'[r] = queues[r]
  BY <1>1
<1>3. /\ Head(queues[q]) = queues[q][1] /\ Len(queues[q]) \in Nat /\ Len(queues[q]) # 0
      /\ Len(queues'[q]) = Len(queues[q]) - 1
      /\ \A i \in 1..Len(queues'[q]) : queues'[q][i] = queues[q][i + 1]
  BY <1>1, <1>2, HeadTailProperties
<1> DEFINE off == [r \in QueueNames |-> IF r = q THEN 1 ELSE 0]
<1>4. /\ off \in [QueueNames -> Int] /\ off[q] = 1 /\ \A r \in QueueNames \ {q} : off[r] = 0
  OBVIOUS
<1> HIDE DEF off
<1>5. ASSUME NEW r \in QueueNames, NEW m \in 1..Len(queues'[r])
      PROVE  m + off[r] \in 1..Len(queues[r]) /\ queues'[r][m] = queues[r][m + off[r]]
  <2>1. CASE r = q  BY <1>3, <1>4, <2>1
  <2>2. CASE r # q
    <3>1. queues'[r] = queues[r] /\ off[r] = 0 /\ m + 0 = m  BY <1>2, <1>4, <2>2
    <3> QED  BY <3>1
  <2> QED  BY <2>1, <2>2
<1>6. \A r \in QueueNames : Len(queues'[r]) \in Nat
  <2>1. \A r \in QueueNames : Len(queues[r]) \in Nat  BY <1>1
  <2> QED  BY <1>2, <1>3, <2>1
<1>7. (Outstanding(k)' => Outstanding(k)) /\ (QueuedOnce(k) => QueuedOnce(k)')
  <2>1. ASSUME NEW r \in QueueNames, NEW m \in 1..Len(queues'[r]), queues'[r][m].job = k
        PROVE  m + off[r] \in 1..Len(queues[r]) /\ queues[r][m + off[r]].job = k
    BY <1>5, <2>1
  <2> QED  BY <1>1, <1>4, <1>6, <2>1, Shifted
<1>8. ASSUME Head(queues[q]).job = k
      PROVE  Outstanding(k) /\ (QueuedOnce(k) => ~Outstanding(k)')
  <2>1. 1 \in 1..Len(queues[q]) /\ queues[q][1].job = k  BY <1>3, <1>8
  <2>2. Outstanding(k)  BY <2>1 DEF Outstanding
  <2>3. ASSUME QueuedOnce(k), Outstanding(k)'  PROVE FALSE
    <3> PICK r \in QueueNames : \E m \in 1..Len(queues'[r]) : queues'[r][m].job = k
      BY <2>3 DEF Outstanding
    <3> PICK m \in 1..Len(queues'[r]) : queues'[r][m].job = k  OBVIOUS
    <3>1. m + off[r] \in 1..Len(queues[r]) /\ queues[r][m + off[r]].job = k  BY <1>5
    <3>2. r = q /\ m + off[r] = 1  BY <2>1, <2>3, <3>1 DEF QueuedOnce
    <3> QED  BY <1>4, <3>2
  <2> QED  BY <2>2, <2>3
<1> QED  BY <1>7, <1>8

\* UPDATE crawl_jobs: what it sets, and what it leaves.
LEMMA JobSetFields ==
  ASSUME jobs \in [Jobs -> JobRow], NEW j \in Jobs \cup {None},
         NEW st \in JobStatus \ {"none"}, NEW k \in Jobs
  PROVE  /\ JobSet(j, st)[k].age = jobs[k].age
         /\ JobSet(j, st)[k].overdue = jobs[k].overdue
         /\ JobSet(j, st)[k].channel = jobs[k].channel
         /\ JobSet(j, st)[k].status =
              IF k = j /\ jobs[k].status # "none" THEN st ELSE jobs[k].status
<1>1. CASE j # None /\ jobs[j].status # "none"  BY <1>1, Constants DEF JobSet, JobRow
<1>2. CASE ~(j # None /\ jobs[j].status # "none")
  <2>1. JobSet(j, st) = jobs  BY <1>2 DEF JobSet
  <2> QED  BY <1>2, <2>1, Constants
<1> QED  BY <1>1, <1>2

\* A step that makes no copy of job k and does not close it.
LEMMA JobKept ==
  ASSUME NEW k \in Jobs, JobOK(k), pushes'[k] = pushes[k],
         Outstanding(k)' => Outstanding(k), QueuedOnce(k) => QueuedOnce(k)',
         \A v \in Validators : Holds(v, k)' =>
           Holds(v, k) /\ (ValAt(v, "checkout")' => ValAt(v, "checkout")),
         pushes[k] = 0 => jobs'[k].status \in {"none", "pending", "enqueue_failed"},
         Closed(k)' => Closed(k), OverdueOK(k)'
  PROVE  JobOK(k)'
<1>1. CopyOK(k)'  BY DEF JobOK, CopyOK
<1>2. ClosedOK(k)'  BY DEF JobOK, ClosedOK
<1> QED  BY <1>1, <1>2 DEF JobOK

\* A push makes one copy, of a job of which there is none if it was not pushed before.
LEMMA JobPushed ==
  ASSUME TypeInv, CopyInv, NEW j \in Jobs, NEW c \in Channels, NEW m \in Mark,
         NEW q \in QueueNames, PushLeft(q, JobPayload(j, c, m)), pushes' = Pushed(j),
         UNCHANGED <<jobs, val>>
  PROVE  CopyInv'
<1> DEFINE e == JobPayload(j, c, m)
<1>1. StoreTypeOK /\ pushes \in [Jobs -> 0..2] /\ e \in Payload /\ e.job = j
  BY PushType DEF TypeInv, TypeOK, StoreTypeOK, JobPayload
<1>2. PushLeft(q, e)  OBVIOUS
<1> HIDE DEF e
<1> SUFFICES ASSUME NEW k \in Jobs PROVE JobOK(k)'  BY DEF CopyInv
<1>3. JobOK(k)  BY DEF CopyInv
<1>4. OverdueOK(k)' /\ (Closed(k)' <=> Closed(k))  BY <1>3 DEF JobOK, OverdueOK, Closed
<1>5. CASE k # j
  <2>1. pushes'[k] = pushes[k]  BY <1>1, <1>5 DEF Pushed
  <2>2. (Outstanding(k)' => Outstanding(k)) /\ (QueuedOnce(k) => QueuedOnce(k)')
    BY <1>1, <1>2, <1>5, CopyPushed
  <2>3. pushes[k] = 0 => jobs'[k].status \in {"none", "pending", "enqueue_failed"}
    BY <1>3 DEF JobOK, CopyOK
  <2>4. \A v \in Validators : Holds(v, k)' =>
          Holds(v, k) /\ (ValAt(v, "checkout")' => ValAt(v, "checkout"))
    BY DEF Holds, ValAt
  <2> QED  BY <1>3, <1>4, <2>1, <2>2, <2>3, <2>4, JobKept
<1>6. CASE k = j /\ pushes[j] = 0
  <2>1. pushes'[k] = 1  BY <1>1, <1>6 DEF Pushed
  <2>2. QueuedOnce(k)'
    BY <1>1, <1>2, <1>3, <1>6, CopyPushed DEF JobOK, CopyOK
  <2>3. \A v \in Validators : ~Holds(v, k)'  BY <1>3, <1>6 DEF JobOK, CopyOK, Holds
  <2>4. ~Closed(k)'  BY <1>3, <1>4, <1>6 DEF JobOK, CopyOK, Closed
  <2> QED  BY <1>4, <2>1, <2>2, <2>3, <2>4 DEF JobOK, CopyOK, ClosedOK
<1>7. CASE k = j /\ pushes[j] # 0
  <2>1. pushes'[k] = 2  BY <1>1, <1>7 DEF Pushed
  <2> QED  BY <1>4, <2>1 DEF JobOK, CopyOK, ClosedOK
<1> QED  BY <1>5, <1>6, <1>7

\* A statement on crawl_jobs by itself.
LEMMA RowsKept ==
  ASSUME CopyInv, UNCHANGED <<pushes, queues, val>>,
         \A k \in Jobs : /\ jobs'[k].age = jobs[k].age /\ jobs'[k].overdue = jobs[k].overdue
                         /\ pushes[k] = 0 => jobs'[k].status \in {"none", "pending", "enqueue_failed"}
                         /\ Closed(k)' => Closed(k)
  PROVE  CopyInv'
<1> SUFFICES ASSUME NEW k \in Jobs PROVE JobOK(k)'  BY DEF CopyInv
<1>1. JobOK(k)  BY DEF CopyInv
<1>2. OverdueOK(k)'  BY <1>1 DEF JobOK, OverdueOK
<1>3. (Outstanding(k)' <=> Outstanding(k)) /\ (QueuedOnce(k)' <=> QueuedOnce(k))
  BY DEF Outstanding, QueuedOnce
<1>4. \A v \in Validators : /\ Holds(v, k)' <=> Holds(v, k)
                            /\ ValAt(v, "checkout")' <=> ValAt(v, "checkout")
  BY DEF Holds, ValAt
<1> QED  BY <1>1, <1>2, <1>3, <1>4, JobKept

LEMMA SchedulerCopies ==
  ASSUME TypeInv, PushedInv, CopyInv, NEW s \in Schedulers, SchedulerStep(s, Fresh), UNCHANGED val
  PROVE  CopyInv'
<1>a. /\ StoreTypeOK /\ JobInv /\ SchedulerOK(sched[s], jobs) /\ sched[s] \in SchedulerState
      /\ jobs \in [Jobs -> JobRow] /\ pushes \in [Jobs -> 0..2]
      /\ sched[s].job \in Jobs \cup {None} /\ sched[s].stuck \subseteq Jobs
  BY DEF TypeInv, TypeOK, StoreTypeOK, SchedulerTypeOK, SchedInv, SchedulerState
<1>b. \A k \in Jobs : JobOK(k)  BY DEF CopyInv
<1>c. \A k \in Jobs : pushes[k] = 0 => jobs[k].status \in {"none", "pending", "enqueue_failed"}
  BY <1>b DEF JobOK, CopyOK
<1>d. ASSUME UNCHANGED <<jobs, pushes, queues>>  PROVE CopyInv'
  BY <1>c, <1>d, RowsKept DEF Closed
<1> USE DEF database, redis, observed, store
<1>1. CASE AcquireLeaderLock(s) \/ ReleaseLeaderLock(s) \/ SchedulerCrash(s)
  <2>1. UNCHANGED <<jobs, pushes, queues>>
    BY <1>1 DEF AcquireLeaderLock, ReleaseLeaderLock, SchedulerCrash
  <2> QED  BY <1>d, <2>1
<1>2. CASE SelectStuckJobs(s) \/ RepushFails(s) \/ ReadvanceLead(s) \/ CheckPressure(s)
  <2>1. UNCHANGED <<jobs, pushes, queues>>
    BY <1>2 DEF SelectStuckJobs, RepushFails, ReadvanceLead, CheckPressure
  <2> QED  BY <1>d, <2>1
<1>3. CASE SelectDueChannels(s, Fresh) \/ ScheduleChannel(s) \/ FillCache(s)
  <2>1. UNCHANGED <<jobs, pushes, queues>>
    BY <1>3 DEF SelectDueChannels, ScheduleChannel, FillCache
  <2> QED  BY <1>d, <2>1
<1>4. CASE PushFails(s) \/ AdvanceLead(s)
  <2>1. UNCHANGED <<jobs, pushes, queues>>  BY <1>4 DEF PushFails, AdvanceLead
  <2> QED  BY <1>d, <2>1
<1>5. CASE RepushJob(s)
  <2> PICK j \in sched[s].stuck :
         /\ PushLeft(jobs[j].queue, JobPayload(j, jobs[j].channel, jobs[j].mark))
         /\ pushes' = Pushed(j) /\ UNCHANGED jobs
    BY <1>5 DEF RepushJob
  <2>1. j \in Jobs /\ jobs[j].status # "none"  BY <1>a DEF SchedulerOK
  <2>2. jobs[j].channel \in Channels /\ jobs[j].mark \in Mark /\ jobs[j].queue \in QueueNames
    BY <1>a, <2>1, JobRows DEF JobInv
  <2> QED  BY <2>1, <2>2, JobPushed
<1>6. ASSUME NEW q \in Tiers, PushJob(s, q)  PROVE CopyInv'
  <2>1. /\ PushLeft(q, JobPayload(sched[s].job, sched[s].channel, sched[s].mark))
        /\ pushes' = Pushed(sched[s].job) /\ UNCHANGED jobs /\ sched[s].at = "push"
    BY <1>6 DEF PushJob, At
  <2>2. /\ sched[s].job \in Jobs /\ sched[s].channel \in Channels /\ sched[s].mark \in Mark
        /\ q \in QueueNames
    BY <1>a, <2>1, Constants DEF SchedulerOK, SchedulerState
  <2> QED  BY <2>1, <2>2, JobPushed
<1>7. ASSUME NEW q \in Tiers, InsertJob(s, q, Fresh)  PROVE CopyInv'
  <2> DEFINE j == CHOOSE j \in Fresh : Unused(j)
             row == [NoJobRow EXCEPT !.status = "pending", !.channel = sched[s].channel,
                                     !.mark = sched[s].mark, !.queue = q]
  <2>1. /\ \E i \in Fresh : Unused(i)
        /\ jobs' = [jobs EXCEPT ![j] = row] \/ jobs' = [jobs EXCEPT ![j] = NoJobRow]
        /\ pushes' = [pushes EXCEPT ![j] = 0] /\ UNCHANGED queues
    BY <1>7 DEF InsertJob
  <2>2. j \in Fresh /\ Unused(j)  BY <2>1
  <2>3. j \in Jobs /\ \A v \in Validators : val[v].job # j
    BY <1>a, <2>2, SettingType DEF Fresh, StoreTypeOK
  <2>4. /\ row.status = "pending" /\ ~row.overdue
        /\ NoJobRow.status = "none" /\ ~NoJobRow.overdue
    BY DEF NoJobRow
  <2> HIDE DEF j, row
  <2> SUFFICES ASSUME NEW k \in Jobs PROVE JobOK(k)'  BY DEF CopyInv
  <2>5. CASE k = j
    <3>1. pushes'[k] = 0 /\ jobs'[k].status \in {"none", "pending"} /\ ~jobs'[k].overdue
      BY <1>a, <2>1, <2>3, <2>4, <2>5
    <3>2. ~Outstanding(k)'  BY <2>1, <2>2, <2>5 DEF Unused, Outstanding
    <3>3. \A v \in Validators : ~Holds(v, k)'  BY <2>3, <2>5 DEF Holds
    <3> QED  BY <3>1, <3>2, <3>3 DEF JobOK, CopyOK, ClosedOK, OverdueOK, Closed
  <2>6. CASE k # j
    <3>1. pushes'[k] = pushes[k] /\ jobs'[k] = jobs[k]  BY <1>a, <2>1, <2>6
    <3>2. OverdueOK(k)' /\ (Closed(k)' <=> Closed(k))  BY <1>b, <3>1 DEF JobOK, OverdueOK, Closed
    <3>3. (Outstanding(k)' <=> Outstanding(k)) /\ (QueuedOnce(k)' <=> QueuedOnce(k))
      BY <2>1 DEF Outstanding, QueuedOnce
    <3>4. \A v \in Validators : /\ Holds(v, k)' <=> Holds(v, k)
                                /\ ValAt(v, "checkout")' <=> ValAt(v, "checkout")
      BY DEF Holds, ValAt
    <3> QED  BY <1>b, <1>c, <3>1, <3>2, <3>3, <3>4, JobKept
  <2> QED  BY <2>5, <2>6
<1>8. CASE RequeueJob(s) \/ MarkQueued(s)
  <2>1. /\ sched[s].at \in {"requeue", "queued"} /\ UNCHANGED <<pushes, queues>>
        /\ jobs' = JobSet(sched[s].job, "queued") \/ UNCHANGED jobs
    BY <1>8 DEF RequeueJob, MarkQueued, At
  <2>2. sched[s].job \in Jobs /\ pushes[sched[s].job] > 0  BY <2>1 DEF PushedInv, PushedAt
  <2>3. CASE jobs' = JobSet(sched[s].job, "queued")
    <3>1. ASSUME NEW k \in Jobs
          PROVE  /\ jobs'[k].age = jobs[k].age /\ jobs'[k].overdue = jobs[k].overdue
                 /\ pushes[k] = 0 => jobs'[k].status \in {"none", "pending", "enqueue_failed"}
                 /\ Closed(k)' => Closed(k)
      <4>1. "queued" \in JobStatus \ {"none"}  BY DEF JobStatus
      <4>2. /\ jobs'[k].age = jobs[k].age /\ jobs'[k].overdue = jobs[k].overdue
            /\ jobs'[k].status = IF k = sched[s].job /\ jobs[k].status # "none"
                                 THEN "queued" ELSE jobs[k].status
        BY <1>a, <2>3, <4>1, JobSetFields
      <4>3. pushes[k] = 0 => k # sched[s].job  BY <1>a, <2>2
      <4> QED  BY <1>c, <4>2, <4>3 DEF Closed
    <3> QED  BY <2>1, <3>1, RowsKept
  <2> QED  BY <1>d, <2>1, <2>3
<1>9. CASE MarkEnqueueFailed(s)
  <2>1. /\ UNCHANGED <<pushes, queues>>
        /\ jobs' = JobSet(sched[s].job, "enqueue_failed") \/ UNCHANGED jobs
    BY <1>9 DEF MarkEnqueueFailed
  <2>2. CASE jobs' = JobSet(sched[s].job, "enqueue_failed")
    <3>1. ASSUME NEW k \in Jobs
          PROVE  /\ jobs'[k].age = jobs[k].age /\ jobs'[k].overdue = jobs[k].overdue
                 /\ pushes[k] = 0 => jobs'[k].status \in {"none", "pending", "enqueue_failed"}
                 /\ Closed(k)' => Closed(k)
      <4>1. "enqueue_failed" \in JobStatus \ {"none"}  BY DEF JobStatus
      <4>2. /\ jobs'[k].age = jobs[k].age /\ jobs'[k].overdue = jobs[k].overdue
            /\ jobs'[k].status = IF k = sched[s].job /\ jobs[k].status # "none"
                                 THEN "enqueue_failed" ELSE jobs[k].status
        BY <1>a, <2>2, <4>1, JobSetFields
      <4> QED  BY <1>c, <4>2 DEF Closed
    <3> QED  BY <2>1, <3>1, RowsKept
  <2> QED  BY <1>d, <2>1, <2>2
<1>10. CASE FailStaleJobs(s)
  <2>1. /\ UNCHANGED <<pushes, queues>>
        /\ \/ UNCHANGED jobs
           \/ jobs' = [j \in Jobs |-> IF jobs[j].status = "running" /\ jobs[j].overdue
                                      THEN [jobs[j] EXCEPT !.status = "failed"] ELSE jobs[j]]
    BY <1>10 DEF FailStaleJobs
  <2>2. CASE ~UNCHANGED jobs
    <3>1. ASSUME NEW k \in Jobs
          PROVE  /\ jobs'[k].age = jobs[k].age /\ jobs'[k].overdue = jobs[k].overdue
                 /\ pushes[k] = 0 => jobs'[k].status \in {"none", "pending", "enqueue_failed"}
                 /\ Closed(k)' => Closed(k)
      <4>1. CASE jobs[k].status = "running" /\ jobs[k].overdue
        <5>1. jobs'[k] = [jobs[k] EXCEPT !.status = "failed"]  BY <2>1, <2>2, <4>1
        <5>2. jobs'[k].age = jobs[k].age /\ jobs'[k].overdue = jobs[k].overdue
          BY <1>a, <5>1 DEF JobRow
        <5>3. jobs[k].age >= 2 /\ jobs[k].age \in Nat
          BY <1>a, <1>b, <4>1 DEF JobOK, OverdueOK, JobRow
        <5>4. pushes[k] # 0  BY <1>c, <4>1
        <5> QED  BY <5>2, <5>3, <5>4 DEF Closed
      <4>2. CASE ~(jobs[k].status = "running" /\ jobs[k].overdue)
        <5>1. jobs'[k] = jobs[k]  BY <2>1, <2>2, <4>2
        <5> QED  BY <1>c, <5>1 DEF Closed
      <4> QED  BY <4>1, <4>2
    <3> QED  BY <2>1, <3>1, RowsKept
  <2> QED  BY <1>d, <2>1, <2>2
<1>11. CASE \E q \in Tiers : InsertJob(s, q, Fresh) \/ PushJob(s, q)  BY <1>6, <1>7, <1>11
<1> QED  BY <1>1, <1>2, <1>3, <1>4, <1>5, <1>8, <1>9, <1>10, <1>11 DEF SchedulerStep

\* A link is no job.
LEMMA LinkQueued ==
  ASSUME TypeInv, CopyInv, NEW q \in QueueNames, NEW e \in Payload, e.job = None,
         PushRight(q, e), UNCHANGED <<jobs, pushes, val>>
  PROVE  CopyInv'
<1> SUFFICES ASSUME NEW k \in Jobs PROVE JobOK(k)'  BY DEF CopyInv
<1>1. JobOK(k) /\ StoreTypeOK /\ e.job # k  BY Constants DEF CopyInv, TypeInv, TypeOK
<1>2. (Outstanding(k)' => Outstanding(k)) /\ (QueuedOnce(k) => QueuedOnce(k)')
  BY <1>1, CopyPushed
<1>3. OverdueOK(k)' /\ (Closed(k)' <=> Closed(k))  BY <1>1 DEF JobOK, OverdueOK, Closed
<1>4. \A v \in Validators : /\ Holds(v, k)' <=> Holds(v, k)
                            /\ ValAt(v, "checkout")' <=> ValAt(v, "checkout")
  BY DEF Holds, ValAt
<1>5. pushes[k] = 0 => jobs'[k].status \in {"none", "pending", "enqueue_failed"}
  BY <1>1 DEF JobOK, CopyOK
<1> QED  BY <1>1, <1>2, <1>3, <1>4, <1>5, JobKept

\* Nothing happens to the jobs.
LEMMA CopyFrame ==
  ASSUME CopyInv, UNCHANGED <<jobs, pushes, queues, val>>  PROVE CopyInv'
<1>1. \A k \in Jobs : pushes[k] = 0 => jobs[k].status \in {"none", "pending", "enqueue_failed"}
  BY DEF CopyInv, JobOK, CopyOK
<1> QED  BY <1>1, RowsKept DEF Closed

LEMMA HandCopies ==
  ASSUME TypeInv, CopyInv, NEW p \in Processes, HandStep(p), UNCHANGED val
  PROVE  CopyInv'
<1>a. ~Empty(p)
  BY DEF HandStep, CheckSeen, ClaimSeen, CountFirst, Tally, Reserve, PushLink, StubLink, Doing
<1>b. /\ hand[p].ch \in Channels /\ hand[p].src \in Channels \cup {None}
  BY <1>a DEF TypeInv, TypeOK, HandInv, DiscoveryTypeOK, HandState
<1>1. UNCHANGED <<jobs, pushes>>
  BY DEF HandStep, CheckSeen, ClaimSeen, CountFirst, Tally, Reserve, PushLink, StubLink,
         store, database, observed
<1>2. ASSUME NEW q \in Tiers, PushLink(p, q)  PROVE CopyInv'
  <2> DEFINE e == LinkTo(hand[p].ch, SourceOf(p))
  <2>1. e \in Payload /\ e.job = None
    <3>1. 0 \in Mark  BY Constants DEF Mark
    <3> QED  BY <1>b, <3>1 DEF LinkTo, SourceOf, Payload
  <2>2. PushRight(q, e) /\ q \in QueueNames  BY <1>2, Constants DEF PushLink
  <2> HIDE DEF e
  <2> QED  BY <1>1, <2>1, <2>2, LinkQueued
<1>3. CASE UNCHANGED queues  BY <1>1, <1>3, CopyFrame
<1> QED  BY <1>2, <1>3
         DEF HandStep, CheckSeen, ClaimSeen, CountFirst, Tally, Reserve, StubLink, store, redis

\* Those who find links, and time, which makes jobs older.
LEMMA OtherCopies ==
  ASSUME TypeInv, CopyInv, Next,
         \A s \in Schedulers : ~Scheduling(s), \A v \in Validators : ~Validating(v)
  PROVE  CopyInv'
<1> USE DEF database, redis, marks, observed, store, discovery
<1>1. ASSUME NEW p \in Producers, DiscoveryStep(p), UNCHANGED val  PROVE CopyInv'
  <2>1. CASE HandStep(p)
    <3>1. p \in Processes  BY Constants
    <3> QED  BY <1>1, <2>1, <3>1, HandCopies
  <2>2. CASE ~HandStep(p)
    <3>1. UNCHANGED <<jobs, pushes, queues>>  BY <1>1, <2>2 DEF DiscoveryStep, FindLink, LoseLink
    <3> QED  BY <1>1, <3>1, CopyFrame
  <2> QED  BY <2>1, <2>2
<1>2. CASE Seeding
  <2>1. UNCHANGED <<jobs, pushes, val>>  BY <1>2 DEF Seeding, SeedStep, EnqueueSeed, SeedFault
  <2>2. ASSUME NEW c \in Channels, NEW q \in Tiers, EnqueueSeed(c, q)  PROVE CopyInv'
    <3> DEFINE e == LinkTo(c, None)
    <3>1. e \in Payload /\ e.job = None /\ q \in QueueNames
      <4>1. 0 \in Mark  BY Constants DEF Mark
      <4> QED  BY <4>1, Constants DEF LinkTo, Payload
    <3>2. PushRight(q, e) \/ UNCHANGED queues  BY <2>2 DEF EnqueueSeed
    <3> HIDE DEF e
    <3> QED  BY <2>1, <3>1, <3>2, LinkQueued, CopyFrame
  <2>3. CASE SeedFault
    <3>1. UNCHANGED queues  BY <2>3 DEF SeedFault
    <3> QED  BY <2>1, <3>1, CopyFrame
  <2> QED  BY <1>2, <2>2, <2>3 DEF Seeding, SeedStep
<1>3. CASE Elapsing
  <2>a. UNCHANGED <<pushes, queues, val>>
    BY <1>3 DEF Elapsing, StoreNext, Post, FallDue, AgeJob, RunOverdue, CacheExpires,
                LeaderExpires, ReserveExpires, CountExpires
  <2>b. jobs \in [Jobs -> JobRow]  BY DEF TypeInv, TypeOK, StoreTypeOK
  <2>1. CASE UNCHANGED jobs  BY <2>a, <2>1, CopyFrame
  <2>2. ASSUME NEW j \in Jobs, AgeJob(j) \/ RunOverdue(j)  PROVE CopyInv'
    <3> SUFFICES ASSUME NEW k \in Jobs PROVE JobOK(k)'  BY DEF CopyInv
    <3>1. JobOK(k) /\ jobs[k] \in JobRow  BY <2>b DEF CopyInv
    <3>2. /\ jobs'[k].status = jobs[k].status
          /\ \/ jobs'[k].age = jobs[k].age
                /\ (jobs'[k].overdue = jobs[k].overdue \/ jobs[k].age >= 2)
             \/ jobs'[k].age = jobs[k].age + 1 /\ jobs'[k].overdue = jobs[k].overdue
      <4>1. CASE AgeJob(j)
        <5>1. jobs' = [jobs EXCEPT ![j].age = @ + 1]  BY <4>1 DEF AgeJob
        <5> QED  BY <2>b, <5>1 DEF JobRow
      <4>2. CASE RunOverdue(j)
        <5>1. jobs' = [jobs EXCEPT ![j].overdue = TRUE] /\ jobs[j].age >= 2
          BY <4>2 DEF RunOverdue
        <5> QED  BY <2>b, <5>1 DEF JobRow
      <4> QED  BY <2>2, <4>1, <4>2
    <3>3. jobs[k].age \in Nat  BY <3>1 DEF JobRow
    <3>4. OverdueOK(k)' /\ (Closed(k)' => Closed(k))
      BY <3>1, <3>2, <3>3 DEF JobOK, OverdueOK, Closed
    <3>5. (Outstanding(k)' <=> Outstanding(k)) /\ (QueuedOnce(k)' <=> QueuedOnce(k))
      BY <2>a DEF Outstanding, QueuedOnce
    <3>6. \A v \in Validators : /\ Holds(v, k)' <=> Holds(v, k)
                                /\ ValAt(v, "checkout")' <=> ValAt(v, "checkout")
      BY <2>a DEF Holds, ValAt
    <3>7. pushes[k] = 0 => jobs'[k].status \in {"none", "pending", "enqueue_failed"}
      BY <3>1, <3>2 DEF JobOK, CopyOK
    <3> QED  BY <2>a, <3>1, <3>4, <3>5, <3>6, <3>7, JobKept
  <2> QED
    BY <1>3, <2>1, <2>2 DEF Elapsing, StoreNext, Post, FallDue, CacheExpires, LeaderExpires,
                            ReserveExpires, CountExpires
<1>4. CASE \E p \in Producers \cap setup.run : Discovering(p)  BY <1>1, <1>4 DEF Discovering
<1> QED  BY <1>2, <1>3, <1>4 DEF Next

\* But for the pop, a validator takes no job, and does not go back to the checkout.
Calm(v) == /\ \A w \in Validators \ {v} : val'[w] = val[w]
           /\ val'[v].job \in {val[v].job, None}
           /\ val'[v] = val[v] \/ val'[v].at # "checkout"

LEMMA ValidatorCalm ==
  ASSUME TypeInv, NEW v \in Validators, ValidatorStep(v), ~Pop(v)
  PROVE  Calm(v)
<1>a. /\ val \in [Validators -> ValidatorState] /\ val[v] \in ValidatorState
      /\ val[v].plan \in Seq(Writes) /\ val[v].mark \in Mark
      /\ val[v].at = "writes" => val[v].plan # <<>>
      /\ StoreTypeOK
  BY ValFacts
<1> USE DEF ValAt
<1>b. ASSUME NEW plan \in Seq(Writes), Follow(v, plan)  PROVE Calm(v)
  BY <1>b, FollowFields DEF Calm
<1>c. ASSUME NEW plan \in Seq(Writes), NEW l \in Mark, NEW t \in Mark, NEW ls \in SUBSET Channels,
             val' = [val EXCEPT ![v] = Planned(v, plan, l, t, ls)]
      PROVE  Calm(v)
  BY <1>c, PlannedFields DEF Calm
<1>d. ASSUME ValAt(v, "writes"), Done(v)  PROVE Calm(v)
  BY <1>d, DoneFields DEF Calm
<1>2. CASE Checkout(v)
  <2>1. CASE val[v].ch \in setup.malformed  BY <1>2, <1>b, <2>1, PlanTypes DEF Checkout
  <2>2. CASE val[v].ch \notin setup.malformed
    <3> DEFINE w == IF val[v].mark = 0 THEN "lookup" ELSE "gate"
    <3>1. val' = [val EXCEPT ![v].at = w] /\ w # "checkout"  BY <1>2, <2>2 DEF Checkout
    <3> HIDE DEF w
    <3> QED  BY <1>a, <3>1 DEF Calm, ValidatorState
  <2> QED  BY <2>1, <2>2
<1>3. CASE LookupMark(v) \/ CacheMark(v)
  <2>1. CASE LookupMark(v)
    <3> DEFINE c == val[v].ch
               m == IF cache[c]["name"] # NoMark THEN cache[c]["name"] ELSE leads[c].mark
               w == IF cache[c]["name"] = NoMark /\ leads[c].status # "none" THEN "cache"
                                                                            ELSE "gate"
    <3>1. \/ val' = [val EXCEPT ![v].mark = m, ![v].at = w]
          \/ val' = [val EXCEPT ![v].at = "gate"]
      BY <2>1 DEF LookupMark
    <3>2. w # "checkout"  OBVIOUS
    <3> HIDE DEF m, w
    <3> QED  BY <1>a, <3>1, <3>2 DEF Calm, ValidatorState
  <2>2. CASE CacheMark(v)  BY <2>2, <1>a DEF CacheMark, Calm, ValidatorState
  <2> QED  BY <1>3, <2>1, <2>2
<1>4. CASE Gate(v)
  <2>1. CASE Follow(v, Blacklisted) \/ Follow(v, BadSource) \/ Follow(v, InCoolDown)
    BY <1>b, <2>1, PlanTypes
  <2>2. CASE val' = [val EXCEPT ![v].at = "inspect"]
    BY <1>a, <2>2 DEF Calm, ValidatorState
  <2> QED  BY <1>4, <2>1, <2>2 DEF Gate
<1>5. CASE GiveUp(v) \/ ValidatorCrash(v)
  <2>1. val' = [val EXCEPT ![v] = IdleValidator]  BY <1>5 DEF GiveUp, ValidatorCrash
  <2> QED  BY <2>1, IdleFields DEF Calm
<1>6. ASSUME NEW plan \in Refused \cup FromWebPage \cup Failure, Dismiss(v, plan)  PROVE Calm(v)
  <2>1. Follow(v, plan) /\ plan \in Seq(Writes)  BY <1>6, PlanTypes DEF Dismiss
  <2> QED  BY <1>b, <2>1
<1>7. CASE FetchNothing(v)
  <2> DEFINE ls == {}
  <2>1. PICK plan \in Judged(val[v].mark, val[v].mark, val[v].mark) :
          val' = [val EXCEPT ![v] = Planned(v, plan, val[v].mark, val[v].mark, ls)]
    BY <1>7 DEF FetchNothing
  <2>2. plan \in Seq(Writes) /\ ls \in SUBSET Channels  BY JudgedType
  <2> HIDE DEF ls
  <2> QED  BY <1>a, <1>c, <2>1, <2>2
<1>8. ASSUME NEW budget \in Budgets, Fetch(v, budget)  PROVE Calm(v)
  <2> DEFINE c == val[v].ch
             top == Higher(posts[c], val[v].mark)
             low == Higher(top - budget, val[v].mark)
             ls == setup.links[c]
  <2>1. PICK plan \in Judged(val[v].mark, low, top) :
          val' = [val EXCEPT ![v] = Planned(v, plan, low, top, ls)]
    BY <1>8 DEF Fetch
  <2>2. val[v].at = "inspect" /\ c \in Channels  BY <1>8, ValFacts DEF Fetch
  <2>3. plan \in Seq(Writes)
    <3> HIDE DEF low, top, ls
    <3> QED  BY JudgedType
  <2>4. low \in Mark /\ top \in Mark
    <3>1. posts[c] \in Mark /\ budget \in Nat  BY <1>a, <2>2, StoreAssumption DEF StoreTypeOK
    <3> QED  BY <1>a, <3>1, Constants DEF Mark, Higher
  <2>5. ls \in SUBSET Channels  BY <1>a, <2>2, SettingType DEF StoreTypeOK
  <2> HIDE DEF c, low, top, ls
  <2> QED  BY <1>c, <2>1, <2>3, <2>4, <2>5
<1>9. CASE Blacklist(v) \/ Upsert(v) \/ Stub(v) \/ Extracted(v) \/ Shun(v) \/ Save(v)
  <2>1. ValAt(v, "writes") /\ Done(v)
    BY <1>9 DEF Blacklist, Upsert, Stub, Extracted, Shun, Save, Now
  <2> QED  BY <1>d, <2>1
<1>10. CASE AdvanceMark(v) \/ CacheAdvanced(v) \/ CoolOff(v) \/ Log(v)
  <2>1. ValAt(v, "writes") /\ Done(v)
    BY <1>10 DEF AdvanceMark, CacheAdvanced, CacheSet, CoolOff, Log, Now
  <2> QED  BY <1>d, <2>1
<1>11. CASE CloseJob(v)
  <2>1. ValAt(v, "writes")  BY <1>11 DEF CloseJob, Now
  <2>2. CASE Done(v)  BY <1>d, <2>1, <2>2
  <2>3. CASE Follow(v, AfterReport(val[v].plan))
    <3>1. AfterReport(val[v].plan) \in Seq(Writes)  BY <1>a, <2>1, AfterReportType
    <3> QED  BY <1>b, <2>3, <3>1
  <2> QED  BY <1>11, <2>2, <2>3 DEF CloseJob
<1>12. ASSUME NEW plan \in Failure, Raise(v, plan)  PROVE Calm(v)
  <2> DEFINE ls == {}
             z == 0
  <2>1. /\ val' = [val EXCEPT ![v] = Planned(v, plan, z, z, ls)]
        /\ plan \in Seq(Writes) /\ ls \in SUBSET Channels /\ z \in Mark
    BY <1>12, PlanTypes, Constants DEF Raise, Mark
  <2> HIDE DEF ls, z
  <2> QED  BY <1>c, <2>1
<1>13. ASSUME NEW c \in Channels, NEW way \in {"scan", "forward"}, Extract(v, c, way)  PROVE Calm(v)
  <2>1. val' = [val EXCEPT ![v].links = @ \ {c}] /\ val[v].at = "writes"
    BY <1>13 DEF Extract, Now
  <2> QED  BY <1>a, <2>1 DEF Calm, ValidatorState
<1>14. CASE WebPageFails(v) \/ (HandStep(v) /\ UNCHANGED val)
  <2>1. UNCHANGED val  BY <1>14 DEF WebPageFails
  <2> QED  BY <2>1 DEF Calm
<1>15. CASE \/ \E plan \in Refused \cup FromWebPage \cup Failure : Dismiss(v, plan)
            \/ \E budget \in Budgets : Fetch(v, budget)
            \/ \E c \in Channels, way \in {"scan", "forward"} : Extract(v, c, way)
            \/ \E plan \in Failure : Raise(v, plan)
  BY <1>6, <1>8, <1>12, <1>13, <1>15
<1>16. CASE SaveFails(v)
  <2>1. val' = [val EXCEPT ![v].plan = Unsaved] /\ val[v].at = "writes"
    BY <1>16 DEF SaveFails, Now
  <2> QED  BY <1>a, <2>1 DEF Calm, ValidatorState
<1> QED  BY <1>2, <1>3, <1>4, <1>5, <1>7, <1>9, <1>10, <1>11, <1>14, <1>15, <1>16
         DEF ValidatorStep

LEMMA CalmHolds ==
  ASSUME NEW v \in Validators, Calm(v), NEW k \in Jobs, NEW w \in Validators, Holds(w, k)'
  PROVE  Holds(w, k) /\ (ValAt(w, "checkout")' => ValAt(w, "checkout"))
<1>1. k # None  BY Constants
<1>2. CASE w = v  BY <1>1, <1>2 DEF Calm, Holds, ValAt
<1>3. CASE w # v  BY <1>3 DEF Calm, Holds, ValAt
<1> QED  BY <1>2, <1>3

\* A validator takes the first job that stands in a queue.
LEMMA PopCopies ==
  ASSUME TypeInv, CopyInv, NEW v \in Validators, Pop(v)  PROVE CopyInv'
<1> USE DEF database, observed
<1>1. UNCHANGED <<jobs, pushes>> /\ StoreTypeOK /\ val \in [Validators -> ValidatorState]
  BY ValFacts DEF Pop
<1>2. PICK q \in QueueNames :
        /\ queues[q] # <<>> /\ queues' = [queues EXCEPT ![q] = Tail(@)]
        /\ val' = [val EXCEPT ![v] = LET p == Head(queues[q]) IN
             [IdleValidator EXCEPT !.at = "checkout", !.job = p.job, !.ch = p.channel,
                                   !.src = p.source, !.mark = p.mark]]
  BY DEF Pop
<1> DEFINE j == Head(queues[q]).job
<1>3. val'[v].job = j /\ \A w \in Validators \ {v} : val'[w] = val[w]
  BY <1>1, <1>2 DEF IdleValidator
<1> HIDE DEF j
<1> SUFFICES ASSUME NEW k \in Jobs PROVE JobOK(k)'  BY DEF CopyInv
<1>4. /\ Outstanding(k)' => Outstanding(k)
      /\ QueuedOnce(k) => QueuedOnce(k)'
      /\ j = k => Outstanding(k) /\ (QueuedOnce(k) => ~Outstanding(k)')
  BY <1>1, <1>2, CopyPopped DEF j
<1>5. JobOK(k)  BY DEF CopyInv
<1>6. OverdueOK(k)' /\ (Closed(k)' <=> Closed(k))  BY <1>1, <1>5 DEF JobOK, OverdueOK, Closed
<1>7. CASE j # k
  <2>1. \A w \in Validators : Holds(w, k)' =>
          Holds(w, k) /\ (ValAt(w, "checkout")' => ValAt(w, "checkout"))
    BY <1>3, <1>7 DEF Holds, ValAt
  <2>2. pushes[k] = 0 => jobs'[k].status \in {"none", "pending", "enqueue_failed"}
    BY <1>1, <1>5 DEF JobOK, CopyOK
  <2> QED  BY <1>1, <1>4, <1>5, <1>6, <2>1, <2>2, JobKept
<1>8. CASE j = k
  <2>1. pushes[k] # 0 /\ (Closed(k) => pushes[k] = 2)
    BY <1>4, <1>5, <1>8 DEF JobOK, CopyOK, ClosedOK
  <2>2. CopyOK(k)'
    <3>1. ASSUME pushes[k] = 1
          PROVE  /\ QueuedOnce(k)' /\ ~Outstanding(k)'
                 /\ \A w \in Validators : Holds(w, k)' => w = v
      <4>1. QueuedOnce(k) /\ \A w \in Validators : ~Holds(w, k)
        BY <1>4, <1>5, <1>8, <3>1 DEF JobOK, CopyOK
      <4> QED  BY <1>3, <1>4, <1>8, <4>1 DEF Holds
    <3> QED  BY <1>1, <2>1, <3>1 DEF CopyOK
  <2>3. ClosedOK(k)'  BY <1>1, <1>6, <2>1 DEF ClosedOK
  <2> QED  BY <1>6, <2>2, <2>3 DEF JobOK
<1> QED  BY <1>7, <1>8

\* A validator writes a status.
LEMMA WrittenCopies ==
  ASSUME TypeInv, CopyInv, NEW v \in Validators, Calm(v), NEW st \in JobStatus \ {"none"},
         jobs' = JobSet(val[v].job, st), UNCHANGED <<pushes, queues>>,
         st \in {"completed", "failed"} => val'[v].at # "checkout"
  PROVE  CopyInv'
<1> SUFFICES ASSUME NEW k \in Jobs PROVE JobOK(k)'  BY DEF CopyInv
<1>1. JobOK(k) /\ jobs \in [Jobs -> JobRow] /\ val[v].job \in Jobs \cup {None}
  BY ValFacts DEF CopyInv, StoreTypeOK
<1>2. /\ jobs'[k].age = jobs[k].age /\ jobs'[k].overdue = jobs[k].overdue
      /\ jobs'[k].status = IF k = val[v].job /\ jobs[k].status # "none"
                           THEN st ELSE jobs[k].status
  BY <1>1, JobSetFields
<1>3. OverdueOK(k)'  BY <1>1, <1>2 DEF JobOK, OverdueOK
<1>4. (Outstanding(k)' <=> Outstanding(k)) /\ (QueuedOnce(k)' <=> QueuedOnce(k))
  BY DEF Outstanding, QueuedOnce
<1>5. \A w \in Validators : Holds(w, k)' =>
        Holds(w, k) /\ (ValAt(w, "checkout")' => ValAt(w, "checkout"))
  BY CalmHolds
<1>6. k = val[v].job => pushes[k] # 0  BY <1>1 DEF JobOK, CopyOK, Holds
<1>7. pushes[k] = 0 => jobs'[k].status \in {"none", "pending", "enqueue_failed"}
  BY <1>1, <1>2, <1>6 DEF JobOK, CopyOK
<1>8. CASE k = val[v].job /\ st \in {"completed", "failed"}
  <2>1. CopyOK(k)'  BY <1>1, <1>4, <1>5, <1>6, <1>8 DEF JobOK, CopyOK
  <2>2. ASSUME pushes[k] # 2
        PROVE  ~Outstanding(k)' /\ \A w \in Validators : Holds(w, k)' => ~ValAt(w, "checkout")'
    <3>1. pushes[k] = 1
      <4>1. pushes[k] \in 0..2  BY ValFacts DEF StoreTypeOK
      <4> QED  BY <1>6, <1>8, <2>2, <4>1
    <3>2. Holds(v, k)  BY <1>8 DEF Holds
    <3>3. ~Outstanding(k) /\ \A w \in Validators : Holds(w, k) => v = w
      BY <1>1, <3>1, <3>2 DEF JobOK, CopyOK
    <3>4. ~ValAt(v, "checkout")'  BY <1>8 DEF ValAt
    <3> QED  BY <1>4, <1>5, <3>3, <3>4
  <2>3. ClosedOK(k)'  BY <2>2 DEF ClosedOK
  <2> QED  BY <1>3, <2>1, <2>3 DEF JobOK
<1>9. CASE ~(k = val[v].job /\ st \in {"completed", "failed"})
  <2>1. Closed(k)' => Closed(k)  BY <1>2, <1>9 DEF Closed
  <2> QED  BY <1>1, <1>3, <1>4, <1>5, <1>7, <2>1, JobKept
<1> QED  BY <1>8, <1>9

LEMMA ValidatorCopies ==
  ASSUME TypeInv, CopyInv, NEW v \in Validators, ValidatorStep(v)  PROVE CopyInv'
<1> USE DEF database, redis, marks, observed, store
<1>1. CASE Pop(v)  BY <1>1, PopCopies
<1>2. CASE HandStep(v) /\ UNCHANGED val
  <2>1. v \in Processes  BY ValFacts
  <2> QED  BY <1>2, <2>1, HandCopies
<1>a. ASSUME UNCHANGED <<jobs, pushes, queues>>, ~Pop(v)  PROVE CopyInv'
  <2>1. Calm(v)  BY <1>a, ValidatorCalm
  <2> SUFFICES ASSUME NEW k \in Jobs PROVE JobOK(k)'  BY DEF CopyInv
  <2>2. JobOK(k)  BY DEF CopyInv
  <2>3. OverdueOK(k)' /\ (Closed(k)' <=> Closed(k))  BY <1>a, <2>2 DEF JobOK, OverdueOK, Closed
  <2>4. (Outstanding(k)' <=> Outstanding(k)) /\ (QueuedOnce(k)' <=> QueuedOnce(k))
    BY <1>a DEF Outstanding, QueuedOnce
  <2>5. \A w \in Validators : Holds(w, k)' =>
          Holds(w, k) /\ (ValAt(w, "checkout")' => ValAt(w, "checkout"))
    BY <2>1, CalmHolds
  <2>6. pushes[k] = 0 => jobs'[k].status \in {"none", "pending", "enqueue_failed"}
    BY <1>a, <2>2 DEF JobOK, CopyOK
  <2> QED  BY <1>a, <2>2, <2>3, <2>4, <2>5, <2>6, JobKept
<1>3. CASE Checkout(v) /\ ~Pop(v)
  <2>1. /\ jobs' = JobSet(val[v].job, "running") \/ UNCHANGED jobs
        /\ UNCHANGED <<pushes, queues>>
    BY <1>3 DEF Checkout
  <2>2. Calm(v) /\ "running" \in JobStatus \ {"none"}  BY <1>3, ValidatorCalm DEF JobStatus
  <2>3. CASE jobs' = JobSet(val[v].job, "running")
    <3> DEFINE st == "running"
    <3>1. st \in JobStatus \ {"none"} /\ st \notin {"completed", "failed"}  BY <2>2
    <3>2. jobs' = JobSet(val[v].job, st)  BY <2>3
    <3> HIDE DEF st
    <3> QED  BY <2>1, <2>2, <3>1, <3>2, WrittenCopies
  <2> QED  BY <1>a, <1>3, <2>1, <2>3
<1>4. CASE CloseJob(v) /\ ~Pop(v)
  <2> DEFINE st == IF Head(val[v].plan) = "complete" THEN "completed" ELSE "failed"
  <2>1. /\ jobs' = JobSet(val[v].job, st) \/ UNCHANGED jobs
        /\ UNCHANGED <<pushes, queues>> /\ ValAt(v, "writes")
    BY <1>4 DEF CloseJob, Now
  <2>2. Calm(v) /\ st \in JobStatus \ {"none"}  BY <1>4, ValidatorCalm DEF JobStatus
  <2>3. val'[v].at # "checkout"  BY <2>1, <2>2 DEF Calm, ValAt
  <2> HIDE DEF st
  <2>4. CASE jobs' = JobSet(val[v].job, st)  BY <2>1, <2>2, <2>3, <2>4, WrittenCopies
  <2> QED  BY <1>a, <1>4, <2>1, <2>4
<1>5. CASE ~Pop(v) /\ ~(HandStep(v) /\ UNCHANGED val) /\ ~Checkout(v) /\ ~CloseJob(v)
  <2>1. UNCHANGED <<jobs, pushes, queues>>
    <3>1. CASE LookupMark(v) \/ CacheMark(v) \/ Gate(v) \/ GiveUp(v)
      BY <3>1 DEF LookupMark, CacheMark, Gate, GiveUp
    <3>2. CASE \/ \E plan \in Refused \cup FromWebPage \cup Failure : Dismiss(v, plan)
               \/ WebPageFails(v) \/ FetchNothing(v) \/ \E budget \in Budgets : Fetch(v, budget)
      BY <3>2 DEF Dismiss, WebPageFails, FetchNothing, Fetch
    <3>3. CASE Blacklist(v) \/ Upsert(v) \/ Stub(v) \/ Extracted(v) \/ Shun(v) \/ Save(v)
               \/ SaveFails(v)
      BY <3>3 DEF Blacklist, Upsert, Stub, Extracted, Shun, Save, SaveFails
    <3>4. CASE AdvanceMark(v) \/ CacheAdvanced(v) \/ CoolOff(v) \/ Log(v)
      BY <3>4 DEF AdvanceMark, CacheAdvanced, CacheSet, CoolOff, Log
    <3>5. CASE \/ \E c \in Channels, way \in {"scan", "forward"} : Extract(v, c, way)
               \/ (\E plan \in Failure : Raise(v, plan)) \/ ValidatorCrash(v)
      BY <3>5 DEF Extract, Raise, ValidatorCrash
    <3> QED  BY <1>5, <3>1, <3>2, <3>3, <3>4, <3>5 DEF ValidatorStep
  <2> QED  BY <1>a, <1>5, <2>1
<1> QED  BY <1>1, <1>2, <1>3, <1>4, <1>5

LEMMA CopyStep == TypeInv /\ PushedInv /\ CopyInv /\ [Next]_vars => CopyInv'
<1> SUFFICES ASSUME TypeInv, PushedInv, CopyInv, [Next]_vars PROVE CopyInv'  OBVIOUS
<1>1. ASSUME NEW s \in Schedulers, Scheduling(s)  PROVE CopyInv'
  BY <1>1, SchedulerCopies DEF Scheduling
<1>2. ASSUME NEW v \in Validators, Validating(v)  PROVE CopyInv'
  BY <1>2, ValidatorCopies DEF Validating
<1>3. CASE UNCHANGED vars
  BY <1>3, CopyFrame DEF vars, store, database, redis, observed
<1> QED  BY <1>1, <1>2, <1>3, OtherCopies

LEMMA InitCopy == Init => CopyInv
<1> SUFFICES ASSUME Init, NEW k \in Jobs PROVE JobOK(k)  BY DEF CopyInv
<1>1. pushes[k] = 0 /\ jobs[k] = NoJobRow /\ queues = [q \in QueueNames |-> <<>>]
      /\ val = [v \in Validators |-> IdleValidator]
  BY DEF Init, StoreInit, ValidationInit
<1>2. ~Outstanding(k)  BY <1>1 DEF Outstanding
<1>3. \A v \in Validators : ~Holds(v, k)  BY <1>1, Constants DEF Holds, IdleValidator
<1>4. jobs[k].status = "none" /\ ~jobs[k].overdue  BY <1>1 DEF NoJobRow
<1> QED  BY <1>1, <1>2, <1>3, <1>4 DEF JobOK, CopyOK, ClosedOK, OverdueOK, Closed

-----------------------------------------------------------------------------
(* The batch of a scheduler, and the push that failed.                       *)

\* What is left of a batch are other channels than the one in hand, each once.
Chosen == {"fill", "insert", "push", "queued", "advance", "failed"}
BatchOK(r) ==
  /\ r.at \notin Chosen \cup {"schedule"} => r.todo = {}
  /\ \A d, e \in r.todo : d.channel = e.channel => d = e
  /\ r.at \in Chosen => \A d \in r.todo : d.channel # r.channel
BatchInv == \A s \in Schedulers : BatchOK(sched[s])

LEMMA SchedulerBatch ==
  ASSUME TypeInv, BatchInv, NEW s \in Schedulers, SchedulerStep(s, Fresh)
  PROVE  BatchOK(sched'[s])
<1>a. /\ SchedulerTypeOK /\ sched \in [Schedulers -> SchedulerState]
      /\ sched[s] \in SchedulerState /\ BatchOK(sched[s])
  BY DEF TypeInv, TypeOK, SchedulerTypeOK, BatchInv
<1> USE DEF At
\* The batch stays as it is, with nothing in hand or the same channel.
<1>b. ASSUME sched'[s].todo = sched[s].todo,
             \/ sched[s].todo = {}
             \/ sched'[s].at = "schedule"
             \/ /\ sched[s].at \in Chosen /\ sched'[s].at \in Chosen
                /\ sched'[s].channel = sched[s].channel
      PROVE  BatchOK(sched'[s])
  <2>1. \A d, e \in sched'[s].todo : d.channel = e.channel => d = e  BY <1>a, <1>b DEF BatchOK
  <2>2. sched'[s].at \notin Chosen \cup {"schedule"} => sched'[s].todo = {}  BY <1>b
  <2>3. sched'[s].at \in Chosen => \A d \in sched'[s].todo : d.channel # sched'[s].channel
    <3>1. "schedule" \notin Chosen  BY DEF Chosen
    <3>2. sched[s].at \in Chosen => \A d \in sched[s].todo : d.channel # sched[s].channel
      BY <1>a DEF BatchOK
    <3> QED  BY <1>b, <3>1, <3>2
  <2> QED  BY <2>1, <2>2, <2>3 DEF BatchOK
<1>c. sched[s].at \notin Chosen \cup {"schedule"} => sched[s].todo = {}  BY <1>a DEF BatchOK
<1>1. CASE AcquireLeaderLock(s) \/ ReleaseLeaderLock(s)
  <2>1. sched[s].todo = {}  BY <1>1, <1>c DEF AcquireLeaderLock, ReleaseLeaderLock, Chosen
  <2>2. sched'[s].todo = sched[s].todo
    BY <1>1, <1>a DEF AcquireLeaderLock, ReleaseLeaderLock, Goto, SchedulerState
  <2> QED  BY <1>b, <2>1, <2>2
<1>2. CASE SchedulerCrash(s)
  BY <1>2, <1>a DEF SchedulerCrash, BatchOK, IdleScheduler, Chosen
<1>3. CASE SelectStuckJobs(s) \/ RepushFails(s) \/ RequeueJob(s) \/ ReadvanceLead(s)
  <2>1. sched[s].todo = {}
    BY <1>3, <1>c DEF SelectStuckJobs, RepushFails, RequeueJob, ReadvanceLead, Chosen
  <2>2. sched'[s].todo = sched[s].todo
    BY <1>3, <1>a, NextStuckFields, GotoFields
       DEF SelectStuckJobs, RepushFails, RequeueJob, ReadvanceLead, SchedulerAt
  <2> QED  BY <1>b, <2>1, <2>2
<1>4. CASE RepushJob(s) \/ FailStaleJobs(s) \/ CheckPressure(s)
  <2>1. sched[s].todo = {}  BY <1>4, <1>c DEF RepushJob, FailStaleJobs, CheckPressure, Chosen
  <2>2. sched'[s].todo = sched[s].todo
    BY <1>4, <1>a DEF RepushJob, FailStaleJobs, CheckPressure, Goto, SchedulerState
  <2> QED  BY <1>b, <2>1, <2>2
<1>5. CASE SelectDueChannels(s, Fresh)
  <2>1. CASE Goto(s, "release")
    <3>1. sched[s].todo = {}  BY <1>5, <1>c DEF SelectDueChannels, Chosen
    <3>2. sched'[s].todo = sched[s].todo  BY <1>a, <2>1 DEF Goto, SchedulerState
    <3> QED  BY <1>b, <3>1, <3>2
  <2>2. CASE ~Goto(s, "release")
    <3> DEFINE due == IF setup.rows = "tuple" /\ \E j \in Fresh : Unused(j) THEN DueChannels ELSE {}
               todo == {[channel |-> c, mark |-> leads[c].mark] : c \in due}
               w == IF due = {} THEN "release" ELSE "schedule"
    <3>1. sched' = [sched EXCEPT ![s].todo = todo, ![s].at = w]
      BY <1>5, <2>2 DEF SelectDueChannels
    <3>2. \A d, e \in todo : d.channel = e.channel => d = e  OBVIOUS
    <3>3. w = "schedule" \/ (w = "release" /\ todo = {})  OBVIOUS
    <3> HIDE DEF due, todo, w
    <3>4. sched'[s].todo = todo /\ sched'[s].at = w  BY <1>a, <3>1 DEF SchedulerState
    <3> QED  BY <3>2, <3>3, <3>4 DEF BatchOK, Chosen
  <2> QED  BY <2>1, <2>2
<1>6. CASE ScheduleChannel(s)
  <2> PICK d \in sched[s].todo, w \in {"fill", "insert"} :
         /\ sched'[s].at = w /\ sched'[s].todo = sched[s].todo \ {d}
         /\ sched'[s].channel = d.channel
    <3> PICK d \in sched[s].todo :
           LET c == d.channel
               cached == cache[c]["id"]
               found == IF d.mark > 0 THEN d.mark
                        ELSE IF cached # NoMark THEN cached ELSE leads[c].mark
           IN sched' = [sched EXCEPT
                ![s].at = IF d.mark = 0 /\ cached = NoMark THEN "fill" ELSE "insert",
                ![s].todo = @ \ {d}, ![s].channel = c, ![s].mark = found]
      BY <1>6 DEF ScheduleChannel
    <3> DEFINE w == IF d.mark = 0 /\ cache[d.channel]["id"] = NoMark THEN "fill" ELSE "insert"
               found == IF d.mark > 0 THEN d.mark
                        ELSE IF cache[d.channel]["id"] # NoMark THEN cache[d.channel]["id"]
                        ELSE leads[d.channel].mark
    <3>1. sched' = [sched EXCEPT ![s].at = w, ![s].todo = @ \ {d}, ![s].channel = d.channel,
                                 ![s].mark = found]
      OBVIOUS
    <3>2. w \in {"fill", "insert"}  OBVIOUS
    <3> HIDE DEF w, found
    <3> QED  BY <1>a, <3>1, <3>2 DEF SchedulerState
  <2>1. \A e, f \in sched[s].todo : e.channel = f.channel => e = f  BY <1>a DEF BatchOK
  <2> QED  BY <2>1 DEF BatchOK, Chosen
<1>7. CASE FillCache(s) \/ PushFails(s)
  <2>1. /\ sched'[s].todo = sched[s].todo /\ sched'[s].channel = sched[s].channel
        /\ sched'[s].at \in {"insert", "failed"} /\ sched[s].at \in {"fill", "push"}
    BY <1>7, <1>a DEF FillCache, PushFails, Goto, SchedulerState
  <2> QED  BY <1>b, <2>1 DEF Chosen
<1>8. CASE \E q \in Tiers : InsertJob(s, q, Fresh)
  <2> DEFINE j == CHOOSE j \in Fresh : Unused(j)
  <2>1. sched' = [sched EXCEPT ![s].at = "push", ![s].job = j] /\ sched[s].at = "insert"
    BY <1>8 DEF InsertJob
  <2> HIDE DEF j
  <2>2. /\ sched'[s].todo = sched[s].todo /\ sched'[s].channel = sched[s].channel
        /\ sched'[s].at = "push"
    BY <1>a, <2>1 DEF SchedulerState
  <2> QED  BY <1>b, <2>1, <2>2 DEF Chosen
<1>9. CASE \E q \in Tiers : PushJob(s, q)
  <2>1. sched' = [sched EXCEPT ![s].at = "queued"] /\ sched[s].at = "push"
    BY <1>9 DEF PushJob, Goto
  <2>2. /\ sched'[s].todo = sched[s].todo /\ sched'[s].channel = sched[s].channel
        /\ sched'[s].at = "queued"
    BY <1>a, <2>1 DEF SchedulerState
  <2> QED  BY <1>b, <2>1, <2>2 DEF Chosen
<1>10. CASE MarkQueued(s) \/ AdvanceLead(s) \/ MarkEnqueueFailed(s)
  <2>1. CASE NextDue(s)
    <3>1. sched'[s].todo = sched[s].todo /\ (sched[s].todo = {} \/ sched'[s].at = "schedule")
      BY <1>a, <2>1, NextDueFields
    <3> QED  BY <1>b, <3>1
  <2>2. CASE MarkQueued(s) /\ Goto(s, "advance")
    <3>1. /\ sched'[s].todo = sched[s].todo /\ sched'[s].channel = sched[s].channel
          /\ sched'[s].at = "advance" /\ sched[s].at = "queued"
      BY <1>a, <2>2 DEF MarkQueued, Goto, SchedulerState
    <3> QED  BY <1>b, <3>1 DEF Chosen
  <2> QED  BY <1>10, <2>1, <2>2 DEF MarkQueued, AdvanceLead, MarkEnqueueFailed
<1> QED  BY <1>1, <1>2, <1>3, <1>4, <1>5, <1>6, <1>7, <1>8, <1>9, <1>10 DEF SchedulerStep

LEMMA BatchStep == TypeInv /\ BatchInv /\ [Next]_vars => BatchInv'
<1> SUFFICES ASSUME TypeInv, BatchInv, [Next]_vars PROVE BatchInv'  OBVIOUS
<1>1. ASSUME NEW s \in Schedulers, Scheduling(s)  PROVE BatchInv'
  <2>1. SchedulerStep(s, Fresh) /\ SchedulerTypeOK  BY <1>1 DEF Scheduling, TypeInv, TypeOK
  <2>2. \A t \in Schedulers \ {s} : sched'[t] = sched[t]  BY <2>1, SchedulerLocal
  <2> QED  BY <2>1, <2>2, SchedulerBatch DEF BatchInv
<1>2. CASE UNCHANGED sched  BY <1>2 DEF BatchInv
<1> QED  BY <1>1, <1>2, PushesLocal DEF vars

\* A job is enqueue_failed, or about to be, only after a push has failed.
FailedInv == ~redisFailed => /\ \A k \in Jobs : jobs[k].status # "enqueue_failed"
                             /\ \A s \in Schedulers : ~At(s, "failed")

\* What a scheduler's step does to the two notes of what went wrong.
LEMMA NotesGrow ==
  ASSUME NEW s \in Schedulers, SchedulerStep(s, Fresh)
  PROVE  (lapsed' = lapsed \/ lapsed' = TRUE) /\ (redisFailed' = redisFailed \/ redisFailed' = TRUE)
<1> USE DEF observed, store
<1>1. CASE AcquireLeaderLock(s) \/ ReleaseLeaderLock(s) \/ SchedulerCrash(s)
  BY <1>1 DEF AcquireLeaderLock, ReleaseLeaderLock, SchedulerCrash
<1>2. CASE SelectStuckJobs(s) \/ RepushJob(s) \/ RepushFails(s)
  BY <1>2 DEF SelectStuckJobs, RepushJob, RepushFails
<1>3. CASE RequeueJob(s) \/ ReadvanceLead(s) \/ FailStaleJobs(s) \/ CheckPressure(s)
  BY <1>3 DEF RequeueJob, ReadvanceLead, FailStaleJobs, CheckPressure
<1>4. CASE SelectDueChannels(s, Fresh) \/ ScheduleChannel(s) \/ FillCache(s)
  BY <1>4 DEF SelectDueChannels, ScheduleChannel, FillCache
<1>5. CASE \E q \in Tiers : InsertJob(s, q, Fresh) \/ PushJob(s, q)
  BY <1>5 DEF InsertJob, PushJob
<1>6. CASE PushFails(s) \/ MarkQueued(s) \/ AdvanceLead(s) \/ MarkEnqueueFailed(s)
  BY <1>6 DEF PushFails, MarkQueued, AdvanceLead, MarkEnqueueFailed
<1> QED  BY <1>1, <1>2, <1>3, <1>4, <1>5, <1>6 DEF SchedulerStep

\* Others than the schedulers write three statuses only, and make jobs older.
LEMMA JobsLocal ==
  ASSUME TypeInv, Next
  PROVE  \/ \E s \in Schedulers : Scheduling(s)
         \/ /\ UNCHANGED <<sched, pushes, redisFailed>> /\ (lapsed' = lapsed \/ lapsed' = TRUE)
            /\ \/ \E v \in Validators, st \in {"running", "completed", "failed"} :
                    /\ jobs' = JobSet(val[v].job, st)
                    /\ st = "running" => ValAt(v, "checkout")
               \/ \A k \in Jobs : /\ jobs'[k].status = jobs[k].status
                                  /\ jobs'[k].channel = jobs[k].channel
                                  /\ (jobs'[k].age < 2 => jobs[k].age < 2)
<1> USE DEF database, redis, marks, observed, store
<1> DEFINE Others == /\ UNCHANGED <<sched, pushes, redisFailed>> /\ (lapsed' = lapsed \/ lapsed' = TRUE)
           Written == \E v \in Validators, st \in {"running", "completed", "failed"} :
                        /\ jobs' = JobSet(val[v].job, st)
                        /\ st = "running" => ValAt(v, "checkout")
           Older == \A k \in Jobs : /\ jobs'[k].status = jobs[k].status
                                    /\ jobs'[k].channel = jobs[k].channel
                                    /\ (jobs'[k].age < 2 => jobs[k].age < 2)
<1>a. jobs \in [Jobs -> JobRow] /\ \A k \in Jobs : jobs[k] \in JobRow /\ jobs[k].age \in Nat
  BY DEF TypeInv, TypeOK, StoreTypeOK, JobRow
<1>b. ASSUME UNCHANGED jobs  PROVE Older  BY <1>a, <1>b
<1>1. ASSUME NEW p, HandStep(p)  PROVE UNCHANGED <<jobs, lapsed, redisFailed>>
  BY <1>1 DEF HandStep, CheckSeen, ClaimSeen, CountFirst, Tally, Reserve, PushLink, StubLink
<1>2. ASSUME NEW p, DiscoveryStep(p)  PROVE UNCHANGED <<jobs, lapsed, redisFailed>>
  BY <1>1, <1>2 DEF DiscoveryStep, FindLink, LoseLink
<1>3. ASSUME SeedStep  PROVE UNCHANGED <<jobs, lapsed, redisFailed>>
  BY <1>3 DEF SeedStep, EnqueueSeed, SeedFault
<1>4. ASSUME NEW v \in Validators, ValidatorStep(v)
      PROVE  UNCHANGED <<lapsed, redisFailed>> /\ (Written \/ UNCHANGED jobs)
  <2>1. CASE Pop(v) \/ LookupMark(v) \/ CacheMark(v) \/ Gate(v) \/ GiveUp(v)
    BY <2>1 DEF Pop, LookupMark, CacheMark, Gate, GiveUp
  <2>2. CASE \/ \E plan \in Refused \cup FromWebPage \cup Failure : Dismiss(v, plan)
             \/ WebPageFails(v) \/ FetchNothing(v) \/ \E budget \in Budgets : Fetch(v, budget)
    BY <2>2 DEF Dismiss, WebPageFails, FetchNothing, Fetch
  <2>3. CASE Blacklist(v) \/ Upsert(v) \/ Stub(v) \/ Extracted(v) \/ Shun(v) \/ Save(v)
             \/ SaveFails(v)
    BY <2>3 DEF Blacklist, Upsert, Stub, Extracted, Shun, Save, SaveFails
  <2>4. CASE AdvanceMark(v) \/ CacheAdvanced(v) \/ CoolOff(v) \/ Log(v)
    BY <2>4 DEF AdvanceMark, CacheAdvanced, CacheSet, CoolOff, Log
  <2>5. CASE \/ \E c \in Channels, way \in {"scan", "forward"} : Extract(v, c, way)
             \/ (\E plan \in Failure : Raise(v, plan)) \/ ValidatorCrash(v)
    BY <2>5 DEF Extract, Raise, ValidatorCrash
  <2>6. CASE Checkout(v)
    <3>1. /\ UNCHANGED <<lapsed, redisFailed>> /\ ValAt(v, "checkout")
          /\ jobs' = JobSet(val[v].job, "running") \/ UNCHANGED jobs
      BY <2>6 DEF Checkout
    <3> QED  BY <3>1
  <2>7. CASE CloseJob(v)
    <3> DEFINE st == IF Head(val[v].plan) = "complete" THEN "completed" ELSE "failed"
    <3>1. /\ UNCHANGED <<lapsed, redisFailed>>
          /\ jobs' = JobSet(val[v].job, st) \/ UNCHANGED jobs
      BY <2>7 DEF CloseJob
    <3>2. st \in {"running", "completed", "failed"} /\ st # "running"  OBVIOUS
    <3> HIDE DEF st
    <3> QED  BY <3>1, <3>2
  <2> QED  BY <1>1, <1>4, <2>1, <2>2, <2>3, <2>4, <2>5, <2>6, <2>7 DEF ValidatorStep
<1>5. ASSUME Elapsing
      PROVE  UNCHANGED redisFailed /\ (lapsed' = lapsed \/ lapsed' = TRUE) /\ Older
  <2>1. UNCHANGED redisFailed /\ (lapsed' = lapsed \/ lapsed' = TRUE)
    <3>1. CASE LeaderExpires
      <4>1. lapsed \in BOOLEAN  BY DEF TypeInv, TypeOK, StoreTypeOK
      <4>2. lapsed' = (lapsed \/ \E s \in Schedulers : InCycle(s)) /\ UNCHANGED redisFailed
        BY <3>1 DEF LeaderExpires
      <4> QED  BY <4>1, <4>2
    <3>2. CASE ~LeaderExpires
      BY <1>5, <3>2 DEF Elapsing, StoreNext, Post, FallDue, AgeJob, RunOverdue, CacheExpires,
                        ReserveExpires, CountExpires
    <3> QED  BY <3>1, <3>2
  <2>2. ASSUME NEW j \in Jobs, AgeJob(j)  PROVE Older
    <3>1. jobs' = [jobs EXCEPT ![j].age = @ + 1]  BY <2>2 DEF AgeJob
    <3> QED  BY <1>a, <3>1 DEF JobRow
  <2>3. ASSUME NEW j \in Jobs, RunOverdue(j)  PROVE Older
    <3>1. jobs' = [jobs EXCEPT ![j].overdue = TRUE]  BY <2>3 DEF RunOverdue
    <3> QED  BY <1>a, <3>1 DEF JobRow
  <2>4. UNCHANGED jobs \/ \E j \in Jobs : AgeJob(j) \/ RunOverdue(j)
    BY <1>5 DEF Elapsing, StoreNext, Post, FallDue, CacheExpires, LeaderExpires,
                ReserveExpires, CountExpires
  <2> QED  BY <1>b, <2>1, <2>2, <2>3, <2>4
<1> HIDE DEF Written, Older
<1>6. (\E s \in Schedulers : Scheduling(s)) \/ UNCHANGED <<sched, pushes>>  BY PushesLocal
<1>7. CASE \E s \in Schedulers : Scheduling(s)  BY <1>7
<1>8. CASE ~\E s \in Schedulers : Scheduling(s)
  <2>1. /\ UNCHANGED redisFailed /\ (lapsed' = lapsed \/ lapsed' = TRUE)
        /\ Written \/ Older
    BY <1>b, <1>2, <1>3, <1>4, <1>5, <1>8 DEF Next, Discovering, Seeding, Validating
  <2> QED  BY <1>6, <1>8, <2>1 DEF Written, Older
<1> QED  BY <1>7, <1>8

LEMMA FailedStep == TypeInv /\ FailedInv /\ [Next]_vars => FailedInv'
<1> SUFFICES ASSUME TypeInv, FailedInv, [Next]_vars, ~redisFailed'
             PROVE  /\ \A k \in Jobs : jobs'[k].status # "enqueue_failed"
                    /\ \A s \in Schedulers : ~At(s, "failed")'
  BY DEF FailedInv
<1>a. /\ jobs \in [Jobs -> JobRow] /\ SchedulerTypeOK
      /\ sched \in [Schedulers -> SchedulerState]
      /\ \A v \in Validators : val[v].job \in Jobs \cup {None}
  BY ValFacts DEF TypeInv, TypeOK, StoreTypeOK, SchedulerTypeOK
<1>b. ASSUME ~redisFailed
      PROVE  /\ \A k \in Jobs : jobs[k].status # "enqueue_failed"
             /\ \A s \in Schedulers : sched[s].at # "failed"
  BY <1>b DEF FailedInv, At
<1>c. ASSUME NEW j \in Jobs \cup {None}, NEW st \in JobStatus \ {"none", "enqueue_failed"},
             jobs' = JobSet(j, st), ~redisFailed
      PROVE  \A k \in Jobs : jobs'[k].status # "enqueue_failed"
  <2> TAKE k \in Jobs
  <2>1. jobs'[k].status = IF k = j /\ jobs[k].status # "none" THEN st ELSE jobs[k].status
    BY <1>a, <1>c, JobSetFields
  <2>2. jobs[k].status # "enqueue_failed"  BY <1>b, <1>c
  <2> QED  BY <1>c, <2>1, <2>2
<1>1. ASSUME NEW s \in Schedulers, Scheduling(s)
      PROVE  /\ \A k \in Jobs : jobs'[k].status # "enqueue_failed"
             /\ \A t \in Schedulers : ~At(t, "failed")'
  <2>1. SchedulerStep(s, Fresh)  BY <1>1 DEF Scheduling
  <2>2. ~redisFailed  BY <2>1, NotesGrow
  <2>3. \A t \in Schedulers \ {s} : sched'[t] = sched[t]  BY <1>a, <2>1, SchedulerLocal
  <2>4. /\ \A k \in Jobs : jobs[k].status # "enqueue_failed"
        /\ sched[s].at # "failed" /\ sched[s] \in SchedulerState
        /\ sched[s].job \in Jobs \cup {None}
    BY <1>a, <1>b, <2>2 DEF SchedulerState
  <2> USE DEF At, store, database, observed
  <2>5. sched'[s].at # "failed" /\ \A k \in Jobs : jobs'[k].status # "enqueue_failed"
    <3>a. ASSUME UNCHANGED jobs, sched'[s].at # "failed"
          PROVE  sched'[s].at # "failed" /\ \A k \in Jobs : jobs'[k].status # "enqueue_failed"
      BY <2>4, <3>a
    <3>1. CASE AcquireLeaderLock(s) \/ ReleaseLeaderLock(s) \/ SchedulerCrash(s)
      <4>1. UNCHANGED jobs  BY <3>1 DEF AcquireLeaderLock, ReleaseLeaderLock, SchedulerCrash
      <4>2. sched'[s].at # "failed"
        BY <3>1, <1>a, <2>4 DEF AcquireLeaderLock, ReleaseLeaderLock, SchedulerCrash, Goto,
                                SchedulerState, IdleScheduler
      <4> QED  BY <3>a, <4>1, <4>2
    <3>2. CASE SelectStuckJobs(s) \/ ReadvanceLead(s) \/ AdvanceLead(s)
      <4>1. UNCHANGED jobs  BY <3>2 DEF SelectStuckJobs, ReadvanceLead, AdvanceLead
      <4>2. sched'[s].at # "failed"
        BY <3>2, <1>a, NextStuckFields, NextDueFields
           DEF SelectStuckJobs, ReadvanceLead, AdvanceLead
      <4> QED  BY <3>a, <4>1, <4>2
    <3>3. CASE RepushJob(s) \/ CheckPressure(s)
      <4>1. UNCHANGED jobs  BY <3>3 DEF RepushJob, CheckPressure
      <4>2. sched'[s].at # "failed"
        BY <3>3, <1>a, <2>4 DEF RepushJob, CheckPressure, Goto, SchedulerState
      <4> QED  BY <3>a, <4>1, <4>2
    <3>4. CASE RepushFails(s) \/ PushFails(s)  BY <3>4 DEF RepushFails, PushFails
    <3>5. CASE RequeueJob(s) \/ MarkQueued(s)
      <4>1. sched'[s].at # "failed"
        BY <3>5, <1>a, NextStuckFields, NextDueFields, GotoFields
           DEF RequeueJob, MarkQueued, SchedulerAt
      <4>2. jobs' = JobSet(sched[s].job, "queued") \/ UNCHANGED jobs
        BY <3>5 DEF RequeueJob, MarkQueued
      <4>3. "queued" \in JobStatus \ {"none", "enqueue_failed"}  BY DEF JobStatus
      <4> QED  BY <1>c, <2>2, <2>4, <3>a, <4>1, <4>2, <4>3
    <3>6. CASE FailStaleJobs(s)
      <4>1. sched'[s].at # "failed"
        BY <3>6, <1>a, <2>4 DEF FailStaleJobs, Goto, SchedulerState
      <4>2. \/ UNCHANGED jobs
            \/ jobs' = [j \in Jobs |-> IF jobs[j].status = "running" /\ jobs[j].overdue
                                       THEN [jobs[j] EXCEPT !.status = "failed"] ELSE jobs[j]]
        BY <3>6 DEF FailStaleJobs
      <4>3. ASSUME NEW k \in Jobs  PROVE jobs'[k].status # "enqueue_failed"
        <5>1. jobs'[k] = jobs[k] \/ jobs'[k] = [jobs[k] EXCEPT !.status = "failed"]
          BY <1>a, <4>2
        <5> QED  BY <1>a, <2>4, <5>1 DEF JobRow
      <4> QED  BY <4>1, <4>3
    <3>7. CASE SelectDueChannels(s, Fresh)
      <4>1. UNCHANGED jobs /\ sched'[s].at # "failed"
        BY <3>7, <1>a, <2>4 DEF SelectDueChannels, Goto, SchedulerState
      <4> QED  BY <3>a, <4>1
    <3>8. CASE ScheduleChannel(s) \/ FillCache(s)
      <4>1. UNCHANGED jobs  BY <3>8 DEF ScheduleChannel, FillCache
      <4>2. sched'[s].at # "failed"
        <5>1. CASE ScheduleChannel(s)  BY <5>1, <1>a, <2>4 DEF ScheduleChannel, SchedulerState
        <5>2. CASE FillCache(s)  BY <5>2, <1>a, <2>4 DEF FillCache, Goto, SchedulerState
        <5> QED  BY <3>8, <5>1, <5>2
      <4> QED  BY <3>a, <4>1, <4>2
    <3>9. ASSUME NEW q \in Tiers, InsertJob(s, q, Fresh)
          PROVE  sched'[s].at # "failed" /\ \A k \in Jobs : jobs'[k].status # "enqueue_failed"
      <4> DEFINE j == CHOOSE j \in Fresh : Unused(j)
                 row == [NoJobRow EXCEPT !.status = "pending", !.channel = sched[s].channel,
                                         !.mark = sched[s].mark, !.queue = q]
      <4>1. /\ jobs' = [jobs EXCEPT ![j] = row] \/ jobs' = [jobs EXCEPT ![j] = NoJobRow]
            /\ sched' = [sched EXCEPT ![s].at = "push", ![s].job = j]
        BY <3>9 DEF InsertJob
      <4>2. row.status = "pending" /\ NoJobRow.status = "none"  BY DEF NoJobRow
      <4> HIDE DEF j, row
      <4>3. sched'[s].at = "push"  BY <1>a, <2>4, <4>1 DEF SchedulerState
      <4> QED  BY <1>a, <2>4, <4>1, <4>2, <4>3
    <3>10. ASSUME NEW q \in Tiers, PushJob(s, q)
           PROVE  sched'[s].at # "failed" /\ \A k \in Jobs : jobs'[k].status # "enqueue_failed"
      <4>1. UNCHANGED jobs /\ sched'[s].at # "failed"
        BY <3>10, <1>a, <2>4 DEF PushJob, Goto, SchedulerState
      <4> QED  BY <3>a, <4>1
    <3>11. CASE MarkEnqueueFailed(s)  BY <2>4, <3>11 DEF MarkEnqueueFailed
    <3>12. CASE \E q \in Tiers : InsertJob(s, q, Fresh) \/ PushJob(s, q)
      BY <3>9, <3>10, <3>12
    <3> QED  BY <2>1, <3>1, <3>2, <3>3, <3>4, <3>5, <3>6, <3>7, <3>8, <3>11, <3>12
             DEF SchedulerStep
  <2> QED  BY <1>b, <2>2, <2>3, <2>5
<1>2. CASE UNCHANGED <<sched, redisFailed>>
           /\ \/ \E v \in Validators, st \in {"running", "completed", "failed"} :
                   jobs' = JobSet(val[v].job, st)
              \/ \A k \in Jobs : jobs'[k].status = jobs[k].status
  <2>1. \A s \in Schedulers : ~At(s, "failed")'  BY <1>2, <1>b DEF At
  <2>2. {"running", "completed", "failed"} \subseteq JobStatus \ {"none", "enqueue_failed"}
    BY DEF JobStatus
  <2>3. \A k \in Jobs : jobs'[k].status # "enqueue_failed"
    <3>1. ASSUME NEW v \in Validators, NEW st \in {"running", "completed", "failed"},
                 jobs' = JobSet(val[v].job, st)
          PROVE  \A k \in Jobs : jobs'[k].status # "enqueue_failed"
      BY <1>2, <1>a, <1>c, <2>2, <3>1
    <3> QED  BY <1>2, <1>b, <3>1
  <2> QED  BY <2>1, <2>3
<1>3. CASE UNCHANGED vars
  <2>1. UNCHANGED <<jobs, sched, redisFailed>>  BY <1>3 DEF vars, store, database, observed
  <2> QED  BY <1>b, <2>1 DEF At
<1> QED  BY <1>1, <1>2, <1>3, JobsLocal

-----------------------------------------------------------------------------
(* One job under way.                                                        *)

\* Job k is in flight, or about to be marked as queued, whatever it is by now.
Marking(k) == \E s \in Schedulers : sched[s].at \in {"queued", "requeue"} /\ sched[s].job = k
Live(k) == InFlight(k) \/ (jobs[k].status # "none" /\ jobs[k].age < 2 /\ Marking(k))
Single(k) == Live(k) /\ pushes[k] # 2

\* Scheduler s is yet to insert a job for channel c.
Awaits(s, c) == \/ \E d \in sched[s].todo : d.channel = c
                \/ sched[s].at \in {"fill", "insert"} /\ sched[s].channel = c

PairInv == \A i, j \in Jobs : Single(i) /\ Single(j) /\ jobs[i].channel = jobs[j].channel => i = j
ClearInv == \A s \in Schedulers, k \in Jobs : Awaits(s, jobs[k].channel) => ~Single(k)
FlightInv == ~lapsed /\ ~redisFailed => PairInv /\ ClearInv

\* No job comes up, and no channel is awaited that was not.
LEMMA FlightKept ==
  ASSUME PairInv, ClearInv,
         \A k \in Jobs : Single(k)' => Single(k) /\ jobs'[k].channel = jobs[k].channel,
         \A s \in Schedulers : \A c : Awaits(s, c)' => Awaits(s, c)
  PROVE  PairInv' /\ ClearInv'
<1>1. PairInv'  BY DEF PairInv
<1>2. ClearInv'
  <2> SUFFICES ASSUME NEW s \in Schedulers, NEW k \in Jobs,
                      Awaits(s, jobs[k].channel)', Single(k)'
               PROVE  FALSE
    BY DEF ClearInv
  <2>1. Single(k) /\ jobs'[k].channel = jobs[k].channel  OBVIOUS
  <2>2. Awaits(s, jobs'[k].channel)  OBVIOUS
  <2> QED  BY <2>1, <2>2 DEF ClearInv
<1> QED  BY <1>1, <1>2

\* What others than the schedulers do.
LEMMA OthersFlight ==
  ASSUME TypeInv, CopyInv, PairInv, ClearInv, ~redisFailed, FailedInv, UNCHANGED <<sched, pushes>>,
         \/ \E v \in Validators, st \in {"running", "completed", "failed"} :
              /\ jobs' = JobSet(val[v].job, st)
              /\ st = "running" => ValAt(v, "checkout")
         \/ \A k \in Jobs : /\ jobs'[k].status = jobs[k].status
                            /\ jobs'[k].channel = jobs[k].channel
                            /\ (jobs'[k].age < 2 => jobs[k].age < 2)
  PROVE  PairInv' /\ ClearInv'
<1>a. /\ jobs \in [Jobs -> JobRow] /\ \A k \in Jobs : jobs[k] \in JobRow
      /\ \A v \in Validators : val[v].job \in Jobs \cup {None}
  BY ValFacts DEF TypeInv, TypeOK, StoreTypeOK
<1>b. \A k \in Jobs : Marking(k)' <=> Marking(k)  BY DEF Marking
<1>c. \A s \in Schedulers : \A c : Awaits(s, c)' <=> Awaits(s, c)  BY DEF Awaits
<1>1. ASSUME NEW k \in Jobs, Single(k)'
      PROVE  Single(k) /\ jobs'[k].channel = jobs[k].channel
  <2>1. pushes[k] # 2  BY <1>1 DEF Single
  <2>2. CASE \A i \in Jobs : /\ jobs'[i].status = jobs[i].status
                             /\ jobs'[i].channel = jobs[i].channel
                             /\ (jobs'[i].age < 2 => jobs[i].age < 2)
    <3>1. jobs'[k].status = jobs[k].status /\ jobs'[k].channel = jobs[k].channel
          /\ (jobs'[k].age < 2 => jobs[k].age < 2)
      BY <2>2
    <3>2. Live(k)'  BY <1>1 DEF Single
    <3> QED  BY <1>b, <2>1, <3>1, <3>2 DEF Single, Live, InFlight
  <2>3. ASSUME NEW v \in Validators, NEW st \in {"running", "completed", "failed"},
               jobs' = JobSet(val[v].job, st), st = "running" => ValAt(v, "checkout")
        PROVE  Single(k) /\ jobs'[k].channel = jobs[k].channel
    <3>1. st \in JobStatus \ {"none"}  BY DEF JobStatus
    <3>2. /\ jobs'[k].age = jobs[k].age /\ jobs'[k].channel = jobs[k].channel
          /\ jobs'[k].status = IF k = val[v].job /\ jobs[k].status # "none"
                               THEN st ELSE jobs[k].status
      BY <1>a, <2>3, <3>1, JobSetFields
    <3>3. Live(k)'  BY <1>1 DEF Single
    <3>4. CASE k = val[v].job /\ st = "running" /\ jobs[k].status # "none"
      <4>1. Holds(v, k) /\ ValAt(v, "checkout") /\ JobOK(k)  BY <2>3, <3>4 DEF Holds, CopyInv
      <4>2. ~Closed(k)  BY <2>1, <4>1 DEF JobOK, ClosedOK
      <4>3. jobs[k].age < 2  BY <3>2, <3>3 DEF Live, InFlight
      <4>4. jobs[k].status \in {"pending", "queued", "running"}
        <5>1. jobs[k].status # "enqueue_failed"  BY DEF FailedInv
        <5> QED  BY <1>a, <3>4, <4>2, <4>3, <5>1 DEF Closed, JobRow, JobStatus
      <4> QED  BY <2>1, <3>2, <4>3, <4>4 DEF Single, Live, InFlight
    <3>5. CASE ~(k = val[v].job /\ st = "running" /\ jobs[k].status # "none")
      <4>1. InFlight(k)' => InFlight(k)  BY <3>2, <3>5 DEF InFlight
      <4>2. jobs'[k].status # "none" => jobs[k].status # "none"  BY <3>2
      <4> QED  BY <1>b, <2>1, <3>2, <3>3, <4>1, <4>2 DEF Single, Live
    <3> QED  BY <3>4, <3>5
  <2> QED  BY <2>2, <2>3
<1> QED  BY <1>1, <1>c, FlightKept

\* A scheduler's step that brings up no job and marks none.
LEMMA QuietFlight ==
  ASSUME PairInv, ClearInv, NEW s \in Schedulers, UNCHANGED pushes,
         \A t \in Schedulers \ {s} : sched'[t] = sched[t],
         sched'[s].at \notin {"queued", "requeue"},
         sched'[s].todo \subseteq sched[s].todo,
         sched'[s].at \in {"fill", "insert"} => Awaits(s, sched'[s].channel),
         \A k \in Jobs : /\ jobs'[k].age = jobs[k].age /\ jobs'[k].channel = jobs[k].channel
                         /\ jobs'[k].status # "none" => jobs[k].status # "none"
                         /\ InFlight(k)' => Live(k)
  PROVE  PairInv' /\ ClearInv'
<1>1. ASSUME NEW k \in Jobs, Single(k)'
      PROVE  Single(k) /\ jobs'[k].channel = jobs[k].channel
  <2>1. pushes[k] # 2 /\ Live(k)'  BY <1>1 DEF Single
  <2>2. Marking(k)' => Marking(k)  BY DEF Marking
  <2>3. Live(k)
    <3>1. CASE InFlight(k)'  BY <3>1
    <3>2. CASE jobs'[k].status # "none" /\ jobs'[k].age < 2 /\ Marking(k)'
      BY <2>2, <3>2 DEF Live
    <3> QED  BY <2>1, <3>1, <3>2 DEF Live
  <2> QED  BY <2>1, <2>3 DEF Single
<1>2. ASSUME NEW t \in Schedulers, NEW c, Awaits(t, c)'  PROVE Awaits(t, c)
  <2>1. CASE t # s  BY <1>2, <2>1 DEF Awaits
  <2>2. CASE t = s
    <3>1. CASE \E d \in sched'[s].todo : d.channel = c  BY <2>2, <3>1 DEF Awaits
    <3>2. CASE sched'[s].at \in {"fill", "insert"} /\ sched'[s].channel = c
      BY <2>2, <3>2
    <3> QED  BY <1>2, <2>2, <3>1, <3>2 DEF Awaits
  <2> QED  BY <2>1, <2>2
<1> QED  BY <1>1, <1>2, FlightKept

\* A push of job j, which was in flight already if it is pushed once now.
LEMMA PushFlight ==
  ASSUME TypeInv, CopyInv, FailedInv, PairInv, ClearInv, ~redisFailed,
         NEW s \in Schedulers, NEW j \in Jobs, pushes' = Pushed(j), UNCHANGED jobs,
         \A t \in Schedulers \ {s} : sched'[t] = sched[t],
         sched'[s].at \notin {"fill", "insert"}, sched'[s].job = j,
         sched'[s].todo = sched[s].todo
  PROVE  PairInv' /\ ClearInv'
<1>a. pushes \in [Jobs -> 0..2]  BY DEF TypeInv, TypeOK, StoreTypeOK
<1>b. \A t \in Schedulers : \A c : Awaits(t, c)' => Awaits(t, c)  BY DEF Awaits
<1>1. ASSUME NEW k \in Jobs, Single(k)'
      PROVE  Single(k) /\ jobs'[k].channel = jobs[k].channel
  <2>1. pushes'[k] # 2 /\ Live(k)'  BY <1>1 DEF Single
  <2>2. InFlight(k)' <=> InFlight(k)  BY DEF InFlight
  <2>3. CASE k # j
    <3>1. pushes'[k] = pushes[k]  BY <1>a, <2>3 DEF Pushed
    <3>2. Marking(k)' => Marking(k)  BY <2>3 DEF Marking
    <3> QED  BY <2>1, <2>2, <3>1, <3>2 DEF Single, Live
  <2>4. CASE k = j
    <3>1. pushes[k] = 0  BY <1>a, <2>1, <2>4 DEF Pushed
    <3>2. jobs[k].status \in {"none", "pending", "enqueue_failed"}
      BY <3>1 DEF CopyInv, JobOK, CopyOK
    <3>3. jobs[k].status # "enqueue_failed"  BY DEF FailedInv
    <3>4. jobs[k].status # "none" /\ jobs[k].age < 2  BY <2>1 DEF Live, InFlight
    <3> QED  BY <3>1, <3>2, <3>3, <3>4 DEF Single, Live, InFlight
  <2> QED  BY <2>3, <2>4
<1> QED  BY <1>1, <1>b, FlightKept

\* The channels of a batch had no job in flight, and nobody marks one.
LEMMA SelectFlight ==
  ASSUME PairInv, NEW s \in Schedulers, UNCHANGED <<jobs, pushes>>,
         \A t \in Schedulers \ {s} : sched'[t].at = "idle" /\ sched'[t].todo = {},
         sched'[s].at \in {"release", "schedule"},
         \A d \in sched'[s].todo : d.channel \in DueChannels
  PROVE  PairInv' /\ ClearInv'
<1>1. ASSUME NEW k \in Jobs  PROVE ~Marking(k)'
  <2> SUFFICES ASSUME NEW t \in Schedulers
               PROVE  sched'[t].at \notin {"queued", "requeue"}
    BY DEF Marking
  <2> QED  OBVIOUS
<1>2. ASSUME NEW k \in Jobs, Single(k)'  PROVE InFlight(k) /\ Single(k)
  BY <1>1, <1>2 DEF Single, Live, InFlight
<1>3. PairInv'  BY <1>2 DEF PairInv
<1>4. ClearInv'
  <2> SUFFICES ASSUME NEW t \in Schedulers, NEW k \in Jobs,
                      Awaits(t, jobs[k].channel)', Single(k)'
               PROVE  FALSE
    BY DEF ClearInv
  <2>1. t = s /\ \E d \in sched'[s].todo : d.channel = jobs[k].channel  BY DEF Awaits
  <2>2. jobs[k].channel \in DueChannels  BY <2>1
  <2> QED  BY <1>2, <2>2 DEF DueChannels
<1> QED  BY <1>3, <1>4

\* The channel of a new job had none, and is not awaited any more.
LEMMA InsertFlight ==
  ASSUME PairInv, ClearInv, NEW s \in Schedulers, BatchOK(sched[s]), NEW j \in Jobs,
         \A t \in Schedulers \ {s} : sched'[t].at = "idle" /\ sched'[t].todo = {},
         sched[s].at = "insert", sched'[s].at = "push", sched'[s].todo = sched[s].todo,
         \A k \in Jobs \ {j} : jobs'[k] = jobs[k] /\ pushes'[k] = pushes[k],
         jobs'[j].status = "none" \/ jobs'[j].channel = sched[s].channel
  PROVE  PairInv' /\ ClearInv'
<1>1. ASSUME NEW k \in Jobs  PROVE ~Marking(k)'
  <2> SUFFICES ASSUME NEW t \in Schedulers
               PROVE  sched'[t].at \notin {"queued", "requeue"}
    BY DEF Marking
  <2> QED  OBVIOUS
<1>2. ASSUME NEW k \in Jobs \ {j}, Single(k)'  PROVE Single(k) /\ jobs'[k] = jobs[k]
  BY <1>1, <1>2 DEF Single, Live, InFlight
<1>3. ASSUME Single(j)'  PROVE jobs'[j].channel = sched[s].channel
  BY <1>1, <1>3 DEF Single, Live, InFlight
<1>4. ASSUME NEW k \in Jobs \ {j}, Single(k)'  PROVE jobs'[k].channel # sched[s].channel
  <2>1. Single(k) /\ jobs'[k] = jobs[k]  BY <1>2, <1>4
  <2>2. Awaits(s, sched[s].channel)  BY DEF Awaits
  <2> QED  BY <2>1, <2>2 DEF ClearInv
<1>5. PairInv'  BY <1>2, <1>3, <1>4 DEF PairInv
<1>6. ClearInv'
  <2> SUFFICES ASSUME NEW t \in Schedulers, NEW k \in Jobs,
                      Awaits(t, jobs[k].channel)', Single(k)'
               PROVE  FALSE
    BY DEF ClearInv
  <2>1. t = s /\ \E d \in sched[s].todo : d.channel = jobs'[k].channel  BY DEF Awaits
  <2>2. CASE k = j  BY <1>3, <2>1, <2>2 DEF BatchOK, Chosen
  <2>3. CASE k # j
    <3>1. Single(k) /\ jobs'[k] = jobs[k]  BY <1>2, <2>3
    <3>2. Awaits(s, jobs[k].channel)  BY <2>1, <3>1 DEF Awaits
    <3> QED  BY <3>1, <3>2 DEF ClearInv
  <2> QED  BY <2>2, <2>3
<1> QED  BY <1>5, <1>6

LEMMA SchedulerFlight ==
  ASSUME TypeInv, LeaderInv, CopyInv, BatchInv, FailedInv, PairInv, ClearInv,
         NEW s \in Schedulers, SchedulerStep(s, Fresh),
         ~lapsed, ~redisFailed, ~redisFailed'
  PROVE  PairInv' /\ ClearInv'
<1>a. /\ SchedulerTypeOK /\ sched \in [Schedulers -> SchedulerState]
      /\ sched[s] \in SchedulerState /\ SchedulerOK(sched[s], jobs) /\ BatchOK(sched[s])
      /\ jobs \in [Jobs -> JobRow] /\ pushes \in [Jobs -> 0..2]
      /\ sched[s].job \in Jobs \cup {None} /\ sched[s].stuck \subseteq Jobs
  BY DEF TypeInv, TypeOK, StoreTypeOK, SchedulerTypeOK, SchedInv, SchedulerState, BatchInv
<1>b. \A t \in Schedulers \ {s} : sched'[t] = sched[t]  BY <1>a, SchedulerLocal
<1>c. ASSUME sched[s].at # "idle", NEW t \in Schedulers \ {s}
      PROVE  sched'[t].at = "idle" /\ sched'[t].todo = {}
  <2>1. sched[t].at = "idle"  BY <1>c DEF LeaderInv, InCycle
  <2>2. BatchOK(sched[t])  BY DEF BatchInv
  <2> QED  BY <1>b, <2>1, <2>2 DEF BatchOK, Chosen
<1> USE DEF database, redis, observed, store, At
<1>d. ASSUME UNCHANGED <<jobs, pushes>>, sched'[s].at \notin {"queued", "requeue"},
             sched'[s].todo \subseteq sched[s].todo,
             sched'[s].at \in {"fill", "insert"} => Awaits(s, sched'[s].channel)
      PROVE  PairInv' /\ ClearInv'
  <2>1. \A k \in Jobs : InFlight(k)' => Live(k)  BY <1>d DEF InFlight, Live
  <2> QED  BY <1>b, <1>d, <2>1, QuietFlight
<1>1. CASE AcquireLeaderLock(s) \/ ReleaseLeaderLock(s) \/ SchedulerCrash(s)
  <2>1. UNCHANGED <<jobs, pushes>>
    BY <1>1 DEF AcquireLeaderLock, ReleaseLeaderLock, SchedulerCrash
  <2>2. /\ sched'[s].at \in {"select", "reconcile", "idle"}
        /\ sched'[s].todo \subseteq sched[s].todo
    BY <1>1, <1>a DEF AcquireLeaderLock, ReleaseLeaderLock, SchedulerCrash, Goto,
                      SchedulerState, IdleScheduler
  <2> QED  BY <1>d, <2>1, <2>2
<1>2. CASE SelectStuckJobs(s) \/ ReadvanceLead(s) \/ AdvanceLead(s)
  <2>1. UNCHANGED <<jobs, pushes>>  BY <1>2 DEF SelectStuckJobs, ReadvanceLead, AdvanceLead
  <2>2. /\ sched'[s].at \in {"stale", "repush", "release", "schedule"}
        /\ sched'[s].todo = sched[s].todo
    BY <1>2, <1>a, NextStuckFields, NextDueFields
       DEF SelectStuckJobs, ReadvanceLead, AdvanceLead
  <2> QED  BY <1>d, <2>1, <2>2
<1>3. CASE CheckPressure(s)
  <2>1. UNCHANGED <<jobs, pushes>>  BY <1>3 DEF CheckPressure
  <2>2. sched'[s].at \in {"release", "select"} /\ sched'[s].todo = sched[s].todo
    BY <1>3, <1>a DEF CheckPressure, Goto, SchedulerState
  <2> QED  BY <1>d, <2>1, <2>2
<1>4. CASE RepushFails(s) \/ PushFails(s)  BY <1>4 DEF RepushFails, PushFails
<1>5. CASE RepushJob(s)
  <2> PICK j \in sched[s].stuck :
         /\ pushes' = Pushed(j) /\ UNCHANGED jobs
         /\ sched' = [sched EXCEPT ![s].at = "requeue", ![s].job = j]
    BY <1>5 DEF RepushJob
  <2>1. j \in Jobs  BY <1>a
  <2>2. /\ sched'[s].at = "requeue" /\ sched'[s].job = j
        /\ sched'[s].todo = sched[s].todo
    BY <1>a DEF SchedulerState
  <2> QED  BY <1>b, <2>1, <2>2, PushFlight
<1>6. CASE \E q \in Tiers : PushJob(s, q)
  <2>1. /\ pushes' = Pushed(sched[s].job) /\ UNCHANGED jobs
        /\ sched' = [sched EXCEPT ![s].at = "queued"] /\ sched[s].at = "push"
    BY <1>6 DEF PushJob, Goto
  <2>2. sched[s].job \in Jobs  BY <1>a, <2>1 DEF SchedulerOK
  <2>3. /\ sched'[s].at = "queued" /\ sched'[s].job = sched[s].job
        /\ sched'[s].todo = sched[s].todo
    BY <1>a, <2>1 DEF SchedulerState
  <2> QED  BY <1>b, <2>1, <2>2, <2>3, PushFlight
<1>7. CASE RequeueJob(s) \/ MarkQueued(s)
  <2>1. /\ sched[s].at \in {"requeue", "queued"} /\ UNCHANGED pushes
        /\ jobs' = JobSet(sched[s].job, "queued") \/ UNCHANGED jobs
    BY <1>7 DEF RequeueJob, MarkQueued
  <2>2. /\ sched'[s].at \notin {"fill", "insert", "queued", "requeue"}
        /\ sched'[s].todo = sched[s].todo
    BY <1>7, <1>a, NextStuckFields, NextDueFields, GotoFields
       DEF RequeueJob, MarkQueued, SchedulerAt
  <2>3. CASE jobs' = JobSet(sched[s].job, "queued")
    <3>1. ASSUME NEW k \in Jobs
          PROVE  /\ jobs'[k].age = jobs[k].age /\ jobs'[k].channel = jobs[k].channel
                 /\ jobs'[k].status # "none" => jobs[k].status # "none"
                 /\ InFlight(k)' => Live(k)
      <4>1. "queued" \in JobStatus \ {"none"}  BY DEF JobStatus
      <4>2. /\ jobs'[k].age = jobs[k].age /\ jobs'[k].channel = jobs[k].channel
            /\ jobs'[k].status = IF k = sched[s].job /\ jobs[k].status # "none"
                                 THEN "queued" ELSE jobs[k].status
        BY <1>a, <2>3, <4>1, JobSetFields
      <4>3. CASE k = sched[s].job /\ jobs[k].status # "none"
        <5>1. Marking(k)  BY <2>1, <4>3 DEF Marking
        <5> QED  BY <4>2, <4>3, <5>1 DEF InFlight, Live
      <4>4. CASE ~(k = sched[s].job /\ jobs[k].status # "none")
        BY <4>2, <4>4 DEF InFlight, Live
      <4> QED  BY <4>3, <4>4
    <3> QED  BY <1>b, <2>1, <2>2, <3>1, QuietFlight
  <2> QED  BY <1>d, <2>1, <2>2, <2>3
<1>8. CASE FailStaleJobs(s)
  <2>1. /\ UNCHANGED pushes
        /\ \/ UNCHANGED jobs
           \/ jobs' = [j \in Jobs |-> IF jobs[j].status = "running" /\ jobs[j].overdue
                                      THEN [jobs[j] EXCEPT !.status = "failed"] ELSE jobs[j]]
    BY <1>8 DEF FailStaleJobs
  <2>2. sched'[s].at = "pressure" /\ sched'[s].todo = sched[s].todo
    BY <1>8, <1>a DEF FailStaleJobs, Goto, SchedulerState
  <2>3. ASSUME NEW k \in Jobs
        PROVE  /\ jobs'[k].age = jobs[k].age /\ jobs'[k].channel = jobs[k].channel
               /\ jobs'[k].status # "none" => jobs[k].status # "none"
               /\ InFlight(k)' => Live(k)
    <3>1. CASE jobs'[k] = jobs[k]  BY <3>1 DEF InFlight, Live
    <3>2. CASE jobs'[k] # jobs[k]
      <4>1. jobs[k].status = "running" /\ jobs'[k] = [jobs[k] EXCEPT !.status = "failed"]
        BY <2>1, <3>2
      <4>2. /\ jobs'[k].age = jobs[k].age /\ jobs'[k].channel = jobs[k].channel
            /\ jobs'[k].status = "failed"
        BY <1>a, <4>1 DEF JobRow
      <4> QED  BY <4>1, <4>2 DEF InFlight
    <3> QED  BY <3>1, <3>2
  <2> QED  BY <1>b, <2>1, <2>2, <2>3, QuietFlight
<1>9. CASE SelectDueChannels(s, Fresh)
  <2>1. UNCHANGED <<jobs, pushes>> /\ sched[s].at = "select"  BY <1>9 DEF SelectDueChannels
  <2>2. CASE Goto(s, "release")
    <3>1. sched'[s].at = "release" /\ sched'[s].todo = sched[s].todo
      BY <1>a, <2>2 DEF Goto, SchedulerState
    <3> QED  BY <1>d, <2>1, <3>1
  <2>3. CASE ~Goto(s, "release")
    <3> DEFINE due == IF setup.rows = "tuple" /\ \E j \in Fresh : Unused(j) THEN DueChannels ELSE {}
               todo == {[channel |-> c, mark |-> leads[c].mark] : c \in due}
               w == IF due = {} THEN "release" ELSE "schedule"
    <3>1. sched' = [sched EXCEPT ![s].todo = todo, ![s].at = w]
      BY <1>9, <2>3 DEF SelectDueChannels
    <3>2. (\A d \in todo : d.channel \in DueChannels) /\ w \in {"release", "schedule"}  OBVIOUS
    <3> HIDE DEF due, todo, w
    <3>3. sched'[s].todo = todo /\ sched'[s].at = w  BY <1>a, <3>1 DEF SchedulerState
    <3> QED  BY <1>c, <2>1, <3>2, <3>3, SelectFlight
  <2> QED  BY <2>2, <2>3
<1>10. CASE ScheduleChannel(s)
  <2>1. UNCHANGED <<jobs, pushes>>  BY <1>10 DEF ScheduleChannel
  <2> PICK d \in sched[s].todo :
         /\ sched'[s].at \in {"fill", "insert"} /\ sched'[s].todo = sched[s].todo \ {d}
         /\ sched'[s].channel = d.channel
    <3> PICK d \in sched[s].todo :
           LET c == d.channel
               cached == cache[c]["id"]
               found == IF d.mark > 0 THEN d.mark
                        ELSE IF cached # NoMark THEN cached ELSE leads[c].mark
           IN sched' = [sched EXCEPT
                ![s].at = IF d.mark = 0 /\ cached = NoMark THEN "fill" ELSE "insert",
                ![s].todo = @ \ {d}, ![s].channel = c, ![s].mark = found]
      BY <1>10 DEF ScheduleChannel
    <3> DEFINE w == IF d.mark = 0 /\ cache[d.channel]["id"] = NoMark THEN "fill" ELSE "insert"
               found == IF d.mark > 0 THEN d.mark
                        ELSE IF cache[d.channel]["id"] # NoMark THEN cache[d.channel]["id"]
                        ELSE leads[d.channel].mark
    <3>1. sched' = [sched EXCEPT ![s].at = w, ![s].todo = @ \ {d}, ![s].channel = d.channel,
                                 ![s].mark = found]
      OBVIOUS
    <3>2. w \in {"fill", "insert"}  OBVIOUS
    <3> HIDE DEF w, found
    <3> QED  BY <1>a, <3>1, <3>2 DEF SchedulerState
  <2>2. Awaits(s, sched'[s].channel)  BY DEF Awaits
  <2> QED  BY <1>d, <2>1, <2>2
<1>11. CASE FillCache(s)
  <2>1. UNCHANGED <<jobs, pushes>> /\ sched[s].at = "fill"  BY <1>11 DEF FillCache
  <2>2. /\ sched'[s].at = "insert" /\ sched'[s].todo = sched[s].todo
        /\ sched'[s].channel = sched[s].channel
    BY <1>11, <1>a DEF FillCache, Goto, SchedulerState
  <2>3. Awaits(s, sched'[s].channel)  BY <2>1, <2>2 DEF Awaits
  <2> QED  BY <1>d, <2>1, <2>2, <2>3
<1>12. ASSUME NEW q \in Tiers, InsertJob(s, q, Fresh)  PROVE PairInv' /\ ClearInv'
  <2> DEFINE j == CHOOSE j \in Fresh : Unused(j)
             row == [NoJobRow EXCEPT !.status = "pending", !.channel = sched[s].channel,
                                     !.mark = sched[s].mark, !.queue = q]
  <2>1. /\ \E i \in Fresh : Unused(i)
        /\ jobs' = [jobs EXCEPT ![j] = row] \/ jobs' = [jobs EXCEPT ![j] = NoJobRow]
        /\ pushes' = [pushes EXCEPT ![j] = 0]
        /\ sched' = [sched EXCEPT ![s].at = "push", ![s].job = j] /\ sched[s].at = "insert"
    BY <1>12 DEF InsertJob
  <2>2. j \in Fresh  BY <2>1
  <2>3. j \in Jobs  BY <2>2, SettingType DEF Fresh, TypeInv, TypeOK, StoreTypeOK
  <2>4. row.channel = sched[s].channel /\ NoJobRow.status = "none"  BY DEF NoJobRow
  <2> HIDE DEF j, row
  <2>5. sched'[s].at = "push" /\ sched'[s].todo = sched[s].todo
    BY <1>a, <2>1 DEF SchedulerState
  <2>6. /\ \A k \in Jobs \ {j} : jobs'[k] = jobs[k] /\ pushes'[k] = pushes[k]
        /\ jobs'[j].status = "none" \/ jobs'[j].channel = sched[s].channel
    BY <1>a, <2>1, <2>3, <2>4
  <2> QED  BY <1>a, <1>c, <2>1, <2>3, <2>5, <2>6, InsertFlight
<1>13. CASE MarkEnqueueFailed(s)  BY <1>13 DEF MarkEnqueueFailed, FailedInv
<1> QED  BY <1>1, <1>2, <1>3, <1>4, <1>5, <1>6, <1>7, <1>8, <1>9, <1>10, <1>11, <1>12, <1>13
         DEF SchedulerStep

LEMMA FlightStep ==
  /\ TypeInv /\ LeaderInv /\ CopyInv /\ BatchInv /\ FailedInv /\ FlightInv
  /\ [Next]_vars
  => FlightInv'
<1> SUFFICES ASSUME TypeInv, LeaderInv, CopyInv, BatchInv, FailedInv, FlightInv,
                    [Next]_vars, ~lapsed', ~redisFailed'
             PROVE  PairInv' /\ ClearInv'
  BY DEF FlightInv
<1>1. ASSUME NEW s \in Schedulers, Scheduling(s)  PROVE PairInv' /\ ClearInv'
  <2>1. SchedulerStep(s, Fresh)  BY <1>1 DEF Scheduling
  <2>2. ~lapsed /\ ~redisFailed  BY <2>1, NotesGrow
  <2> QED  BY <2>1, <2>2, SchedulerFlight DEF FlightInv
<1>2. CASE /\ UNCHANGED <<sched, pushes, redisFailed>> /\ (lapsed' = lapsed \/ lapsed' = TRUE)
           /\ \/ \E v \in Validators, st \in {"running", "completed", "failed"} :
                   /\ jobs' = JobSet(val[v].job, st)
                   /\ st = "running" => ValAt(v, "checkout")
              \/ \A k \in Jobs : /\ jobs'[k].status = jobs[k].status
                                 /\ jobs'[k].channel = jobs[k].channel
                                 /\ (jobs'[k].age < 2 => jobs[k].age < 2)
  <2>1. ~lapsed /\ ~redisFailed  BY <1>2
  <2> QED  BY <1>2, <2>1, OthersFlight DEF FlightInv
<1>3. CASE UNCHANGED vars
  <2>1. UNCHANGED <<jobs, sched, pushes, lapsed, redisFailed>>
    BY <1>3 DEF vars, store, database, observed
  <2>2. PairInv /\ ClearInv  BY <2>1 DEF FlightInv
  <2> QED  BY <2>1, <2>2 DEF PairInv, ClearInv, Single, Live, Marking, InFlight, Awaits
<1> QED  BY <1>1, <1>2, <1>3, JobsLocal

\* At the start there is no job, and no scheduler has a batch.
LEMMA InitFlight == Init => BatchInv /\ FailedInv /\ FlightInv
<1> SUFFICES ASSUME Init PROVE BatchInv /\ FailedInv /\ FlightInv  OBVIOUS
<1>1. \A k \in Jobs : jobs[k].status = "none"  BY DEF Init, StoreInit, NoJobRow
<1>2. \A s \in Schedulers : sched[s].at = "idle" /\ sched[s].todo = {}
  BY DEF Init, SchedulerInit, IdleScheduler
<1>3. \A k \in Jobs : ~Single(k)  BY <1>1 DEF Single, Live, InFlight
<1> QED  BY <1>1, <1>2, <1>3
         DEF BatchInv, BatchOK, Chosen, FailedInv, At, FlightInv, PairInv, ClearInv

\* "In-flight crawl job deduplication (never re-schedule an active channel)"
\* (PriorityScheduler): a channel has two jobs under way only after the leader
\* lock lapsed or a push failed, or if the reconciler pushed one of them twice.
THEOREM OneJobInFlight == Spec => []OneInFlight
<1>1. Init => TypeInv /\ LeaderInv /\ PushedInv
  BY InitType DEF Init, SchedulerInit, LeaderInv, InCycle, IdleScheduler, PushedInv, PushedAt
<1>2. FlightInv => OneInFlight
  BY DEF FlightInv, OneInFlight, PairInv, Single, Live
<1> DEFINE Known == /\ TypeInv /\ LeaderInv /\ PushedInv /\ CopyInv
                    /\ BatchInv /\ FailedInv /\ FlightInv
<1>3. Init => Known  BY <1>1, InitCopy, InitFlight
<1>4. Known /\ [Next]_vars => Known'
  BY NextType, LeaderStep, PushedStep, CopyStep, BatchStep, FailedStep, FlightStep
<1>5. Known => OneInFlight  BY <1>2
<1> QED  BY <1>3, <1>4, <1>5, PTL DEF Spec
=============================================================================
