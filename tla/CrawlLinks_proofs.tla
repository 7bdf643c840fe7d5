-------------------------- MODULE CrawlLinks_proofs --------------------------
(* Proofs of what the crawl pipeline does to leads and links: when a lead's  *)
(* next crawl moves on, that a blacklisted channel stays rejected, and where *)
(* a link is that somebody took note of.                                     *)
EXTENDS CrawlPipeline_proofs

-----------------------------------------------------------------------------
(* What a step may do to a lead.                                             *)

\* Nothing that a crawl waits for: a due lead stays due, a rejected one rejected.
LeadsKept == \A c \in Channels : /\ leads[c].due => leads'[c].due
                                 /\ leads[c].status = "rejected" => leads'[c].status = "rejected"

LEMMA LeadChange ==
  ASSUME StoreTypeOK, NEW c \in Channels, NEW row \in LeadRow,
         leads[c].due => row.due, leads[c].status = "rejected" => row.status = "rejected",
         leads' = [leads EXCEPT ![c] = row]
  PROVE  LeadsKept
BY DEF StoreTypeOK, LeadsKept

LEMMA StubChange ==
  ASSUME StoreTypeOK, NEW c \in Channels, leads' = [leads EXCEPT ![c] = Stubbed(@)]
  PROVE  LeadsKept
<1>1. leads[c] \in LeadRow  BY DEF StoreTypeOK
<1>2. /\ leads[c].due => Stubbed(leads[c]).due
      /\ leads[c].status = "rejected" => Stubbed(leads[c]).status = "rejected"
  BY <1>1 DEF Stubbed, LeadRow
<1>3. leads' = [leads EXCEPT ![c] = Stubbed(leads[c])]  BY DEF StoreTypeOK
<1> QED  BY <1>1, <1>2, <1>3, LeadRows, LeadChange

LEMMA HandLeads ==
  ASSUME TypeInv, NEW p \in Processes, HandStep(p)  PROVE LeadsKept
<1>a. ~Empty(p)
  BY DEF HandStep, CheckSeen, ClaimSeen, CountFirst, Tally, Reserve, PushLink, StubLink, Doing
<1>b. hand[p].ch \in Channels /\ StoreTypeOK
  BY <1>a DEF TypeInv, TypeOK, HandInv, DiscoveryTypeOK, HandState
<1>1. CASE StubLink(p)  BY <1>b, <1>1, StubChange DEF StubLink
<1>2. CASE UNCHANGED leads  BY <1>2 DEF LeadsKept
<1> QED  BY <1>1, <1>2
         DEF HandStep, CheckSeen, ClaimSeen, CountFirst, Tally, Reserve, PushLink, store, database

\* Discovery, seed intake, and time.
LEMMA OtherLeads ==
  ASSUME TypeInv,
         \/ \E p \in Producers : DiscoveryStep(p)
         \/ SeedStep \/ StoreNext \/ LeaderExpires
         \/ \E c \in Channels : ReserveExpires(c) \/ CountExpires(c)
  PROVE  LeadsKept
<1> USE DEF database, store
<1>1. CASE \E c \in Channels : FallDue(c)
  <2> PICK c \in Channels : FallDue(c)  BY <1>1
  <2>1. StoreTypeOK /\ leads[c] \in LeadRow  BY DEF TypeInv, TypeOK, StoreTypeOK
  <2> DEFINE row == [leads[c] EXCEPT !.due = TRUE]
  <2>2. row \in LeadRow /\ row.due /\ row.status = leads[c].status  BY <2>1 DEF LeadRow
  <2>3. leads' = [leads EXCEPT ![c] = row]  BY <2>1 DEF FallDue, StoreTypeOK
  <2> HIDE DEF row
  <2> QED  BY <2>1, <2>2, <2>3, LeadChange
<1>2. CASE UNCHANGED leads  BY <1>2 DEF LeadsKept
<1>3. ASSUME NEW p \in Producers, DiscoveryStep(p)  PROVE LeadsKept
  <2>1. CASE HandStep(p)  BY <2>1, HandLeads, Constants
  <2>2. CASE ~HandStep(p)  BY <1>2, <1>3, <2>2 DEF DiscoveryStep, FindLink, LoseLink
  <2> QED  BY <2>1, <2>2
<1>4. CASE SeedStep  BY <1>2, <1>4 DEF SeedStep, EnqueueSeed, SeedFault
<1>5. CASE StoreNext  BY <1>1, <1>2, <1>5 DEF StoreNext, Post, AgeJob, RunOverdue, CacheExpires
<1>6. CASE LeaderExpires \/ \E c \in Channels : ReserveExpires(c) \/ CountExpires(c)
  BY <1>2, <1>6 DEF LeaderExpires, ReserveExpires, CountExpires
<1> QED  BY <1>3, <1>4, <1>5, <1>6

\* A validator: its verdict and its save apart.
LEMMA ValidatorLeads ==
  ASSUME TypeInv, NEW v \in Validators, ValidatorStep(v), ~Upsert(v), ~Save(v)
  PROVE  LeadsKept
<1>a. /\ StoreTypeOK /\ leads \in [Channels -> LeadRow] /\ val[v].top \in Mark
      /\ val[v].at # "idle" => val[v].ch \in Channels
  BY ValFacts DEF StoreTypeOK
<1> USE DEF database, store
<1>b. ASSUME NEW row \in LeadRow, ValAt(v, "writes"),
             leads[val[v].ch].due => row.due,
             leads[val[v].ch].status = "rejected" => row.status = "rejected",
             leads' = [leads EXCEPT ![val[v].ch] = row]
      PROVE  LeadsKept
  <2>1. val[v].ch \in Channels  BY <1>a, <1>b DEF ValAt
  <2> QED  BY <1>a, <1>b, <2>1, LeadChange
<1>c. CASE UNCHANGED leads  BY <1>c DEF LeadsKept
<1>1. CASE HandStep(v)  BY <1>1, HandLeads, Constants
<1>2. CASE Pop(v) \/ Checkout(v) \/ LookupMark(v) \/ CacheMark(v) \/ Gate(v) \/ GiveUp(v)
  BY <1>2, <1>c DEF Pop, Checkout, LookupMark, CacheMark, Gate, GiveUp
<1>3. CASE \/ \E plan \in Refused \cup FromWebPage \cup Failure : Dismiss(v, plan)
           \/ FetchNothing(v) \/ \E budget \in Budgets : Fetch(v, budget)
  BY <1>3, <1>c DEF Dismiss, FetchNothing, Fetch
<1>4. CASE WebPageFails(v) \/ Stub(v)
  <2>1. val[v].ch \in Channels  BY <1>a, <1>4 DEF WebPageFails, Stub, Now, ValAt
  <2> QED  BY <1>a, <1>4, <2>1, StubChange DEF WebPageFails, Stub
<1>5. CASE Blacklist(v)
  <2>1. ValAt(v, "writes") /\ val[v].ch \in Channels  BY <1>5, <1>a DEF Blacklist, Now, ValAt
  <2> DEFINE row == Rejected(leads[val[v].ch])
  <2>2. /\ row \in LeadRow /\ row.due = leads[val[v].ch].due
        /\ leads[val[v].ch].status = "rejected" => row.status = "rejected"
    BY <1>a, <2>1 DEF Rejected, LeadRow, LeadStatus
  <2>3. leads' = [leads EXCEPT ![val[v].ch] = row]  BY <1>5, <1>a, <2>1 DEF Blacklist
  <2> HIDE DEF row
  <2> QED  BY <1>b, <2>1, <2>2, <2>3
<1>6. CASE AdvanceMark(v)
  <2>1. ValAt(v, "writes") /\ val[v].ch \in Channels  BY <1>6, <1>a DEF AdvanceMark, Now, ValAt
  <2> DEFINE row == [leads[val[v].ch] EXCEPT !.mark = Higher(@, val[v].top)]
  <2>2. /\ row \in LeadRow /\ row.due = leads[val[v].ch].due
        /\ row.status = leads[val[v].ch].status
    BY <1>a, <2>1 DEF LeadRow, Higher
  <2>3. leads' = [leads EXCEPT ![val[v].ch] = row] \/ UNCHANGED leads
    BY <1>6, <1>a, <2>1 DEF AdvanceMark
  <2> HIDE DEF row
  <2> QED  BY <1>b, <1>c, <2>1, <2>2, <2>3
<1>7. CASE CoolOff(v)
  <2>1. ValAt(v, "writes") /\ val[v].ch \in Channels  BY <1>7, <1>a DEF CoolOff, Now, ValAt
  <2> DEFINE row == [leads[val[v].ch] EXCEPT !.scanned = leads[val[v].ch].status # "none"]
  <2>2. /\ row \in LeadRow /\ row.due = leads[val[v].ch].due
        /\ row.status = leads[val[v].ch].status
    BY <1>a, <2>1 DEF LeadRow
  <2>3. leads' = [leads EXCEPT ![val[v].ch] = row]  BY <1>7, <1>a, <2>1 DEF CoolOff
  <2> HIDE DEF row
  <2> QED  BY <1>b, <2>1, <2>2, <2>3
<1>8. CASE Extracted(v) \/ Shun(v) \/ SaveFails(v) \/ CacheAdvanced(v) \/ CloseJob(v) \/ Log(v)
  BY <1>8, <1>c DEF Extracted, Shun, SaveFails, CacheAdvanced, CacheSet, CloseJob, Log
<1>9. CASE \/ \E c \in Channels, way \in {"scan", "forward"} : Extract(v, c, way)
           \/ (\E plan \in Failure : Raise(v, plan)) \/ ValidatorCrash(v)
  BY <1>9, <1>c DEF Extract, Raise, ValidatorCrash
<1> QED  BY <1>1, <1>2, <1>3, <1>4, <1>5, <1>6, <1>7, <1>8, <1>9 DEF ValidatorStep

\* A scheduler: it rejects nobody, and moves the next crawl on in two steps.
LEMMA SchedulerLeads ==
  ASSUME TypeInv, NEW s \in Schedulers, SchedulerStep(s, Fresh)
  PROVE  /\ \A c \in Channels : leads'[c].status = leads[c].status
         /\ \A c \in Channels : leads[c].due /\ ~leads'[c].due =>
              \/ ReadvanceLead(s) /\ c = jobs[sched[s].job].channel
              \/ AdvanceLead(s) /\ c = sched[s].channel
<1> leads \in [Channels -> LeadRow]  BY DEF TypeInv, TypeOK, StoreTypeOK
<1> USE DEF database, store, LeadRow
<1>1. CASE ReadvanceLead(s)  BY <1>1 DEF ReadvanceLead
<1>2. CASE AdvanceLead(s)  BY <1>2 DEF AdvanceLead
<1>3. CASE AcquireLeaderLock(s) \/ ReleaseLeaderLock(s) \/ SchedulerCrash(s)
  BY <1>3 DEF AcquireLeaderLock, ReleaseLeaderLock, SchedulerCrash
<1>4. CASE SelectStuckJobs(s) \/ RepushJob(s) \/ RepushFails(s)
  BY <1>4 DEF SelectStuckJobs, RepushJob, RepushFails
<1>5. CASE RequeueJob(s) \/ FailStaleJobs(s) \/ CheckPressure(s)
  BY <1>5 DEF RequeueJob, FailStaleJobs, CheckPressure
<1>6. CASE SelectDueChannels(s, Fresh) \/ ScheduleChannel(s) \/ FillCache(s)
  BY <1>6 DEF SelectDueChannels, ScheduleChannel, FillCache
<1>7. CASE \E q \in Tiers : InsertJob(s, q, Fresh) \/ PushJob(s, q)
  BY <1>7 DEF InsertJob, PushJob
<1>8. CASE PushFails(s) \/ MarkQueued(s) \/ MarkEnqueueFailed(s)
  BY <1>8 DEF PushFails, MarkQueued, MarkEnqueueFailed
<1> QED  BY <1>1, <1>2, <1>3, <1>4, <1>5, <1>6, <1>7, <1>8 DEF SchedulerStep

-----------------------------------------------------------------------------
(* The next crawl of a lead moves on: the job that the scheduler has at this *)
(* step was pushed, and nobody draws its id again as long as he has it.      *)

PushedAt == {"requeue", "readvance", "queued", "advance"}
PushedInv == \A s \in Schedulers : sched[s].at \in PushedAt =>
               sched[s].job \in Jobs /\ pushes[sched[s].job] > 0

LEMMA PushedCounts ==
  ASSUME StoreTypeOK, NEW j \in Jobs, pushes' = Pushed(j)
  PROVE  pushes'[j] > 0 /\ \A k \in Jobs : pushes[k] > 0 => pushes'[k] > 0
BY DEF StoreTypeOK, Pushed

\* What the record of a scheduler is after its usual moves.
LEMMA GotoFields ==
  ASSUME SchedulerTypeOK, NEW s \in Schedulers, NEW w \in SchedulerAt, Goto(s, w)
  PROVE  /\ sched'[s].at = w /\ sched'[s].stuck = sched[s].stuck
         /\ sched'[s].todo = sched[s].todo /\ sched'[s].channel = sched[s].channel
         /\ sched'[s].mark = sched[s].mark /\ sched'[s].job = sched[s].job
         /\ \A t \in Schedulers \ {s} : sched'[t] = sched[t]
BY DEF SchedulerTypeOK, SchedulerState, Goto

LEMMA NextDueFields ==
  ASSUME SchedulerTypeOK, NEW s \in Schedulers, NextDue(s)
  PROVE  /\ sched'[s].at = IF sched[s].todo = {} THEN "release" ELSE "schedule"
         /\ sched'[s].stuck = sched[s].stuck /\ sched'[s].todo = sched[s].todo
         /\ sched'[s].channel = None /\ sched'[s].mark = 0 /\ sched'[s].job = None
         /\ \A t \in Schedulers \ {s} : sched'[t] = sched[t]
<1> DEFINE w == IF sched[s].todo = {} THEN "release" ELSE "schedule"
           r == [sched[s] EXCEPT !.at = w, !.channel = None, !.mark = 0, !.job = None]
<1>1. sched \in [Schedulers -> SchedulerState] /\ sched[s] \in SchedulerState
  BY DEF SchedulerTypeOK
<1>2. sched' = [sched EXCEPT ![s] = r]  BY <1>1 DEF NextDue
<1> HIDE DEF w
<1>3. /\ r.at = w /\ r.stuck = sched[s].stuck /\ r.todo = sched[s].todo
      /\ r.channel = None /\ r.mark = 0 /\ r.job = None
  BY <1>1 DEF SchedulerState
<1> HIDE DEF r
<1>4. sched'[s] = r /\ \A t \in Schedulers \ {s} : sched'[t] = sched[t]  BY <1>1, <1>2
<1> QED  BY <1>3, <1>4 DEF w

LEMMA NextStuckFields ==
  ASSUME SchedulerTypeOK, NEW s \in Schedulers, NEW left, NextStuck(s, left)
  PROVE  /\ sched'[s].at = IF left = {} THEN "stale" ELSE "repush"
         /\ sched'[s].stuck = left /\ sched'[s].todo = sched[s].todo
         /\ sched'[s].channel = sched[s].channel /\ sched'[s].mark = sched[s].mark
         /\ sched'[s].job = None
         /\ \A t \in Schedulers \ {s} : sched'[t] = sched[t]
<1> DEFINE w == IF left = {} THEN "stale" ELSE "repush"
           r == [sched[s] EXCEPT !.at = w, !.stuck = left, !.job = None]
<1>1. sched \in [Schedulers -> SchedulerState] /\ sched[s] \in SchedulerState
  BY DEF SchedulerTypeOK
<1>2. sched' = [sched EXCEPT ![s] = r]  BY <1>1 DEF NextStuck
<1> HIDE DEF w
<1>3. /\ r.at = w /\ r.stuck = left /\ r.todo = sched[s].todo
      /\ r.channel = sched[s].channel /\ r.mark = sched[s].mark /\ r.job = None
  BY <1>1 DEF SchedulerState
<1> HIDE DEF r
<1>4. sched'[s] = r /\ \A t \in Schedulers \ {s} : sched'[t] = sched[t]  BY <1>1, <1>2
<1> QED  BY <1>3, <1>4 DEF w

\* What others than the schedulers do to a job leaves its pushes alone.
LEMMA PushesLocal ==
  ASSUME Next
  PROVE  (\E s \in Schedulers : Scheduling(s)) \/ UNCHANGED <<sched, pushes>>
<1> USE DEF database, redis, marks, observed, store
<1>1. ASSUME NEW p, HandStep(p)  PROVE UNCHANGED pushes
  BY <1>1 DEF HandStep, CheckSeen, ClaimSeen, CountFirst, Tally, Reserve, PushLink, StubLink
<1>2. ASSUME NEW p, DiscoveryStep(p)  PROVE UNCHANGED pushes
  BY <1>1, <1>2 DEF DiscoveryStep, FindLink, LoseLink
<1>3. ASSUME SeedStep  PROVE UNCHANGED pushes
  BY <1>3 DEF SeedStep, EnqueueSeed, SeedFault
<1>4. ASSUME NEW v, ValidatorStep(v)  PROVE UNCHANGED pushes
  <2>1. CASE Pop(v) \/ Checkout(v) \/ LookupMark(v) \/ CacheMark(v) \/ Gate(v) \/ GiveUp(v)
    BY <2>1 DEF Pop, Checkout, LookupMark, CacheMark, Gate, GiveUp
  <2>2. CASE \/ \E plan \in Refused \cup FromWebPage \cup Failure : Dismiss(v, plan)
             \/ WebPageFails(v) \/ FetchNothing(v) \/ \E budget \in Budgets : Fetch(v, budget)
    BY <2>2 DEF Dismiss, WebPageFails, FetchNothing, Fetch
  <2>3. CASE Blacklist(v) \/ Upsert(v) \/ Stub(v) \/ Extracted(v) \/ Shun(v) \/ Save(v)
             \/ SaveFails(v)
    BY <2>3 DEF Blacklist, Upsert, Stub, Extracted, Shun, Save, SaveFails
  <2>4. CASE AdvanceMark(v) \/ CacheAdvanced(v) \/ CoolOff(v) \/ Log(v) \/ CloseJob(v)
    BY <2>4 DEF AdvanceMark, CacheAdvanced, CacheSet, CoolOff, Log, CloseJob
  <2>5. CASE \/ \E c \in Channels, way \in {"scan", "forward"} : Extract(v, c, way)
             \/ (\E plan \in Failure : Raise(v, plan)) \/ ValidatorCrash(v)
    BY <2>5 DEF Extract, Raise, ValidatorCrash
  <2> QED  BY <1>1, <1>4, <2>1, <2>2, <2>3, <2>4, <2>5 DEF ValidatorStep
<1>5. ASSUME Elapsing  PROVE UNCHANGED <<sched, pushes>>
  BY <1>5 DEF Elapsing, StoreNext, Post, FallDue, AgeJob, RunOverdue, CacheExpires,
              LeaderExpires, ReserveExpires, CountExpires
<1> QED  BY <1>2, <1>3, <1>4, <1>5 DEF Next, Discovering, Seeding, Validating

\* A scheduler's step changes the pushes of nobody else's job downwards, and
\* brings the scheduler past a push only with a job that was pushed.
LEMMA SchedulerPushes ==
  ASSUME TypeInv, PushedInv, NEW s \in Schedulers, SchedulerStep(s, Fresh)
  PROVE  /\ sched'[s].at \in PushedAt => sched'[s].job \in Jobs /\ pushes'[sched'[s].job] > 0
         /\ \A t \in Schedulers \ {s} : \A j \in Jobs :
              j = sched[t].job /\ pushes[j] > 0 => pushes'[j] > 0
<1>a. /\ SchedulerTypeOK /\ sched \in [Schedulers -> SchedulerState]
      /\ sched[s] \in SchedulerState /\ pushes \in [Jobs -> 0..2] /\ StoreTypeOK /\ SchedulerOK(sched[s], jobs)
      /\ sched[s].job \in Jobs \cup {None} /\ sched[s].stuck \subseteq Jobs
  BY DEF TypeInv, TypeOK, StoreTypeOK, SchedulerTypeOK, SchedulerState, SchedInv
<1>b. sched[s].at \in PushedAt => sched[s].job \in Jobs /\ pushes[sched[s].job] > 0
  BY DEF PushedInv
<1>c. ASSUME UNCHANGED pushes, sched'[s].at \notin PushedAt
      PROVE  /\ sched'[s].at \in PushedAt => sched'[s].job \in Jobs /\ pushes'[sched'[s].job] > 0
             /\ \A t \in Schedulers \ {s} : \A j \in Jobs :
                  j = sched[t].job /\ pushes[j] > 0 => pushes'[j] > 0
  BY <1>c
<1>d. ASSUME UNCHANGED pushes, sched[s].at \in PushedAt, sched'[s].job = sched[s].job
      PROVE  /\ sched'[s].at \in PushedAt => sched'[s].job \in Jobs /\ pushes'[sched'[s].job] > 0
             /\ \A t \in Schedulers \ {s} : \A j \in Jobs :
                  j = sched[t].job /\ pushes[j] > 0 => pushes'[j] > 0
  BY <1>b, <1>d
<1> USE DEF database, store, observed, At, Goto, PushedAt
<1>1. CASE AcquireLeaderLock(s) \/ ReleaseLeaderLock(s) \/ SchedulerCrash(s)
  <2>1. UNCHANGED pushes  BY <1>1 DEF AcquireLeaderLock, ReleaseLeaderLock, SchedulerCrash
  <2>2. sched'[s].at \in {"idle", "select", "reconcile"}
    BY <1>1, <1>a DEF AcquireLeaderLock, ReleaseLeaderLock, SchedulerCrash, SchedulerState,
                      IdleScheduler
  <2> QED  BY <1>c, <2>1, <2>2
<1>2. CASE SelectStuckJobs(s) \/ RepushFails(s)
  <2>1. UNCHANGED pushes  BY <1>2 DEF SelectStuckJobs, RepushFails
  <2>2. sched'[s].at \in {"stale", "repush"}
    BY <1>2, <1>a, NextStuckFields DEF SelectStuckJobs, RepushFails
  <2> QED  BY <1>c, <2>1, <2>2
<1>3. CASE RepushJob(s)
  <2> PICK j \in sched[s].stuck :
         pushes' = Pushed(j) /\ sched' = [sched EXCEPT ![s].at = "requeue", ![s].job = j]
    BY <1>3 DEF RepushJob
  <2>1. sched'[s].job = j /\ j \in Jobs  BY <1>a DEF SchedulerState
  <2> QED  BY <1>a, <2>1, PushedCounts
<1>4. CASE RequeueJob(s) \/ ReadvanceLead(s)
  <2>1. UNCHANGED pushes /\ sched[s].at \in PushedAt  BY <1>4 DEF RequeueJob, ReadvanceLead
  <2>2. sched'[s].job = sched[s].job \/ sched'[s].at \in {"stale", "repush"}
    BY <1>4, <1>a, NextStuckFields, GotoFields DEF RequeueJob, ReadvanceLead, SchedulerAt
  <2> QED  BY <1>c, <1>d, <2>1, <2>2
<1>5. CASE FailStaleJobs(s) \/ CheckPressure(s)
  <2>1. UNCHANGED pushes  BY <1>5 DEF FailStaleJobs, CheckPressure
  <2>2. sched'[s].at \in {"pressure", "release", "select"}
    BY <1>5, <1>a DEF FailStaleJobs, CheckPressure, SchedulerState
  <2> QED  BY <1>c, <2>1, <2>2
<1>6. CASE SelectDueChannels(s, Fresh) \/ ScheduleChannel(s) \/ FillCache(s)
  <2>1. UNCHANGED pushes  BY <1>6 DEF SelectDueChannels, ScheduleChannel, FillCache
  <2>2. sched'[s].at \in {"release", "schedule", "fill", "insert"}
    <3>1. CASE SelectDueChannels(s, Fresh)
      BY <3>1, <1>a DEF SelectDueChannels, SchedulerState
    <3>2. CASE ScheduleChannel(s)  BY <3>2, <1>a DEF ScheduleChannel, SchedulerState
    <3>3. CASE FillCache(s)  BY <3>3, <1>a DEF FillCache, SchedulerState
    <3> QED  BY <1>6, <3>1, <3>2, <3>3
  <2> QED  BY <1>c, <2>1, <2>2
<1>7. CASE \E q \in Tiers : InsertJob(s, q, Fresh)
  <2> DEFINE j == CHOOSE j \in Fresh : Unused(j)
  <2>1. /\ \E i \in Fresh : Unused(i)
        /\ pushes' = [pushes EXCEPT ![j] = 0]
        /\ sched' = [sched EXCEPT ![s].at = "push", ![s].job = j]
    BY <1>7 DEF InsertJob
  <2>2. \A t \in Schedulers : j # sched[t].job  BY <2>1 DEF Unused
  <2> HIDE DEF j
  <2>3. sched'[s].at = "push"  BY <1>a, <2>1 DEF SchedulerState
  <2> QED  BY <1>a, <2>1, <2>2, <2>3
<1>8. CASE \E q \in Tiers : PushJob(s, q)
  <2>1. /\ pushes' = Pushed(sched[s].job) /\ sched' = [sched EXCEPT ![s].at = "queued"]
        /\ sched[s].job \in Jobs
    BY <1>8, <1>a DEF PushJob, SchedulerOK
  <2>2. sched'[s].job = sched[s].job  BY <1>a, <2>1 DEF SchedulerState
  <2> QED  BY <1>a, <2>1, <2>2, PushedCounts
<1>9. CASE PushFails(s) \/ AdvanceLead(s) \/ MarkEnqueueFailed(s)
  <2>1. UNCHANGED pushes  BY <1>9 DEF PushFails, AdvanceLead, MarkEnqueueFailed
  <2>2. sched'[s].at \in {"failed", "release", "schedule"}
    BY <1>9, <1>a, NextDueFields, GotoFields
       DEF PushFails, AdvanceLead, MarkEnqueueFailed, SchedulerAt
  <2> QED  BY <1>c, <2>1, <2>2
<1>10. CASE MarkQueued(s)
  <2>1. UNCHANGED pushes /\ sched[s].at \in PushedAt  BY <1>10 DEF MarkQueued
  <2>2. sched'[s].job = sched[s].job \/ sched'[s].at \in {"release", "schedule"}
    BY <1>10, <1>a, NextDueFields, GotoFields DEF MarkQueued, SchedulerAt
  <2> QED  BY <1>c, <1>d, <2>1, <2>2
<1> QED  BY <1>1, <1>2, <1>3, <1>4, <1>5, <1>6, <1>7, <1>8, <1>9, <1>10 DEF SchedulerStep

LEMMA PushedStep == TypeInv /\ PushedInv /\ [Next]_vars => PushedInv'
<1> SUFFICES ASSUME TypeInv, PushedInv, [Next]_vars PROVE PushedInv'  OBVIOUS
<1>1. ASSUME NEW s \in Schedulers, Scheduling(s)  PROVE PushedInv'
  <2>1. /\ SchedulerStep(s, Fresh) /\ SchedulerTypeOK
        /\ \A t \in Schedulers : sched[t].job \in Jobs \cup {None}
    BY <1>1 DEF Scheduling, TypeInv, TypeOK, SchedulerTypeOK, SchedulerState
  <2>2. \A t \in Schedulers \ {s} : sched'[t] = sched[t]  BY <2>1, SchedulerLocal
  <2> QED  BY <2>1, <2>2, SchedulerPushes DEF PushedInv
<1>2. CASE UNCHANGED <<sched, pushes>>  BY <1>2 DEF PushedInv
<1> QED  BY <1>1, <1>2, PushesLocal DEF vars, store, observed

\* A validator that carried out a write is not where it was.
LEMMA DoneMoves ==
  ASSUME TypeInv, NEW v \in Validators, ValAt(v, "writes"), Done(v)
  PROVE  val'[v] # val[v]
<1>1. /\ val \in [Validators -> ValidatorState] /\ val[v] \in ValidatorState
      /\ val[v].plan \in Seq(Writes) /\ val[v].plan # <<>> /\ val[v].at = "writes"
  BY ValFacts DEF ValAt
<1>2. CASE Len(val[v].plan) = 1
  <2>1. val' = [val EXCEPT ![v] = IdleValidator]  BY <1>2 DEF Done, End
  <2>2. val'[v] = IdleValidator /\ IdleValidator.at = "idle"  BY <1>1, <2>1, Idle
  <2> QED  BY <1>1, <2>2
<1>3. CASE Len(val[v].plan) # 1
  <2>1. val'[v].plan = Tail(val[v].plan)
    <3>1. val' = [val EXCEPT ![v] = [val[v] EXCEPT !.plan = Tail(val[v].plan)]]
      BY <1>1, <1>3 DEF Done
    <3> QED  BY <1>1, <3>1 DEF ValidatorState
  <2>2. Len(Tail(val[v].plan)) = Len(val[v].plan) - 1 /\ Len(val[v].plan) \in Nat
    BY <1>1, HeadTailProperties
  <2>3. Len(val'[v].plan) # Len(val[v].plan)  BY <2>1, <2>2
  <2> QED  BY <2>3
<1> QED  BY <1>2, <1>3

\* next_crawl_at moves on only for a lead that a validator saves at this moment, or
\* for the channel of a job that was pushed (priority_scheduler.py, validator.py): no
\* failure, crash or second loop makes a channel wait for a crawl that nobody has.
THEOREM AdvancesAreEarned == Spec => AdvanceOnlyAfterPush
<1> DEFINE Moves == \A c \in Channels : leads[c].due /\ ~leads'[c].due =>
       \/ \E v \in Validators : val[v].ch = c /\ val'[v] # val[v]
       \/ \E s \in Schedulers : LET j == sched[s].job IN
            j # None /\ pushes[j] > 0 /\ c \in {sched[s].channel, jobs[j].channel}
<1>1. TypeInv /\ PushedInv /\ [Next]_vars => Moves
  <2> SUFFICES ASSUME TypeInv, PushedInv, [Next]_vars PROVE Moves  OBVIOUS
  <2>a. CASE LeadsKept  BY <2>a DEF LeadsKept
  <2>1. ASSUME NEW s \in Schedulers, Scheduling(s)  PROVE Moves
    <3> SUFFICES ASSUME NEW c \in Channels, leads[c].due, ~leads'[c].due
                 PROVE  LET j == sched[s].job IN
                          j # None /\ pushes[j] > 0 /\ c \in {sched[s].channel, jobs[j].channel}
      OBVIOUS
    <3>1. \/ ReadvanceLead(s) /\ c = jobs[sched[s].job].channel
          \/ AdvanceLead(s) /\ c = sched[s].channel
      BY <2>1, SchedulerLeads DEF Scheduling
    <3>2. sched[s].at \in PushedAt  BY <3>1 DEF ReadvanceLead, AdvanceLead, At, PushedAt
    <3>3. sched[s].job \in Jobs /\ pushes[sched[s].job] > 0  BY <3>2 DEF PushedInv
    <3> QED  BY <3>1, <3>3, Constants
  <2>2. ASSUME NEW v \in Validators, Validating(v)  PROVE Moves
    <3>1. CASE Upsert(v)
      <4>1. /\ ValAt(v, "writes") /\ val[v].ch \in Channels /\ leads \in [Channels -> LeadRow]
        BY <3>1, ValFacts DEF Upsert, Now, ValAt, StoreTypeOK
      <4>2. \A st \in {"new", "rejected"} :
              leads[val[v].ch].due => Upserted(leads[val[v].ch], st).due
        BY <4>1 DEF Upserted, LeadRow
      <4>3. \A c \in Channels : leads[c].due => leads'[c].due  BY <3>1, <4>1, <4>2 DEF Upsert
      <4> QED  BY <4>3
    <3>2. CASE Save(v)
      <4>1. ValAt(v, "writes") /\ Done(v) /\ leads \in [Channels -> LeadRow]
        BY <3>2, ValFacts DEF Save, Now, StoreTypeOK
      <4>2. val'[v] # val[v]  BY <4>1, DoneMoves
      <4>3. \A c \in Channels \ {val[v].ch} : leads'[c] = leads[c]  BY <3>2, <4>1 DEF Save
      <4> QED  BY <4>2, <4>3
    <3>3. CASE ~Upsert(v) /\ ~Save(v)  BY <2>2, <2>a, <3>3, ValidatorLeads DEF Validating
    <3> QED  BY <3>1, <3>2, <3>3
  <2>3. CASE \/ \E p \in Producers : Discovering(p)
             \/ Seeding \/ Elapsing
    BY <2>3, <2>a, OtherLeads DEF Discovering, Seeding, Elapsing
  <2>4. CASE UNCHANGED vars  BY <2>4 DEF vars, store, database
  <2> QED  BY <2>1, <2>2, <2>3, <2>4 DEF Next
<1>2. Init => PushedInv
  BY DEF Init, SchedulerInit, PushedInv, PushedAt, IdleScheduler
<1>3. TypeInv /\ PushedInv /\ [Next]_vars => [Moves]_vars  BY <1>1
<1>4. AdvanceOnlyAfterPush <=> [][Moves]_vars  BY DEF AdvanceOnlyAfterPush
<1> HIDE DEF Moves
<1> QED  BY <1>2, <1>3, <1>4, TypesHold, PushedStep, PTL DEF Spec

-----------------------------------------------------------------------------
(* A blacklisted channel stays rejected while one validator runs: it looks   *)
(* at the blacklist before it inspects, and no plan accepts or saves a       *)
(* channel after it has blacklisted it.                                      *)

\* What the record of a validator is after its usual moves.
LEMMA PlannedFields ==
  ASSUME TypeInv, NEW v \in Validators, NEW plan \in Seq(Writes), NEW low \in Mark,
         NEW top \in Mark, NEW links \in SUBSET Channels,
         val' = [val EXCEPT ![v] = Planned(v, plan, low, top, links)]
  PROVE  /\ val'[v].at = "writes" /\ val'[v].ch = val[v].ch /\ val'[v].job = val[v].job
         /\ val'[v].plan = plan
         /\ \A w \in Validators \ {v} : val'[w] = val[w]
<1>1. val \in [Validators -> ValidatorState] /\ val[v] \in ValidatorState  BY ValFacts
<1>2. val'[v] = Planned(v, plan, low, top, links)  BY <1>1
<1> QED  BY <1>1, <1>2, PlannedType

LEMMA IdleFields ==
  ASSUME TypeInv, NEW v \in Validators, val' = [val EXCEPT ![v] = IdleValidator]
  PROVE  /\ val'[v].at = "idle" /\ val'[v].ch = None /\ val'[v].job = None
         /\ \A w \in Validators \ {v} : val'[w] = val[w]
<1>1. val \in [Validators -> ValidatorState]  BY ValFacts
<1>2. val'[v] = IdleValidator /\ \A w \in Validators \ {v} : val'[w] = val[w]  BY <1>1
<1>3. IdleValidator.at = "idle" /\ IdleValidator.ch = None /\ IdleValidator.job = None
  BY DEF IdleValidator
<1> QED  BY <1>2, <1>3

LEMMA FollowFields ==
  ASSUME TypeInv, NEW v \in Validators, NEW plan \in Seq(Writes), Follow(v, plan)
  PROVE  /\ \/ /\ val'[v].at = "idle" /\ val'[v].ch = None /\ val'[v].job = None
               /\ handled' = handled \cup {val[v].ch}
            \/ /\ val'[v].at = "writes" /\ val'[v].ch = val[v].ch
               /\ val'[v].job = val[v].job /\ val'[v].plan = plan
               /\ UNCHANGED handled
         /\ \A w \in Validators \ {v} : val'[w] = val[w]
<1>1. CASE plan = <<>>  BY <1>1, IdleFields DEF Follow, End
<1>2. CASE plan # <<>>
  <2>1. {} \in SUBSET Channels /\ 0 \in Mark  BY Constants DEF Mark
  <2>2. val' = [val EXCEPT ![v] = Planned(v, plan, 0, 0, {})] /\ UNCHANGED handled
    BY <1>2 DEF Follow
  <2> QED  BY <2>1, <2>2, PlannedFields
<1> QED  BY <1>1, <1>2

LEMMA DoneFields ==
  ASSUME TypeInv, NEW v \in Validators, ValAt(v, "writes"), Done(v)
  PROVE  /\ \/ /\ val'[v].at = "idle" /\ val'[v].ch = None /\ val'[v].job = None
               /\ handled' = handled \cup {val[v].ch}
            \/ /\ val'[v].at = "writes" /\ val'[v].ch = val[v].ch
               /\ val'[v].job = val[v].job /\ val'[v].plan = Tail(val[v].plan)
               /\ UNCHANGED handled
         /\ \A w \in Validators \ {v} : val'[w] = val[w]
<1>1. /\ val \in [Validators -> ValidatorState] /\ val[v] \in ValidatorState
      /\ val[v].at = "writes"
  BY ValFacts DEF ValAt
<1>2. CASE Len(val[v].plan) = 1  BY <1>2, IdleFields DEF Done, End
<1>3. CASE Len(val[v].plan) # 1
  <2> DEFINE r == [val[v] EXCEPT !.plan = Tail(val[v].plan)]
  <2>1. val' = [val EXCEPT ![v] = r] /\ UNCHANGED handled  BY <1>1, <1>3 DEF Done
  <2>2. /\ r.at = "writes" /\ r.ch = val[v].ch /\ r.job = val[v].job
        /\ r.plan = Tail(val[v].plan)
    BY <1>1 DEF ValidatorState
  <2> HIDE DEF r
  <2> QED  BY <1>1, <2>1, <2>2
<1> QED  BY <1>2, <1>3

\* What makes a lead of a channel again.
Accepting == {"accept", "save"}
Harmless(plan) == \A i \in 1..Len(plan) : plan[i] \notin Accepting
\* No write after a "blacklist" does.
Ordered(plan) == \A i \in 1..Len(plan) : plan[i] = "blacklist" =>
                   \A k \in (i + 1)..Len(plan) : plan[k] \notin Accepting

LEMMA HarmlessOrdered ==
  ASSUME NEW plan \in Seq(Writes), Harmless(plan)  PROVE Ordered(plan)
BY DEF Harmless, Ordered

LEMMA PlansOrdered ==
  /\ Harmless(Malformed) /\ Harmless(Blacklisted) /\ Harmless(BadSource)
  /\ Harmless(InCoolDown) /\ Harmless(<<"log">>) /\ Harmless(Unsaved)
  /\ \A plan \in Failure : Harmless(plan)
  /\ \A plan \in Refused \cup FromWebPage : Ordered(plan)
  /\ \A m, l, t : \A plan \in Judged(m, l, t) : Ordered(plan)
<1>1. /\ Harmless(Malformed) /\ Harmless(Blacklisted) /\ Harmless(BadSource)
      /\ Harmless(InCoolDown) /\ Harmless(<<"log">>) /\ Harmless(Unsaved)
  BY DEF Malformed, Blacklisted, BadSource, InCoolDown, Unsaved, Harmless, Accepting
<1>2. \A plan \in Failure : Harmless(plan)  BY DEF Failure, Harmless, Accepting
<1> USE DEF Ordered, Accepting
<1>3. \A plan \in Refused : Ordered(plan)  BY DEF Refused
<1>4. \A plan \in FromWebPage : Ordered(plan)  BY DEF FromWebPage
<1>5. Ordered(NoPosts) /\ Ordered(UpToDate)  BY DEF NoPosts, UpToDate
<1>6. \A plan \in Inactive : Ordered(plan)  BY DEF Inactive
<1>7. \A plan \in Group : Ordered(plan)  BY DEF Group
<1>8. \A plan \in Disqualified : Ordered(plan)  BY DEF Disqualified
<1>9. Ordered(Saved)
  <2>1. \A i \in 1..Len(Saved) : Saved[i] # "blacklist"  BY DEF Saved
  <2> QED  BY <2>1
<1> HIDE DEF Ordered
<1> QED  BY <1>1, <1>2, <1>3, <1>4, <1>5, <1>6, <1>7, <1>8, <1>9 DEF Judged

LEMMA TailOrdered ==
  ASSUME NEW plan \in Seq(Writes), plan # <<>>, Ordered(plan)
  PROVE  /\ Ordered(Tail(plan))
         /\ Head(plan) = "blacklist" => Harmless(Tail(plan))
         /\ Harmless(plan) => Harmless(Tail(plan)) /\ Head(plan) \notin Accepting
<1>1. /\ Tail(plan) \in Seq(Writes) /\ Len(plan) \in Nat \ {0}
      /\ Len(Tail(plan)) = Len(plan) - 1 /\ Head(plan) = plan[1]
      /\ \A i \in 1..Len(Tail(plan)) : Tail(plan)[i] = plan[i + 1] /\ i + 1 \in 1..Len(plan)
  BY HeadTailProperties, EmptySeq
<1>2. Ordered(Tail(plan))
  <2> SUFFICES ASSUME NEW i \in 1..Len(Tail(plan)), Tail(plan)[i] = "blacklist",
                      NEW k \in (i + 1)..Len(Tail(plan))
               PROVE  Tail(plan)[k] \notin Accepting
    BY DEF Ordered
  <2>1. plan[i + 1] = "blacklist" /\ i + 1 \in 1..Len(plan)  BY <1>1
  <2>2. k \in 1..Len(Tail(plan)) /\ k + 1 \in ((i + 1) + 1)..Len(plan)  BY <1>1
  <2>3. Tail(plan)[k] = plan[k + 1]  BY <1>1, <2>2
  <2> QED  BY <2>1, <2>2, <2>3 DEF Ordered
<1>3. ASSUME Head(plan) = "blacklist"  PROVE Harmless(Tail(plan))
  <2>1. 1 \in 1..Len(plan) /\ plan[1] = "blacklist"  BY <1>1, <1>3
  <2>2. \A k \in (1 + 1)..Len(plan) : plan[k] \notin Accepting  BY <2>1 DEF Ordered
  <2>3. \A i \in 1..Len(Tail(plan)) : i + 1 \in (1 + 1)..Len(plan)  BY <1>1
  <2> QED  BY <1>1, <2>2, <2>3 DEF Harmless
<1>4. ASSUME Harmless(plan)  PROVE Harmless(Tail(plan)) /\ Head(plan) \notin Accepting
  <2>1. 1 \in 1..Len(plan)  BY <1>1
  <2> QED  BY <1>1, <1>4, <2>1 DEF Harmless
<1> QED  BY <1>2, <1>3, <1>4

OneValidator == \A v, w \in Validators \cap setup.run : v = w
ValBlack(r, black) ==
  /\ r.at = "inspect" => r.ch \notin black
  /\ r.at = "writes" => Ordered(r.plan) /\ (r.ch \in black => Harmless(r.plan))
BlackInv == OneValidator => \A v \in Validators \cap setup.run : ValBlack(val[v], blacklist)

LEMMA SetupStays == [Next]_vars => UNCHANGED setup
<1> SUFFICES ASSUME [Next]_vars PROVE UNCHANGED setup  OBVIOUS
<1> USE DEF store
<1>1. ASSUME NEW p, HandStep(p)  PROVE UNCHANGED setup
  BY <1>1 DEF HandStep, CheckSeen, ClaimSeen, CountFirst, Tally, Reserve, PushLink, StubLink
<1>2. ASSUME NEW p, DiscoveryStep(p)  PROVE UNCHANGED setup
  BY <1>1, <1>2 DEF DiscoveryStep, FindLink, LoseLink
<1>3. ASSUME SeedStep  PROVE UNCHANGED setup
  BY <1>3 DEF SeedStep, EnqueueSeed, SeedFault
<1>4. ASSUME NEW v, ValidatorStep(v)  PROVE UNCHANGED setup
  <2>1. CASE Pop(v) \/ Checkout(v) \/ LookupMark(v) \/ CacheMark(v) \/ Gate(v) \/ GiveUp(v)
    BY <2>1 DEF Pop, Checkout, LookupMark, CacheMark, Gate, GiveUp
  <2>2. CASE \/ \E plan \in Refused \cup FromWebPage \cup Failure : Dismiss(v, plan)
             \/ WebPageFails(v) \/ FetchNothing(v) \/ \E budget \in Budgets : Fetch(v, budget)
    BY <2>2 DEF Dismiss, WebPageFails, FetchNothing, Fetch
  <2>3. CASE Blacklist(v) \/ Upsert(v) \/ Stub(v) \/ Extracted(v) \/ Shun(v) \/ Save(v)
             \/ SaveFails(v)
    BY <2>3 DEF Blacklist, Upsert, Stub, Extracted, Shun, Save, SaveFails
  <2>4. CASE AdvanceMark(v) \/ CacheAdvanced(v) \/ CoolOff(v) \/ Log(v) \/ CloseJob(v)
    BY <2>4 DEF AdvanceMark, CacheAdvanced, CacheSet, CoolOff, Log, CloseJob
  <2>5. CASE \/ \E c \in Channels, way \in {"scan", "forward"} : Extract(v, c, way)
             \/ (\E plan \in Failure : Raise(v, plan)) \/ ValidatorCrash(v)
    BY <2>5 DEF Extract, Raise, ValidatorCrash
  <2> QED  BY <1>1, <1>4, <2>1, <2>2, <2>3, <2>4, <2>5 DEF ValidatorStep
<1>5. ASSUME Elapsing  PROVE UNCHANGED setup
  BY <1>5 DEF Elapsing, StoreNext, Post, FallDue, AgeJob, RunOverdue, CacheExpires,
              LeaderExpires, ReserveExpires, CountExpires
<1>6. ASSUME NEW s, SchedulerStep(s, Fresh)  PROVE UNCHANGED setup
  <2>1. CASE AcquireLeaderLock(s) \/ ReleaseLeaderLock(s) \/ SchedulerCrash(s)
    BY <2>1 DEF AcquireLeaderLock, ReleaseLeaderLock, SchedulerCrash
  <2>2. CASE SelectStuckJobs(s) \/ RepushJob(s) \/ RepushFails(s)
    BY <2>2 DEF SelectStuckJobs, RepushJob, RepushFails
  <2>3. CASE RequeueJob(s) \/ ReadvanceLead(s) \/ FailStaleJobs(s) \/ CheckPressure(s)
    BY <2>3 DEF RequeueJob, ReadvanceLead, FailStaleJobs, CheckPressure
  <2>4. CASE SelectDueChannels(s, Fresh) \/ ScheduleChannel(s) \/ FillCache(s)
    BY <2>4 DEF SelectDueChannels, ScheduleChannel, FillCache
  <2>5. CASE \E q \in Tiers : InsertJob(s, q, Fresh) \/ PushJob(s, q)
    BY <2>5 DEF InsertJob, PushJob
  <2>6. CASE PushFails(s) \/ MarkQueued(s) \/ AdvanceLead(s) \/ MarkEnqueueFailed(s)
    BY <2>6 DEF PushFails, MarkQueued, AdvanceLead, MarkEnqueueFailed
  <2> QED  BY <1>6, <2>1, <2>2, <2>3, <2>4, <2>5, <2>6 DEF SchedulerStep
<1> QED  BY <1>2, <1>3, <1>4, <1>5, <1>6 DEF Next, Scheduling, Discovering, Seeding, Validating, vars

\* Only a validator writes to the blacklist.
LEMMA BlacklistLocal ==
  ASSUME Next
  PROVE  (\E v \in Validators \cap setup.run : Validating(v)) \/ UNCHANGED <<val, blacklist>>
<1> USE DEF database, store
<1>1. ASSUME NEW p, HandStep(p)  PROVE UNCHANGED blacklist
  BY <1>1 DEF HandStep, CheckSeen, ClaimSeen, CountFirst, Tally, Reserve, PushLink, StubLink
<1>2. ASSUME NEW p, DiscoveryStep(p)  PROVE UNCHANGED blacklist
  BY <1>1, <1>2 DEF DiscoveryStep, FindLink, LoseLink
<1>3. ASSUME SeedStep  PROVE UNCHANGED blacklist
  BY <1>3 DEF SeedStep, EnqueueSeed, SeedFault
<1>4. ASSUME Elapsing  PROVE UNCHANGED <<val, blacklist>>
  BY <1>4 DEF Elapsing, StoreNext, Post, FallDue, AgeJob, RunOverdue, CacheExpires,
              LeaderExpires, ReserveExpires, CountExpires
<1>5. ASSUME NEW s, SchedulerStep(s, Fresh)  PROVE UNCHANGED blacklist
  <2>1. CASE AcquireLeaderLock(s) \/ ReleaseLeaderLock(s) \/ SchedulerCrash(s)
    BY <2>1 DEF AcquireLeaderLock, ReleaseLeaderLock, SchedulerCrash
  <2>2. CASE SelectStuckJobs(s) \/ RepushJob(s) \/ RepushFails(s)
    BY <2>2 DEF SelectStuckJobs, RepushJob, RepushFails
  <2>3. CASE RequeueJob(s) \/ ReadvanceLead(s) \/ FailStaleJobs(s) \/ CheckPressure(s)
    BY <2>3 DEF RequeueJob, ReadvanceLead, FailStaleJobs, CheckPressure
  <2>4. CASE SelectDueChannels(s, Fresh) \/ ScheduleChannel(s) \/ FillCache(s)
    BY <2>4 DEF SelectDueChannels, ScheduleChannel, FillCache
  <2>5. CASE \E q \in Tiers : InsertJob(s, q, Fresh) \/ PushJob(s, q)
    BY <2>5 DEF InsertJob, PushJob
  <2>6. CASE PushFails(s) \/ MarkQueued(s) \/ AdvanceLead(s) \/ MarkEnqueueFailed(s)
    BY <2>6 DEF PushFails, MarkQueued, AdvanceLead, MarkEnqueueFailed
  <2> QED  BY <1>5, <2>1, <2>2, <2>3, <2>4, <2>5, <2>6 DEF SchedulerStep
<1> QED  BY <1>2, <1>3, <1>4, <1>5 DEF Next, Scheduling, Discovering, Seeding

\* What a validator's own step does to what it is about to write.
LEMMA ValBlackStep ==
  ASSUME TypeInv, NEW v \in Validators, ValidatorStep(v), ValBlack(val[v], blacklist)
  PROVE  ValBlack(val'[v], blacklist')
<1>a. /\ val \in [Validators -> ValidatorState] /\ val[v] \in ValidatorState
      /\ val[v].plan \in Seq(Writes) /\ val[v].mark \in Mark
      /\ val[v].at = "writes" => val[v].plan # <<>>
      /\ StoreTypeOK
  BY ValFacts
<1> USE DEF database, store, ValAt
<1>b. CASE val'[v].at \notin {"inspect", "writes"}  BY <1>b DEF ValBlack
\* A plan that accepts nothing, or one for a channel that is not blacklisted.
<1>c. ASSUME NEW plan \in Seq(Writes), Follow(v, plan),
             \/ Harmless(plan)
             \/ Ordered(plan) /\ val[v].ch \notin blacklist',
             UNCHANGED blacklist
      PROVE  ValBlack(val'[v], blacklist')
  BY <1>c, FollowFields, HarmlessOrdered DEF ValBlack
<1>d. ASSUME NEW plan \in Seq(Writes), NEW l \in Mark, NEW t \in Mark, NEW ls \in SUBSET Channels,
             val' = [val EXCEPT ![v] = Planned(v, plan, l, t, ls)],
             \/ Harmless(plan)
             \/ Ordered(plan) /\ val[v].ch \notin blacklist',
             UNCHANGED blacklist
      PROVE  ValBlack(val'[v], blacklist')
  BY <1>d, PlannedFields, HarmlessOrdered DEF ValBlack
\* The next write of the plan.
<1>e. ASSUME ValAt(v, "writes"), Done(v), UNCHANGED blacklist  PROVE ValBlack(val'[v], blacklist')
  BY <1>a, <1>e, DoneFields, TailOrdered DEF ValBlack
<1>1. CASE Pop(v)
  <2>1. val'[v].at = "checkout"
    <3>1. PICK q \in QueueNames :
            val' = [val EXCEPT ![v] = LET p == Head(queues[q]) IN
              [IdleValidator EXCEPT !.at = "checkout", !.job = p.job, !.ch = p.channel,
                                    !.src = p.source, !.mark = p.mark]]
      BY <1>1 DEF Pop
    <3> QED  BY <1>a, <3>1 DEF IdleValidator
  <2> QED  BY <1>b, <2>1
<1>2. CASE Checkout(v)
  <2>1. CASE val[v].ch \in setup.malformed
    BY <1>2, <1>c, <2>1, PlanTypes, PlansOrdered DEF Checkout
  <2>2. CASE val[v].ch \notin setup.malformed
    <3>1. val'[v].at \in {"lookup", "gate"}  BY <1>2, <1>a, <2>2 DEF Checkout, ValidatorState
    <3> QED  BY <1>b, <3>1
  <2> QED  BY <2>1, <2>2
<1>3. CASE LookupMark(v) \/ CacheMark(v)
  <2>1. val'[v].at \in {"cache", "gate"}
    <3>1. CASE LookupMark(v)
      <4> DEFINE c == val[v].ch
                 m == IF cache[c]["name"] # NoMark THEN cache[c]["name"] ELSE leads[c].mark
                 w == IF cache[c]["name"] = NoMark /\ leads[c].status # "none" THEN "cache"
                                                                              ELSE "gate"
      <4>1. \/ val' = [val EXCEPT ![v].mark = m, ![v].at = w]
            \/ val' = [val EXCEPT ![v].at = "gate"]
        BY <3>1 DEF LookupMark
      <4>2. w \in {"cache", "gate"}  OBVIOUS
      <4> HIDE DEF m, w
      <4> QED  BY <1>a, <4>1, <4>2 DEF ValidatorState
    <3>2. CASE CacheMark(v)  BY <3>2, <1>a DEF CacheMark, ValidatorState
    <3> QED  BY <1>3, <3>1, <3>2
  <2> QED  BY <1>b, <2>1
<1>4. CASE Gate(v)
  <2>1. UNCHANGED blacklist  BY <1>4 DEF Gate
  <2>2. CASE Follow(v, Blacklisted) \/ Follow(v, BadSource) \/ Follow(v, InCoolDown)
    BY <1>c, <2>1, <2>2, PlanTypes, PlansOrdered
  <2>3. CASE val[v].ch \notin blacklist /\ val' = [val EXCEPT ![v].at = "inspect"]
    <3>1. val'[v].at = "inspect" /\ val'[v].ch = val[v].ch  BY <1>a, <2>3 DEF ValidatorState
    <3> QED  BY <2>1, <2>3, <3>1 DEF ValBlack
  <2> QED  BY <1>4, <2>2, <2>3 DEF Gate
<1>5. CASE GiveUp(v) \/ ValidatorCrash(v)
  <2>1. val' = [val EXCEPT ![v] = IdleValidator]  BY <1>5 DEF GiveUp, ValidatorCrash
  <2> QED  BY <1>b, <2>1, IdleFields
<1>6. ASSUME NEW plan \in Refused \cup FromWebPage \cup Failure, Dismiss(v, plan)
      PROVE  ValBlack(val'[v], blacklist')
  <2>1. /\ Follow(v, plan) /\ UNCHANGED blacklist /\ val[v].at = "inspect"
        /\ plan \in Seq(Writes) /\ (Harmless(plan) \/ Ordered(plan))
    BY <1>6, PlanTypes, PlansOrdered DEF Dismiss
  <2>2. val[v].ch \notin blacklist'  BY <2>1 DEF ValBlack
  <2> QED  BY <1>c, <2>1, <2>2
<1>7. CASE FetchNothing(v)
  <2> DEFINE ls == {}
  <2>1. PICK plan \in Judged(val[v].mark, val[v].mark, val[v].mark) :
          val' = [val EXCEPT ![v] = Planned(v, plan, val[v].mark, val[v].mark, ls)]
    BY <1>7 DEF FetchNothing
  <2>2. UNCHANGED blacklist /\ val[v].at = "inspect" /\ ls \in SUBSET Channels
    BY <1>7 DEF FetchNothing
  <2>3. plan \in Seq(Writes) /\ Ordered(plan) /\ val[v].ch \notin blacklist'
    BY <2>2, JudgedType, PlansOrdered DEF ValBlack
  <2> HIDE DEF ls
  <2> QED  BY <1>a, <1>d, <2>1, <2>2, <2>3
<1>8. ASSUME NEW budget \in Budgets, Fetch(v, budget)  PROVE ValBlack(val'[v], blacklist')
  <2> DEFINE c == val[v].ch
             top == Higher(posts[c], val[v].mark)
             low == Higher(top - budget, val[v].mark)
             ls == setup.links[c]
  <2>1. PICK plan \in Judged(val[v].mark, low, top) :
          val' = [val EXCEPT ![v] = Planned(v, plan, low, top, ls)]
    BY <1>8 DEF Fetch
  <2>2. UNCHANGED blacklist /\ val[v].at = "inspect" /\ c \in Channels
    BY <1>8, ValFacts DEF Fetch
  <2>3. plan \in Seq(Writes) /\ Ordered(plan) /\ val[v].ch \notin blacklist'
    <3> HIDE DEF low, top, ls
    <3> QED  BY <2>2, JudgedType, PlansOrdered DEF ValBlack
  <2>4. low \in Mark /\ top \in Mark
    <3>1. posts[c] \in Mark /\ budget \in Nat  BY <1>a, <2>2, StoreAssumption DEF StoreTypeOK
    <3> QED  BY <1>a, <3>1, Constants DEF Mark, Higher
  <2>5. ls \in SUBSET Channels  BY <1>a, <2>2, SettingType DEF StoreTypeOK
  <2>6. UNCHANGED blacklist  BY <2>2
  <2> HIDE DEF c, low, top, ls
  <2> QED  BY <1>d, <2>1, <2>3, <2>4, <2>5, <2>6
<1>9. CASE Blacklist(v)
  <2>1. ValAt(v, "writes") /\ Head(val[v].plan) = "blacklist" /\ Done(v)
    BY <1>9 DEF Blacklist, Now
  <2>2. Ordered(Tail(val[v].plan)) /\ Harmless(Tail(val[v].plan))
    BY <1>a, <2>1, TailOrdered DEF ValBlack
  <2> QED  BY <2>1, <2>2, DoneFields DEF ValBlack
<1>10. CASE Upsert(v) \/ Stub(v) \/ Extracted(v) \/ Shun(v)
  <2>1. ValAt(v, "writes") /\ Done(v) /\ UNCHANGED blacklist
    BY <1>10 DEF Upsert, Stub, Extracted, Shun, Now
  <2> QED  BY <1>e, <2>1
<1>11. CASE Save(v) \/ AdvanceMark(v) \/ CacheAdvanced(v) \/ CoolOff(v) \/ Log(v)
  <2>1. ValAt(v, "writes") /\ Done(v) /\ UNCHANGED blacklist
    BY <1>11 DEF Save, AdvanceMark, CacheAdvanced, CacheSet, CoolOff, Log, Now
  <2> QED  BY <1>e, <2>1
<1>12. CASE CloseJob(v)
  <2>1. ValAt(v, "writes") /\ UNCHANGED blacklist  BY <1>12 DEF CloseJob, Now
  <2>2. CASE Done(v)  BY <1>e, <2>1, <2>2
  <2>3. CASE Follow(v, AfterReport(val[v].plan))
    <3>1. AfterReport(val[v].plan) \in Seq(Writes)  BY <1>a, <2>1, AfterReportType
    <3>2. /\ Harmless(AfterReport(val[v].plan)) \/ Ordered(AfterReport(val[v].plan))
          /\ val[v].ch \in blacklist => Harmless(AfterReport(val[v].plan))
      <4>1. AfterReport(val[v].plan) \in {Tail(val[v].plan), <<"log">>, <<>>}
        BY DEF AfterReport
      <4>2. Harmless(<<"log">>) /\ Harmless(<<>>)  BY PlansOrdered DEF InCoolDown
      <4>3. Ordered(val[v].plan) /\ (val[v].ch \in blacklist => Harmless(val[v].plan))
        BY <2>1 DEF ValBlack
      <4>4. /\ Ordered(Tail(val[v].plan))
            /\ val[v].ch \in blacklist => Harmless(Tail(val[v].plan))
        BY <1>a, <2>1, <4>3, TailOrdered
      <4> QED  BY <4>1, <4>2, <4>4
    <3> QED  BY <1>c, <2>1, <2>3, <3>1, <3>2
  <2> QED  BY <1>12, <2>2, <2>3 DEF CloseJob
<1>13. ASSUME NEW plan \in Failure, Raise(v, plan)  PROVE ValBlack(val'[v], blacklist')
  <2> DEFINE ls == {}
             z == 0
  <2>1. /\ val' = [val EXCEPT ![v] = Planned(v, plan, z, z, ls)] /\ UNCHANGED blacklist
        /\ plan \in Seq(Writes) /\ Harmless(plan) /\ ls \in SUBSET Channels /\ z \in Mark
    BY <1>13, PlanTypes, PlansOrdered, Constants DEF Raise, Mark
  <2> HIDE DEF ls, z
  <2> QED  BY <1>d, <2>1
<1>14. ASSUME NEW c \in Channels, NEW way \in {"scan", "forward"}, Extract(v, c, way)
       PROVE  ValBlack(val'[v], blacklist')
  <2>1. val' = [val EXCEPT ![v].links = @ \ {c}] /\ UNCHANGED blacklist
    BY <1>14 DEF Extract
  <2>2. val'[v].at = val[v].at /\ val'[v].ch = val[v].ch /\ val'[v].plan = val[v].plan
    BY <1>a, <2>1 DEF ValidatorState
  <2> QED  BY <2>1, <2>2 DEF ValBlack
<1>15. CASE WebPageFails(v) \/ (HandStep(v) /\ UNCHANGED val)
  <2>1. UNCHANGED <<val, blacklist>>
    BY <1>15 DEF WebPageFails, HandStep, CheckSeen, ClaimSeen, CountFirst, Tally, Reserve,
                 PushLink, StubLink
  <2> QED  BY <2>1 DEF ValBlack
<1>16. CASE \/ \E plan \in Refused \cup FromWebPage \cup Failure : Dismiss(v, plan)
            \/ \E budget \in Budgets : Fetch(v, budget)
            \/ \E c \in Channels, way \in {"scan", "forward"} : Extract(v, c, way)
            \/ \E plan \in Failure : Raise(v, plan)
  BY <1>6, <1>8, <1>13, <1>14, <1>16
<1>17. CASE SaveFails(v)
  <2>1. val' = [val EXCEPT ![v].plan = Unsaved] /\ UNCHANGED blacklist
    BY <1>17 DEF SaveFails
  <2>2. val'[v].at = val[v].at /\ val'[v].ch = val[v].ch /\ val'[v].plan = Unsaved
    BY <1>a, <2>1 DEF ValidatorState
  <2>3. Unsaved \in Seq(Writes) /\ Harmless(Unsaved)  BY PlanTypes, PlansOrdered
  <2>4. Ordered(Unsaved)  BY <2>3, HarmlessOrdered
  <2> QED  BY <2>1, <2>2, <2>3, <2>4 DEF ValBlack
<1> QED  BY <1>1, <1>2, <1>3, <1>4, <1>5, <1>7, <1>9, <1>10, <1>11, <1>12, <1>15, <1>16,
            <1>17 DEF ValidatorStep

LEMMA BlackStep == TypeInv /\ BlackInv /\ [Next]_vars => BlackInv'
<1> SUFFICES ASSUME TypeInv, BlackInv, [Next]_vars, OneValidator'
             PROVE  \A v \in Validators \cap setup.run : ValBlack(val'[v], blacklist')
  BY SetupStays DEF BlackInv
<1>1. OneValidator /\ \A v \in Validators \cap setup.run : ValBlack(val[v], blacklist)
  BY SetupStays DEF OneValidator, BlackInv
<1>2. ASSUME NEW v \in Validators \cap setup.run, Validating(v)
      PROVE  \A w \in Validators \cap setup.run : ValBlack(val'[w], blacklist')
  <2>1. ValBlack(val'[v], blacklist')  BY <1>1, <1>2, ValBlackStep DEF Validating
  <2> QED  BY <1>1, <2>1 DEF OneValidator
<1>3. CASE UNCHANGED <<val, blacklist>>  BY <1>1, <1>3
<1> QED  BY <1>2, <1>3, BlacklistLocal DEF vars, store, database

\* With one validator running, a blacklisted channel that was rejected stays rejected
\* (validator.py): the blacklist is asked only once, many writes before the last.
THEOREM BlacklistIsHonoured == Spec => BlacklistHonoured
<1> DEFINE Stays == OneValidator =>
       \A c \in blacklist : leads[c].status = "rejected" => leads'[c].status = "rejected"
<1>1. TypeInv /\ BlackInv /\ [Next]_vars => Stays
  <2> SUFFICES ASSUME TypeInv, BlackInv, [Next]_vars, OneValidator
               PROVE  \A c \in blacklist : leads[c].status = "rejected" => leads'[c].status = "rejected"
    OBVIOUS
  <2>a. blacklist \subseteq Channels  BY DEF TypeInv, TypeOK, StoreTypeOK
  <2>b. CASE LeadsKept  BY <2>a, <2>b DEF LeadsKept
  <2>1. ASSUME NEW s \in Schedulers, Scheduling(s)
        PROVE  \A c \in blacklist : leads[c].status = "rejected" => leads'[c].status = "rejected"
    BY <2>a, <2>1, SchedulerLeads DEF Scheduling
  <2>2. ASSUME NEW v \in Validators \cap setup.run, Validating(v)
        PROVE  \A c \in blacklist : leads[c].status = "rejected" => leads'[c].status = "rejected"
    <3>1. CASE Upsert(v) \/ Save(v)
      <4>1. /\ ValAt(v, "writes") /\ val[v].ch \in Channels /\ leads \in [Channels -> LeadRow]
            /\ val[v].plan \in Seq(Writes) /\ val[v].plan # <<>>
        BY <3>1, ValFacts DEF Upsert, Save, Now, ValAt, StoreTypeOK
      <4>2. ValBlack(val[v], blacklist)  BY DEF BlackInv
      <4>3. val[v].ch \in blacklist => Head(val[v].plan) \notin Accepting
        BY <4>1, <4>2, TailOrdered DEF ValBlack, ValAt
      <4>4. CASE val[v].ch \notin blacklist
        <5>1. \A c \in Channels \ {val[v].ch} : leads'[c] = leads[c]
          BY <3>1, <4>1 DEF Upsert, Save
        <5> QED  BY <2>a, <4>4, <5>1
      <4>5. CASE val[v].ch \in blacklist
        <5>1. Upsert(v) /\ Head(val[v].plan) # "accept"
          BY <3>1, <4>3, <4>5 DEF Upsert, Save, Now, Accepting
        <5>2. leads' = [leads EXCEPT ![val[v].ch] = Upserted(@, "rejected")]
          BY <5>1 DEF Upsert
        <5>3. Upserted(leads[val[v].ch], "rejected").status = "rejected"
          BY <4>1 DEF Upserted, LeadRow
        <5> QED  BY <2>a, <4>1, <5>2, <5>3
      <4> QED  BY <4>4, <4>5
    <3>2. CASE ~Upsert(v) /\ ~Save(v)  BY <2>2, <2>b, <3>2, ValidatorLeads DEF Validating
    <3> QED  BY <3>1, <3>2
  <2>3. CASE \/ \E p \in Producers : Discovering(p)
             \/ Seeding \/ Elapsing
    BY <2>3, <2>b, OtherLeads DEF Discovering, Seeding, Elapsing
  <2>4. CASE UNCHANGED vars  BY <2>4 DEF vars, store, database
  <2> QED  BY <2>1, <2>2, <2>3, <2>4 DEF Next
<1>2. Init => BlackInv
  BY DEF Init, ValidationInit, BlackInv, ValBlack, IdleValidator
<1>3. TypeInv /\ BlackInv /\ [Next]_vars => [Stays]_vars  BY <1>1
<1>4. BlacklistHonoured <=> [][Stays]_vars  BY DEF BlacklistHonoured, OneValidator
<1> HIDE DEF Stays
<1> QED  BY <1>2, <1>3, <1>4, TypesHold, BlackStep, PTL DEF Spec

-----------------------------------------------------------------------------
(* Where a known link is.  Who marked a link as known holds it until it is   *)
(* pushed, so the routes are what matters: nobody lets go of a link between  *)
(* its claim and its push, and whoever turns away from a link that is in     *)
(* seen_channels leaves it to somebody who has passed the claim himself.     *)

Claims == {"claim", "count", "tally", "reserve"}

\* The claims that a service with h in its hands has made, and not yet redeemed.
Held(h, claims) ==
  /\ h.way # None
  /\ \E i \in 1..(h.step - 1) : Route[h.way][i] \in claims
  /\ \A i \in 1..(h.step - 1) : Route[h.way][i] # "push"

HeldBy(c, claims) == \E p \in Processes : hand[p].ch = c /\ Held(hand[p], claims)

InQueue(c) == \E q \in QueueNames : \E i \in 1..Len(queues[q]) : queues[q][i].channel = c

Placed(c) == c \in handled \cup dropped \/ InQueue(c) \/ \E v \in Validators : val[v].ch = c

LinkInv ==
  /\ \A v \in Validators : val[v].at = "idle" => val[v].ch = None
  /\ \A c \in seen : Placed(c) \/ HeldBy(c, {"claim"})
  /\ \A c \in counted \cup spidered : Placed(c) \/ HeldBy(c, Claims)

\* What is common to the routes: a claim comes before the push and is never the end;
\* nobody asks after a claim of seen_channels, or makes a claim that may be refused
\* after another; a route that ends with a stub has the push behind it.
RouteOK(r) ==
  \A i \in 1..Len(r) :
    /\ r[i] \in Claims => i # Len(r) /\ \A k \in 1..(i - 1) : r[k] # "push"
    /\ r[i] = "check" => i # Len(r) /\ \A k \in 1..(i - 1) : r[k] \notin {"claim", "push"}
    /\ r[i] \in {"count", "reserve"} => \A k \in 1..(i - 1) : r[k] \notin Claims
    /\ r[i] = "stub" /\ i = Len(r) => \E k \in 1..(i - 1) : r[k] = "push"

LEMMA RoutesOK ==
  ASSUME NEW way \in Ways
  PROVE  /\ RouteOK(Route[way])
         /\ way \in {"radar", "scan"} => /\ \E k \in 1..(Len(Route[way]) - 1) : Route[way][k] = "push"
                                         /\ \A i \in 2..Len(Route[way]) : Route[way][i] # "check"
<1> USE DEF RouteOK, Claims
<1>1. CASE way = "radar"
  <2>1. Route[way] = RadarRoute  BY <1>1 DEF Route, Ways
  <2>2. /\ Len(RadarRoute) = 4 /\ RadarRoute[1] = "check" /\ RadarRoute[2] = "claim"
        /\ RadarRoute[3] = "push" /\ RadarRoute[4] = "stub"
    BY DEF RadarRoute
  <2> QED  BY <2>1, <2>2
<1>2. CASE way = "scan"
  <2>1. Route[way] = ScanRoute  BY <1>2 DEF Route, Ways
  <2>2. /\ Len(ScanRoute) = 5 /\ ScanRoute[1] = "check" /\ ScanRoute[2] = "claim"
        /\ ScanRoute[3] = "tally" /\ ScanRoute[4] = "push" /\ ScanRoute[5] = "stub"
    BY DEF ScanRoute
  <2> QED  BY <2>1, <2>2
<1>3. CASE way = "forward"
  <2>1. Route[way] = ForwardRoute  BY <1>3 DEF Route, Ways
  <2>2. /\ Len(ForwardRoute) = 5 /\ ForwardRoute[1] = "stub" /\ ForwardRoute[2] = "tally"
        /\ ForwardRoute[3] = "check" /\ ForwardRoute[4] = "claim" /\ ForwardRoute[5] = "push"
    BY DEF ForwardRoute
  <2> QED  BY <1>3, <2>1, <2>2
<1>4. CASE way = "graph"
  <2>1. Route[way] = GraphRoute  BY <1>4 DEF Route, Ways
  <2>2. /\ Len(GraphRoute) = 5 /\ GraphRoute[1] = "stub" /\ GraphRoute[2] = "count"
        /\ GraphRoute[3] = "check" /\ GraphRoute[4] = "claim" /\ GraphRoute[5] = "push"
    BY DEF GraphRoute
  <2> QED  BY <1>4, <2>1, <2>2
<1>5. CASE way = "recommendation"
  <2>1. Route[way] = RecommendationRoute  BY <1>5 DEF Route, Ways
  <2>2. /\ Len(RecommendationRoute) = 5 /\ RecommendationRoute[1] = "stub"
        /\ RecommendationRoute[2] = "check" /\ RecommendationRoute[3] = "tally"
        /\ RecommendationRoute[4] = "claim" /\ RecommendationRoute[5] = "push"
    BY DEF RecommendationRoute
  <2> QED  BY <1>5, <2>1, <2>2
<1>6. CASE way = "search"
  <2>1. Route[way] = SearchRoute  BY <1>6 DEF Route, Ways
  <2>2. Len(SearchRoute) = 2 /\ SearchRoute[1] = "count" /\ SearchRoute[2] = "push"
    BY DEF SearchRoute
  <2> QED  BY <1>6, <2>1, <2>2
<1>7. CASE way = "spider"
  <2>1. Route[way] = SpiderRoute  BY <1>7 DEF Route, Ways
  <2>2. /\ Len(SpiderRoute) = 3 /\ SpiderRoute[1] = "reserve" /\ SpiderRoute[2] = "tally"
        /\ SpiderRoute[3] = "push"
    BY DEF SpiderRoute
  <2> QED  BY <1>7, <2>1, <2>2
<1>8. CASE way = "join"
  <2>1. Route[way] = JoinRoute  BY <1>8 DEF Route, Ways
  <2>2. Len(JoinRoute) = 1 /\ JoinRoute[1] = "push"  BY DEF JoinRoute
  <2> QED  BY <1>8, <2>1, <2>2
<1> QED  BY <1>1, <1>2, <1>3, <1>4, <1>5, <1>6, <1>7, <1>8 DEF Ways

LEMMA ClaimedHeld ==
  ASSUME NEW p  PROVE Claimed(p) <=> Held(hand[p], Claims)
BY DEF Claimed, Held, Claims, Empty

LEMMA HeldMore ==
  /\ \A h : Held(h, {"claim"}) => Held(h, Claims)
  /\ \A c : HeldBy(c, {"claim"}) => HeldBy(c, Claims)
BY DEF Held, HeldBy, Claims

\* A link is queued, and so is what was queued before.
LEMMA QueueGrows ==
  ASSUME StoreTypeOK, NEW q \in QueueNames, NEW e \in Payload, PushLeft(q, e) \/ PushRight(q, e)
  PROVE  InQueue(e.channel)' /\ \A c : InQueue(c) => InQueue(c)'
<1>1. queues \in [QueueNames -> Seq(Payload)] /\ queues[q] \in Seq(Payload)  BY DEF StoreTypeOK
<1>2. /\ queues'[q] = <<e>> \o queues[q] \/ queues'[q] = Append(queues[q], e)
      /\ \A r \in QueueNames \ {q} : queues'[r] = queues[r]
  BY <1>1 DEF PushLeft, PushRight
<1>3. /\ \E i \in 1..Len(queues'[q]) : queues'[q][i] = e
      /\ \A i \in 1..Len(queues[q]) : \E k \in 1..Len(queues'[q]) : queues'[q][k] = queues[q][i]
  <2>1. CASE queues'[q] = <<e>> \o queues[q]
    <3>1. /\ Len(queues'[q]) = 1 + Len(queues[q]) /\ queues'[q][1] = e
          /\ \A i \in 1..Len(queues[q]) : queues'[q][i + 1] = queues[q][i]
      BY <1>1, <2>1
    <3>2. 1 \in 1..Len(queues'[q]) /\ \A i \in 1..Len(queues[q]) : i + 1 \in 1..Len(queues'[q])
      BY <1>1, <3>1
    <3> QED  BY <3>1, <3>2
  <2>2. CASE queues'[q] = Append(queues[q], e)
    <3>1. /\ Len(queues'[q]) = Len(queues[q]) + 1 /\ queues'[q][Len(queues[q]) + 1] = e
          /\ \A i \in 1..Len(queues[q]) : queues'[q][i] = queues[q][i]
      BY <1>1, <2>2
    <3>2. /\ Len(queues[q]) + 1 \in 1..Len(queues'[q])
          /\ \A i \in 1..Len(queues[q]) : i \in 1..Len(queues'[q])
      BY <1>1, <3>1
    <3> QED  BY <3>1, <3>2
  <2> QED  BY <1>2, <2>1, <2>2
<1>4. InQueue(e.channel)'  BY <1>3 DEF InQueue
<1>5. ASSUME NEW c, InQueue(c)  PROVE InQueue(c)'
  <2> PICK r \in QueueNames : \E i \in 1..Len(queues[r]) : queues[r][i].channel = c
    BY <1>5 DEF InQueue
  <2>1. PICK i \in 1..Len(queues[r]) : queues[r][i].channel = c  OBVIOUS
  <2>2. CASE r = q
    <3>1. \E k \in 1..Len(queues'[q]) : queues'[q][k] = queues[q][i]  BY <1>3, <2>2
    <3> QED  BY <2>1, <2>2, <3>1 DEF InQueue
  <2>3. CASE r # q
    <3>1. queues'[r] = queues[r]  BY <1>2, <2>3
    <3> QED  BY <2>1, <3>1 DEF InQueue
  <2> QED  BY <2>2, <2>3
<1> QED  BY <1>4, <1>5

LEMMA QueueShrinks ==
  ASSUME StoreTypeOK, NEW q \in QueueNames, queues[q] # <<>>,
         queues' = [queues EXCEPT ![q] = Tail(@)]
  PROVE  \A c : InQueue(c) => InQueue(c)' \/ c = Head(queues[q]).channel
<1>1. queues \in [QueueNames -> Seq(Payload)] /\ queues[q] \in Seq(Payload)  BY DEF StoreTypeOK
<1>2. /\ queues'[q] = Tail(queues[q]) /\ \A r \in QueueNames \ {q} : queues'[r] = queues[r]
  BY <1>1
<1>3. /\ Head(queues[q]) = queues[q][1] /\ Len(queues[q]) \in Nat
      /\ Len(queues'[q]) = Len(queues[q]) - 1
      /\ \A i \in 1..Len(queues'[q]) : queues'[q][i] = queues[q][i + 1]
  BY <1>1, <1>2, HeadTailProperties
<1>4. \A i \in 1..Len(queues[q]) : i = 1 \/ (i - 1 \in 1..Len(queues'[q]) /\ (i - 1) + 1 = i)
  BY <1>3
<1>5. \A i \in 1..Len(queues[q]) :
        i = 1 \/ \E k \in 1..Len(queues'[q]) : queues'[q][k] = queues[q][i]
  BY <1>3, <1>4
<1>6. ASSUME NEW c, InQueue(c)  PROVE InQueue(c)' \/ c = Head(queues[q]).channel
  <2> PICK r \in QueueNames : \E i \in 1..Len(queues[r]) : queues[r][i].channel = c
    BY <1>6 DEF InQueue
  <2>1. PICK i \in 1..Len(queues[r]) : queues[r][i].channel = c  OBVIOUS
  <2>2. CASE r = q
    <3>1. CASE i = 1  BY <1>3, <2>1, <2>2, <3>1
    <3>2. CASE \E k \in 1..Len(queues'[q]) : queues'[q][k] = queues[q][i]
      BY <2>1, <2>2, <3>2 DEF InQueue
    <3> QED  BY <1>5, <2>2, <3>1, <3>2
  <2>3. CASE r # q
    <3>1. queues'[r] = queues[r]  BY <1>2, <2>3
    <3> QED  BY <2>1, <3>1 DEF InQueue
  <2> QED  BY <2>2, <2>3
<1> QED  BY <1>6

\* A link that is placed stays placed: it is queued, and popped by somebody who has
\* it until he is done with it or loses it.
LEMMA PlacedStays ==
  ASSUME \A c : InQueue(c) => InQueue(c)' \/ \E v \in Validators : val'[v].ch = c,
         handled \subseteq handled', dropped \subseteq dropped',
         \A v \in Validators : \/ val'[v].ch = val[v].ch \/ val[v].ch = None
                               \/ val[v].ch \in handled' \cup dropped'
  PROVE  \A c \in Channels : Placed(c) => Placed(c)'
BY Constants DEF Placed

\* The hands of p hold on to the link, unless it is placed by now.
HandKept(p) == \/ \A claims \in {{"claim"}, Claims} :
                    Held(hand[p], claims) => hand'[p].ch = hand[p].ch /\ Held(hand'[p], claims)
               \/ \A c \in Channels : c = hand[p].ch => Placed(c)'

LEMMA HeldNow ==
  ASSUME NEW p \in Processes, NEW c, NEW claims, hand'[p].ch = c, Held(hand'[p], claims)
  PROVE  HeldBy(c, claims)'
BY DEF HeldBy, Held

\* What keeps the links accounted for.
LEMMA LinksKept ==
  ASSUME TypeInv, LinkInv,
         \A v \in Validators : val'[v].at = "idle" => val'[v].ch = None,
         \A c \in Channels : Placed(c) => Placed(c)',
         \A p \in Processes : HandKept(p),
         \A c \in seen' : c \in seen \/ (c \in Channels /\ (Placed(c)' \/ HeldBy(c, {"claim"})')),
         \A c \in counted' \cup spidered' :
           c \in counted \cup spidered \/ (c \in Channels /\ (Placed(c)' \/ HeldBy(c, Claims)'))
  PROVE  LinkInv'
<1>1. seen \subseteq Channels /\ counted \subseteq Channels /\ spidered \subseteq Channels
  BY DEF TypeInv, TypeOK, StoreTypeOK
<1>2. ASSUME NEW c \in Channels, NEW claims \in {{"claim"}, Claims}, HeldBy(c, claims)
      PROVE  Placed(c)' \/ HeldBy(c, claims)'
  <2>1. PICK p \in Processes : hand[p].ch = c /\ Held(hand[p], claims)  BY <1>2 DEF HeldBy
  <2>2. HandKept(p)  OBVIOUS
  <2>3. CASE hand'[p].ch = hand[p].ch /\ Held(hand'[p], claims)  BY <2>1, <2>3, HeldNow
  <2>4. CASE \A d \in Channels : d = hand[p].ch => Placed(d)'  BY <2>1, <2>4
  <2> QED  BY <2>1, <2>2, <2>3, <2>4 DEF HandKept
<1>3. \A c \in seen : Placed(c)' \/ HeldBy(c, {"claim"})'  BY <1>1, <1>2 DEF LinkInv
<1>4. \A c \in counted \cup spidered : Placed(c)' \/ HeldBy(c, Claims)'
  BY <1>1, <1>2 DEF LinkInv
<1> QED  BY <1>3, <1>4 DEF LinkInv

\* One stage on, a service holds what it held, and what it just claimed.
LEMMA HeldOn ==
  ASSUME NEW h, NEW g, g.way = h.way, h.step \in Nat \ {0}, g.step = h.step + 1,
         h.way # None, NEW claims, Route[h.way][h.step] # "push"
  PROVE  /\ Held(h, claims) => Held(g, claims)
         /\ /\ Route[h.way][h.step] \in claims
            /\ \A k \in 1..(h.step - 1) : Route[h.way][k] # "push"
            => Held(g, claims)
<1>1. g.step - 1 = h.step  OBVIOUS
<1>2. /\ h.step \in 1..h.step /\ \A k \in 1..(h.step - 1) : k \in 1..h.step
      /\ \A k \in 1..h.step : k = h.step \/ k \in 1..(h.step - 1)
  OBVIOUS
<1> QED  BY <1>1, <1>2 DEF Held

LEMMA StageFields ==
  ASSUME DiscoveryTypeOK, HandInv, NEW p \in Processes, ~Empty(p), NextStage(p),
         hand[p].step # Len(Route[hand[p].way])
  PROVE  /\ hand'[p].way = hand[p].way /\ hand'[p].ch = hand[p].ch
         /\ hand'[p].step = hand[p].step + 1
         /\ \A r \in Processes \ {p} : hand'[r] = hand[r]
BY DEF DiscoveryTypeOK, HandState, NextStage

\* A step with the link in hand.
LEMMA HandLinks ==
  ASSUME TypeInv, LinkInv, NEW p \in Processes, HandStep(p), UNCHANGED val
  PROVE  LinkInv'
<1> DEFINE h == hand[p]
           r == Route[h.way]
           i == h.step
<1> PICK c : c = h.ch  OBVIOUS
<1>a. ~Empty(p)
  BY DEF HandStep, CheckSeen, ClaimSeen, CountFirst, Tally, Reserve, PushLink, StubLink, Doing
<1>b. /\ StoreTypeOK /\ DiscoveryTypeOK /\ HandInv
      /\ h.way \in Ways /\ h.way # None /\ c \in Channels /\ i \in 1..Len(r)
      /\ h.src \in Channels \cup {None} /\ hand \in [Processes -> HandState]
  BY <1>a DEF TypeInv, TypeOK, HandInv, DiscoveryTypeOK, HandState, Empty
<1>c. RouteOK(r) /\ Len(r) \in 1..5  BY <1>b, RoutesOK, RouteLength
<1>d. i \in Nat \ {0}  BY <1>b, <1>c
<1> USE DEF database, redis, marks, observed, store
<1>e. UNCHANGED <<handled, dropped>>
  BY DEF HandStep, CheckSeen, ClaimSeen, CountFirst, Tally, Reserve, PushLink, StubLink
<1>f. \A t \in Processes \ {p} : hand'[t] = hand[t]
  BY <1>b DEF HandStep, CheckSeen, ClaimSeen, CountFirst, Tally, Reserve, PushLink, StubLink,
              NextStage, LetGo
<1>g. \A t \in Processes \ {p} : HandKept(t)  BY <1>f DEF HandKept, Held
<1>h. \A v \in Validators : val'[v].at = "idle" => val'[v].ch = None  BY DEF LinkInv
<1>i. ASSUME UNCHANGED queues  PROVE \A d \in Channels : Placed(d) => Placed(d)'
  BY <1>e, <1>i, PlacedStays DEF InQueue
\* To the next stage: what was held is held, and a claim is made.
<1>j. ASSUME NextStage(p), i # Len(r), r[i] # "push"
      PROVE  /\ HandKept(p)
             /\ \A claims \in {{"claim"}, Claims} :
                  r[i] \in claims => HeldBy(c, claims)'
  <2>1. hand'[p].way = h.way /\ hand'[p].ch = c /\ hand'[p].step = i + 1
    BY <1>a, <1>b, <1>j, StageFields
  <2>2. \A claims : Held(h, claims) => Held(hand'[p], claims)  BY <1>b, <1>d, <1>j, <2>1, HeldOn
  <2>3. ASSUME NEW claims \in {{"claim"}, Claims}, r[i] \in claims  PROVE HeldBy(c, claims)'
    <3>1. r[i] \in Claims  BY <2>3 DEF Claims
    <3>2. \A k \in 1..(i - 1) : r[k] # "push"  BY <1>b, <1>c, <3>1 DEF RouteOK
    <3>3. Held(hand'[p], claims)  BY <1>b, <1>d, <1>j, <2>1, <2>3, <3>2, HeldOn
    <3> QED  BY <2>1, <3>3, HeldNow
  <2> QED  BY <2>1, <2>2, <2>3 DEF HandKept
\* Nothing was held.
<1>k. ASSUME ~Held(h, Claims)  PROVE HandKept(p)  BY <1>k, HeldMore DEF HandKept
<1>1. CASE CheckSeen(p)
  <2>1. /\ r[i] = "check" /\ i # Len(r) /\ UNCHANGED <<queues, seen, counted, spidered>>
        /\ \A k \in 1..(i - 1) : r[k] # "claim"
    BY <1>1, <1>b, <1>c DEF CheckSeen, Doing, RouteOK
  <2>2. CASE c \notin seen
    <3>1. HandKept(p)  BY <1>1, <1>j, <2>1, <2>2 DEF CheckSeen
    <3> QED  BY <1>g, <1>h, <1>i, <2>1, <3>1, LinksKept
  <2>3. CASE c \in seen /\ h.way \in {"radar", "scan"}
    <3>1. i = 1  BY <1>b, <1>c, <2>1, <2>3, RoutesOK
    <3>2. ~Held(h, Claims)  BY <3>1 DEF Held
    <3>3. HandKept(p)  BY <1>k, <3>2
    <3> QED  BY <1>g, <1>h, <1>i, <2>1, <3>3, LinksKept
  <2>4. CASE c \in seen
    <3>1. ~Held(h, {"claim"})  BY <2>1 DEF Held
    <3>2. Placed(c)' \/ HeldBy(c, {"claim"})'
      <4>1. CASE Placed(c)  BY <1>b, <1>i, <2>1, <4>1
      <4>2. CASE HeldBy(c, {"claim"})
        <5>1. PICK t \in Processes : hand[t].ch = c /\ Held(hand[t], {"claim"})
          BY <4>2 DEF HeldBy
        <5>2. t # p  BY <3>1, <5>1
        <5>3. hand'[t] = hand[t]  BY <1>f, <5>2
        <5> QED  BY <5>1, <5>3, HeldNow
      <4> QED  BY <2>4, <4>1, <4>2 DEF LinkInv
    <3>3. CASE Placed(c)'
      <4>1. HandKept(p)  BY <3>3 DEF HandKept
      <4> QED  BY <1>g, <1>h, <1>i, <2>1, <4>1, LinksKept
    <3>4. CASE HeldBy(c, {"claim"})'
      <4>1. \A d \in seen : Placed(d)' \/ HeldBy(d, {"claim"})'
        <5> SUFFICES ASSUME NEW d \in seen, HeldBy(d, {"claim"})  PROVE HeldBy(d, {"claim"})'
          BY <1>i, <2>1, <1>b DEF LinkInv, StoreTypeOK
        <5>1. PICK t \in Processes : hand[t].ch = d /\ Held(hand[t], {"claim"})  BY DEF HeldBy
        <5>2. hand'[t] = hand[t]  BY <1>f, <3>1, <5>1
        <5> QED  BY <5>1, <5>2, HeldNow
      <4>2. \A d \in counted \cup spidered : Placed(d)' \/ HeldBy(d, Claims)'
        <5> SUFFICES ASSUME NEW d \in counted \cup spidered, HeldBy(d, Claims)
                     PROVE  HeldBy(d, Claims)'
          BY <1>i, <2>1, <1>b DEF LinkInv, StoreTypeOK
        <5>1. PICK t \in Processes : hand[t].ch = d /\ Held(hand[t], Claims)  BY DEF HeldBy
        <5>2. CASE t = p
          <6>1. HeldBy(c, Claims)'
            <7>1. PICK u \in Processes : hand'[u].ch = c /\ Held(hand'[u], {"claim"})
              BY <3>4 DEF HeldBy, Held
            <7> QED  BY <7>1, HeldMore, HeldNow
          <6> QED  BY <5>1, <5>2, <6>1
        <5>3. CASE t # p
          <6>1. hand'[t] = hand[t]  BY <1>f, <5>3
          <6> QED  BY <5>1, <6>1, HeldNow
        <5> QED  BY <5>2, <5>3
      <4> QED  BY <1>h, <2>1, <4>1, <4>2 DEF LinkInv
    <3> QED  BY <3>2, <3>3, <3>4
  <2> QED  BY <2>2, <2>4
<1>2. CASE ClaimSeen(p)
  <2>1. /\ r[i] = "claim" /\ NextStage(p) /\ seen' = seen \cup {c}
        /\ UNCHANGED <<queues, counted, spidered>>
    BY <1>2 DEF ClaimSeen, Doing
  <2>2. r[i] \in Claims /\ r[i] # "push" /\ i # Len(r)  BY <1>b, <1>c, <2>1 DEF Claims, RouteOK
  <2>3. HandKept(p) /\ HeldBy(c, {"claim"})'  BY <1>j, <2>1, <2>2
  <2> QED  BY <1>b, <1>g, <1>h, <1>i, <2>1, <2>3, LinksKept
<1>3. ASSUME CountFirst(p) \/ Reserve(p) \/ Tally(p)  PROVE LinkInv'
  <2>1. /\ r[i] \in {"count", "reserve", "tally"}
        /\ counted' \cup spidered' = counted \cup spidered \cup {c}
        /\ UNCHANGED <<queues, seen>>
    BY <1>3 DEF CountFirst, Reserve, Tally, Doing
  <2>2. r[i] \in Claims /\ r[i] # "push" /\ i # Len(r)  BY <1>b, <1>c, <2>1 DEF Claims, RouteOK
  <2>3. CASE NextStage(p)
    <3>1. HandKept(p) /\ HeldBy(c, Claims)'  BY <1>j, <2>2, <2>3
    <3> QED  BY <1>b, <1>g, <1>h, <1>i, <2>1, <3>1, LinksKept
  <2>4. CASE ~NextStage(p)
    <3>1. r[i] \in {"count", "reserve"} /\ c \in counted \cup spidered
      BY <1>3, <2>4 DEF CountFirst, Reserve, Tally, Doing
    <3>2. \A k \in 1..(i - 1) : r[k] \notin Claims  BY <1>b, <1>c, <3>1 DEF RouteOK
    <3>3. HandKept(p)  BY <1>k, <3>2 DEF Held
    <3> QED  BY <1>g, <1>h, <1>i, <2>1, <3>1, <3>3, LinksKept
  <2> QED  BY <2>3, <2>4
<1>4. ASSUME NEW q \in Tiers, PushLink(p, q)  PROVE LinkInv'
  <2> PICK e : e = LinkTo(h.ch, SourceOf(p))  OBVIOUS
  <2>1. e \in Payload /\ e.channel = c
    <3>1. 0 \in Mark  BY Constants DEF Mark
    <3> QED  BY <1>b, <3>1 DEF LinkTo, SourceOf, Payload
  <2>2. PushRight(q, e) /\ q \in QueueNames /\ UNCHANGED <<seen, counted, spidered>>
    BY <1>4, Constants DEF PushLink
  <2>3. InQueue(c)' /\ \A d : InQueue(d) => InQueue(d)'  BY <1>b, <2>1, <2>2, QueueGrows
  <2>4. \A d \in Channels : Placed(d) => Placed(d)'  BY <1>e, <2>3, PlacedStays
  <2>5. HandKept(p)  BY <2>1, <2>3 DEF HandKept, Placed
  <2> QED  BY <1>g, <1>h, <2>2, <2>4, <2>5, LinksKept
<1>5. CASE StubLink(p)
  <2>1. r[i] = "stub" /\ NextStage(p) /\ UNCHANGED <<queues, seen, counted, spidered>>
    BY <1>5 DEF StubLink, Doing
  <2>2. HandKept(p)
    <3>1. CASE i # Len(r)  BY <1>j, <2>1, <3>1
    <3>2. CASE i = Len(r)
      <4>1. \E k \in 1..(i - 1) : r[k] = "push"  BY <1>b, <1>c, <2>1, <3>2 DEF RouteOK
      <4>2. ~Held(h, Claims)  BY <4>1 DEF Held
      <4> QED  BY <1>k, <4>2
    <3> QED  BY <3>1, <3>2
  <2> QED  BY <1>g, <1>h, <1>i, <2>1, <2>2, LinksKept
<1> QED  BY <1>1, <1>2, <1>3, <1>4, <1>5 DEF HandStep

\* Whose hands were empty, held nothing that was claimed, or lost it on record.
LEMMA HandLost ==
  ASSUME NEW p \in Processes, Claimed(p) => hand[p].ch \in dropped'
  PROVE  HandKept(p)
<1>1. CASE Claimed(p)
  <2>1. \A c : c = hand[p].ch => Placed(c)'  BY <1>1 DEF Placed
  <2> QED  BY <2>1 DEF HandKept
<1>2. CASE ~Claimed(p)
  <2>1. ~Held(hand[p], Claims) /\ ~Held(hand[p], {"claim"})  BY <1>2, ClaimedHeld, HeldMore
  <2> QED  BY <2>1 DEF HandKept
<1> QED  BY <1>1, <1>2

\* Nothing is claimed, popped, let go or finished; keys may expire.
LEMMA LinksStay ==
  ASSUME TypeInv, LinkInv, UNCHANGED <<hand, val, seen, handled, dropped>>,
         counted' \subseteq counted, spidered' \subseteq spidered,
         \A c : InQueue(c) => InQueue(c)'
  PROVE  LinkInv'
<1>1. \A c \in Channels : Placed(c) => Placed(c)'  BY PlacedStays
<1>2. \A p \in Processes : HandKept(p)  BY DEF HandKept, Held
<1>3. \A v \in Validators : val'[v].at = "idle" => val'[v].ch = None  BY DEF LinkInv
<1> QED  BY <1>1, <1>2, <1>3, LinksKept

LEMMA DiscoveryLinks ==
  ASSUME TypeInv, LinkInv, NEW p \in Processes, DiscoveryStep(p), UNCHANGED val
  PROVE  LinkInv'
<1>a. hand \in [Processes -> HandState]  BY DEF TypeInv, TypeOK, DiscoveryTypeOK
<1>b. \A v \in Validators : val'[v].at = "idle" => val'[v].ch = None  BY DEF LinkInv
<1> USE DEF database, redis, marks, observed, store
<1>1. CASE HandStep(p)  BY <1>1, HandLinks
<1>2. CASE ~HandStep(p)
  <2>1. /\ UNCHANGED <<queues, seen, counted, spidered, handled>> /\ dropped \subseteq dropped'
        /\ Claimed(p) => hand[p].ch \in dropped'
        /\ \A t \in Processes \ {p} : hand'[t] = hand[t]
    BY <1>2, <1>a DEF DiscoveryStep, FindLink, LoseLink, LetGo, Claimed
  <2>2. \A t \in Processes : HandKept(t)
    <3>1. \A t \in Processes \ {p} : HandKept(t)  BY <2>1 DEF HandKept, Held
    <3> QED  BY <2>1, <3>1, HandLost
  <2>3. \A c \in Channels : Placed(c) => Placed(c)'  BY <2>1, PlacedStays DEF InQueue
  <2> QED  BY <1>b, <2>1, <2>2, <2>3, LinksKept
<1> QED  BY <1>1, <1>2

LEMMA SeedLinks ==
  ASSUME TypeInv, LinkInv, SeedStep, UNCHANGED val
  PROVE  LinkInv'
<1> USE DEF database, redis, marks, observed, store
<1>1. CASE SeedFault
  <2>1. UNCHANGED <<hand, seen, counted, spidered, queues, handled, dropped>>
    BY <1>1 DEF SeedFault
  <2> QED  BY <2>1, LinksStay DEF InQueue
<1>2. ASSUME NEW c \in Channels, NEW q \in Tiers, EnqueueSeed(c, q)  PROVE LinkInv'
  <2>1. /\ UNCHANGED <<hand, counted, spidered, handled, dropped>> /\ seen' = seen \cup {c}
        /\ IF c \in seen THEN UNCHANGED queues ELSE PushRight(q, LinkTo(c, None))
    BY <1>2 DEF EnqueueSeed
  <2>2. CASE c \in seen
    <3>1. seen' = seen /\ UNCHANGED queues  BY <2>1, <2>2
    <3> QED  BY <2>1, <3>1, LinksStay DEF InQueue
  <2>3. CASE c \notin seen
    <3> PICK e : e = LinkTo(c, None)  OBVIOUS
    <3>1. e \in Payload /\ e.channel = c
      <4>1. 0 \in Mark  BY Constants DEF Mark
      <4> QED  BY <4>1 DEF LinkTo, Payload
    <3>2. InQueue(c)' /\ \A d : InQueue(d) => InQueue(d)'
      <4>1. StoreTypeOK /\ q \in QueueNames /\ PushRight(q, e)
        BY <2>1, <2>3, Constants DEF TypeInv, TypeOK
      <4> QED  BY <3>1, <4>1, QueueGrows
    <3>3. \A d \in Channels : Placed(d) => Placed(d)'  BY <2>1, <3>2, PlacedStays
    <3>4. \A p \in Processes : HandKept(p)  BY <2>1 DEF HandKept, Held
    <3>5. \A v \in Validators : val'[v].at = "idle" => val'[v].ch = None  BY DEF LinkInv
    <3>6. Placed(c)'  BY <3>2 DEF Placed
    <3> QED  BY <2>1, <3>3, <3>4, <3>5, <3>6, LinksKept
  <2> QED  BY <2>2, <2>3
<1> QED  BY <1>1, <1>2 DEF SeedStep

\* The schedulers only add to the queues.
LEMMA SchedulerLinks ==
  ASSUME TypeInv, LinkInv, NEW s \in Schedulers, SchedulerStep(s, Fresh),
         UNCHANGED <<discovery, val>>
  PROVE  LinkInv'
<1>a. /\ StoreTypeOK /\ SchedulerOK(sched[s], jobs) /\ JobInv
      /\ sched[s] \in SchedulerState /\ jobs \in [Jobs -> JobRow]
  BY DEF TypeInv, TypeOK, StoreTypeOK, SchedulerTypeOK, SchedInv
<1> USE DEF database, redis, marks, observed, store, discovery
<1>b. UNCHANGED <<hand, seen, counted, spidered, handled, dropped>>
  <2>1. CASE AcquireLeaderLock(s) \/ ReleaseLeaderLock(s) \/ SchedulerCrash(s)
    BY <2>1 DEF AcquireLeaderLock, ReleaseLeaderLock, SchedulerCrash
  <2>2. CASE SelectStuckJobs(s) \/ RepushJob(s) \/ RepushFails(s)
    BY <2>2 DEF SelectStuckJobs, RepushJob, RepushFails
  <2>3. CASE RequeueJob(s) \/ ReadvanceLead(s) \/ FailStaleJobs(s) \/ CheckPressure(s)
    BY <2>3 DEF RequeueJob, ReadvanceLead, FailStaleJobs, CheckPressure
  <2>4. CASE SelectDueChannels(s, Fresh) \/ ScheduleChannel(s) \/ FillCache(s)
    BY <2>4 DEF SelectDueChannels, ScheduleChannel, FillCache
  <2>5. CASE \E q \in Tiers : InsertJob(s, q, Fresh) \/ PushJob(s, q)
    BY <2>5 DEF InsertJob, PushJob
  <2>6. CASE PushFails(s) \/ MarkQueued(s) \/ AdvanceLead(s) \/ MarkEnqueueFailed(s)
    BY <2>6 DEF PushFails, MarkQueued, AdvanceLead, MarkEnqueueFailed
  <2> QED  BY <2>1, <2>2, <2>3, <2>4, <2>5, <2>6 DEF SchedulerStep
<1>c. ASSUME NEW j \in Jobs, NEW c \in Channels, NEW m \in Mark, NEW q \in QueueNames,
             PushLeft(q, JobPayload(j, c, m))
      PROVE  \A d : InQueue(d) => InQueue(d)'
  <2>1. JobPayload(j, c, m) \in Payload  BY <1>a, PushType
  <2> QED  BY <1>a, <1>c, <2>1, QueueGrows
<1>1. CASE RepushJob(s)
  <2> PICK j \in sched[s].stuck : PushLeft(jobs[j].queue, JobPayload(j, jobs[j].channel, jobs[j].mark))
    BY <1>1 DEF RepushJob
  <2>1. j \in Jobs /\ jobs[j].status # "none"  BY <1>a DEF SchedulerOK, SchedulerState
  <2>2. jobs[j].channel \in Channels /\ jobs[j].mark \in Mark /\ jobs[j].queue \in QueueNames
    BY <1>a, <2>1, JobRows DEF JobInv
  <2>3. PICK c \in Channels, m \in Mark, q \in QueueNames :
          c = jobs[j].channel /\ m = jobs[j].mark /\ q = jobs[j].queue
    BY <2>2
  <2>4. \A d : InQueue(d) => InQueue(d)'  BY <1>c, <2>1, <2>3
  <2> QED  BY <1>b, <2>4, LinksStay
<1>2. ASSUME NEW q \in Tiers, PushJob(s, q)  PROVE LinkInv'
  <2>1. PushLeft(q, JobPayload(sched[s].job, sched[s].channel, sched[s].mark)) /\ sched[s].at = "push"
    BY <1>2 DEF PushJob, At
  <2>2. /\ sched[s].job \in Jobs /\ sched[s].channel \in Channels /\ sched[s].mark \in Mark
        /\ q \in QueueNames
    BY <1>a, <2>1, Constants DEF SchedulerOK, SchedulerState
  <2>3. PICK j \in Jobs, c \in Channels, m \in Mark :
          j = sched[s].job /\ c = sched[s].channel /\ m = sched[s].mark
    BY <2>2
  <2>4. \A d : InQueue(d) => InQueue(d)'  BY <1>c, <2>1, <2>2, <2>3
  <2> QED  BY <1>b, <2>4, LinksStay
<1>3. CASE ~RepushJob(s) /\ \A q \in Tiers : ~PushJob(s, q)
  <2>1. UNCHANGED queues
    <3>1. CASE AcquireLeaderLock(s) \/ ReleaseLeaderLock(s) \/ SchedulerCrash(s)
      BY <3>1 DEF AcquireLeaderLock, ReleaseLeaderLock, SchedulerCrash
    <3>2. CASE SelectStuckJobs(s) \/ RepushFails(s) \/ RequeueJob(s) \/ ReadvanceLead(s)
      BY <3>2 DEF SelectStuckJobs, RepushFails, RequeueJob, ReadvanceLead
    <3>3. CASE FailStaleJobs(s) \/ CheckPressure(s)
      BY <3>3 DEF FailStaleJobs, CheckPressure
    <3>4. CASE SelectDueChannels(s, Fresh) \/ ScheduleChannel(s) \/ FillCache(s)
      BY <3>4 DEF SelectDueChannels, ScheduleChannel, FillCache
    <3>5. CASE \E q \in Tiers : InsertJob(s, q, Fresh)  BY <3>5 DEF InsertJob
    <3>6. CASE PushFails(s) \/ MarkQueued(s) \/ AdvanceLead(s) \/ MarkEnqueueFailed(s)
      BY <3>6 DEF PushFails, MarkQueued, AdvanceLead, MarkEnqueueFailed
    <3> QED  BY <1>3, <3>1, <3>2, <3>3, <3>4, <3>5, <3>6 DEF SchedulerStep
  <2> QED  BY <1>b, <2>1, LinksStay DEF InQueue
<1> QED  BY <1>1, <1>2, <1>3

\* A validator moves on, with the link that it popped.
LEMMA ValLinks ==
  ASSUME TypeInv, LinkInv, NEW v \in Validators,
         \A w \in Validators \ {v} : val'[w] = val[w],
         val'[v].at = "idle" => val'[v].ch = None,
         \/ val'[v].ch = val[v].ch \/ val[v].ch = None
         \/ val[v].ch \in handled' \cup dropped',
         handled \subseteq handled', dropped \subseteq dropped',
         UNCHANGED <<seen, counted, spidered>>,
         \A c : InQueue(c) => InQueue(c)' \/ c = val'[v].ch,
         \A p \in Processes \ {v} : hand'[p] = hand[p],
         hand'[v] = hand[v] \/ (Claimed(v) => hand[v].ch \in dropped')
  PROVE  LinkInv'
<1>1. \A w \in Validators : val'[w].at = "idle" => val'[w].ch = None  BY DEF LinkInv
<1>2. \A c \in Channels : Placed(c) => Placed(c)'  BY PlacedStays
<1>3. \A p \in Processes : HandKept(p)
  <2>1. ASSUME NEW p \in Processes, hand'[p] = hand[p]  PROVE HandKept(p)
    BY <2>1 DEF HandKept, Held
  <2> QED  BY <2>1, HandLost
<1> QED  BY <1>1, <1>2, <1>3, LinksKept

LEMMA ValidatorLinks ==
  ASSUME TypeInv, LinkInv, NEW v \in Validators, ValidatorStep(v)
  PROVE  LinkInv'
<1>a. /\ val \in [Validators -> ValidatorState] /\ val[v] \in ValidatorState
      /\ val[v].at = "writes" => val[v].plan # <<>>
      /\ val[v].at = "idle" => val[v].ch = None
      /\ val[v].plan \in Seq(Writes) /\ val[v].mark \in Mark
      /\ StoreTypeOK /\ v \in Processes /\ hand \in [Processes -> HandState]
  BY ValFacts DEF LinkInv, DiscoveryTypeOK
<1> USE DEF database, redis, marks, observed, store, discovery
\* The link is kept, or it was processed to the end.
<1>b. ASSUME \/ /\ val'[v].ch = None /\ handled' = handled \cup {val[v].ch}
             \/ /\ val'[v].at # "idle" /\ val'[v].ch = val[v].ch /\ UNCHANGED handled,
             \A w \in Validators \ {v} : val'[w] = val[w],
             UNCHANGED <<hand, queues, seen, counted, spidered, dropped>>
      PROVE  LinkInv'
  BY <1>b, ValLinks DEF InQueue
<1>c. ASSUME ValAt(v, "writes"), Done(v),
             UNCHANGED <<hand, queues, seen, counted, spidered, dropped>>
      PROVE  LinkInv'
  BY <1>b, <1>c, DoneFields
<1>d. ASSUME NEW plan \in Seq(Writes), Follow(v, plan),
             UNCHANGED <<hand, queues, seen, counted, spidered, dropped>>
      PROVE  LinkInv'
  BY <1>b, <1>d, FollowFields
<1>e. ASSUME NEW plan \in Seq(Writes), NEW l \in Mark, NEW t \in Mark, NEW ls \in SUBSET Channels,
             val' = [val EXCEPT ![v] = Planned(v, plan, l, t, ls)],
             UNCHANGED <<hand, queues, seen, counted, spidered, dropped, handled>>
      PROVE  LinkInv'
  BY <1>b, <1>e, PlannedFields
<1>1. CASE Pop(v)
  <2>1. PICK q \in QueueNames :
          /\ queues[q] # <<>> /\ queues' = [queues EXCEPT ![q] = Tail(@)]
          /\ val' = [val EXCEPT ![v] = LET p == Head(queues[q]) IN
               [IdleValidator EXCEPT !.at = "checkout", !.job = p.job, !.ch = p.channel,
                                     !.src = p.source, !.mark = p.mark]]
    BY <1>1 DEF Pop
  <2>2. /\ val'[v].at = "checkout" /\ val'[v].ch = Head(queues[q]).channel
        /\ \A w \in Validators \ {v} : val'[w] = val[w]
    BY <1>a, <2>1 DEF IdleValidator
  <2>3. \A c : InQueue(c) => InQueue(c)' \/ c = val'[v].ch  BY <1>a, <2>1, <2>2, QueueShrinks
  <2>4. UNCHANGED <<hand, seen, counted, spidered, handled, dropped>> /\ val[v].ch = None
    BY <1>1, <1>a DEF Pop, ValAt
  <2> QED  BY <2>2, <2>3, <2>4, ValLinks
<1>2. CASE Checkout(v)
  <2>1. UNCHANGED <<hand, queues, seen, counted, spidered, dropped>>  BY <1>2 DEF Checkout
  <2>2. CASE val[v].ch \in setup.malformed  BY <1>2, <1>d, <2>1, <2>2, PlanTypes DEF Checkout
  <2>3. CASE val[v].ch \notin setup.malformed
    <3>1. /\ val'[v].at \in {"lookup", "gate"} /\ val'[v].ch = val[v].ch
          /\ \A w \in Validators \ {v} : val'[w] = val[w]
          /\ UNCHANGED handled
      BY <1>2, <1>a, <2>3 DEF Checkout, ValidatorState
    <3> QED  BY <1>b, <2>1, <3>1
  <2> QED  BY <2>2, <2>3
<1>3. CASE LookupMark(v) \/ CacheMark(v)
  <2>1. UNCHANGED <<hand, queues, seen, counted, spidered, dropped, handled>>
    BY <1>3 DEF LookupMark, CacheMark
  <2>2. /\ val'[v].at # "idle" /\ val'[v].ch = val[v].ch
        /\ \A w \in Validators \ {v} : val'[w] = val[w]
    <3>1. CASE LookupMark(v)
      <4> DEFINE c == val[v].ch
                 m == IF cache[c]["name"] # NoMark THEN cache[c]["name"] ELSE leads[c].mark
                 w == IF cache[c]["name"] = NoMark /\ leads[c].status # "none" THEN "cache"
                                                                              ELSE "gate"
      <4>1. \/ val' = [val EXCEPT ![v].mark = m, ![v].at = w]
            \/ val' = [val EXCEPT ![v].at = "gate"]
        BY <3>1 DEF LookupMark
      <4>2. w \in {"cache", "gate"}  OBVIOUS
      <4> HIDE DEF m, w
      <4> QED  BY <1>a, <4>1, <4>2 DEF ValidatorState
    <3>2. CASE CacheMark(v)  BY <3>2, <1>a DEF CacheMark, ValidatorState
    <3> QED  BY <1>3, <3>1, <3>2
  <2> QED  BY <1>b, <2>1, <2>2
<1>4. CASE Gate(v)
  <2>1. UNCHANGED <<hand, queues, seen, counted, spidered, dropped>>  BY <1>4 DEF Gate
  <2>2. CASE Follow(v, Blacklisted) \/ Follow(v, BadSource) \/ Follow(v, InCoolDown)
    BY <1>d, <2>1, <2>2, PlanTypes
  <2>3. CASE val' = [val EXCEPT ![v].at = "inspect"] /\ UNCHANGED handled
    <3>1. /\ val'[v].at = "inspect" /\ val'[v].ch = val[v].ch
          /\ \A w \in Validators \ {v} : val'[w] = val[w]
      BY <1>a, <2>3 DEF ValidatorState
    <3> QED  BY <1>b, <2>1, <2>3, <3>1
  <2> QED  BY <1>4, <2>2, <2>3 DEF Gate
<1>5. CASE GiveUp(v)
  <2>1. /\ val' = [val EXCEPT ![v] = IdleValidator] /\ dropped' = dropped \cup {val[v].ch}
        /\ UNCHANGED <<hand, queues, seen, counted, spidered, handled>>
    BY <1>5 DEF GiveUp
  <2>2. val[v].ch \in dropped' /\ dropped \subseteq dropped'  BY <2>1
  <2>3. val'[v].ch = None /\ \A w \in Validators \ {v} : val'[w] = val[w]  BY <2>1, IdleFields
  <2>4. /\ \A c : InQueue(c) => InQueue(c)'
        /\ UNCHANGED <<hand, seen, counted, spidered, handled>>
    BY <2>1 DEF InQueue
  <2> QED  BY <2>2, <2>3, <2>4, ValLinks
<1>6. CASE ValidatorCrash(v)
  <2>1. /\ val' = [val EXCEPT ![v] = IdleValidator]
        /\ hand' = [hand EXCEPT ![v] = EmptyHand]
        /\ val[v].ch \in dropped' /\ dropped \subseteq dropped'
        /\ Claimed(v) => hand[v].ch \in dropped'
        /\ UNCHANGED <<queues, seen, counted, spidered, handled>>
    BY <1>6 DEF ValidatorCrash, LetGo
  <2>2. \A p \in Processes \ {v} : hand'[p] = hand[p]  BY <1>a, <2>1
  <2> QED  BY <2>1, <2>2, IdleFields, ValLinks DEF InQueue
<1>7. ASSUME NEW plan \in Failure, Raise(v, plan)  PROVE LinkInv'
  <2>1. /\ val' = [val EXCEPT ![v] = Planned(v, plan, 0, 0, {})]
        /\ hand' = [hand EXCEPT ![v] = EmptyHand]
        /\ dropped \subseteq dropped'
        /\ Claimed(v) => hand[v].ch \in dropped'
        /\ UNCHANGED <<queues, seen, counted, spidered, handled>>
    BY <1>7 DEF Raise, LetGo
  <2>2. \A p \in Processes \ {v} : hand'[p] = hand[p]  BY <1>a, <2>1
  <2>3. plan \in Seq(Writes) /\ {} \in SUBSET Channels /\ 0 \in Mark
    BY PlanTypes, Constants DEF Mark
  <2>4. /\ val'[v].at = "writes" /\ val'[v].ch = val[v].ch
        /\ \A w \in Validators \ {v} : val'[w] = val[w]
    BY <2>1, <2>3, PlannedFields
  <2> QED  BY <2>1, <2>2, <2>4, ValLinks DEF InQueue
<1>8. ASSUME NEW plan \in Refused \cup FromWebPage \cup Failure, Dismiss(v, plan)
      PROVE  LinkInv'
  <2>1. Follow(v, plan) /\ UNCHANGED <<hand, queues, seen, counted, spidered, dropped>>
    BY <1>8 DEF Dismiss
  <2> QED  BY <1>d, <2>1, PlanTypes
<1>9. CASE FetchNothing(v)
  <2> DEFINE ls == {}
  <2>1. PICK plan \in Judged(val[v].mark, val[v].mark, val[v].mark) :
          val' = [val EXCEPT ![v] = Planned(v, plan, val[v].mark, val[v].mark, ls)]
    BY <1>9 DEF FetchNothing
  <2>2. plan \in Seq(Writes) /\ ls \in SUBSET Channels  BY JudgedType
  <2>3. UNCHANGED <<hand, queues, seen, counted, spidered, dropped, handled>>
    BY <1>9 DEF FetchNothing
  <2> HIDE DEF ls
  <2> QED  BY <1>a, <1>e, <2>1, <2>2, <2>3
<1>10. ASSUME NEW budget \in Budgets, Fetch(v, budget)  PROVE LinkInv'
  <2> DEFINE c == val[v].ch
             top == Higher(posts[c], val[v].mark)
             low == Higher(top - budget, val[v].mark)
             ls == setup.links[c]
  <2>1. PICK plan \in Judged(val[v].mark, low, top) :
          val' = [val EXCEPT ![v] = Planned(v, plan, low, top, ls)]
    BY <1>10 DEF Fetch
  <2>2. /\ UNCHANGED <<hand, queues, seen, counted, spidered, dropped, handled>>
        /\ c \in Channels
    BY <1>10, ValFacts DEF Fetch, ValAt
  <2>3. plan \in Seq(Writes)
    <3> HIDE DEF low, top, ls
    <3> QED  BY JudgedType
  <2>4. low \in Mark /\ top \in Mark
    <3>1. posts[c] \in Mark /\ budget \in Nat  BY <1>a, <2>2, StoreAssumption DEF StoreTypeOK
    <3> QED  BY <1>a, <3>1, Constants DEF Mark, Higher
  <2>5. ls \in SUBSET Channels  BY <1>a, <2>2, SettingType DEF StoreTypeOK
  <2>6. UNCHANGED <<hand, queues, seen, counted, spidered, dropped, handled>>  BY <2>2
  <2> HIDE DEF c, low, top, ls
  <2> QED  BY <1>e, <2>1, <2>3, <2>4, <2>5, <2>6
<1>11. ASSUME NEW c \in Channels, NEW way \in {"scan", "forward"}, Extract(v, c, way)
       PROVE  LinkInv'
  <2>1. /\ Empty(v) /\ val[v].at = "writes" /\ val' = [val EXCEPT ![v].links = @ \ {c}]
        /\ hand' = [hand EXCEPT ![v] = HandOf(way, c, val[v].ch)]
        /\ UNCHANGED <<queues, seen, counted, spidered, handled, dropped>>
    BY <1>11 DEF Extract, Now, ValAt
  <2>2. /\ val'[v].at = val[v].at /\ val'[v].ch = val[v].ch
        /\ \A w \in Validators \ {v} : val'[w] = val[w]
    BY <1>a, <2>1 DEF ValidatorState
  <2>3. \A p \in Processes \ {v} : hand'[p] = hand[p]  BY <1>a, <2>1
  <2>4. ~Claimed(v)  BY <2>1 DEF Claimed
  <2> QED  BY <2>1, <2>2, <2>3, <2>4, ValLinks DEF InQueue
<1>12. CASE HandStep(v) /\ UNCHANGED val  BY <1>12, <1>a, HandLinks
<1>13. CASE WebPageFails(v)
  <2>1. UNCHANGED <<hand, val, queues, seen, counted, spidered, handled, dropped>>
    BY <1>13 DEF WebPageFails
  <2> QED  BY <2>1, LinksStay DEF InQueue
<1>14. CASE Blacklist(v) \/ Upsert(v) \/ Stub(v) \/ Extracted(v) \/ Shun(v) \/ Save(v)
  <2>1. /\ ValAt(v, "writes") /\ Done(v)
        /\ UNCHANGED <<hand, queues, seen, counted, spidered, dropped>>
    BY <1>14 DEF Blacklist, Upsert, Stub, Extracted, Shun, Save, Now
  <2> QED  BY <1>c, <2>1
<1>15. CASE AdvanceMark(v) \/ CacheAdvanced(v) \/ CoolOff(v) \/ Log(v)
  <2>1. /\ ValAt(v, "writes") /\ Done(v)
        /\ UNCHANGED <<hand, queues, seen, counted, spidered, dropped>>
    BY <1>15 DEF AdvanceMark, CacheAdvanced, CacheSet, CoolOff, Log, Now
  <2> QED  BY <1>c, <2>1
<1>16. CASE CloseJob(v)
  <2>1. ValAt(v, "writes") /\ UNCHANGED <<hand, queues, seen, counted, spidered, dropped>>
    BY <1>16 DEF CloseJob, Now
  <2>2. CASE Done(v)  BY <1>c, <2>1, <2>2
  <2>3. CASE Follow(v, AfterReport(val[v].plan))
    <3>1. AfterReport(val[v].plan) \in Seq(Writes)  BY <1>a, <2>1, AfterReportType DEF ValAt
    <3> QED  BY <1>d, <2>1, <2>3, <3>1
  <2> QED  BY <1>16, <2>2, <2>3 DEF CloseJob
<1>17. CASE SaveFails(v)
  <2>1. /\ val' = [val EXCEPT ![v].plan = Unsaved]
        /\ UNCHANGED <<hand, queues, seen, counted, spidered, handled, dropped>>
    BY <1>17 DEF SaveFails
  <2>2. /\ val'[v].at = val[v].at /\ val'[v].ch = val[v].ch
        /\ \A w \in Validators \ {v} : val'[w] = val[w]
    BY <1>a, <2>1 DEF ValidatorState
  <2>3. val'[v].at # "idle"  BY <1>17, <2>2 DEF SaveFails, Now, ValAt
  <2> QED  BY <2>1, <2>2, <2>3, ValLinks DEF InQueue
<1> QED  BY <1>1, <1>2, <1>3, <1>4, <1>5, <1>6, <1>7, <1>8, <1>9, <1>10, <1>11, <1>12, <1>13,
            <1>14, <1>15, <1>16, <1>17
         DEF ValidatorStep

LEMMA ElapsingLinks == TypeInv /\ LinkInv /\ Elapsing => LinkInv'
<1> SUFFICES ASSUME TypeInv, LinkInv, Elapsing PROVE LinkInv'  OBVIOUS
<1>1. /\ UNCHANGED <<hand, val, seen, handled, dropped, queues>>
      /\ counted' \subseteq counted /\ spidered' \subseteq spidered
  <2> USE DEF database, redis, marks, observed, store, discovery
  <2>1. CASE StoreNext /\ UNCHANGED <<sched, discovery, val>>
    BY <2>1 DEF StoreNext, Post, FallDue, AgeJob, RunOverdue, CacheExpires
  <2>2. CASE LeaderExpires /\ UNCHANGED <<discovery, val>>  BY <2>2 DEF LeaderExpires
  <2>3. ASSUME NEW c \in Channels, ReserveExpires(c) \/ CountExpires(c), UNCHANGED <<sched, val>>
        PROVE  /\ UNCHANGED <<hand, val, seen, handled, dropped, queues>>
               /\ counted' \subseteq counted /\ spidered' \subseteq spidered
    BY <2>3 DEF ReserveExpires, CountExpires
  <2> QED  BY <2>1, <2>2, <2>3 DEF Elapsing
<1> QED  BY <1>1, LinksStay DEF InQueue

LEMMA LinkStep == TypeInv /\ LinkInv /\ [Next]_vars => LinkInv'
<1> SUFFICES ASSUME TypeInv, LinkInv, [Next]_vars PROVE LinkInv'  OBVIOUS
<1>1. ASSUME NEW s \in Schedulers, Scheduling(s)  PROVE LinkInv'
  BY <1>1, SchedulerLinks DEF Scheduling
<1>2. ASSUME NEW p \in Producers, Discovering(p)  PROVE LinkInv'
  BY <1>2, DiscoveryLinks, Constants DEF Discovering
<1>3. CASE Seeding  BY <1>3, SeedLinks DEF Seeding
<1>4. ASSUME NEW v \in Validators, Validating(v)  PROVE LinkInv'
  BY <1>4, ValidatorLinks DEF Validating
<1>5. CASE UNCHANGED vars
  <2>1. UNCHANGED <<hand, val, seen, handled, dropped, queues, counted, spidered>>
    BY <1>5 DEF vars, store, redis, marks, observed
  <2> QED  BY <2>1, LinksStay DEF InQueue
<1> QED  BY <1>1, <1>2, <1>3, <1>4, <1>5, ElapsingLinks DEF Next

\* Every link that some service marked as known is on its way, done or lost on record
\* (seen_channels, provenance:count and spider:enqueued): no race of two services
\* leaves it to nobody.
THEOREM KnownLinksAccounted == Spec => []KnownLinkAccounted
<1>1. Init => LinkInv
  BY DEF Init, StoreInit, ValidationInit, IdleValidator, LinkInv
<1>2. LinkInv => KnownLinkAccounted
  <2> SUFFICES ASSUME LinkInv, NEW c \in seen \cup counted \cup spidered
               PROVE  Placed(c) \/ \E p \in Processes : hand[p].ch = c
    BY DEF Placed, InQueue, KnownLinkAccounted
  <2>1. Placed(c) \/ HeldBy(c, Claims)  BY HeldMore DEF LinkInv
  <2> QED  BY <2>1 DEF HeldBy
<1> QED  BY <1>1, <1>2, TypesHold, LinkStep, PTL DEF Spec
=============================================================================
