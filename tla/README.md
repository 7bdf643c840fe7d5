# Formal models of the Telegram lead engine

TLA+ modules, TLC configurations and TLAPS proofs about the program in this
repository: a set of Python services that discover Telegram channels, score them
as leads, and write to their owners. The services share one PostgreSQL database,
one Redis and a few Telegram accounts, and talk to each other through nothing
else; what can go wrong lies in the order in which they touch that shared state,
and in what they leave there when they stop half-way.

- [1. The system](#1-the-system)
- [2. The delivery model](#2-the-delivery-model)
- [3. The crawl model](#3-the-crawl-model)
- [4. The account model](#4-the-account-model)
- [5. Runs](#5-runs)
- [6. Proofs](#6-proofs)
- [7. Where the code and its documents part](#7-where-the-code-and-its-documents-part)
- [8. What is not modelled](#8-what-is-not-modelled)
- [9. What could come next](#9-what-could-come-next)

## 1. The system

| Component | State it keeps | Operations | Hard behaviour | What makes it correct |
|---|---|---|---|---|
| Campaign dispatchers: `validator.campaign_dispatcher_loop`, `campaign_worker.py` | `campaign_logs.status`, `sent_at`, `last_attempt_at`; Redis `campaign:delivered:*`, `campaign_sent_today:*`, `campaign_break_taken:*`, `health:user_session:dm_rate_limited_until` | claim, screen, pace, check duplicates, gate, send, record | crash between send and commit, a row lock lost under autocommit, lost replies, retries | no unexplained second message, limits kept, no row lost |
| Campaign queue and review: `campaign_repository.py`, `dashboard.py`, `rejection_learner.py`, the crawlers' auto-enrolment | rows of `campaign_logs`, `leads.status`, `leads.contact_username` | queue, approve, reject, re-score | all of it concurrent with the dispatchers | only approved rows are sent, a rejection holds |
| Switches and safety gate: `emergency.py`, `dry_run.py` | Redis `outreach:global:enabled`, `outreach:emergency_stop`, the stop file, environment | stop, resume, gate | a stop between the gate and the send | a stop bounds what is still sent |
| Request executor: `tg_manager.execute_request` | account state and limits in Redis | pick an account, retry, wait out floods | shutdown in the middle, transient errors | the result says whether the request was made |
| Session lock: `tg_manager.acquire_lock`, heartbeat, `release_lock` | `lock:session:*` with a TTL | acquire, renew, release, lose | a TTL that runs out under a living owner | one client per session file |
| Follow-up dispatcher (`validator.py` 4634-4832) | `followup_status` | claim, inspect the chat, send | a row left in processing; a reply after the inspection | one follow-up, none after a reply |
| Auto reply (`auto_reply.py`) | `autoreply_lock:*`, `autoreply_done:*`, `auto_reply_sent` | event handler, fallback loop | both act on one contact, with locks under different keys | one automatic reply |
| Account health, circuit breaker, throttle | `account_health`, `flood_wait_log`, `circuit:*`, `adaptive:*` | record, transition, query | a cache next to the table, counters with a TTL | a blocked account is not used |
| Crawl scheduler (`scheduler_worker.py`, `app/scheduler/`) | `next_crawl_at`, watermarks, leader lock | due, enqueue, complete, fail | lock without owner, cache and table updated apart | one leader, no watermark lost |
| Seed intake and link queues (`seed_intake_worker.py`, `queue:*`, `seen_channels`) | `seed_channels.processed`, the seen set, four lists | push once, pop, process | a pop that is lost with its process | each link processed |
| Memberships: `radar.slow_joiner_task`, `radar.leave_rejected_groups_loop`, `membership_governor.py` | `discovered_groups`, `rejected_groups_set`, `health:*:joins_today`, `hygiene:leaves_today:*`; Telegram's own lists of members | join, leave what is rejected, leave what has gone quiet | a request that another account carries out, a snapshot of dialogs used for minutes, counting after the fact | caps of a day, no own group left, a rejected group left in the end |
| Lead validation, discovery, graph, scoring, learning | `leads`, edges, keywords | compute over texts, upsert | few interleavings | (data quality) |
| Dashboard | none of its own | lists, statistics, the endpoints above | | |

The services started by `docker-compose.yml` are the validator, the crawlers, the
seed intake, the scheduler and the dashboard. `campaign_worker.py` is started by
hand, beside or instead of the validator's own dispatcher: the two work on the
same table and know nothing of each other. That is why the delivery is the core of
these models, and why every run of it says which dispatchers it deploys.

There are three models, one for each stretch of the way from a link to a conversation.
The crawl model ends where a lead is saved; the delivery model begins with leads and
their rows in `campaign_logs` and ends with the first message; the account model begins
with a first message that was sent and has what follows on the user account, together
with the accounts themselves. They meet only in table rows that one writes and the next
reads, which is why they are checked apart.

`PROJECT.json` lists the components with what is modelled of each, the hazards of
the code with their lines, and for each definition of the modules the lines it
stands for.

## 2. The delivery model

| Module | Content |
|---|---|
| `AbstractDelivery` | What the pipeline promises about a row: waiting, queued, then sent or closed for good; or withdrawn |
| `CampaignDelivery` | The rows, the people and crawlers that make them, the switches, time, and the two dispatchers |
| `MCCampaignDelivery` | Values of the constants for TLC |
| `CampaignDelivery_proofs`, `CampaignPromise_proofs` | Theorems about `CampaignDelivery` and that it implements `AbstractDelivery`, proved by TLAPS |

### State

| Variable | In the code |
|---|---|
| `deployed`, `mode` | which dispatchers run; their environment (`OUTREACH_DRY_RUN=true`, `CAMPAIGN_MODE=dry_run` or neither) |
| `dryKey` | `outreach:dry_run` in Redis as a read yields it: `on`, `off` (any other value), or `unset`, which also stands for a Redis that does not answer, since `is_dry_run` then falls back to the environment |
| `status`, `stamp`, `stamped` | `campaign_logs.status` (`pending` and `pending_review` are both `"review"`), the age of `last_attempt_at`, `sent_at IS NOT NULL` |
| `rejected`, `contact` | leads with `leads.status = 'rejected'`; `leads.contact_username` |
| `token`, `stopped`, `cooling`, `sentToday`, `breakTaken` | the Redis keys named in the module |
| `pc`, `held`, `target`, `tries`, `keyIsToday` | local variables of a dispatcher's iteration: the place, the row, the contact it read when it claimed, the send calls made, and whether the counter key it computed is still today's |
| `reached`, `unrecorded`, `replaced`, `dispatched`, `approvedBy`, `rejectSlack`, `stopSlack`, `drySlack` | not in the code: what an observer would note, for the properties |
| `crashes`, `lost`, `moves` | not in the code: the counters behind the bounds `MaxCrashes`, `MaxLost`, `MaxMoves` |

`reached[c]` counts the messages Telegram delivered to contact `c`, `unrecorded[c]`
those of them whose success the code could not record (the reply was lost, or the
process died first). `rejectSlack[l]`, `stopSlack[d]` and `drySlack[d]` hold the send
calls that may still be made when a rejection, a stop or the start of a dry run comes
too late for a row; a call that is not covered drives them below zero.

### Actions

One action is what one process does between two points at which another can act: a
commit, a Redis command, an await. The iteration of a dispatcher:

```
idle --SelectRow--> selected --MarkProcessing--> claimed --ScreenIn--> screened --Proceed--> paced   (validator)
idle --ClaimRow-------------------------------> claimed --TokenMiss-----------------------> paced   (campaign_worker)
paced --Clear--> cleared --GatePass--> gated --Deliver | LoseReply | SendFails | Flood--> delivered | undelivered
delivered --MarkToken--> tokened --CommitSent--> idle                     (campaign_worker)
delivered --NoteSent--> noted --CloseSent--> closed --CountSent--> idle   (validator)
undelivered --MarkFailed--> idle
```

At the stations in between the iteration may end early: `TokenHit`, `ScreenOut`,
`DrySkip`, `Pause`, `Unfit`, `SkipDuplicate`, `DryAbort`, `GateBounce`, `GateSkip`.
`Abandon` is a crash, or an exception that ends the iteration, at any place.

The two dispatchers differ, and the model keeps the differences:

- `campaign_worker` claims in one transaction; `validator`'s connection is in
  autocommit mode (`validator.py:572`), so the row lock of its `SELECT ... FOR
  UPDATE` is gone before `MarkProcessing`, which overwrites whatever the row is by
  then.
- Only `validator` checks eligibility, stamps the attempt and paces itself by the
  daily target, the micro-breaks and the rate limit. Only `campaign_worker` writes
  the delivery token, and it commits row, lead and siblings at once; `validator`
  commits them one after another.
- At a closed gate `validator` puts the row back and `campaign_worker` skips it.
- `validator` calls `is_dry_run` with its Redis connection, and a key that is set then
  decides alone (`dry_run.py:18-26`): `on` silences it in a live environment, `off` takes
  it out of the dry run that `OUTREACH_DRY_RUN=true` asks for. `campaign_worker` calls it
  without Redis and follows the environment (`DryRun`). The key may be set, changed or
  deleted at any moment (`SetDryRun`); nothing in the repository writes it, so this is an
  operator's doing. `CAMPAIGN_MODE` stops both, at the gate.

Around them: `Enqueue`, `AutoEnrol`, `Approve`, `Reject`, `Rescan` (which may
replace the lead's contact, `ReplaceContact`), `EmergencyStop`, `EmergencyResume`,
`SetDryRun`, and time (`Age`: fifteen minutes; `CoolDown`; `NewDay`).

### What is folded together

- The per-lead cooldown, the blacklist, the failure count, the risk score, and the
  validation of the text are one nondeterministic `ScreenOut`. The check of
  `eligibility.py` for an earlier message compares spellings exactly, so `ScreenIn`
  may miss one; the check before the send ignores case, as `Contacts` do.
- `Unfit` and `GateSkip` are possible for every contact: names that look like a bot,
  `admin`, `support`.
- The poll of the kill switch and the claim are one action: between them the
  dispatcher reads and writes nothing else that the properties see.
- The order in which rows are claimed is left open; the priority columns, which
  decide it, are left out.
- `CloseSent` merges the lead's `'contacted'` and the siblings' update, two
  autocommits in a row; `SkipDuplicate` merges `validator`'s two updates.
- The check of the circuit breaker only delays an iteration and is left out, as are
  pacing sleeps and the expiry of a micro-break's key.
- A Redis error makes the kill switch read as set: that is an `EmergencyStop`
  followed by an `EmergencyResume`.
- A request to approve or reject several leads is a sequence of single ones.
- The delivery token lives 30 days, beyond what a behaviour here spans.
- `SendLimit` bounds the calls for one claimed row: two for `validator` (media, then
  text), up to six for `campaign_worker` (three tries of the executor, each with
  the fallback).

## 3. The crawl model

| Module | Content |
|---|---|
| `CrawlStore` | What the crawl services share: tables, queues, sets, watermark cache, leader lock; time |
| `CrawlScheduler` | `PriorityScheduler` and its two loops: the dedicated worker and the one embedded in the validator |
| `LinkDiscovery` | The routes by which links get into the queues: radar, scan, forwards, graph expander, searches, spider, joins; the seed intake |
| `LinkValidation` | `ValidatorWorker.process_link`, from the pop of a queue entry to its last write |
| `CrawlPipeline` | All of them on one store; fairness and properties |
| `MCCrawlPipeline` | Values of the constants for TLC: the small deployments |
| `CrawlPipeline_proofs`, `CrawlLinks_proofs`, `CrawlJobs_proofs` | Theorems, proved by TLAPS |

### State

| Variable | In the code |
|---|---|
| `leads`, `jobs`, `blacklist` | the rows of the tables, down to the columns that decide anything: the status, whether `next_crawl_at` has come, `last_scanned_message_id`, whether `last_scan` is set; `crawl_jobs` with the age of `scheduled_at` by the limits the code has |
| `queues`, `seen`, `counted`, `spidered`, `badGroups`, `cache`, `leader` | the Redis keys named in the module; `queue:critical` to `queue:low` in the order of the `BLPOP` |
| `posts` | the highest message id of each channel on Telegram |
| `sched[s]`, `hand[p]`, `marked`, `val[v]` | local variables: of a scheduling cycle, of a service with a link in its hands, of the seed worker's open transaction, of `process_link` |
| `setup` | the deployment of the behaviour: which daemons run on which channels, and its bounds |
| `read`, `cut`, `unsaved`, `pushes`, `handled`, `dropped`, `lapsed`, `redisFailed`, `faults` | not in the code: what an observer would note, and the bound on failures |

### Actions

An action is a statement (the connection is in autocommit mode, so each is a
transaction of its own), a Redis command, or a pure decision.

```
scheduler  idle --AcquireLeaderLock--> reconcile --SelectStuckJobs--> (RepushJob --> RequeueJob --> ReadvanceLead)*
             --> FailStaleJobs --> CheckPressure --> SelectDueChannels
             --> (ScheduleChannel --> FillCache? --> InsertJob --> PushJob --> MarkQueued --> AdvanceLead)*
             --> ReleaseLeaderLock
             RepushFails, PushFails --> MarkEnqueueFailed, SchedulerCrash on the way
discovery  FindLink --> the steps of its route, one by one:  CheckSeen ClaimSeen CountFirst Tally Reserve PushLink StubLink;  LoseLink
seeds      EnqueueSeed (one Lua script and an uncommitted mark), SeedFault
validator  Pop --> Checkout --> LookupMark --> CacheMark? --> Gate --> Dismiss | GiveUp | Fetch | FetchNothing
             --> the writes of the plan, one by one --> idle;   Raise, ValidatorCrash at any place
```

`process_link` is about 1,450 lines long, most of which look at texts. It makes all its
decisions from the page, the entity and the posts it fetched; what follows is a fixed
list of writes to PostgreSQL and Redis. The model therefore ends an inspection in a
*plan*, one of the sequences of writes that the code has (`Refused`, `FromWebPage`,
`NoPosts`, `UpToDate`, `Inactive`, `Group`, `Disqualified`, `Saved`, and `Failure`
for the exception handler), and every later step carries out the head of the plan. An
exception in a write that has no `try` of its own replaces the rest by the handler's
plan (`Raise`). The save of the lead is not one of these: `upsert_lead_v5` swallows the
error of its statement (`validator.py:1083`), and `process_link` goes on, without the
snapshot and the contacts, to move the watermark by the channel's name and to record a
success (`SaveFails`, `Unsaved`). Which plan a text leads to is left open; what is known of the fetch restricts it
(`Judged`).

The discovery services differ in the order of the same five or six commands: radar
checks, claims, pushes and then inserts the stub, the graph expander inserts, counts,
checks, claims and pushes, the searches only count. `Route` holds these orders, and one
action per command follows them.

### What is folded together

- `next_crawl_at` is due or not; intervals, activity classes and the queue a class maps
  to are left open. A channel falls due again two hours after its last job at the
  earliest (`MIN_CRAWL_INTERVAL`).
- A group's or channel's name is one value. The spellings the code distinguishes are
  modelled where they matter: a source written `@name` never matches
  `rejected_groups_set` (`SourceOf`), the failure count of `record_crawl_result` looks
  for a lead whose id is a name and finds none (`CloseJob`).
- Cached watermarks are kept under the lead's id and under its name, apart.
- `insert_post`, edges, source statistics and keyword learning are one step (`Log`)
  that touches nothing modelled but may raise. The auto-enrolment that follows a saved
  lead is `CampaignDelivery`'s `AutoEnrol`.
- A batch of due channels is a set: the order within it is left open. A new job's id is
  any that no other row, entry or process holds.
- An entry is pushed only while the queues are short (`queue`), as a bound. The
  backpressure of the code is `CheckPressure`.

## 4. The account model

| Module | Content |
|---|---|
| `Replies` | What a lead receives after the first message: the auto-reply handlers, the fallback loop, the follow-up loop |
| `SessionPool` | Session locks with their heartbeats; start, crash and shutdown of workers; `execute_request` |
| `Memberships` | The groups the accounts are in: radar's joiner (a task of `SessionPool`) and the two loops that leave |
| `AccountWorkers` | All of them together: the validator's tasks run while it has the user account open, the joiner moves with the pool, a process takes its tasks with it |
| `MCAccountWorkers` | Values of the constants for TLC: the scenes |
| `AccountWorkers_proofs`, `AccountTallies_proofs`, `Memberships_proofs` | Theorems, proved by TLAPS |

### State and actions of `Replies`

`logs` are the rows of `campaign_logs` that were sent, with `user_replied`,
`auto_reply_sent`, `telegram_user_id`, `followup_status` and the age of `sent_at`;
`locks` and `done` are the `autoreply_*` keys under the user id and under the name,
which the code does not identify; `stopped`, `counted` and `cooling` are what the gates
read. `handler`, `fallback` and `followup` are the tasks. The rest is what an observer
would note: who wrote, which messages left and whom they reached.

```
handler     Given --> Notice (lock, done key, matching, user_replied, gate) --> Reply --> RecordReply
fallback    ReadBatch --> TakeRow --> FallbackReply --> RecordFallback --> next row
follow-up   Claim --> Inspect | InspectFails --> PassGate --> SendFollowup --> RecordFollowup
```

All of it runs on one asyncio loop and one connection, so an action is what a task does
between two awaits at which another task can act. `TasksDie` is the end of the process.
The variable `peer` of the follow-up loop outlives an iteration (when the lookup fails,
the message goes to the peer of the row before), and the count of the day goes to the
key that was computed before midnight: both are modelled.

### State and actions of `SessionPool`

`phase`, `open`, `userClient`, `beats` and `task` are the workers' own; `lock`, `state`,
`active` and `banned` are keys in Redis. A worker takes the lock of its primary session
(`StartLock`), connects, and may borrow a further account for a request (`Choose`,
`Connect`); `Beat` is a heartbeat that notices that its lock is gone, and ends. The
validator opens the user account with a client of its own and asks for no lock
(`OpenUserClient`). A request goes `Ask`, `Choose`, `Connect`, `Try`, `Call`, then
`Succeed`, `FloodWait`, `Banned`, `Fail` or `FailUncounted`, with retries on an account
and rotation to the next.

### State and actions of `Memberships`

`member` and `admin` are what Telegram knows, `age` is how long a group has been quiet
(the governor reads the date of a dialog, which is that of its last message);
`discovered`, `rejected`, `joinsToday` and `leavesToday` are keys in Redis. `joining` is
the group that the joiner has in hand, `round` what each loop is about: the accounts it has
yet to visit, the rejected groups as it read them, the account at hand and the groups
it is to leave, all as they were when it looked.

```
joiner     TakeLink (with the pool's Ask) --> steps of the request --> Join | JoinPends | JoinFails
cleaner    StartRound --> (Scan --> Clean*)* --> StartRound
governor   StartRound --> (Scan --> Govern*)* --> StartRound
```

The joiner chooses an account with room, and `execute_request` may turn to another one:
`Join` makes `task[t].session` a member and counts the join for `task[t].ask.want`, as
`join_group` does. A step of the pool and what it means for the joiner are one step of
`AccountWorkers` (`InPool`): every step that starts or ends the joiner's request is one of
the four actions, every other leaves the memberships alone (`NoJoin`). The death of a
process may leave a join or a leave behind that Telegram carried out and nobody counted
(`GroupTasksDie`).

### What is folded together

- `check_db_lead_status` is nothing: the connection yields dictionaries, so `row[0]` raises
  and the method returns `None` (section 7). What the governor goes by is age and number.
- `get_expired_db_memberships` is empty: nothing inserts into `channel_memberships`
  (`MembershipManager.record_join` has no caller).
- The order of dialogs, and so which groups make a full cycle, is left open (`ToLeave`).
- The link that a successful join pushes to a queue is a route of `LinkDiscovery`.
- `JoinPends` ends the request without a membership, which an administrator grants or not.
- Days are the time to live of the two counters, for each account its own.
- Which of several accounts in a good state is chosen is left open, whatever
  `active_jobs`, errors and idle time say (`Selected`); so is which error a call raises.
- A successful call sets the account's state to healthy, whatever a concurrent call has
  found since, as the code does (`Succeed`).
- Which text is sent, and the media, are left out; a campaign may have no second message
  (`quiet`), and the fallback loop takes its text from the latest campaign (`fallback`).
- The campaign dispatcher is present as `FirstMessage` only; the switches as one flag.
- Human-like delays are left out; a lock may expire while its contact is in hand
  (`overrun`), since the delays and the send together may take more than its 30 seconds.

## 5. Runs

Each run names its module in `PROJECT.json`; the deployments and scenes are in the MC
modules.

### Delivery

The runs of `MCCampaignDelivery` have two rows: one campaign with two leads, or (in `Both`)
two campaigns for the same lead. Two rows are the fewest for which a duplicate, a sibling
or a claim in the wrong order exists; a row interacts with others only through the contact,
the counter and the dispatcher that holds it, all of which two rows already share.

| Run | Deployed | Question | Properties |
|---|---|---|---|
| `Delivery` | one dispatcher of either kind, all environments, `outreach:dry_run` changed at will between the values that matter in each, two leads with the same contact, two send calls per row, one lost reply | do stops, rejections and dry runs hold messages back, but for the calls left when they came? | `TypeOK`, `StopBoundsDispatch`, `RejectionHonoured`, `DryRunSilent` |
| `Rescans` | one dispatcher, live, own contacts, one replaced contact, one crash, target 1 | can a contact be written to twice, can the counter of a day pass the target, and do rows live as promised? | `DuplicatesExplained`, `DailyTargetKept`, `KeepsPromise` |
| `Both` | both dispatchers at once, two rows of one lead, no crash | what survives two dispatchers that do not know each other? | `ApprovedOnly`, `SettledIsFinal` |
| `Live` | one dispatcher, two leads with the same contact, fair, one crash | does every due row get a verdict? | `DueRowResolves` |
| `Resend`, `Token`, `Approval`, `Stranded` | one dispatcher | statements of the documents that the code does not keep | see section 7 |

`DuplicatesExplained` excepts contacts that a re-scan replaced: the duplicate check
joins sent rows with the lead's contact of today, so a replaced contact's sent row is
out of sight, and a second lead that names it gets it a second message. No bound by the
number of replacements holds either, since one replacement hides every sent row of
the lead.

`StopBoundsDispatch` and `RejectionHonoured` are about delay, not about the gate's
test itself: the send comes some steps after the test, with retries, and a stop or a
rejection in between must not leave more than the calls of that one row. `DryRunSilent`
is of the same kind: the key is read once per row, several awaits before the send, and it
may have been `on`, `off` and deleted in the meantime. What counts as silenced is stated
for each dispatcher by what it looks at (`Silenced`); that an operator who sets the key
does not silence `campaign_worker`, or wakes `validator` up, is said in section 7.

`RejectionHonoured` is about `validator` only, which has the eligibility check;
`campaign_worker` has none and sends to rejected leads. `DailyTargetKept` bounds the
counter in Redis, not the messages: a delivery that crashed before `CountSent` is in none.

`SettledIsFinal` is an action property: with two dispatchers on the table, the bulk
updates of one may meet a row of the other at any moment, and the verdict of a row that
nobody holds must not change. `validator` may well hold a row that the other
dispatcher has settled since (`MarkProcessing` then reopens it): with two
dispatchers a contact can get two messages without any failure, which is why
`DuplicatesExplained` and `KeepsPromise` speak of a single dispatcher.

`KeepsPromise` is a refinement: `CampaignDelivery` implements `AbstractDelivery` with
`phase` read off `status`. It needs a single dispatcher as well; the `Rescans` run
deploys no other.

Bounds: one crash (`Rescans`, `Live`) puts a failure at each place of the iteration, before
a re-claim and with a rejection or a re-scan around it, and one lost reply (`Delivery`) puts
one before a retry; a crash adds nothing to what `Delivery` asks, since it only takes
the calls away that are left. The largest run, `Rescans`, has some 870,000 distinct states.
daily targets of one or two with bursts of one make breaks, the target and midnight
occur with two rows; two send calls make a retry possible. `Rows` are symmetric (a row's
lead and contact carry the row's own name, or are shared by both rows), and the runs
that use symmetry check no liveness.

Fairness (`Live`, `Stranded`): a running dispatcher takes its next step if it has one
(the loops never block for ever, and every sleep has a timeout), and time passes: a
stamp grows older than fifteen minutes, a rate limit ends, a day ends. Nothing is
assumed of people, crawlers or failures. Outreach that stays stopped serves no row,
hence the exception in both liveness properties.

Deadlock is checked in every run: re-scans and rejections are always possible, and
the dispatchers' own progress is the subject of `Live`.

### Crawl

| Run | Deployed | Question | Properties |
|---|---|---|---|
| `Crawl` | ten deployments of two to four services on one or two channels (`MCCrawlPipeline.CrawlSetups`) | who leads, what is queued twice or lost, how far may a watermark go, who comes back from the blacklist? | `TypeOK`, `OneLeaderUntilLapse`, `OneInFlight`, `AdvanceOnlyAfterPush`, `NoPostSkipped`, `KnownLinkAccounted`, `BlacklistHonoured` |
| `CrawlLive` | the dedicated scheduler and a validator on one channel, one crash or failure | does a due channel get a job, does a running job end? | `DueIsScheduled`, `RunningJobCloses` |
| `Due` | the same, with the rows that the real connection yields | a statement of the documents | see section 7 |

The setting `rows` says what a cursor yields. `PriorityScheduler` is written, and
tested, for tuples; the connection it is given yields dictionaries, and then nothing it
schedules works (section 7). `Crawl` and `CrawlLive` check the scheduler as its authors
meant it, with tuples; `Due` checks what is deployed. The properties of validation and
discovery do not depend on it: links reach the queues without the scheduler.

The deployments: `TwoSchedulers` (the dedicated and the embedded loop race for the lock),
`OneScheduler` (every step of a cycle may fail or crash), `LossyLoop` and `TwoLoops` (one
or both with a validator: a job's whole life, in `LossyLoop` with one step that fails, the
save among them), `TwoValidators` (two crawls of one channel
that two searches found), `Scan` and `BadLink` (a channel that advertises another; a
malformed link; a crash anywhere), `BadGroup` (a group that is shunned while a link from it
is queued), `Discovery` and `Searches` (services that find the same links at once; keys that
expire). One deployment with all services would have the same steps and no interleaving
that two or three of them do not show: services meet only in the store, in one channel or
job at a time. Two posts and a budget of one make a fetch that leaves posts out; one
fault puts every place of failure within reach; two job ids allow a second job for a
channel; `PressureAt` of four lets the backpressure stay out of the way in the deployments
where it is not the question.

What the properties except, the code does: the leader lock lapses if a cycle outlasts its
45 seconds or Redis errs (`lapsed`), after which two loops may run; a failed push leaves
the old job to the reconciler and the channel due, hence two jobs (`redisFailed`); the
reconciler pushes a row a second time if the first push went through and only the status
was not written (`pushes` of two). `KnownLinkAccounted` counts what is lost, popped and
dropped, as accounted for only because `dropped` names the places at which it may be.
`NoPostSkipped` excepts the posts that one fetch cuts off (`cut`) and those of a crawl whose
lead was not saved (`unsaved`): the second is a defect of the code, which passes over them
for good and counts the crawl as a success (section 7). What is left says that nothing
else passes over a post.
`BlacklistHonoured` speaks of the crawl services alone: the command-line tool
`src/app/discovery/similar_channels_crawler.py:395` sets `status = 'new'` whatever the
blacklist says, and a delivery sets `contacted`. It also speaks of a single validator: a second one may have inspected the
channel before the first blacklisted it, and save it afterwards.

Fairness (`CrawlLive`, `Due`): services restart after a crash (`docker-compose.yml`) and
their loops catch what a cycle raises, so each goes on; faults are bounded, so no step
that fails is owed; the leader lock expires and the ages of a job pass. Deadlock is not
checked (`CHECK_DEADLOCK FALSE`): with the bounds on posts, job ids and links a
deployment in which only discovery runs comes to its end.

### Accounts

| Run | Deployed | Question | Properties |
|---|---|---|---|
| `Accounts` | sixteen scenes (`MCAccountWorkers.MCDeployments`): the replies on one account, workers on three accounts, or the groups of two or three accounts | can a contact get a message of a kind twice, or one it should not get; can two processes use one session; is an account taken out of a group that it runs, or beyond the caps of a day; does every request, start, answer and rejected group come to its end? | `TypeOK`, `OneSecondMessage`, `OneFollowup`, `FollowUpOnlyToSilent`, `StopHolds`, `DailyLimitHolds`, `ExclusiveSession`, `ActiveJobs`, `JoinLimitHolds`, `LeaveLimitHolds`, `OwnGroupsStay`, `RequestEnds`, `WorkerStarts`, `NoticedIsAnswered`, `FollowupSettles`, `RejectedIsLeft` |

Scenes: `Answers` (a contact with two rows writes twice, two handlers and the fallback loop),
`Fails`, `Crashes` (the same with a failing statement or call, or a crash), `Poison` (a
contact that cannot be reached in the same batch), `Silence`, `Blind`, `Errors`, `Stops`,
`Dies` (follow-ups: to a contact that may answer meanwhile, that cannot be looked up, with
errors, stops, a crash), `Hurry` (no delay before a follow-up, together with auto replies),
`Borrows`, `Together`, `Prefers` (workers that borrow each other's accounts, two tasks of one
worker, outbound requests beside others), `Joins` with `Rotates` (two groups, two accounts
of the radar, one of which joins in place of the other), `Rejects` with `Calm` (a group that
is joined, rejected, left, and joined again from a link that was queued before), `Governs`
(the validator leaves what has gone quiet, on two accounts, one of which runs a group).
The limits of joins and leaves are one, so that a second group reaches them; `Target` is
one, so that one of two groups is one too many; a cycle may take both. `DailyLimit` and `BatchLimit` are one and two
instead of eight and five so that two rows reach them; two tries per account make a
retry, three accounts a rotation; one or two upsets put a crash or an expired lock at
every place. Replies, pool and memberships share nothing but the processes and, for the
joiner, the request, so a scene varies one of them (or the joiner with its pool) while the
others are quiet, except for the start and death of their process.

`OneSecondMessage` allows one more message for each failure or crash, which may fall
between the send and its record, and holds only while no lock expired in use and the
follow-up delay is not zero (a follow-up that is sent within the hour counts as a message
to answer). `ExclusiveSession` speaks of clients under a lock: the validator's second
client on the user account asks for none.

`JoinLimitHolds` allows what an account joined in place of another one (`unbooked`): the
counter is that of the account that was asked, so the cap holds of no single account.
`LeaveLimitHolds` allows one leave for each failed command, crash or shutdown.
`OwnGroupsStay` excepts accounts that came to run the group after the loop had listed it
(`promoted`): the second look before the request is at the same object. `RejectedIsLeft`
speaks of accounts that are connected then, and of groups that they do not run.

Fairness: the loops go on, calls return, a key with a time to live goes unless its owner
renews it, and a worker that is down is started again. Nothing is assumed of contacts,
operators and Telegram's verdicts. `NoticedIsAnswered` needs room in the batch: `LIMIT 5`
without an order lets five unreachable contacts starve all others, which is why it
excepts that many. Deadlock is not checked: contacts stop writing, and the quiet
replies of a pool scene end.

Each property of a passing run is also tried against a plausible slip in a mapped
definition (`PROJECT.json`, `mutants`; the slips stand in the modules before the
definitions they vary), and fails there.

## 6. Proofs

`CampaignDelivery_proofs` proves, for every value of the constants that satisfies
`RowsAssumption` and `SettingsAssumption` (any sets of rows, leads and contacts, any assignment
of leads and contacts, any subset of dispatchers deployed unless stated otherwise, any
bounds):

| Theorem | Property | Inductive invariant and why it is needed |
|---|---|---|
| `TypeCorrect` | `TypeOK` | `TypeInv`: a dispatcher that may still send has calls left (`TriesInv`), without which another try would pass `SendLimit` |
| `DailyTargetHolds` | `DailyTargetKept` | About the counter in Redis, not about messages. `DailyInv`: while `validator` is between `Proceed` and `CountSent` under today's key, the counter is below the target; midnight may come in between |
| `StopHonoured` | `StopBoundsDispatch` | `StopInv`: while outreach is stopped, a dispatcher past the gate has at least as much slack as calls left |
| `RejectionIsHonoured` | `RejectionHonoured` | `RejectInv`: `validator` is past the eligibility check with a rejected lead only if the rejection came midway, and then the slack covers the calls left |
| `OnlyApprovedSent` | `ApprovedOnly` | `ApprovedInv`: a row that is approved or processing, or that a dispatcher holds, was approved by somebody; it holds although `validator` may mark a row that was cancelled or settled meanwhile |
| `DuplicatesAreExplained` | `DuplicatesExplained` | `DuplicatesInv`, under a single dispatcher: at most one delivered row of a contact is still unrecorded in a dispatcher's hands (`AtMostOneOpen`); every other delivery is a sent row of the contact or is accounted for (`OpenIsAccounted`); the duplicate check that a dispatcher passed still stands when it sends (`CheckStands`), because nobody else makes rows sent; its `target` is still the lead's contact or was replaced (`TargetStands`); and a row in hand is not sent (`HeldNotSent`) |

Each invariant is shown to hold initially and to be kept by each action, with
lemmas for the parts the actions share (`Release`, `EndRow`, `Dispatch`, the unchanged
variables); the temporal step is PTL. The constants need no finiteness: the proofs do not
count rows.

`CampaignPromise_proofs` goes on from there:

| Theorem | Property | Inductive invariant and why it is needed |
|---|---|---|
| `DryRunsAreSilent` | `DryRunSilent` | `DryInv`: a dispatcher that is silenced has slack for every call left to the row that is past its check (`PastDryRun`, a different place for each of the two), and under `CAMPAIGN_MODE` none is past the gate (`HeldBack`). `DrySwitch` shows that a change of the key keeps this, in whatever order the changes come; `CheckMeansSilenced` ties the check of the code to what an operator takes for silenced |
| `VerdictsAreFinal` | `SettledIsFinal` | An action property: each statement that rewrites a row names the statuses it may rewrite, or is issued by a dispatcher that holds the row (`VerdictsStand`) |
| `PromiseIsKept` | `KeepsPromise` | The refinement of `AbstractDelivery`, under a single dispatcher (`Exclusive`): every action is a step of `AbstractDelivery` on the phases of the rows, or leaves all phases as they are. It needs `ClaimHolds`: the row that the dispatcher holds is still processing, so that its verdict ends a row that was queued. With two dispatchers this is false |
| `EndsAreFinal` | | What the promise says of an end, carried back through the refinement mapping: a row that is sent, failed or skipped stays so |

`CrawlPipeline_proofs`, from the named assumptions of the crawl modules on their constants
(any sets of channels, jobs, services and settings, any bounds):

| Theorem | Property | Inductive invariant and why it is needed |
|---|---|---|
| `TypeCorrect` | `TypeOK` | `TypeInv`: with it go `JobInv` (a row that exists has a channel and a queue), `SchedInv` and `ValInv` (who is at a step has the job or channel the step uses; a validator that writes has a plan left), `HandInv` (a link in hand is within its route), without which the next step has no type |
| `OneLeader` | `OneLeaderUntilLapse` | `LeaderInv`: until a lapse, the lock names whoever is in a cycle. The lock of the code has no value to compare; the model's has, as an observer's note, and the proof shows that a delete without comparison is harmless as long as no lock lapsed |
| `NoPostsSkipped` | `NoPostSkipped` | `MarkInv`: every watermark in the table, the cache, a job, a queue entry, a scheduler's or a validator's hands is covered by `read`, `cut` and `unsaved`; a validator's fetched top is covered from the save on, or from its failure on (`SaveFailsMarks`), and every plan that writes it comes to the save first (`PlansSaveFirst`) |

`CrawlLinks_proofs` goes on with what happens to leads and links:

| Theorem | Property | Inductive invariant and why it is needed |
|---|---|---|
| `AdvancesAreEarned` | `AdvanceOnlyAfterPush` | `PushedInv`: a scheduler that is about to mark a job as queued, or to move its lead on, has a job that was pushed |
| `BlacklistIsHonoured` | `BlacklistHonoured` | `BlackInv`, under one validator: no plan accepts or saves a channel after the write that blacklists it (`Ordered`), and a channel that is on the blacklist while the validator is past the gate has a plan without either (`Harmless`). The gate reads the blacklist once, many writes before the last |
| `KnownLinksAccounted` | `KnownLinkAccounted` | `LinkInv`: each mark that makes a link known has its link in a queue, with a validator, done, dropped, or in the hands of a service whose route has set that mark and not yet pushed (`Held`); `RouteOK`: no route ends between its mark and its push |

`CrawlJobs_proofs` goes on with the jobs:

| Theorem | Property | Inductive invariant and why it is needed |
|---|---|---|
| `OneJobInFlight` | `OneInFlight` | `FlightInv`: as long as no lock lapsed and no push failed, no two jobs of a channel are live that were not pushed twice (`PairInv`), and a channel for which the scheduler is yet to insert a job has none (`ClearInv`). Live is more than in flight: the scheduler marks a job as queued whatever became of it since the push, so that a job it is about to mark counts (`Marking`) |

`FlightInv` rests on `LeaderInv` (the other schedulers are idle), `PushedInv` and three more,
each inductive: `CopyInv` (a job that was never pushed stands in no queue and with no
validator, one that was pushed once stands in one place, and once it is closed no validator
takes it up again, so that a job does not come back to life by a late `running`), `BatchInv`
(the channels left of a batch differ from each other and from the one in hand) and
`FailedInv` (without a failed push no job is `enqueue_failed`, so a first push is always of a
job that was pending, and in flight already).

`AccountWorkers_proofs`, likewise:

| Theorem | Property | Inductive invariant and why it is needed |
|---|---|---|
| `SessionsExclusive` | `ExclusiveSession` | `HoldInv`: whoever uses a session holds its lock unless that lapsed (`LockInv`), and a worker that is not up has no open client and no task (`DownInv`) |
| `FollowedUpOnce` | `OneFollowup` | `ClaimInv`: a row with a follow-up is not claimable again, and the dispatcher about to send has a row that had none |
| `FollowedUpIfSilent` | `FollowUpOnlyToSilent` | `PeerInv`: past the look, the peer is the row's contact and that contact had not written before it, or the look failed. An action property: the invariant and one step |
| `StopIsHeard` | `StopHolds` | `StopInv`: what a task sent since the stop, plus what it may still send past its gate, is at most one |
| `DailyLimitKept` | `DailyLimitHolds` | `CountInv`: the follow-ups of today are at most the count, plus the one that is sent and not yet counted, plus the failures and crashes that lost a count |

`AccountTallies_proofs` extends it with what is counted:

| Theorem | Property | Inductive invariant and why it is needed |
|---|---|---|
| `JobsAreCounted` | `ActiveJobs` | The property is inductive account by account (`Charged`): a call that begins or ends adds one task to the set of those under way or takes one away, a worker that goes takes all of its own. The sets are finite because `PoolAssumption` says so of the tasks |
| `AnsweredOnce` | `OneSecondMessage` | `SecondInv`. As long as no lock was overrun: whoever is busy with a row has its contact's lock, and no two are busy with one contact (`HandInv`); the row at hand is unanswered, and so are the rows of the fallback loop's batch whose contact nobody has locked (`AnswerInv`): what was read from the table is not stale when it is acted upon; each second message is recorded, about to be recorded, or booked against a failure or a death (`BookedInv`). Beside it, `RowInv`: handlers and loop lock the same key, by user id, for all the rows that the loop can pick |

`Memberships_proofs` extends `AccountWorkers_proofs` with the memberships, from `MembershipAssumption` and
`DeploymentAssumption` (the joiner is a task of the radar) besides:

| Theorem | Property | Inductive invariant and why it is needed |
|---|---|---|
| `TypeCorrect` | `TypeOK` | `AllInv`: `PoolInv` (a task that connects, tries or calls has an account), `ReplyTypeInv`, and `JoinerInv`: from the choice of an account to the end of its request, the account that was asked stays below its limit, since nobody else counts joins, and the joiner has a group in hand; without it the increment would leave the type |
| `OwnGroupsAreKept` | `OwnGroupsStay` | `LookedInv`: a group that a loop is about to leave is not run by the account at hand, or came to be after the look. Every step that ends a membership is one of a loop, or of its death, with a group on its list (`LeftByLoop`) |
| `JoinLimitKept` | `JoinLimitHolds` | `JoinInv`: an account's joins are at most those counted for it and those that were not (`BookBalances`) |
| `LeaveLimitKept` | `LeaveLimitHolds` | `LeaveInv`: an account's leaves exceed the counter by at most the failures, deaths and shutdowns so far (`LeaveBalance`) |

Model-checked only: liveness (`DueRowResolves`, `DueIsScheduled`, `RunningJobCloses`,
`RequestEnds`, `WorkerStarts`, `NoticedIsAnswered`, `FollowupSettles`, `RejectedIsLeft`), which
is beyond the prover. Every invariant and every action property of the passing runs is proved.

## 7. Where the code and its documents part

| Run | What is said | What the code does |
|---|---|---|
| `Resend` | `docs/ARCHITECTURE_AUDIT.md:86`: after a crash between dispatch and commit the recovering worker reads the token and does not dispatch again | `validator` writes no token (`validator.py:4560-4602`): the row is sent again. (`docs/outreach_engine.md:30-33` concedes as much.) |
| `Token` | `docs/ARCHITECTURE_AUDIT.md:85`: the token is recorded "upon successful dispatch" | a shutdown makes `execute_request` return `None` (`tg_manager.py:561`, `622`), which `campaign_worker.py:316` takes for success |
| `Approval` | `campaign_worker.py:156`, `validator.py:4224`: "Only claim rows explicitly marked as 'approved' by a human" | crawlers insert rows as approved (`validator.py:3289`, `similar_channels_crawler.py:436`) |
| `Stranded` | `docs/outreach_engine.md:24`: "every eligible lead will be attempted at least once" | a crash after the claim and before the stamp leaves `processing` with no `last_attempt_at`, which no claim finds |
| `Due` | `scheduler_worker.py:5`: "Polls PostgreSQL for due channels using PriorityScheduler", `:8`: "Enqueues crawl jobs with incremental watermarks and scan depth budgets" | the rows are dictionaries (`validator.py:553-575`) and are unpacked as tuples (`priority_scheduler.py:102`, `356`): each field is its own column name, the cycle ends in a `TypeError` (`scheduler_worker.py:189-198`), nothing is scheduled. The scheduler's tests hand it tuples |

Not runs of their own, but met on the way and written into the models as they are:

- A crawl whose lead cannot be saved is lost: `upsert_lead_v5` returns `None`
  (`validator.py:1083-1090`), the watermark moves past its posts all the same
  (`3255-3261`) and the job is recorded as completed (`3263-3271`). `NoPostSkipped` excepts
  these posts (`unsaved`), and nothing else that a failure could add.
- A key `outreach:dry_run` that is not `1` or `true` overrides `OUTREACH_DRY_RUN=true` in
  `validator` (`dry_run.py:21-23`), and one that is does not silence `campaign_worker`, which
  asks without Redis (`campaign_worker.py:267`).
- `rejection_learner.py:5` and `102` say that no message is sent to a rejected lead.
  `campaign_worker` does not look at the lead's status, and `validator` looks once, before
  the send; `RejectionHonoured` says what is left of it.
- `similar_channels_crawler.py:395` inserts with `status = 'new'` over whatever the lead
  was, blacklisted and rejected ones included; it is run by hand.
- `validator.py:4639` says the follow-up loop "automatically skips any contact that has
  already replied in chat!". When the look into the chat fails it only warns and sends
  (`4752`); `FollowUpOnlyToSilent` excepts such rows (`blind`).
- The fallback loop (`auto_reply.py:219-301`) passes no safety gate: a stop does not hold it
  back. `StopHolds` speaks of the handlers and the follow-up loop.
- `campaign:followup_delivered:*` is read before a follow-up and written nowhere.
- `init_user_client` (`validator.py:3505`) opens the session file of the user account
  without the lock that `tg_manager.py` keeps for it.
- `radar.py:105` says "max 5 joins per account per day". The check and the count are of the
  account that was asked, while the request may be carried out by another one
  (`tg_manager.py:571`): an account can join more (`JoinLimitHolds`, `unbooked`).
- `membership_governor.py:124` reads `row[0]` of a row that is a dictionary; the exception is
  logged at debug level and the status is always `None`. So "value complete" never applies,
  and a channel whose lead is still new is left like any other, although line 244 excepts it.
- `membership_governor.py:228` calls the date of a dialog the join age; Telethon's
  `Dialog.date` is that of the last message. What is left is what has gone quiet.
- The branch of `execute_request` for a join that awaits approval (`tg_manager.py:701`) comes
  after the one for RPC errors; if the library raises it as one, the request is tried again,
  with other accounts too. The models allow either (`JoinPends`, `Fail`).
- `daily_limit` is not defined where the validator paces itself (`validator.py:4625`): the sleep
  after a send is the 10 seconds of the error path. A flood wait raised by a media call is
  answered by the text call at once (`4492`); `SendLimit` counts both.
- `process_http_fallback` uses a name it does not define (`validator.py:1685`); the
  inspection goes on without the web page (`WebPageFails`).

## 8. What is not modelled

- Texts, scores, priorities, the order of claims; the columns that only record (risk level,
  attempt count, error messages, metrics); the three kill switches apart from one another;
  real delays.
- `account_health.py`, `circuit_breaker.py`, `adaptive_throttle.py`: scores and windows of
  time whose only effect is to pause a dispatcher, which the models allow at any moment.
- `MembershipManager` (`telegram_pool.py:246`), which nobody calls, and the validator's invite loop.
- The graph expander's own watermarks (`graph_expander.py:270`, set before the posts are
  processed), checkpoints of the searches.
- The channel graph, learning and scoring: computations over texts and weights.
- The dashboard's listings, statistics and authentication.
- Scripts, mined data and the unused `queue_manager.py` and `reconciliation.py`, which are
  outside the running system. They and the files of the two items above are most of the
  repository's lines.

## 9. What could come next

1. `AccountHealth` with the circuit breaker, as a further part of `AccountWorkers`, if their
   state comes to decide more than a delay.
2. The graph expander with its watermark, which is set before the posts are processed, and the
   checkpoints of the searches, as further variables of `LinkDiscovery`.
