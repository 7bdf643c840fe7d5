----------------------------- MODULE CrawlStore -----------------------------
(***************************************************************************)
(* What the crawl services share: the leads, crawl_jobs and blacklist      *)
(* tables in PostgreSQL; the four validation queues, the sets that mark a  *)
(* link as known, the watermark cache and the scheduler's leader lock in   *)
(* Redis; and the posts of the channels on Telegram.                       *)
(*                                                                         *)
(* DatabaseHelper connects with autocommit, so a statement is a            *)
(* transaction.  Redis commands are atomic.                                *)
(***************************************************************************)
EXTENDS Integers, FiniteSets, Sequences

CONSTANTS
  Channels,     \* Telegram channels and groups, by username
  Jobs,         \* the job ids that may be drawn
  Processes,    \* the daemons that may run
  None,         \* no job, no channel, no holder, no queue
  Setups,       \* the settings considered
  Tiers,        \* the queue classes the scheduler and the crawlers use
  MaxPosts,     \* bound: posts of a channel in any setting
  Budgets,      \* the limits of one fetch (max_posts_budget)
  MaxQueue,     \* bound: entries in the queues in any setting
  MaxFaults     \* bound: crashes and failed commands in any setting

Mark == 0..MaxPosts

\* A setting: the daemons that run; the channels that are leads at first; the
\* links that parse_telegram_link refuses; the rows of seed_channels; the links
\* that the discovery services come upon, and those in the posts of a channel;
\* what a cursor of the database connection yields (the scheduler's tests hand
\* it tuples, the DatabaseHelper that the loops pass it yields dictionaries).
\* Then the bounds: the job ids, the posts of each channel, the entries in
\* the queues when a link is found, whether keys other than the leader lock
\* expire, and how much may fail.
SetupRecord ==
  [run : SUBSET Processes, known : SUBSET Channels, malformed : SUBSET Channels,
   seeds : SUBSET Channels, found : SUBSET Channels,
   links : [Channels -> SUBSET Channels], rows : {"tuple", "dict"},
   jobs : SUBSET Jobs, posts : [Channels -> Mark], queue : 0..MaxQueue, expiring : BOOLEAN,
   faults : 0..MaxFaults]

\* BLPOP lists the queues in this order.
QueueNames == {"critical", "high", "normal", "low"}
Rank == [critical |-> 1, high |-> 2, normal |-> 3, low |-> 4]

ASSUME StoreAssumption ==
  /\ None \notin Channels \cup Jobs \cup Processes \cup QueueNames
  /\ Setups \subseteq SetupRecord
  /\ Tiers \subseteq QueueNames /\ Tiers # {}
  /\ MaxPosts \in Nat
  /\ Budgets \subseteq Nat \ {0}
  /\ MaxQueue \in Nat
  /\ MaxFaults \in Nat

VARIABLES
  setup,        \* the settings of this behaviour
  \* PostgreSQL.
  leads,        \* [status, due, mark, scanned] of each channel
  jobs,         \* crawl_jobs: [status, channel, mark, queue, age, overdue] of each id
  blacklist,    \* channels with a row in blacklist
  \* Redis.
  queues,       \* queue:critical .. queue:low
  seen,         \* seen_channels
  counted,      \* channels with a provenance:count key
  spidered,     \* channels with a spider:enqueued key
  badGroups,    \* rejected_groups_set
  cache,        \* watermark:channel:{id} and watermark:channel:{username}
  leader,       \* lock:scheduler:leader, by the process that set it
  \* Telegram.
  posts         \* the highest message id of each channel

\* What an observer outside the code would note.
VARIABLES
  read,         \* posts that were fetched and went into a saved lead
  cut,          \* posts that a fetch left out because of its limit
  unsaved,      \* posts fetched, or cut, for a lead that was then not saved
  pushes,       \* how often each job was pushed
  handled,      \* channels of which a link was processed to the end
  dropped,      \* channels of which a claim or a link was lost on the way
  lapsed,       \* the leader lock did not last a cycle, or was not asked
  redisFailed,  \* a push by a scheduler has failed
  faults        \* counts towards MaxFaults

database  == <<leads, jobs, blacklist>>
marks     == <<seen, counted, spidered, badGroups>>
redis     == <<queues, marks, cache, leader>>
observed  == <<read, cut, unsaved, pushes, handled, dropped, lapsed, redisFailed>>
store     == <<setup, database, redis, posts, observed, faults>>

-----------------------------------------------------------------------------
NoMark == -1    \* the cache holds no value
Keys   == {"id", "name"}
LeadStatus == {"none", "new", "rejected"}
JobStatus  == {"none", "pending", "enqueue_failed", "queued", "running",
               "completed", "failed"}

\* age: under 2 minutes, under 30 minutes, under 2 hours, older, since
\* scheduled_at.  overdue: executed_at is more than 30 minutes ago.
JobRow  == [status : JobStatus, channel : Channels \cup {None}, mark : Mark,
            queue : QueueNames \cup {None}, age : 0..3, overdue : BOOLEAN]
\* due: next_crawl_at has come.  scanned: last_scan is set.
LeadRow == [status : LeadStatus, due : BOOLEAN, mark : Mark, scanned : BOOLEAN]

\* What is queued: a crawl job, or a link (job = None) found in `source`.
Payload == [job : Jobs \cup {None}, channel : Channels, mark : Mark,
            source : Channels \cup {None}]

NoJobRow  == [status |-> "none", channel |-> None, mark |-> 0, queue |-> None,
              age |-> 0, overdue |-> FALSE]
NoLeadRow == [status |-> "none", due |-> FALSE, mark |-> 0, scanned |-> FALSE]

StoreTypeOK ==
  /\ setup \in Setups
  /\ leads \in [Channels -> LeadRow]
  /\ jobs \in [Jobs -> JobRow]
  /\ blacklist \subseteq Channels
  /\ queues \in [QueueNames -> Seq(Payload)]
  /\ seen \subseteq Channels /\ counted \subseteq Channels
  /\ spidered \subseteq Channels /\ badGroups \subseteq Channels
  /\ cache \in [Channels -> [Keys -> Mark \cup {NoMark}]]
  /\ leader \in Processes \cup {None}
  /\ posts \in [Channels -> Mark]
  /\ read \in [Channels -> SUBSET (1..MaxPosts)]
  /\ cut \in [Channels -> SUBSET (1..MaxPosts)]
  /\ unsaved \in [Channels -> SUBSET (1..MaxPosts)]
  /\ pushes \in [Jobs -> 0..2]
  /\ handled \subseteq Channels /\ dropped \subseteq Channels
  /\ lapsed \in BOOLEAN /\ redisFailed \in BOOLEAN
  /\ faults \in 0..MaxFaults

StoreInit ==
  /\ setup \in Setups
  /\ leads = [c \in Channels |->
                IF c \in setup.known THEN [NoLeadRow EXCEPT !.status = "new", !.due = TRUE]
                               ELSE NoLeadRow]
  /\ jobs = [j \in Jobs |-> NoJobRow]
  /\ blacklist = {}
  /\ queues = [q \in QueueNames |-> <<>>]
  /\ seen = {} /\ counted = {} /\ spidered = {} /\ badGroups = {}
  /\ cache = [c \in Channels |-> [k \in Keys |-> NoMark]]
  /\ leader = None
  /\ posts = [c \in Channels |-> setup.posts[c] \div 2]
  /\ read = [c \in Channels |-> {}]
  /\ cut = [c \in Channels |-> {}]
  /\ unsaved = [c \in Channels |-> {}]
  /\ pushes = [j \in Jobs |-> 0]
  /\ handled = {} /\ dropped = {}
  /\ lapsed = FALSE /\ redisFailed = FALSE
  /\ faults = 0

Fault == faults < setup.faults /\ faults' = faults + 1

-----------------------------------------------------------------------------
\* Statements and commands that several services issue.

Higher(a, b) == IF a >= b THEN a ELSE b

\* INSERT .. ON CONFLICT DO UPDATE of leads: a new row gets the column
\* default next_crawl_at = CURRENT_TIMESTAMP, an old one keeps its value.
Upserted(row, status) ==
  [row EXCEPT !.status = status, !.scanned = TRUE,
              !.due = IF row.status = "none" THEN TRUE ELSE @]

\* insert_stub_lead: status 'new' and last_scan NULL, or nothing.
Stubbed(row) ==
  IF row.status = "none" THEN [row EXCEPT !.status = "new", !.due = TRUE] ELSE row

\* add_to_blacklist also rejects a lead of that name, if there is one.
Rejected(row) == IF row.status = "none" THEN row ELSE [row EXCEPT !.status = "rejected"]

Queued == Len(queues["critical"]) + Len(queues["high"])
            + Len(queues["normal"]) + Len(queues["low"])

PushLeft(q, p)  == queues' = [queues EXCEPT ![q] = <<p>> \o @]
PushRight(q, p) == queues' = [queues EXCEPT ![q] = Append(@, p)]

LinkTo(c, source) == [job |-> None, channel |-> c, mark |-> 0, source |-> source]

\* UPDATE crawl_jobs .. WHERE job_id: no row, no effect.
JobSet(j, status) ==
  IF j # None /\ jobs[j].status # "none" THEN [jobs EXCEPT ![j].status = status] ELSE jobs

-----------------------------------------------------------------------------
\* Time, Telegram and the limits on keys.

\* A channel posts.
Post(c) ==
  /\ posts[c] < setup.posts[c]
  /\ posts' = [posts EXCEPT ![c] = @ + 1]
  /\ UNCHANGED <<setup, database, redis, observed, faults>>

\* The next of the limits of 2 minutes, 30 minutes and 2 hours passes.
AgeJob(j) ==
  /\ jobs[j].status # "none" /\ jobs[j].age < 3
  /\ jobs' = [jobs EXCEPT ![j].age = @ + 1]
  /\ UNCHANGED <<setup, leads, blacklist, redis, posts, observed, faults>>

\* 30 minutes have passed since executed_at, hence since scheduled_at too.
RunOverdue(j) ==
  /\ jobs[j].status = "running" /\ ~jobs[j].overdue /\ jobs[j].age >= 2
  /\ jobs' = [jobs EXCEPT ![j].overdue = TRUE]
  /\ UNCHANGED <<setup, leads, blacklist, redis, posts, observed, faults>>

\* next_crawl_at comes.  An interval is at least 2 hours: MIN_CRAWL_INTERVAL.
FallDue(c) ==
  /\ leads[c].status # "none" /\ ~leads[c].due
  /\ \A j \in Jobs : jobs[j].channel = c => jobs[j].age = 3
  /\ leads' = [leads EXCEPT ![c].due = TRUE]
  /\ UNCHANGED <<setup, jobs, blacklist, redis, posts, observed, faults>>

\* The 24 hours of a cached watermark pass, or Redis evicts it.
CacheExpires(c, k) ==
  /\ setup.expiring /\ cache[c][k] # NoMark
  /\ cache' = [cache EXCEPT ![c][k] = NoMark]
  /\ UNCHANGED <<setup, database, queues, marks, leader, posts, observed, faults>>

StoreNext ==
  \/ \E c \in Channels : Post(c) \/ FallDue(c)
  \/ \E j \in Jobs : AgeJob(j) \/ RunOverdue(j)
  \/ \E c \in Channels, k \in Keys : CacheExpires(c, k)
=============================================================================
