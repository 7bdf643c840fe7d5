-------------------------- MODULE CampaignDelivery --------------------------
(***************************************************************************)
(* Delivery of outreach messages: the rows of campaign_logs, the people    *)
(* and services that create, approve, reject and re-score them, and the    *)
(* two dispatchers that claim approved rows and send them:                 *)
(*                                                                         *)
(*   "campaign_worker"  campaign_worker.py: a transactional connection, a  *)
(*                      Redis delivery token after a successful send       *)
(*   "validator"        validator.py, campaign_dispatcher_loop: a          *)
(*                      connection in autocommit mode (so a SELECT ... FOR *)
(*                      UPDATE locks nothing after it), eligibility and    *)
(*                      pacing checks, no delivery token                   *)
(*                                                                         *)
(* An action is what one process does between two points at which another  *)
(* process can act: a commit, a Redis command or an await.                 *)
(***************************************************************************)
EXTENDS Integers, FiniteSets

CONSTANTS
  Rows,         \* rows of campaign_logs: a campaign and a lead each
  Leads,        \* rows of leads
  Contacts,     \* Telegram users (contact_username, case ignored)
  LeadOf,       \* [Rows -> Leads]
  ContactOf,    \* the contacts the leads have at first
  None,         \* no contact; what an idle dispatcher holds
  Deployments,  \* the sets of dispatchers an operator may have started
  Modes,        \* the environments considered, a subset of AllModes
  DryKeys,      \* the values an operator may give outreach:dry_run in each of Modes
  SendLimit,    \* bound: Telegram send calls for one claimed row
  DailyTarget,  \* CAMPAIGN_DAILY_LIMIT / campaign_daily_target
  BurstSize,    \* CAMPAIGN_BURST_SIZE
  MaxCrashes,   \* bound: crashes and aborted iterations in a behaviour
  MaxLost,      \* bound: sends whose reply is lost in a behaviour
  MaxMoves      \* bound: re-scans that replace a contact in a behaviour

AllDispatchers == {"campaign_worker", "validator"}

\* The environment of the processes.  env_dry: OUTREACH_DRY_RUN=true.
\* campaign_dry: CAMPAIGN_MODE=dry_run.  live: neither.
AllModes == {"live", "env_dry", "campaign_dry"}

\* What a read of outreach:dry_run yields.  unset: no key, or Redis does not
\* answer.  on: '1' or 'true'.  off: any other value.
AllDryKeys == {"unset", "on", "off"}

ASSUME RowsAssumption ==
  /\ LeadOf \in [Rows -> Leads]
  /\ ContactOf \in [Leads -> Contacts \cup {None}]
  /\ None \notin Rows \cup Contacts

ASSUME SettingsAssumption ==
  /\ Deployments \subseteq (SUBSET AllDispatchers)
  /\ Modes \subseteq AllModes
  /\ DryKeys \in [Modes -> SUBSET AllDryKeys]
  /\ SendLimit \in Nat \ {0}
  /\ DailyTarget \in Nat \ {0}
  /\ BurstSize \in Nat \ {0}
  /\ MaxCrashes \in Nat
  /\ MaxLost \in Nat
  /\ MaxMoves \in Nat

VARIABLES
  \* Configuration: the first two are chosen when the system starts.
  deployed,     \* the dispatchers that run
  mode,         \* the environment they run in
  dryKey,       \* outreach:dry_run in Redis, which an operator may set at any time
  \* PostgreSQL.
  status,       \* campaign_logs.status; "review" is pending or pending_review
  stamp,        \* campaign_logs.last_attempt_at: NULL, under or over 15 minutes old
  stamped,      \* rows whose sent_at is not NULL
  rejected,     \* leads whose leads.status is 'rejected'
  contact,      \* leads.contact_username
  \* Redis.
  token,        \* rows with a campaign:delivered:{campaign}:{lead} key
  stopped,      \* a kill switch: the file, outreach:emergency_stop, global:enabled = 0
  cooling,      \* health:user_session:dm_rate_limited_until lies ahead
  sentToday,    \* campaign_sent_today:{today}
  breakTaken,   \* campaign_break_taken:{today}:{sentToday} exists
  \* The dispatchers.
  pc,           \* where each dispatcher is in its iteration
  held,         \* the row it works on
  target,       \* the contact it read when it claimed that row
  tries,        \* the send calls it has made for that row
  keyIsToday    \* the day in the validator's campaign_sent_key is still today

\* What an observer outside the code would note.
VARIABLES
  reached,      \* messages Telegram delivered to each contact
  unrecorded,   \* those of them whose success the code did not get to record
  replaced,     \* contacts that a re-scan took off a lead
  dispatched,   \* rows for which Telegram delivered a message
  approvedBy,   \* who made each row approved: nobody, a human, a crawler
  rejectSlack,  \* send calls validator may still make to a rejected lead
  stopSlack,    \* send calls each dispatcher may still make after a stop
  drySlack,     \* send calls each may still make after a dry run began
  crashes, lost, moves  \* the counters that MaxCrashes, MaxLost and MaxMoves bound

config   == <<deployed, mode, dryKey>>
table    == <<status, stamp, stamped, rejected, contact>>
flags    == <<token, stopped, cooling>>
counters == <<sentToday, breakTaken>>
slack    == <<rejectSlack, stopSlack, drySlack>>
row      == <<held, target, tries>>
hold     == <<row, keyIsToday, slack>>
workers  == <<pc, hold>>
history  == <<reached, unrecorded, replaced, dispatched>>
bounds   == <<crashes, lost, moves>>
ghosts   == <<history, approvedBy, bounds>>
vars     == <<config, table, flags, counters, workers, ghosts>>

Statuses == {"absent", "review", "approved", "processing",
             "sent", "failed", "skipped", "cancelled"}
Stamps   == {"never", "fresh", "stale"}
PCs      == {"idle", "selected", "claimed", "screened", "paced", "cleared",
             "gated", "delivered", "tokened", "undelivered", "noted", "closed"}

-----------------------------------------------------------------------------
(* Helpers. *)

\* The rows whose lead has the contact c now, whatever it was when they were sent.
RowsOf(c)   == {s \in Rows : c # None /\ contact[LeadOf[s]] = c}
SameLead(r) == {s \in Rows : LeadOf[s] = LeadOf[r]}

\* Slips in the claim queries: rows without a verdict by a human are taken too, ...
ClaimableUnreviewed(r) == \/ status[r] \in {"review", "approved"}
                          \/ status[r] = "processing" /\ r \notin stamped /\ stamp[r] = "stale"

\* ... rows that failed are taken again, ...
ClaimableFailed(r) == \/ status[r] \in {"approved", "failed"}
                      \/ status[r] = "processing" /\ r \notin stamped /\ stamp[r] = "stale"

\* ... rows left in processing are not taken again.
ClaimableOnce(r) == status[r] = "approved"

\* The WHERE clause of both claim queries.
Claimable(r) == \/ status[r] = "approved"
                \/ status[r] = "processing" /\ r \notin stamped /\ stamp[r] = "stale"

\* Waiting rows: what a rejection cancels and a delivery closes.
Waiting(r) == status[r] \in {"review", "approved"}

\* A row about which a verdict was recorded.
Settled(r) == status[r] \in {"sent", "failed", "skipped"}

\* A slip: the duplicate check looks at the row's own campaign and lead only.
RowAlreadySent(d) == status[held[d]] = "sent"

ContactAlreadySent(d) == \E s \in RowsOf(target[d]) : status[s] = "sent"

\* A slip: without a key the run is live, whatever the environment says.
DryRunByKey(d) == d = "validator" /\ dryKey = "on"

\* is_dry_run(): a key that is set decides alone, also against the environment;
\* campaign_worker calls it without the Redis connection.
DryRun(d) == IF d = "validator" /\ dryKey # "unset" THEN dryKey = "on" ELSE mode = "env_dry"

\* The status table after row r ends as st and the rows S of its contact are skipped.
Verdict(r, st, S) == [s \in Rows |-> IF s = r THEN st
                                    ELSE IF s \in S THEN "skipped" ELSE status[s]]

\* A slip: the bulk update has no condition on the status.
AllSiblings(d) == RowsOf(target[d]) \ {held[d]}

WaitingSiblings(d) == {s \in RowsOf(target[d]) \ {held[d]} : Waiting(s)}

At(d, place) == d \in deployed /\ pc[d] = place
Goto(d, place) == pc' = [pc EXCEPT ![d] = place]

\* Calls that were left for a row expire when the dispatcher lets go of it.
Spent(n) == IF n > 0 THEN 0 ELSE n

\* The iteration is over: the dispatcher holds no row.
Release(d) == /\ Goto(d, "idle")
              /\ held' = [held EXCEPT ![d] = None]
              /\ target' = [target EXCEPT ![d] = None]
              /\ tries' = [tries EXCEPT ![d] = 0]
              /\ keyIsToday' = (keyIsToday /\ d # "validator")
              /\ stopSlack' = [stopSlack EXCEPT ![d] = Spent(@)]
              /\ drySlack' = [drySlack EXCEPT ![d] = Spent(@)]
              /\ rejectSlack' = IF d = "validator"
                                THEN [l \in Leads |-> Spent(rejectSlack[l])]
                                ELSE rejectSlack

\* The held row ends as st with sent_at set; the rows S of its contact are skipped.
EndRow(d, st, S) == /\ status' = Verdict(held[d], st, S)
                    /\ stamped' = stamped \cup {held[d]} \cup S

-----------------------------------------------------------------------------
Init ==
  /\ deployed \in Deployments
  /\ mode \in Modes
  /\ dryKey = "unset"
  /\ status = [r \in Rows |-> "absent"]
  /\ stamp = [r \in Rows |-> "never"]
  /\ stamped = {}
  /\ rejected = {}
  /\ contact = ContactOf
  /\ token = {}
  /\ stopped = FALSE
  /\ cooling = FALSE
  /\ sentToday = 0
  /\ breakTaken = FALSE
  /\ pc = [d \in AllDispatchers |-> "idle"]
  /\ held = [d \in AllDispatchers |-> None]
  /\ target = [d \in AllDispatchers |-> None]
  /\ tries = [d \in AllDispatchers |-> 0]
  /\ keyIsToday = FALSE
  /\ reached = [c \in Contacts |-> 0]
  /\ unrecorded = [c \in Contacts |-> 0]
  /\ replaced = {}
  /\ dispatched = {}
  /\ approvedBy = [r \in Rows |-> "nobody"]
  /\ rejectSlack = [l \in Leads |-> 0]
  /\ stopSlack = [d \in AllDispatchers |-> 0]
  /\ drySlack = [d \in AllDispatchers |-> 0]
  /\ crashes = 0
  /\ lost = 0
  /\ moves = 0

-----------------------------------------------------------------------------
(* Producers of rows, reviewers, and the re-scan of a lead. *)

\* A campaign, or a crawler that found a contact, queues the lead for review.
Enqueue(r) ==
  /\ status[r] = "absent"
  /\ status' = [status EXCEPT ![r] = "review"]
  /\ UNCHANGED <<config, stamp, stamped, rejected, contact, flags, counters, workers, ghosts>>

\* A crawler enrols a lead whose contact has no row, already approved.
AutoEnrol(r) ==
  /\ contact[LeadOf[r]] # None
  /\ \A s \in RowsOf(contact[LeadOf[r]]) : status[s] = "absent"
  /\ status' = [status EXCEPT ![r] = "approved"]
  /\ approvedBy' = [approvedBy EXCEPT ![r] = "crawler"]
  /\ UNCHANGED <<config, stamp, stamped, rejected, contact, flags, counters, workers, history,
                 bounds>>

\* A human approves a row that waits for review, or a lead that has no row yet.
Approve(r) ==
  /\ \/ status[r] = "review"
     \/ \A s \in SameLead(r) : status[s] = "absent"
  /\ status' = [status EXCEPT ![r] = "approved"]
  /\ approvedBy' = [approvedBy EXCEPT ![r] = "human"]
  /\ UNCHANGED <<config, stamp, stamped, rejected, contact, flags, counters, workers, history,
                 bounds>>

\* The send calls left to dispatcher d if it is at one of the places P with a row in S.
CallsLeft(d, P, S) == IF d \in deployed /\ pc[d] \in P /\ held[d] \in S
                      THEN SendLimit - tries[d] ELSE 0

\* Where validator is after the eligibility check and before the send.
Eligible == {"screened", "paced", "cleared", "gated"}

\* leads.status becomes, or stops being, 'rejected'.
BecomeRejected(l) ==
  /\ rejected' = rejected \cup {l}
  /\ rejectSlack' =
       IF l \in rejected THEN rejectSlack
       ELSE [rejectSlack EXCEPT ![l] =
               CallsLeft("validator", Eligible, {r \in Rows : LeadOf[r] = l})]

Readmit(l) == /\ rejected' = rejected \ {l}
              /\ rejectSlack' = [rejectSlack EXCEPT ![l] = Spent(@)]

\* A human rejects a lead: its waiting rows are cancelled in the same transaction.
Reject(l) ==
  /\ BecomeRejected(l)
  /\ status' = [r \in Rows |-> IF LeadOf[r] = l /\ Waiting(r) THEN "cancelled"
                                                              ELSE status[r]]
  /\ UNCHANGED <<config, stamp, stamped, contact, flags, counters, pc, row, keyIsToday,
                 stopSlack, drySlack, ghosts>>

\* The channel names another contact, or none any more.
ReplaceContact(l) ==
  /\ moves < MaxMoves
  /\ moves' = moves + 1
  /\ \E c \in (Contacts \cup {None}) \ {contact[l]} : contact' = [contact EXCEPT ![l] = c]
  /\ replaced' = replaced \cup ({contact[l]} \ {None})

\* A crawl of the channel overwrites leads.status with 'new' or 'rejected', and
\* leads.contact_username with what it found; the lead's rows stay as they are.
Rescan(l) ==
  /\ Readmit(l) \/ BecomeRejected(l)
  /\ ReplaceContact(l) \/ UNCHANGED <<contact, replaced, moves>>
  /\ UNCHANGED <<config, status, stamp, stamped, flags, counters, pc, row, keyIsToday,
                 stopSlack, drySlack, reached, unrecorded, dispatched, approvedBy, crashes, lost>>

-----------------------------------------------------------------------------
(* Operators and time. *)

\* A kill switch is set, by an operator or by emergency_stop().
Stop ==
  /\ stopped' = TRUE
  /\ stopSlack' = IF stopped THEN stopSlack
                  ELSE [d \in AllDispatchers |-> CallsLeft(d, {"gated"}, Rows)]

EmergencyStop ==
  /\ ~stopped
  /\ Stop
  /\ UNCHANGED <<config, table, token, cooling, counters, pc, row, keyIsToday,
                 rejectSlack, drySlack, ghosts>>

EmergencyResume ==
  /\ stopped
  /\ stopped' = FALSE
  /\ stopSlack' = [d \in AllDispatchers |-> 0]
  /\ UNCHANGED <<config, table, token, cooling, counters, pc, row, keyIsToday,
                 rejectSlack, drySlack, ghosts>>

\* What an operator who knows where each dispatcher looks takes for silenced:
\* validator follows the key before OUTREACH_DRY_RUN, campaign_worker never sees
\* the key, and the safety gate of both follows CAMPAIGN_MODE.
Silenced(d) ==
  \/ mode = "campaign_dry"
  \/ d = "campaign_worker" /\ mode = "env_dry"
  \/ d = "validator" /\ dryKey = "on"
  \/ d = "validator" /\ dryKey = "unset" /\ mode = "env_dry"

\* Where dispatcher d is when its dry-run check lies behind it.
PastDryRun(d) == {"cleared", "gated"} \cup IF d = "validator" THEN {"paced"} ELSE {}

\* outreach:dry_run is set, changed, deleted, or not readable for a while.  Only
\* validator reads it.
SetDryRun(key) ==
  /\ "validator" \in deployed
  /\ dryKey # key
  /\ dryKey' = key
  /\ UNCHANGED <<deployed, mode, table, flags, counters, pc, row, keyIsToday, rejectSlack,
                 stopSlack, ghosts>>
  /\ drySlack' = [d \in AllDispatchers |->
                    IF ~Silenced(d)' THEN 0
                    ELSE IF Silenced(d) THEN drySlack[d] ELSE CallsLeft(d, PastDryRun(d), Rows)]

\* Fifteen minutes pass since the attempt that stamped row r.
Age(r) ==
  /\ stamp[r] = "fresh"
  /\ stamp' = [stamp EXCEPT ![r] = "stale"]
  /\ UNCHANGED <<config, status, stamped, rejected, contact, flags, counters, workers, ghosts>>

\* dm_rate_limited_until is reached.
CoolDown ==
  /\ cooling
  /\ cooling' = FALSE
  /\ UNCHANGED <<config, table, token, stopped, counters, workers, ghosts>>

\* Midnight (UTC): the counters of the new day are empty.
NewDay ==
  /\ sentToday > 0 \/ keyIsToday
  /\ sentToday' = 0
  /\ breakTaken' = FALSE
  /\ keyIsToday' = FALSE
  /\ UNCHANGED <<config, table, flags, pc, row, slack, ghosts>>

-----------------------------------------------------------------------------
(* Claiming.  The kill switches are polled at the top of the iteration.    *)

\* The claim query returns the row and the contact of its lead.
Take(d, r) == /\ held' = [held EXCEPT ![d] = r]
              /\ target' = [target EXCEPT ![d] = contact[LeadOf[r]]]

\* campaign_worker: SELECT ... FOR UPDATE and UPDATE in one transaction.
ClaimRow(r) ==
  /\ At("campaign_worker", "idle")
  /\ ~stopped
  /\ Claimable(r)
  /\ status' = [status EXCEPT ![r] = "processing"]
  /\ Take("campaign_worker", r)
  /\ Goto("campaign_worker", "claimed")
  /\ UNCHANGED <<config, stamp, stamped, rejected, contact, flags, counters, tries,
                 keyIsToday, slack, ghosts>>

\* validator: the SELECT commits, and its row lock is gone, before the UPDATE ...
SelectRow(r) ==
  /\ At("validator", "idle")
  /\ ~stopped
  /\ Claimable(r)
  /\ Take("validator", r)
  /\ Goto("validator", "selected")
  /\ UNCHANGED <<config, table, flags, counters, tries, keyIsToday, slack, ghosts>>

\* ... which does not look at the status the row has by then.
MarkProcessing ==
  /\ At("validator", "selected")
  /\ status' = [status EXCEPT ![held["validator"]] = "processing"]
  /\ Goto("validator", "claimed")
  /\ UNCHANGED <<config, stamp, stamped, rejected, contact, flags, counters, hold, ghosts>>

-----------------------------------------------------------------------------
(* Checks before the send. *)

\* The delivery token exists: the row is marked sent without a send.
TokenHit(d) ==
  /\ At(d, "claimed")
  /\ held[d] \in token
  /\ EndRow(d, "sent", {})
  /\ Release(d)
  /\ UNCHANGED <<config, stamp, rejected, contact, flags, counters, ghosts>>

\* campaign_worker goes on to the contact: no eligibility check, no stamp.
TokenMiss ==
  /\ At("campaign_worker", "claimed")
  /\ held["campaign_worker"] \notin token
  /\ Goto("campaign_worker", "paced")
  /\ UNCHANGED <<config, table, flags, counters, hold, ghosts>>

\* A slip: the eligibility check ignores leads.status.
ScreenInRejected ==
  /\ At("validator", "claimed")
  /\ held["validator"] \notin token
  /\ target["validator"] # None
  /\ stamp' = [stamp EXCEPT ![held["validator"]] = "fresh"]
  /\ Goto("validator", "screened")
  /\ UNCHANGED <<config, status, stamped, rejected, contact, flags, counters, hold, ghosts>>

\* validator: eligible and of acceptable risk; the attempt is stamped.  (The
\* eligibility check for an earlier message compares spellings exactly, so it may
\* miss one; the check before the send ignores case.)
ScreenIn ==
  /\ At("validator", "claimed")
  /\ held["validator"] \notin token
  /\ LeadOf[held["validator"]] \notin rejected
  /\ target["validator"] # None
  /\ stamp' = [stamp EXCEPT ![held["validator"]] = "fresh"]
  /\ Goto("validator", "screened")
  /\ UNCHANGED <<config, status, stamped, rejected, contact, flags, counters, hold, ghosts>>

\* validator: not eligible (rejected, contact already sent, or blacklist, cooldown,
\* failures), too risky, or (after the stamp) an invalid message text.
ScreenOut ==
  /\ \/ At("validator", "claimed") /\ held["validator"] \notin token
     \/ At("validator", "screened")
  /\ EndRow("validator", "skipped", {})
  /\ Release("validator")
  /\ UNCHANGED <<config, stamp, rejected, contact, flags, counters, ghosts>>

\* validator in dry-run mode: nothing is sent.
DrySkip ==
  /\ At("validator", "screened")
  /\ DryRun("validator")
  /\ EndRow("validator", "skipped", {})
  /\ Release("validator")
  /\ UNCHANGED <<config, stamp, rejected, contact, flags, counters, ghosts>>

\* A slip: one message too many.
TargetExceeded == sentToday > DailyTarget

TargetReached == sentToday >= DailyTarget
BreakDue == sentToday > 0 /\ sentToday % BurstSize = 0 /\ ~breakTaken

\* validator sleeps; the row stays 'processing' until its stamp is stale.
Pause ==
  /\ At("validator", "screened")
  /\ ~DryRun("validator")
  /\ TargetReached \/ BreakDue \/ cooling
  /\ breakTaken' = (breakTaken \/ (~TargetReached /\ BreakDue))
  /\ Release("validator")
  /\ UNCHANGED <<config, table, flags, sentToday, ghosts>>

\* validator may send: the key of today's counter is computed here.
Proceed ==
  /\ At("validator", "screened")
  /\ ~DryRun("validator")
  /\ ~TargetReached /\ ~BreakDue /\ ~cooling
  /\ keyIsToday' = TRUE
  /\ Goto("validator", "paced")
  /\ UNCHANGED <<config, table, flags, counters, row, slack, ghosts>>

\* No usable contact: none at all, a bot, or a system keyword.
Unfit(d) ==
  /\ At(d, "paced")
  /\ EndRow(d, "skipped", {})
  /\ Release(d)
  /\ UNCHANGED <<config, stamp, rejected, contact, flags, counters, ghosts>>

\* The contact has a sent row: this row and the contact's waiting rows are skipped.
SkipDuplicate(d) ==
  /\ At(d, "paced")
  /\ ContactAlreadySent(d)
  /\ EndRow(d, "skipped", WaitingSiblings(d))
  /\ Release(d)
  /\ UNCHANGED <<config, stamp, rejected, contact, flags, counters, ghosts>>

Clear(d) ==
  /\ At(d, "paced")
  /\ target[d] # None
  /\ ~ContactAlreadySent(d)
  /\ d = "campaign_worker" => ~DryRun(d)
  /\ Goto(d, "cleared")
  /\ UNCHANGED <<config, table, flags, counters, hold, ghosts>>

\* campaign_worker in dry-run mode: the undefined name `priority` aborts the
\* iteration before the row is marked skipped.
DryAbort ==
  /\ At("campaign_worker", "paced")
  /\ target["campaign_worker"] # None
  /\ ~ContactAlreadySent("campaign_worker")
  /\ DryRun("campaign_worker")
  /\ Release("campaign_worker")
  /\ UNCHANGED <<config, table, flags, counters, ghosts>>

\* The safety gate, stopped: validator puts the row back, campaign_worker skips it.
\* It also blocks CAMPAIGN_MODE=dry_run and contacts called admin or support.
GateBounce ==
  /\ At("validator", "cleared")
  /\ stopped
  /\ status' = [status EXCEPT ![held["validator"]] = "approved"]
  /\ Release("validator")
  /\ UNCHANGED <<config, stamp, stamped, rejected, contact, flags, counters, ghosts>>

GateSkip(d) ==
  /\ At(d, "cleared")
  /\ stopped => d = "campaign_worker"
  /\ EndRow(d, "skipped", {})
  /\ Release(d)
  /\ UNCHANGED <<config, stamp, rejected, contact, flags, counters, ghosts>>

\* A slip: the gate trusts the poll at the top of the iteration.
GatePassUnchecked(d) ==
  /\ At(d, "cleared")
  /\ mode # "campaign_dry"
  /\ Goto(d, "gated")
  /\ UNCHANGED <<config, table, flags, counters, hold, ghosts>>

GatePass(d) ==
  /\ At(d, "cleared")
  /\ ~stopped
  /\ mode # "campaign_dry"
  /\ Goto(d, "gated")
  /\ UNCHANGED <<config, table, flags, counters, hold, ghosts>>

-----------------------------------------------------------------------------
(* The send.  A claimed row gets up to SendLimit send calls: a failed media *)
(* message is followed by a text message, and campaign_worker's request    *)
(* executor repeats a call that failed with a transient error.             *)

\* What Telegram delivers, whatever the caller learns of it.
Dispatch(d) ==
  LET lead == LeadOf[held[d]] IN
  /\ reached' = [reached EXCEPT ![target[d]] = @ + 1]
  /\ dispatched' = dispatched \cup {held[d]}
  /\ rejectSlack' = IF lead \in rejected /\ d = "validator"
                    THEN [rejectSlack EXCEPT ![lead] = @ - 1] ELSE rejectSlack
  /\ stopSlack' = IF stopped THEN [stopSlack EXCEPT ![d] = @ - 1] ELSE stopSlack
  /\ drySlack' = IF Silenced(d) THEN [drySlack EXCEPT ![d] = @ - 1] ELSE drySlack

\* A slip: the retries are not counted.
AnotherTryUncounted(d) ==
  /\ tries' = [tries EXCEPT ![d] = @ + 1]
  /\ UNCHANGED pc \/ Goto(d, "undelivered")

\* One more send call was made: try again, if calls are left, or give up.
AnotherTry(d) ==
  /\ tries' = [tries EXCEPT ![d] = @ + 1]
  /\ \/ tries[d] + 1 < SendLimit /\ UNCHANGED pc
     \/ Goto(d, "undelivered")

Deliver(d) ==
  /\ At(d, "gated")
  /\ Dispatch(d)
  /\ tries' = [tries EXCEPT ![d] = @ + 1]
  /\ Goto(d, "delivered")
  /\ UNCHANGED <<config, table, flags, counters, held, target, keyIsToday, unrecorded,
                 replaced, approvedBy, bounds>>

\* Telegram delivers the message but the call raises (timeout, lost connection).
LoseReply(d) ==
  /\ At(d, "gated")
  /\ lost < MaxLost
  /\ lost' = lost + 1
  /\ Dispatch(d)
  /\ unrecorded' = [unrecorded EXCEPT ![target[d]] = @ + 1]
  /\ AnotherTry(d)
  /\ UNCHANGED <<config, table, flags, counters, held, target, keyIsToday, replaced,
                 approvedBy, crashes, moves>>

SendFails(d) ==
  /\ At(d, "gated")
  /\ AnotherTry(d)
  /\ UNCHANGED <<config, table, flags, counters, held, target, keyIsToday, slack, ghosts>>

\* FloodWait, PeerFlood, or an error text that reads like one: emergency_stop().
\* (When that call fails, the failure is swallowed: SendFails.)
Flood(d) ==
  /\ At(d, "gated")
  /\ Stop
  /\ cooling' = (cooling \/ d = "validator")
  /\ tries' = [tries EXCEPT ![d] = @ + 1]
  /\ Goto(d, "undelivered")
  /\ UNCHANGED <<config, table, token, counters, held, target, keyIsToday, rejectSlack,
                 drySlack, ghosts>>

\* campaign_worker is shutting down: execute_request returns None without a
\* send, which its caller takes for success.
ShutdownReturn ==
  /\ At("campaign_worker", "gated")
  /\ Goto("campaign_worker", "delivered")
  /\ UNCHANGED <<config, table, flags, counters, hold, ghosts>>

-----------------------------------------------------------------------------
(* Recording the result. *)

\* campaign_worker sets the delivery token before it touches the database ...
MarkToken ==
  /\ At("campaign_worker", "delivered")
  /\ token' = token \cup {held["campaign_worker"]}
  /\ Goto("campaign_worker", "tokened")
  /\ UNCHANGED <<config, table, stopped, cooling, counters, hold, ghosts>>

\* ... and then commits the row, the lead and the contact's other rows at once.
CommitSent ==
  /\ At("campaign_worker", "tokened")
  /\ EndRow("campaign_worker", "sent", WaitingSiblings("campaign_worker"))
  /\ rejected' = rejected \ {LeadOf[held["campaign_worker"]]}
  /\ Release("campaign_worker")
  /\ UNCHANGED <<config, stamp, contact, flags, counters, ghosts>>

\* validator commits the row by itself and sets no token; ...
NoteSent ==
  /\ At("validator", "delivered")
  /\ EndRow("validator", "sent", {})
  /\ Goto("validator", "noted")
  /\ UNCHANGED <<config, stamp, rejected, contact, flags, counters, hold, ghosts>>

\* ... then the lead ('contacted') and the contact's other rows, ...
CloseSent ==
  LET r == held["validator"] IN
  /\ At("validator", "noted")
  /\ status' = [s \in Rows |-> IF s \in WaitingSiblings("validator") THEN "skipped" ELSE status[s]]
  /\ stamped' = stamped \cup WaitingSiblings("validator")
  /\ rejected' = rejected \ {LeadOf[r]}
  /\ Goto("validator", "closed")
  /\ UNCHANGED <<config, stamp, contact, flags, counters, hold, ghosts>>

\* ... and last the counter of the day on which its key was computed.
CountSent ==
  /\ At("validator", "closed")
  /\ sentToday' = IF keyIsToday THEN sentToday + 1 ELSE sentToday
  /\ breakTaken' = (breakTaken /\ ~keyIsToday)
  /\ Release("validator")
  /\ UNCHANGED <<config, table, flags, ghosts>>

MarkFailed(d) ==
  /\ At(d, "undelivered")
  /\ EndRow(d, "failed", {})
  /\ Release(d)
  /\ UNCHANGED <<config, stamp, rejected, contact, flags, counters, ghosts>>

\* The process dies and restarts, or an exception (PostgreSQL, Redis) ends the
\* iteration: what was not committed is lost, and the row keeps its status.
Abandon(d) ==
  /\ d \in deployed /\ pc[d] # "idle"
  /\ crashes < MaxCrashes
  /\ crashes' = crashes + 1
  /\ unrecorded' = IF pc[d] \in {"delivered", "tokened"} /\ held[d] \in dispatched
                   THEN [unrecorded EXCEPT ![target[d]] = @ + 1]
                   ELSE unrecorded
  /\ Release(d)
  /\ UNCHANGED <<config, table, flags, counters, reached, replaced, dispatched, approvedBy,
                 lost, moves>>

-----------------------------------------------------------------------------
Environment ==
  \/ \E r \in Rows : Enqueue(r) \/ AutoEnrol(r) \/ Approve(r) \/ Age(r)
  \/ \E l \in Leads : Reject(l) \/ Rescan(l)
  \/ EmergencyStop \/ EmergencyResume \/ CoolDown \/ NewDay
  \/ \E key \in DryKeys[mode] : SetDryRun(key)

CampaignWorkerStep ==
  \/ \E r \in Rows : ClaimRow(r)
  \/ TokenMiss \/ DryAbort \/ ShutdownReturn \/ MarkToken \/ CommitSent

ValidatorStep ==
  \/ \E r \in Rows : SelectRow(r)
  \/ MarkProcessing \/ ScreenIn \/ ScreenOut \/ DrySkip \/ Pause \/ Proceed
  \/ GateBounce \/ NoteSent \/ CloseSent \/ CountSent

DispatcherStep(d) ==
  \/ TokenHit(d) \/ Unfit(d) \/ SkipDuplicate(d) \/ Clear(d) \/ GateSkip(d) \/ GatePass(d)
  \/ Deliver(d) \/ LoseReply(d) \/ SendFails(d) \/ Flood(d) \/ MarkFailed(d)

Next == \/ Environment
        \/ CampaignWorkerStep
        \/ ValidatorStep
        \/ \E d \in AllDispatchers : DispatcherStep(d) \/ Abandon(d)

Spec == Init /\ [][Next]_vars

\* A running process takes its next step, and time passes.  Nothing is assumed
\* of people (approvals, stops, resumes), of crawlers, or of crashes.
Fairness ==
  /\ WF_vars(CampaignWorkerStep \/ DispatcherStep("campaign_worker"))
  /\ WF_vars(ValidatorStep \/ DispatcherStep("validator"))
  /\ \A r \in Rows : WF_vars(Age(r))
  /\ WF_vars(CoolDown)
  /\ WF_vars(NewDay)

FairSpec == Spec /\ Fairness

-----------------------------------------------------------------------------
(* Properties. *)

\* One dispatcher works on the table.
Exclusive == \A d, e \in deployed : d = e

\* Every variable has its type.
TypeOK ==
  /\ deployed \in Deployments
  /\ mode \in Modes
  /\ dryKey \in AllDryKeys
  /\ status \in [Rows -> Statuses]
  /\ stamp \in [Rows -> Stamps]
  /\ stamped \subseteq Rows
  /\ rejected \subseteq Leads
  /\ contact \in [Leads -> Contacts \cup {None}]
  /\ token \subseteq Rows
  /\ stopped \in BOOLEAN
  /\ cooling \in BOOLEAN
  /\ sentToday \in Nat
  /\ breakTaken \in BOOLEAN
  /\ keyIsToday \in BOOLEAN
  /\ pc \in [AllDispatchers -> PCs]
  /\ held \in [AllDispatchers -> Rows \cup {None}]
  /\ \A d \in AllDispatchers : pc[d] # "idle" => held[d] \in Rows
  /\ target \in [AllDispatchers -> Contacts \cup {None}]
  /\ tries \in [AllDispatchers -> 0..SendLimit]
  /\ reached \in [Contacts -> Nat]
  /\ unrecorded \in [Contacts -> Nat]
  /\ replaced \subseteq Contacts
  /\ dispatched \subseteq Rows
  /\ approvedBy \in [Rows -> {"nobody", "human", "crawler"}]
  /\ rejectSlack \in [Leads -> Int]
  /\ stopSlack \in [AllDispatchers -> Int]
  /\ drySlack \in [AllDispatchers -> Int]
  /\ crashes \in 0..MaxCrashes
  /\ lost \in 0..MaxLost
  /\ moves \in 0..MaxMoves

\* A single dispatcher messages a contact once, through whichever of the
\* contact's rows and campaigns; every further message is due to one whose
\* success the code could not record (lost reply, or crash before the commit).
\* Excepted are contacts that a re-scan took off a lead: it takes the lead's sent
\* row out of sight of the duplicate check, which goes by the lead's contact of now.
DuplicatesExplained ==
  Exclusive => \A c \in Contacts \ replaced : reached[c] <= 1 + unrecorded[c]

\* A stop reaches every dispatcher at once: after it, a dispatcher makes only the
\* send calls left for a row with which it had already passed the safety gate.
StopBoundsDispatch == \A d \in AllDispatchers : stopSlack[d] >= 0

\* VALIDATOR sends nothing to a lead while it is rejected, except in the calls left
\* for a row whose eligibility check preceded the rejection.  It says nothing of
\* campaign_worker, which has no such check and sends to rejected leads, although
\* rejection_learner.py (lines 5 and 102) promises that no message is sent to them.
RejectionHonoured == \A l \in Leads : rejectSlack[l] >= 0

\* While a dispatcher is silenced by the settings that it looks at, it sends
\* nothing, whatever the key in Redis was before and for how long: it makes only
\* the calls left for a row whose dry-run check preceded the change of the key.
\* (A key set to "off" takes validator out of the dry run that OUTREACH_DRY_RUN=true
\* asks for, and a key set to "on" does not silence campaign_worker.)
DryRunSilent == \A d \in AllDispatchers : drySlack[d] >= 0

\* Only rows that somebody approved are sent, whatever the claims, the returns
\* to the queue and the cancellations did to them in between.
ApprovedOnly == \A r \in dispatched : approvedBy[r] # "nobody"

\* campaign_sent_today, the counter by which validator paces itself, does not pass
\* the daily target.  It bounds what is counted, not what is delivered: messages
\* whose success was not recorded, those after midnight whose key is of the day
\* before, and all of campaign_worker's are outside the counter.
DailyTargetKept == sentToday <= DailyTarget

\* The verdict about a row is final as soon as no dispatcher works on the row,
\* also with two dispatchers on the table and whatever bulk updates follow.
SettledIsFinal ==
  [][\A r \in Rows :
       Settled(r) /\ (\A d \in deployed : held[d] # r) => status'[r] = status[r]]_vars

\* A row whose dispatcher was lost between the claim and the attempt's stamp: no
\* claim query finds it again.
Stranded(r) == /\ status[r] = "processing" /\ stamp[r] = "never"
               /\ \A d \in deployed : held[d] # r

\* Every row that is due (approved, or claimed and stamped once) ends sent,
\* failed, skipped or cancelled, across crashes, pauses of validator and the
\* re-claims after 15 minutes, unless outreach is stopped or the row stranded.
DueRowResolves ==
  \A r \in Rows :
    status[r] = "approved" \/ (status[r] = "processing" /\ stamp[r] # "never")
      ~> Settled(r) \/ status[r] = "cancelled" \/ stopped \/ Stranded(r)

\* The status values seen as phases of AbstractDelivery.
Phase(st) ==
  CASE st \in {"approved", "processing"} -> "queued"
    [] st \in {"failed", "skipped"}      -> "closed"
    [] st = "cancelled"                  -> "withdrawn"
    [] OTHER                             -> st

Promise == INSTANCE AbstractDelivery WITH phase <- [r \in Rows |-> Phase(status[r])]

\* A single dispatcher implements AbstractDelivery: sent and closed rows are final
\* and a withdrawn row returns to the queue only, through crashes and re-claims.
KeepsPromise == Promise!Spec

-----------------------------------------------------------------------------
(* What the documentation says and the code does not keep: each is refuted *)
(* by a run of its own.                                                    *)

\* docs/ARCHITECTURE_AUDIT.md: after a crash between the send and the commit, the
\* recovering worker marks the row sent without sending it again.
NoResendAfterCrash ==
  [][\A r \in dispatched :
       \A d \in deployed : held[d] = r /\ pc[d] = "gated" => reached' = reached]_vars

\* docs/ARCHITECTURE_AUDIT.md: the delivery token is recorded upon a successful send.
TokenMeansDelivered == token \subseteq dispatched

\* campaign_worker.py, validator.py: only rows a human approved are claimed and sent.
HumanApprovedOnly == \A r \in dispatched : approvedBy[r] = "human"

\* docs/outreach_engine.md: every eligible lead is attempted at least once.
EveryDueRowResolves ==
  \A r \in Rows :
    status[r] = "approved" ~> Settled(r) \/ status[r] = "cancelled" \/ stopped

=============================================================================
