------------------------------- MODULE Replies -------------------------------
(***************************************************************************)
(* What a lead receives after the first message: the second message, sent  *)
(* when the lead answers (auto_reply.py), by the handler of the incoming   *)
(* message or by the fallback loop; and the follow-up to a lead that stays *)
(* silent (validator.py, followup_dispatcher_loop).                        *)
(*                                                                         *)
(* All of it runs as tasks of one asyncio loop in the validator, on one    *)
(* Telegram account and one database connection in autocommit mode.  An    *)
(* action is what a task does between two awaits at which another task can *)
(* get in between, or what can be lost if the process dies there.          *)
(***************************************************************************)
EXTENDS Integers, FiniteSets, Functions

CONSTANTS
  NumRows,      \* rows of campaign_logs, numbered in the order of sent_at
  Contacts,     \* Telegram users
  Handlers,     \* bound: incoming messages handled at the same time
  BatchLimit,   \* rows of one pass of the fallback loop (5)
  DailyLimit,   \* follow-ups in a day (8)
  MaxWrites,    \* bound: messages that a contact writes
  MaxFailures,  \* bound: failed statements and failed calls
  MaxSwitches,  \* bound: how often somebody stops or resumes outreach
  Scenes,       \* the settings considered
  NoContact

Rows == 1..NumRows
LockKeys == Contacts \X {"id", "name"}

\* A setting: how many rows get a first message; the contact of each row; the rows
\* whose user id the campaign dispatcher stored; the rows whose campaign has no
\* second message; whether the campaign that the fallback loop takes its text from
\* has one; the contacts that Telegram cannot resolve or deliver to;
\* followup_delay_days; then the bounds.
Scene == [rows : 0..NumRows, contact : [Rows -> Contacts], known : SUBSET Rows, quiet : SUBSET Rows,
          fallback : BOOLEAN, unreachable : SUBSET Contacts, delay : {0, 1},
          writes : 0..MaxWrites, failures : 0..MaxFailures, switches : 0..MaxSwitches]

ASSUME RepliesAssumption ==
  /\ NumRows \in Nat /\ BatchLimit \in Nat \ {0} /\ DailyLimit \in Nat \ {0}
  /\ MaxWrites \in Nat /\ MaxFailures \in Nat /\ MaxSwitches \in Nat
  /\ Scenes \subseteq Scene
  /\ NoContact \notin Contacts /\ "dispatcher" \notin Handlers

VARIABLES
  scene,        \* the setting of this behaviour
  logs,         \* campaign_logs: [sent, late, replied, answered, id, followup]
  locks,        \* autoreply_lock:{user id} and autoreply_lock:{username}
  done,         \* autoreply_done:{...}
  stopped,      \* the safety gates are shut: a kill switch, or outreach not enabled
  counted,      \* campaign_followup_sent_today:{date}
  cooling,      \* health:user_session:followup_rate_limited_until
  handler,      \* the tasks of handle_incoming_user_message
  fallback,     \* fallback_loop
  followup      \* followup_dispatcher_loop

\* What an observer outside the code would note.
VARIABLES
  inbox,        \* messages of a contact that the handler has not been given
  writes,       \* messages that a contact wrote
  since,        \* contacts that wrote after the dispatcher looked, or claimed
  replies,      \* second messages that reached the contact, for each row
  followups,    \* follow-ups that left for each row
  sentTo,       \* the contact that the last one of them reached
  blind,        \* rows whose chat could not be inspected
  today,        \* follow-ups claimed since midnight that left
  afterStop,    \* messages of each handler and the dispatcher since outreach stopped
  overrun,      \* a lock expired while its contact was in hand
  switches,     \* counts towards scene.switches
  failures      \* counts towards scene.failures

tables   == <<logs, locks, done>>
gates    == <<stopped, counted, cooling>>
tasks    == <<handler, fallback, followup>>
received == <<replies, followups, sentTo, blind, today, afterStop>>
repliesVars == <<scene, tables, gates, tasks, inbox, writes, since, received, overrun, switches,
                 failures>>

-----------------------------------------------------------------------------
FollowupStatus == {"none", "processing", "sent", "skipped", "failed"}

\* late: sent more than 24 hours ago.  followup_delay_days, if it is not 0, has
\* passed with that.  id: telegram_user_id is set.
LogRow == [sent : BOOLEAN, late : BOOLEAN, replied : BOOLEAN, answered : BOOLEAN,
           id : BOOLEAN, followup : FollowupStatus]

\* at: what the task does next.  batch: the rows that were read and wait, by the
\* lock key each of them had then.
HandlerState  == [at : {"idle", "reply", "record"}, row : 0..NumRows]
FallbackState == [at : {"idle", "next", "send", "record"}, row : 0..NumRows,
                  batch : [Rows -> {"none", "id", "name"}]]
\* peer: the variable of that name, which outlives an iteration.
FollowupState == [at : {"idle", "inspect", "send", "record"}, row : 0..NumRows,
                  peer : Contacts \cup {NoContact}, yesterday : BOOLEAN]

IdleHandler  == [at |-> "idle", row |-> 0]
IdleFallback == [at |-> "idle", row |-> 0, batch |-> [r \in Rows |-> "none"]]
FirstFollowup == [at |-> "idle", row |-> 0, peer |-> NoContact, yesterday |-> FALSE]

\* The tasks behind a gate.
Gated == Handlers \cup {"dispatcher"}
NoneSent == [g \in Gated |-> 0]

RepliesTypeOK ==
  /\ scene \in Scenes
  /\ logs \in [Rows -> LogRow]
  /\ locks \subseteq LockKeys /\ done \subseteq LockKeys
  /\ stopped \in BOOLEAN /\ cooling \in BOOLEAN
  /\ counted \in 0..DailyLimit
  /\ handler \in [Handlers -> HandlerState]
  /\ fallback \in FallbackState
  /\ followup \in FollowupState
  /\ inbox \in [Contacts -> 0..MaxWrites] /\ writes \in [Contacts -> 0..MaxWrites]
  /\ since \subseteq Contacts
  /\ replies \in [Rows -> Nat] /\ followups \in [Rows -> Nat]
  /\ sentTo \in [Rows -> Contacts \cup {NoContact}]
  /\ blind \subseteq Rows
  /\ today \in Nat /\ afterStop \in [Gated -> Nat]
  /\ overrun \in BOOLEAN
  /\ switches \in 0..MaxSwitches /\ failures \in 0..MaxFailures

RepliesInit ==
  /\ scene \in Scenes
  /\ logs = [r \in Rows |-> [sent |-> FALSE, late |-> FALSE, replied |-> FALSE,
                             answered |-> FALSE, id |-> FALSE, followup |-> "none"]]
  /\ locks = {} /\ done = {}
  /\ stopped = FALSE /\ counted = 0 /\ cooling = FALSE
  /\ handler = [h \in Handlers |-> IdleHandler]
  /\ fallback = IdleFallback
  /\ followup = FirstFollowup
  /\ inbox = [c \in Contacts |-> 0] /\ writes = [c \in Contacts |-> 0] /\ since = {}
  /\ replies = [r \in Rows |-> 0] /\ followups = [r \in Rows |-> 0]
  /\ sentTo = [r \in Rows |-> NoContact]
  /\ blind = {} /\ today = 0 /\ afterStop = NoneSent
  /\ overrun = FALSE /\ switches = 0 /\ failures = 0

-----------------------------------------------------------------------------
ContactOf(r) == scene.contact[r]
RowsSentTo(c) == {r \in Rows : logs[r].sent /\ ContactOf(r) = c}

\* What the chat holds of ours: first messages, second ones and follow-ups.
OurMessages(c) ==
  Cardinality(RowsSentTo(c)) + Cardinality({r \in Rows : sentTo[r] = c})
    + FoldFunctionOnSet(+, 0, replies, {r \in Rows : ContactOf(r) = c})

Failure == failures < scene.failures /\ failures' = failures + 1

\* emergency_stop, or what an operator does.  Resuming forgets what left since.
StopOutreach == stopped' = TRUE /\ UNCHANGED afterStop

Leaves(g) == afterStop' = IF stopped THEN [afterStop EXCEPT ![g] = @ + 1] ELSE afterStop

-----------------------------------------------------------------------------
\* Outside the tasks.

\* The campaign dispatcher has sent the first message of the next row.
FirstMessage(r) ==
  /\ r <= scene.rows /\ ~logs[r].sent /\ \A q \in Rows : q < r => logs[q].sent
  /\ logs' = [logs EXCEPT ![r].sent = TRUE, ![r].id = r \in scene.known]
  /\ UNCHANGED <<scene, locks, done, gates, tasks, inbox, writes, since, received, overrun,
                 switches, failures>>

LeadWrites(c) ==
  /\ RowsSentTo(c) # {} /\ writes[c] < scene.writes
  /\ writes' = [writes EXCEPT ![c] = @ + 1]
  /\ inbox' = [inbox EXCEPT ![c] = @ + 1]
  /\ since' = since \cup {c}
  /\ UNCHANGED <<scene, tables, gates, tasks, received, overrun, switches, failures>>

\* 24 hours (and followup_delay_days) have passed.
Ages(r) ==
  /\ logs[r].sent /\ ~logs[r].late
  /\ logs' = [logs EXCEPT ![r].late = TRUE]
  /\ UNCHANGED <<scene, locks, done, gates, tasks, inbox, writes, since, received, overrun,
                 switches, failures>>

Waiting == {r \in Rows : fallback.batch[r] # "none"}

\* The contacts that a handler is busy with, or that wait in a batch.
InHand == {ContactOf(handler[h].row) : h \in {g \in Handlers : handler[g].at # "idle"}}
            \cup {ContactOf(r) : r \in Waiting}

\* 30 seconds have passed.
ReplyLockExpires(k) ==
  /\ k \in locks
  /\ locks' = locks \ {k}
  /\ overrun' = (overrun \/ k[1] \in InHand)
  /\ UNCHANGED <<scene, logs, done, gates, tasks, inbox, writes, since, received, switches,
                 failures>>

\* At midnight (UTC) the dispatcher turns to another key.
Midnight ==
  /\ today > 0
  /\ counted' = 0 /\ today' = 0
  /\ followup' = [followup EXCEPT !.yesterday = followup.at # "idle"]
  /\ UNCHANGED <<scene, tables, stopped, cooling, handler, fallback, inbox, writes, since,
                 replies, followups, sentTo, blind, afterStop, overrun, switches, failures>>

CoolsDown ==
  /\ cooling /\ cooling' = FALSE
  /\ UNCHANGED <<scene, tables, stopped, counted, tasks, inbox, writes, since, received,
                 overrun, switches, failures>>

\* Somebody stops or resumes outreach.
Switch ==
  /\ switches < scene.switches /\ switches' = switches + 1
  /\ \/ ~stopped /\ StopOutreach
     \/ stopped /\ stopped' = FALSE /\ afterStop' = NoneSent
  /\ UNCHANGED <<scene, tables, counted, cooling, tasks, inbox, writes, since, replies,
                 followups, sentTo, blind, today, overrun, failures>>

\* The validator dies, or is stopped, and starts again.  What Telegram has to
\* tell meanwhile is lost.
TasksDie ==
  /\ handler' = [h \in Handlers |-> IdleHandler]
  /\ fallback' = IdleFallback
  /\ followup' = FirstFollowup
  /\ inbox' = [c \in Contacts |-> 0]
  /\ UNCHANGED <<scene, tables, gates, writes, since, received, overrun, switches, failures>>

-----------------------------------------------------------------------------
\* The handler.

Given(c) == inbox[c] > 0 /\ inbox' = [inbox EXCEPT ![c] = @ - 1]

\* A message that comes to nothing: the sender's lock is held, the sender has
\* been answered, or a call or a statement fails before anything is written.
Ignore(c) ==
  /\ Given(c)
  /\ LET key == <<c, "id">> IN
       \/ key \in locks /\ UNCHANGED <<locks, failures>>
       \/ key \notin locks /\ key \in done /\ locks' = locks \cup {key} /\ UNCHANGED failures
       \/ Failure /\ locks' \in {locks, locks \cup {key}}
  /\ UNCHANGED <<scene, logs, done, gates, tasks, writes, since, received, overrun, switches>>

SlipUnattended(c) == <<c, "id">> \notin done

Unattended(c) == <<c, "id">> \notin locks \cup done

SlipMayAnswer(r) == ~logs[r].answered /\ r \notin scene.quiet

MayAnswer(r) == ~logs[r].answered /\ r \notin scene.quiet /\ ~stopped

\* The lock, the query (the last row sent to the contact), user_replied, the gates;
\* then the delay of 8 to 19 s.
Notice(h, c) ==
  /\ handler[h].at = "idle" /\ Given(c) /\ Unattended(c)
  /\ locks' = locks \cup {<<c, "id">>}
  /\ \E r \in RowsSentTo(c) :
       /\ \A q \in RowsSentTo(c) : q <= r
       /\ logs' = [logs EXCEPT ![r].replied = TRUE, ![r].id = TRUE]
       /\ done' = IF logs[r].answered THEN done \cup {<<c, "id">>} ELSE done
       /\ handler' = IF MayAnswer(r) THEN [handler EXCEPT ![h] = [at |-> "reply", row |-> r]]
                     ELSE handler
  /\ UNCHANGED <<scene, gates, fallback, followup, writes, since, received, overrun, switches,
                 failures>>

Reached(r) ==
  /\ replies' = [replies EXCEPT ![r] = @ + 1]
  /\ UNCHANGED <<followups, sentTo, blind, today>>

\* The call succeeds; or it reached Telegram and raises; or it raises, and a
\* flood error stops outreach.
Reply(h) ==
  /\ handler[h].at = "reply"
  /\ \/ /\ Reached(handler[h].row)
        /\ Leaves(h)
        /\ \/ handler' = [handler EXCEPT ![h].at = "record"] /\ UNCHANGED failures
           \/ handler' = [handler EXCEPT ![h] = IdleHandler] /\ Failure
        /\ UNCHANGED stopped
     \/ /\ Failure
        /\ handler' = [handler EXCEPT ![h] = IdleHandler]
        /\ StopOutreach \/ UNCHANGED <<stopped, afterStop>>
        /\ UNCHANGED <<replies, followups, sentTo, blind, today>>
  /\ UNCHANGED <<scene, tables, counted, cooling, fallback, followup, inbox, writes, since,
                 overrun, switches>>

\* auto_reply_sent and the done key; or the statement fails.
RecordReply(h) ==
  /\ handler[h].at = "record"
  /\ LET r == handler[h].row IN
       \/ /\ logs' = [logs EXCEPT ![r].answered = TRUE]
          /\ done' = done \cup {<<ContactOf(r), "id">>}
          /\ UNCHANGED failures
       \/ Failure /\ UNCHANGED <<logs, done>>
  /\ handler' = [handler EXCEPT ![h] = IdleHandler]
  /\ UNCHANGED <<scene, locks, gates, fallback, followup, inbox, writes, since, received,
                 overrun, switches>>

-----------------------------------------------------------------------------
\* The fallback loop.

Unanswered == {r \in Rows : /\ logs[r].sent /\ ~logs[r].late
                            /\ logs[r].replied /\ ~logs[r].answered}

\* LIMIT 5, the oldest first.
ReadBatch ==
  /\ fallback.at = "idle" /\ scene.fallback /\ Unanswered # {}
  /\ LET chosen == {r \in Unanswered : Cardinality({q \in Unanswered : q < r}) < BatchLimit} IN
     fallback' = [at |-> "next", row |-> 0,
                  batch |-> [r \in Rows |-> IF r \notin chosen THEN "none"
                                           ELSE IF logs[r].id THEN "id" ELSE "name"]]
  /\ UNCHANGED <<scene, tables, gates, handler, followup, inbox, writes, since, received,
                 overrun, switches, failures>>

KeyOf(r) == <<ContactOf(r), fallback.batch[r]>>

Without(r) == IF Waiting \subseteq {r} THEN IdleFallback
              ELSE [at |-> "next", row |-> 0, batch |-> [fallback.batch EXCEPT ![r] = "none"]]

SlipTaken(key) == key \in locks \cup done

Taken(key) == key \in locks

TakeRow ==
  /\ fallback.at = "next"
  /\ \E r \in Waiting :
       /\ \A q \in Waiting : r <= q
       /\ IF Taken(KeyOf(r)) THEN fallback' = Without(r) /\ UNCHANGED locks
          ELSE /\ fallback' = [fallback EXCEPT !.at = "send", !.row = r]
               /\ locks' = locks \cup {KeyOf(r)}
  /\ UNCHANGED <<scene, logs, done, gates, handler, followup, inbox, writes, since, received,
                 overrun, switches, failures>>

\* No gate, and no done key.  A flood error ends the batch, any other one the row.
FallbackReply ==
  /\ fallback.at = "send"
  /\ LET r == fallback.row IN
       \/ /\ ContactOf(r) \notin scene.unreachable
          /\ Reached(r) /\ UNCHANGED afterStop
          /\ \/ fallback' = [fallback EXCEPT !.at = "record"] /\ UNCHANGED failures
             \/ fallback' = Without(r) /\ Failure
       \/ /\ IF ContactOf(r) \in scene.unreachable THEN fallback' = Without(r) /\ UNCHANGED failures
             ELSE fallback' \in {Without(r), IdleFallback} /\ Failure
          /\ UNCHANGED received
  /\ UNCHANGED <<scene, tables, gates, handler, followup, inbox, writes, since, overrun, switches>>

RecordFallback ==
  /\ fallback.at = "record"
  /\ LET r == fallback.row IN
       \/ /\ logs' = [logs EXCEPT ![r].answered = TRUE]
          /\ done' = done \cup {KeyOf(r)}
          /\ fallback' = Without(r) /\ UNCHANGED failures
       \/ /\ Failure /\ fallback' \in {Without(r), IdleFallback}
          /\ UNCHANGED <<logs, done>>
  /\ UNCHANGED <<scene, locks, gates, handler, followup, inbox, writes, since, received,
                 overrun, switches>>

-----------------------------------------------------------------------------
\* The follow-up dispatcher.

SlipSilent == {r \in Rows : /\ logs[r].sent /\ logs[r].followup \in {"none", "processing"}
                            /\ ~logs[r].replied /\ (logs[r].late \/ scene.delay = 0)}

Silent == {r \in Rows : /\ logs[r].sent /\ logs[r].followup = "none" /\ ~logs[r].replied
                        /\ (logs[r].late \/ scene.delay = 0)}

Settle(status) ==
  /\ logs' = [logs EXCEPT ![followup.row].followup = status]
  /\ followup' = [followup EXCEPT !.at = "idle", !.row = 0, !.yesterday = FALSE]

\* The oldest silent row is claimed; or Redis fails after the claim.
Claim ==
  /\ followup.at = "idle"
  /\ ~stopped /\ ~cooling /\ counted < DailyLimit
  /\ \E r \in Silent :
       /\ \A q \in Silent : r <= q
       /\ logs' = [logs EXCEPT ![r].followup = "processing"]
       /\ since' = since \ {ContactOf(r)}
       /\ \/ /\ followup' = [followup EXCEPT !.at = "inspect", !.row = r]
             /\ UNCHANGED failures
          \/ Failure /\ UNCHANGED followup
  /\ UNCHANGED <<scene, locks, done, stopped, counted, cooling, handler, fallback, inbox, writes,
                 received, overrun, switches>>

SlipPassGate(peer) ==
  /\ followup' = IF stopped THEN [FirstFollowup EXCEPT !.peer = peer]
                 ELSE [followup EXCEPT !.at = "send", !.peer = peer]
  /\ UNCHANGED logs

\* After the look at the chat: the gate.
PassGate(peer) ==
  IF stopped
  THEN /\ logs' = [logs EXCEPT ![followup.row].followup = "skipped"]
       /\ followup' = [FirstFollowup EXCEPT !.peer = peer]
  ELSE followup' = [followup EXCEPT !.at = "send", !.peer = peer] /\ UNCHANGED logs

SlipConversation(c) == writes[c] + OurMessages(c) > 2

\* An answer, or more than 2 messages.
Conversation(c) == writes[c] > 0 \/ OurMessages(c) > 2

\* Such a chat is left alone.
Inspect ==
  /\ followup.at = "inspect"
  /\ LET r == followup.row
         c == ContactOf(r)
     IN /\ c \notin scene.unreachable
        /\ IF Conversation(c)
           THEN /\ logs' = [logs EXCEPT ![r].replied = TRUE, ![r].followup = "skipped"]
                /\ followup' = [FirstFollowup EXCEPT !.peer = c]
           ELSE PassGate(c)
        /\ since' = since \ {c}
  /\ UNCHANGED <<scene, locks, done, gates, handler, fallback, inbox, writes, received, overrun,
                 switches, failures>>

\* get_input_entity or get_messages raises: on it goes, in the first case with
\* the peer of an earlier row.
InspectFails ==
  /\ followup.at = "inspect"
  /\ LET c == ContactOf(followup.row) IN
       IF c \in scene.unreachable THEN PassGate(followup.peer) /\ UNCHANGED failures
       ELSE Failure /\ \E peer \in {c, followup.peer} : PassGate(peer)
  /\ blind' = blind \cup {followup.row}
  /\ UNCHANGED <<scene, locks, done, gates, handler, fallback, inbox, writes, since, replies,
                 followups, sentTo, today, afterStop, overrun, switches>>

\* A flood error stops outreach for good, and the dispatcher for hours.
SendFollowup ==
  /\ followup.at = "send"
  /\ LET r == followup.row
         peer == followup.peer
     IN \/ /\ peer \notin scene.unreachable \cup {NoContact}
           /\ followups' = [followups EXCEPT ![r] = @ + 1]
           /\ sentTo' = [sentTo EXCEPT ![r] = peer]
           /\ today' = IF followup.yesterday THEN today ELSE today + 1
           /\ Leaves("dispatcher")
           /\ \/ followup' = [followup EXCEPT !.at = "record"] /\ UNCHANGED <<logs, failures>>
              \/ Failure /\ Settle("failed")
           /\ UNCHANGED <<stopped, cooling>>
        \/ /\ IF peer \in scene.unreachable \cup {NoContact}
              THEN UNCHANGED <<stopped, cooling, afterStop, failures>>
              ELSE /\ Failure
                   /\ \/ StopOutreach /\ cooling' = TRUE
                      \/ UNCHANGED <<stopped, cooling, afterStop>>
           /\ Settle("failed")
           /\ UNCHANGED <<followups, sentTo, today>>
  /\ UNCHANGED <<scene, locks, done, counted, handler, fallback, inbox, writes, since, replies,
                 blind, overrun, switches>>

SlipCount == UNCHANGED counted

Count == counted' = IF followup.yesterday THEN counted ELSE counted + 1

\* followup_status, then the counter under the key of the day of the claim; the
\* first of them fails, or the second.
RecordFollowup ==
  /\ followup.at = "record"
  /\ \/ /\ Settle("sent")
        /\ \/ Count /\ UNCHANGED failures
           \/ Failure /\ UNCHANGED counted
     \/ /\ Failure
        /\ followup' = [followup EXCEPT !.at = "idle", !.row = 0, !.yesterday = FALSE]
        /\ UNCHANGED <<logs, counted>>
  /\ UNCHANGED <<scene, locks, done, stopped, cooling, handler, fallback, inbox, writes, since,
                 received, overrun, switches>>

-----------------------------------------------------------------------------
HandlerStep(h)   == (\E c \in Contacts : Notice(h, c)) \/ Reply(h) \/ RecordReply(h)
FallbackStep     == ReadBatch \/ TakeRow \/ FallbackReply \/ RecordFallback
FollowupStep     == Claim \/ Inspect \/ InspectFails \/ SendFollowup \/ RecordFollowup

ValidatorTasks ==
  \/ \E c \in Contacts : Ignore(c)
  \/ \E h \in Handlers : HandlerStep(h)
  \/ FallbackStep \/ FollowupStep

Surroundings ==
  \/ \E r \in Rows : FirstMessage(r) \/ Ages(r)
  \/ \E c \in Contacts : LeadWrites(c)
  \/ \E k \in LockKeys : ReplyLockExpires(k)
  \/ Midnight \/ CoolsDown \/ Switch
=============================================================================
