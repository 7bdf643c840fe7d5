--------------------------- MODULE AccountWorkers ----------------------------
(***************************************************************************)
(* The workers on the Telegram accounts, what the validator's tasks do on  *)
(* the user account once it is open, and who joins and leaves groups.      *)
(***************************************************************************)
EXTENDS Replies, Memberships

\* <<setting of the pool, setting of the replies, setting of the memberships>>
CONSTANT Deployments

\* The joiner is a task of the radar.
ASSUME DeploymentAssumption ==
  \A d \in Deployments : d[3].joiner # None => d[1].on[d[3].joiner] = d[3].radar

vars == <<repliesVars, poolVars, memberVars>>

TypeOK == RepliesTypeOK /\ PoolTypeOK /\ MembershipTypeOK

Init ==
  /\ RepliesInit /\ PoolInit /\ MembershipInit
  /\ <<pool, scene, roster>> \in Deployments

OnUserClient(step) == userClient /\ step /\ UNCHANGED <<poolVars, memberVars>>

\* A step of the pool, and what it means for the joiner.
InPool(step) == step /\ JoinerStep /\ UNCHANGED repliesVars

Replying == OnUserClient(ValidatorTasks)
Pooling  == InPool(PoolStep)
Moving   == GroupStep /\ UNCHANGED <<repliesVars, poolVars>>
Outside  == Surroundings /\ UNCHANGED <<poolVars, memberVars>>

\* A process dies, or is shut down: the tasks of the validator with it.
WorkerGoes(w) ==
  /\ Kill(w) \/ Stop(w)
  /\ IF w = Borrower /\ userClient THEN TasksDie ELSE UNCHANGED repliesVars
  /\ GroupTasksDie(w)

Next == \/ Replying \/ Pooling \/ Moving \/ Outside
        \/ \E w \in pool.run : WorkerGoes(w)

Spec == Init /\ [][Next]_vars

\* A worker that is not running is started again until it runs.  The loops go on,
\* a call comes back, a key with a time to live goes unless somebody renews it.
FairSpec ==
  /\ Spec
  /\ \A w \in Workers :
       WF_vars(w \in pool.run /\ InPool(StartLock(w) \/ StartConnect(w)))
  /\ WF_vars(InPool(OpenUserClient))
  /\ \A s \in Sessions : WF_vars(<<lock[s], s>> \notin beats /\ InPool(LockExpires(s)))
  /\ \A t \in Tasks : WF_vars(InPool(Serve(t)))
  /\ WF_vars(OnUserClient(FallbackStep))
  /\ WF_vars(OnUserClient(FollowupStep))
  /\ \A k \in LockKeys : WF_vars(ReplyLockExpires(k) /\ UNCHANGED <<poolVars, memberVars>>)
  /\ WF_vars(LoopStep("cleaner") /\ UNCHANGED <<repliesVars, poolVars>>)

-----------------------------------------------------------------------------
\* What may have gone wrong so far.
Mishaps == failures + upsets

\* A row gets its second message once, however often its contact writes: the
\* handlers and the fallback loop, which read the row long before they send, keep
\* out of each other's way by the lock, as long as it holds.  A crash, or an
\* error, between the send and auto_reply_sent costs one more.
OneSecondMessage ==
  ~overrun /\ scene.delay = 1 => \A r \in Rows : replies[r] <= 1 + Mishaps

\* A row gets one follow-up, whatever fails or dies: it is claimed before the send,
\* and nothing takes a claim back.
OneFollowup == \A r \in Rows : followups[r] <= 1

\* Who wrote before the dispatcher looked into the chat gets no follow-up, and a
\* follow-up reaches the contact of its row, unless the look failed.
FollowUpOnlyToSilent ==
  [][\A r \in Rows : followups'[r] # followups[r] /\ r \notin blind =>
       /\ sentTo'[r] = ContactOf(r)
       /\ writes[ContactOf(r)] > 0 => ContactOf(r) \in since]_vars

\* Once outreach is stopped, by an operator or by a flood error, a handler or the
\* dispatcher lets out at most the message it had past the gate already.
StopHolds == \A g \in Gated : afterStop[g] <= 1

\* Of the rows that the dispatcher claims between two midnights, no more than the
\* limit get a follow-up, but for those that were never counted.
DailyLimitHolds == today <= DailyLimit + Mishaps

\* The session file of an account is open in one TelegramManager at a time, as long
\* as no lock of it went while it was in use.
ExclusiveSession ==
  \A s \in Sessions \ lapsed : \A v, w \in Workers :
    <<v, s>> \in open /\ <<w, s>> \in open => v = w

\* active_jobs, by which accounts are chosen, is the number of calls under way, and
\* of those that raised what nobody takes back, or died.
ActiveJobs ==
  \A s \in Sessions :
    active[s] = leaked[s]
                  + Cardinality({t \in Tasks : task[t].at = "call" /\ task[t].session = s})

\* A request comes to an end, through however many accounts and tries.
RequestEnds == \A t \in Tasks : task[t].at # "idle" ~> task[t].at = "idle"

\* A worker that goes down comes up again, even if a crash left its lock behind,
\* unless a worker that lives has its account.
WorkerStarts ==
  []<>(\A w \in pool.run : phase[w] = "up" \/ lock[Primary[w]] \in Workers \ {w})

\* An answer that was noted but not answered, because the gates were shut, a
\* call failed or the process died, is answered by the fallback loop within the
\* day, as long as the contacts that cannot be reached leave room in its batch.
NoticedIsAnswered ==
  LET lost == {r \in Rows : ContactOf(r) \in scene.unreachable} IN
  []<>(scene.fallback /\ Cardinality(lost) < BatchLimit => Unanswered \subseteq lost)

\* A row that the dispatcher claimed is settled, unless something failed or died.
FollowupSettles ==
  []<>(Mishaps = 0 => \A r \in Rows : logs[r].followup # "processing")

\* "100% IMMUNITY for Admin and Creator channels across all accounts": no loop takes an
\* account out of a group that it runs, unless it came to run it after the loop had
\* looked; the second look, before the request, is at the same dialog.
OwnGroupsStay ==
  [][\A s \in Sessions, g \in Groups :
       <<s, g>> \in admin /\ <<s, g>> \notin member' =>
         \E a \in Loops : <<a, s, g>> \in promoted]_vars

\* An account joins no more groups in a day than the limit, but for those that it
\* joined in place of another account, or whose INCR got lost.
JoinLimitHolds == \A s \in Sessions : joins[s] <= JoinLimit + unbooked[s]

\* The governor takes an account out of no more groups in a day than its limit, but
\* for those that were never counted.
LeaveLimitHolds == \A s \in Sessions : leaves[s] <= LeaveLimit + Mishaps + incidents

\* A rejected group is left, again if need be: the joiner does not know of rejections.
RejectedIsLeft ==
  []<>("cleaner" \in roster.loops =>
         \A s \in Sessions, g \in rejected :
           Connected("cleaner", s) /\ <<s, g>> \in member => <<s, g>> \in admin)
=============================================================================
