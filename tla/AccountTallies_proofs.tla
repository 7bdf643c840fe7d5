------------------------ MODULE AccountTallies_proofs ------------------------
(* Proofs of what AccountWorkers counts: the calls that an account is        *)
(* charged with, and the second messages that a row gets.                    *)
EXTENDS AccountWorkers_proofs

-----------------------------------------------------------------------------
(* active_jobs: the calls under way and those that nobody takes back.        *)

\* The calls under way on an account.
InCall(s) == {t \in Tasks : task[t].at = "call" /\ task[t].session = s}

LEMMA SomeTasks ==
  ASSUME NEW S \in SUBSET Tasks
  PROVE  IsFiniteSet(S) /\ Cardinality(S) \in Nat
<1>1. IsFiniteSet(Tasks)  BY PoolAssumption
<1> QED  BY <1>1, FS_Subset, FS_CardinalityType

\* The sum, for one account.
Charged(s) == active[s] = leaked[s] + Cardinality(InCall(s))

LEMMA ChargedAll == ActiveJobs <=> \A s \in Sessions : Charged(s)
BY DEF ActiveJobs, Charged, InCall

\* A request that is neither on the line before nor after a step.
LEMMA NoCall ==
  ASSUME PoolInv, ActiveJobs, NEW t \in Tasks, \A u \in Tasks \ {t} : task'[u] = task[u],
         task[t].at # "call", task'[t].at # "call", UNCHANGED <<active, leaked>>
  PROVE  ActiveJobs'
<1>1. ASSUME NEW s \in Sessions PROVE InCall(s)' = InCall(s)
  BY DEF InCall
<1> QED  BY <1>1, ChargedAll DEF ActiveJobs, InCall

\* A call begins.
LEMMA CallBegins ==
  ASSUME PoolInv, ActiveJobs, NEW t \in Tasks, \A u \in Tasks \ {t} : task'[u] = task[u],
         task[t].at # "call", task'[t].at = "call", task'[t].session = task[t].session,
         active' = [active EXCEPT ![task[t].session] = @ + 1], leaked' = leaked
  PROVE  ActiveJobs'
<1> SUFFICES ASSUME NEW s \in Sessions PROVE active'[s] = leaked'[s] + Cardinality(InCall(s)')
  BY DEF ActiveJobs, InCall
<1>1. Charged(s)  BY ChargedAll
<1>2. active \in [Sessions -> Int] /\ leaked \in [Sessions -> Nat]  BY DEF PoolInv, PoolTypeOK
<1>3. IsFiniteSet(InCall(s)) /\ Cardinality(InCall(s)) \in Nat  BY SomeTasks DEF InCall
<1>4. CASE s = task[t].session
  <2>1. InCall(s)' = InCall(s) \cup {t} /\ t \notin InCall(s)  BY <1>4 DEF InCall
  <2>2. Cardinality(InCall(s)') = Cardinality(InCall(s)) + 1  BY <2>1, <1>3, FS_AddElement
  <2> QED  BY <2>2, <1>1, <1>2, <1>3, <1>4 DEF Charged
<1>5. CASE s # task[t].session
  <2>1. InCall(s)' = InCall(s)  BY <1>5 DEF InCall
  <2> QED  BY <2>1, <1>1, <1>2, <1>5 DEF Charged
<1> QED  BY <1>4, <1>5

\* A call is over: it is taken back, or leaks.
LEMMA CallOff ==
  ASSUME PoolInv, ActiveJobs, NEW t \in Tasks, \A u \in Tasks \ {t} : task'[u] = task[u],
         task[t].at = "call", task'[t].at # "call",
         \/ active' = [active EXCEPT ![task[t].session] = @ - 1] /\ leaked' = leaked
         \/ leaked' = [leaked EXCEPT ![task[t].session] = @ + 1] /\ active' = active
  PROVE  ActiveJobs'
<1> SUFFICES ASSUME NEW s \in Sessions PROVE active'[s] = leaked'[s] + Cardinality(InCall(s)')
  BY DEF ActiveJobs, InCall
<1>1. Charged(s)  BY ChargedAll
<1>2. active \in [Sessions -> Int] /\ leaked \in [Sessions -> Nat]  BY DEF PoolInv, PoolTypeOK
<1>3. IsFiniteSet(InCall(s)) /\ Cardinality(InCall(s)) \in Nat  BY SomeTasks DEF InCall
<1>4. CASE s = task[t].session
  <2>1. InCall(s)' = InCall(s) \ {t} /\ t \in InCall(s)  BY <1>4 DEF InCall
  <2>2. Cardinality(InCall(s)') = Cardinality(InCall(s)) - 1  BY <2>1, <1>3, FS_RemoveElement
  <2>3. \/ active'[s] = active[s] - 1 /\ leaked'[s] = leaked[s]
        \/ active'[s] = active[s] /\ leaked'[s] = leaked[s] + 1
    BY <1>2, <1>4
  <2> QED  BY <2>2, <2>3, <1>1, <1>2, <1>3 DEF Charged
<1>5. CASE s # task[t].session
  <2>1. InCall(s)' = InCall(s)  BY <1>5 DEF InCall
  <2>2. active'[s] = active[s] /\ leaked'[s] = leaked[s]  BY <1>2, <1>5
  <2> QED  BY <2>1, <2>2, <1>1 DEF Charged
<1> QED  BY <1>4, <1>5

LEMMA RequestCharges ==
  ASSUME PoolInv, DownInv, ActiveJobs, NEW t \in Tasks, Serve(t) \/ \E r \in Request : Ask(t, r)
  PROVE  ActiveJobs'
<1>1. \A u \in Tasks \ {t} : task'[u] = task[u]  BY RequestFrame
<1>2. task \in [Tasks -> TaskState]  BY DEF PoolInv, PoolTypeOK
<1>3. CASE Exhausted(t) \/ Choose(t) \/ Connect(t) \/ \E r \in Request : Ask(t, r)
  <2>1. task[t].at # "call" /\ UNCHANGED <<active, leaked>>
    BY <1>3 DEF Exhausted, Choose, Connect, Ask
  <2>2. task'[t].at # "call"
    <3>1. CASE Exhausted(t)  BY <3>1, <1>2 DEF Exhausted, IdleTask
    <3>2. CASE Choose(t)  BY <3>2, <1>2 DEF Choose, TaskState
    <3>3. CASE Connect(t)  BY <3>3, <1>2 DEF Connect, TaskState
    <3>4. CASE \E r \in Request : Ask(t, r)  BY <3>4, <1>2 DEF Ask, IdleTask
    <3> QED  BY <1>3, <3>1, <3>2, <3>3, <3>4
  <2> QED  BY <1>1, <2>1, <2>2, NoCall
<1>4. CASE Try(t)
  <2>1. task[t].at = "try" /\ leaked' = leaked  BY <1>4 DEF Try
  <2>2. CASE /\ task' = [task EXCEPT ![t].at = "call"]
             /\ active' = [active EXCEPT ![task[t].session] = @ + 1]
    <3>1. task'[t].at = "call" /\ task'[t].session = task[t].session  BY <2>2, <1>2 DEF TaskState
    <3> QED  BY <3>1, <2>1, <2>2, <1>1, CallBegins
  <2>3. CASE task' = [task EXCEPT ![t].at = "choose"] /\ active' = active
    <3>1. task'[t].at = "choose"  BY <2>3, <1>2 DEF TaskState
    <3> QED  BY <3>1, <2>1, <2>3, <1>1, NoCall
  <2> QED  BY <1>4, <2>2, <2>3 DEF Try
<1>5. CASE Succeed(t) \/ FloodWait(t) \/ Banned(t) \/ Fail(t) \/ FailUncounted(t)
  <2>1. task[t].at = "call" /\ CallOver(t)
    BY <1>5 DEF Succeed, FloodWait, Banned, Fail, FailUncounted, CallEnds, CallOver
  <2>2. task'[t].at # "call"
    BY <2>1, <1>2 DEF CallOver, Ended, Retry, Another, IdleTask, TaskState
  <2>3. \/ active' = [active EXCEPT ![task[t].session] = @ - 1] /\ leaked' = leaked
        \/ leaked' = [leaked EXCEPT ![task[t].session] = @ + 1] /\ active' = active
    BY <1>5 DEF Succeed, FloodWait, Banned, Fail, FailUncounted, CallEnds
  <2> QED  BY <1>1, <2>1, <2>2, <2>3, CallOff
<1> QED  BY <1>3, <1>4, <1>5 DEF Serve

\* A worker goes, and what it had on the line leaks.
LEMMA GoneCharges ==
  ASSUME PoolInv, ActiveJobs, NEW w \in Workers, Kill(w) \/ Stop(w)
  PROVE  ActiveJobs'
<1> PICK owner \in {None, Stale} : Gone(w, owner)  BY DEF Kill, Stop
<1> SUFFICES ASSUME NEW s \in Sessions PROVE active'[s] = leaked'[s] + Cardinality(InCall(s)')
  BY DEF ActiveJobs, InCall
<1> DEFINE Its == InCall(s) \cap TasksOf(w)
<1>1. Charged(s)  BY ChargedAll
<1>2. active \in [Sessions -> Int] /\ leaked \in [Sessions -> Nat]  BY DEF PoolInv, PoolTypeOK
<1>3. InCall(s) \subseteq Tasks /\ TasksOf(w) \subseteq Tasks /\ Its \subseteq Tasks
  BY DEF InCall, TasksOf
<1>4. /\ IsFiniteSet(InCall(s)) /\ Cardinality(InCall(s)) \in Nat
      /\ IsFiniteSet(TasksOf(w)) /\ Cardinality(Its) \in Nat
  BY <1>3, SomeTasks
<1>5. InCall(s)' = InCall(s) \ TasksOf(w)  BY DEF Gone, InCall, TasksOf, IdleTask
<1>6. Cardinality(InCall(s)') = Cardinality(InCall(s)) - Cardinality(Its)
  BY <1>4, <1>5, FS_Difference
<1>7. Calls(w, s) = Cardinality(Its)
  <2>1. {t \in TasksOf(w) : task[t].at = "call" /\ task[t].session = s} = Its
    BY DEF InCall, TasksOf
  <2> QED  BY <2>1 DEF Calls
<1>8. leaked'[s] = leaked[s] + Cardinality(Its) /\ active'[s] = active[s]
  BY <1>7 DEF Gone
<1> HIDE DEF Its
<1> QED  BY <1>1, <1>2, <1>4, <1>6, <1>8 DEF Charged

LEMMA ChargeStep == HoldInv /\ ActiveJobs /\ [Next]_vars => ActiveJobs'
<1> SUFFICES ASSUME HoldInv, ActiveJobs, [Next]_vars PROVE ActiveJobs'  OBVIOUS
<1>0. PoolInv /\ DownInv /\ pool.run \subseteq Workers
  BY PoolSetting DEF HoldInv, PoolInv, PoolTypeOK
<1>1. CASE PoolStep
  <2>1. CASE \E t \in Tasks : Serve(t) \/ \E r \in Request : Ask(t, r)
    BY <2>1, <1>0, RequestCharges
  <2>2. CASE UNCHANGED <<task, active, leaked>>  BY <2>2 DEF ActiveJobs
  <2>3. CASE \/ \E w \in pool.run : StartLock(w) \/ StartConnect(w) \/ \E s \in Sessions : Beat(w, s)
             \/ OpenUserClient
             \/ \E s \in Sessions : LockExpires(s) \/ StateExpires(s) \/ WaitEnds(s)
    <3>1. UNCHANGED <<task, active, leaked>>
      BY <2>3 DEF StartLock, StartConnect, Beat, OpenUserClient, LockExpires, StateExpires, WaitEnds
    <3> QED  BY <3>1, <2>2
  <2> QED  BY <1>1, <2>1, <2>3 DEF PoolStep
<1>2. CASE \E w \in pool.run : WorkerGoes(w)
  BY <1>0, <1>2, GoneCharges DEF WorkerGoes
<1>3. CASE UNCHANGED poolVars  BY <1>3 DEF poolVars, ActiveJobs
<1> QED  BY <1>1, <1>2, <1>3 DEF Next, Replying, OnUserClient, Pooling, InPool, Moving, Outside, vars

\* active_jobs of an account is the number of calls under way on it and of those that
\* raised what nobody takes back, or whose worker died: it never loses a call, and
\* never counts one twice.
THEOREM JobsAreCounted == Spec => []ActiveJobs
<1>1. Init => HoldInv /\ ActiveJobs
  <2> SUFFICES ASSUME Init PROVE ActiveJobs  BY HoldInit DEF Init
  <2>1. \A s : InCall(s) = {}  BY DEF Init, PoolInit, InCall, IdleTask
  <2>2. \A s \in Sessions : active[s] = 0 /\ leaked[s] = 0  BY DEF Init, PoolInit
  <2>3. \A s \in Sessions : Charged(s)  BY <2>1, <2>2, FS_EmptySet DEF Charged
  <2> QED  BY <2>3, ChargedAll
<1> QED  BY <1>1, HoldStep, ChargeStep, PTL DEF Spec

-----------------------------------------------------------------------------
(* The second message of a row goes out once: whoever is about to send it    *)
(* has the lock on the contact.                                              *)

\* No lock went while its contact was in hand, and the dispatcher waits for a day.
InTime == ~overrun /\ scene.delay = 1

\* Who answered has a user id, or is too late for the fallback loop, as the row is that
\* the dispatcher looks into: it may set user_replied and know no user id.
RowInv == scene.delay = 1 =>
  /\ \A r \in Rows : logs[r].replied => logs[r].sent /\ (logs[r].id \/ logs[r].late)
  /\ followup.at = "inspect" => logs[followup.row].sent /\ logs[followup.row].late

Busy(h) == handler[h].at # "idle"
Sending == fallback.at \in {"send", "record"}
IdKey(r) == <<ContactOf(r), "id">>

\* The rows of a batch have a user id; who is busy with a contact has the lock on it,
\* and nobody else is.
HandInv ==
  /\ \A r \in Waiting : fallback.batch[r] = "id"
  /\ \A h \in Handlers : Busy(h) => IdKey(handler[h].row) \in locks
  /\ Sending => IdKey(fallback.row) \in locks
  /\ \A g, h \in Handlers : Busy(g) /\ Busy(h) /\ g # h =>
       ContactOf(handler[g].row) # ContactOf(handler[h].row)
  /\ \A h \in Handlers : Busy(h) /\ Sending =>
       ContactOf(handler[h].row) # ContactOf(fallback.row)

\* What is about to be answered is not answered, nor is a row of the batch, unless
\* somebody has the lock on its contact.
AnswerInv ==
  /\ \A h \in Handlers : Busy(h) => ~logs[handler[h].row].answered
  /\ Sending => ~logs[fallback.row].answered
  /\ \A r \in Waiting : IdKey(r) \notin locks => ~logs[r].answered

\* The row got its second message, and auto_reply_sent is about to be set.
Recording(r) ==
  \/ \E h \in Handlers : handler[h].at = "record" /\ handler[h].row = r
  \/ fallback.at = "record" /\ fallback.row = r

Booked(r) == IF logs[r].answered \/ Recording(r) THEN 1 ELSE 0

BookedInv == \A r \in Rows : replies[r] <= Booked(r) + Mishaps

SecondInv == RowInv /\ (InTime => HandInv /\ AnswerInv /\ BookedInv)

\* Everybody else only takes locks.
LEMMA OthersLock ==
  ASSUME ReplyTypeInv, [Next]_vars
  PROVE  \/ \E h \in Handlers : HandlerStep(h)
         \/ FallbackStep
         \/ \E k \in LockKeys : ReplyLockExpires(k)
         \/ TasksDie /\ upsets' = upsets + 1
         \/ /\ UNCHANGED <<scene, overrun, handler, fallback, replies>>
            /\ locks \subseteq locks'
            /\ \A r \in Rows : logs'[r].answered = logs[r].answered
<1> DEFINE Same == \A r \in Rows : logs'[r].answered = logs[r].answered
           Still == UNCHANGED <<scene, overrun, handler, fallback, replies>> /\ locks \subseteq locks'
<1>0. logs \in [Rows -> LogRow] /\ (followup.at # "idle" => followup.row \in Rows)
  BY DEF ReplyTypeInv, RepliesTypeOK, ReplyTaskInv
<1>1. ASSUME NEW c \in Contacts, Ignore(c) PROVE Still /\ Same
  BY <1>1 DEF Ignore, gates, tasks, received
<1>2. CASE FollowupStep
  <2>1. CASE Claim  BY <2>1, <1>0 DEF Claim, received, LogRow, Silent
  <2>2. ASSUME NEW p, PassGate(p), followup.at = "inspect" PROVE Same
    BY <2>2, <1>0 DEF PassGate, LogRow
  <2>3. CASE Inspect
    <3>1. Same \/ PassGate(ContactOf(followup.row))
      BY <2>3, <1>0 DEF Inspect, LogRow
    <3> QED  BY <2>2, <2>3, <3>1 DEF Inspect, gates, received
  <2>4. CASE InspectFails  BY <2>2, <2>4 DEF InspectFails, gates
  <2>5. ASSUME NEW st, Settle(st), followup.at # "idle" PROVE Same
    BY <2>5, <1>0 DEF Settle, LogRow
  <2>6. CASE SendFollowup
    <3>1. Same  BY <2>5, <2>6 DEF SendFollowup
    <3> QED  BY <2>6, <3>1 DEF SendFollowup
  <2>7. CASE RecordFollowup
    <3>1. Same  BY <2>5, <2>7 DEF RecordFollowup
    <3> QED  BY <2>7, <3>1 DEF RecordFollowup, received
  <2> QED  BY <1>2, <2>1, <2>3, <2>4, <2>6, <2>7 DEF FollowupStep
<1>3. CASE Surroundings /\ ~\E k \in LockKeys : ReplyLockExpires(k)
  <2>1. ASSUME NEW r \in Rows, FirstMessage(r) \/ Ages(r) PROVE Still /\ Same
    BY <2>1, <1>0 DEF FirstMessage, Ages, gates, tasks, received, LogRow
  <2>2. ASSUME NEW c \in Contacts, LeadWrites(c) PROVE Still /\ Same
    BY <2>2 DEF LeadWrites, tables, gates, tasks, received
  <2>3. CASE Midnight  BY <2>3 DEF Midnight, tables
  <2>4. CASE CoolsDown  BY <2>4 DEF CoolsDown, tables, tasks, received
  <2>5. CASE Switch  BY <2>5 DEF Switch, tables, tasks
  <2> QED  BY <1>3, <2>1, <2>2, <2>3, <2>4, <2>5 DEF Surroundings
<1>4. CASE UNCHANGED repliesVars
  BY <1>4 DEF repliesVars, tables, gates, tasks, received
<1>5. CASE \E w \in pool.run : WorkerGoes(w)
  BY <1>5, <1>4 DEF WorkerGoes, Kill, Stop, Upset
<1> QED  BY <1>1, <1>2, <1>3, <1>4, <1>5 DEF Next, Replying, OnUserClient, Pooling, InPool, Moving,
           Outside, vars, ValidatorTasks

\* The setting does not change, and a lock that went too early is not forgotten.
LEMMA NotForgotten ==
  ASSUME ReplyTypeInv, [Next]_vars
  PROVE  scene' = scene /\ (overrun => overrun')
<1>1. ASSUME NEW h \in Handlers, HandlerStep(h) PROVE UNCHANGED <<scene, overrun>>
  BY <1>1 DEF HandlerStep, Notice, Reply, RecordReply
<1>2. CASE FallbackStep
  <2>1. CASE ReadBatch  BY <2>1 DEF ReadBatch
  <2>2. CASE TakeRow  BY <2>2 DEF TakeRow
  <2>3. CASE FallbackReply  BY <2>3 DEF FallbackReply
  <2>4. CASE RecordFallback  BY <2>4 DEF RecordFallback
  <2> QED  BY <1>2, <2>1, <2>2, <2>3, <2>4 DEF FallbackStep
<1>3. ASSUME NEW k \in LockKeys, ReplyLockExpires(k) PROVE scene' = scene /\ (overrun => overrun')
  BY <1>3 DEF ReplyLockExpires
<1>4. CASE TasksDie  BY <1>4 DEF TasksDie
<1> QED  BY <1>1, <1>2, <1>3, <1>4, OthersLock

LEMMA ContactsAreContacts ==
  ASSUME ReplyTypeInv, NEW r \in Rows
  PROVE  IdKey(r) \in LockKeys
BY SceneType DEF ReplyTypeInv, RepliesTypeOK, IdKey, LockKeys

\* A step after which nobody has more in hand than before.
Recedes ==
  /\ scene' = scene /\ locks \subseteq locks'
  /\ \A g \in Handlers : handler'[g].at # "idle" =>
       handler[g].at # "idle" /\ handler'[g].row = handler[g].row
  /\ fallback'.at \in {"send", "record"} =>
       fallback.at \in {"send", "record"} /\ fallback'.row = fallback.row
  /\ \A q \in Rows : fallback'.batch[q] # "none" => fallback'.batch[q] = fallback.batch[q]

LEMMA RecedingHands ==
  ASSUME ReplyTypeInv, HandInv, Recedes
  PROVE  HandInv'
<1>1. \A r \in Rows : ContactOf(r)' = ContactOf(r) /\ IdKey(r)' = IdKey(r)
  BY DEF Recedes, ContactOf, IdKey
<1>2. \A r \in Waiting' : fallback'.batch[r] = "id"
  BY DEF Recedes, HandInv, Waiting
<1>3. ASSUME NEW h \in Handlers, Busy(h)'
      PROVE  Busy(h) /\ IdKey(handler[h].row)' \in locks'
  BY <1>3 DEF Recedes, HandInv, Busy, IdKey, ContactOf
<1>4. Sending' => Sending /\ IdKey(fallback.row)' \in locks'
  BY DEF Recedes, HandInv, Sending, IdKey, ContactOf
<1>5. \A g, h \in Handlers : Busy(g)' /\ Busy(h)' /\ g # h =>
        ContactOf(handler[g].row)' # ContactOf(handler[h].row)'
  BY DEF Recedes, HandInv, Busy, ContactOf
<1>6. \A h \in Handlers : Busy(h)' /\ Sending' =>
        ContactOf(handler[h].row)' # ContactOf(fallback.row)'
  BY DEF Recedes, HandInv, Busy, Sending, ContactOf
<1> QED  BY <1>2, <1>3, <1>4, <1>5, <1>6 DEF HandInv

\* The rows of A are answered in it.
LEMMA RecedingAnswers ==
  ASSUME ReplyTypeInv, AnswerInv, Recedes, NEW A \in SUBSET Rows,
         \A q \in Rows \ A : logs'[q].answered = logs[q].answered,
         \A h \in Handlers : handler'[h].at # "idle" => handler'[h].row \notin A,
         fallback'.at \in {"send", "record"} => fallback'.row \notin A,
         \A q \in A : fallback'.batch[q] # "none" => IdKey(q) \in locks
  PROVE  AnswerInv'
<1>1. \A h \in Handlers : Busy(h)' => ~logs'[handler'[h].row].answered
  BY DEF Recedes, AnswerInv, Busy, ReplyTypeInv, ReplyTaskInv
<1>2. Sending' => ~logs'[fallback'.row].answered
  BY DEF Recedes, AnswerInv, Sending, ReplyTypeInv, ReplyTaskInv
<1>3. ASSUME NEW r \in Waiting', IdKey(r)' \notin locks' PROVE ~logs'[r].answered
  <2>1. r \in Rows /\ r \in Waiting /\ IdKey(r) \notin locks
    BY <1>3 DEF Recedes, Waiting, IdKey, ContactOf
  <2>2. r \notin A  BY <1>3, <2>1 DEF Waiting
  <2> QED  BY <2>1, <2>2 DEF AnswerInv
<1> QED  BY <1>1, <1>2, <1>3 DEF AnswerInv

LEMMA RecedingOnly ==
  ASSUME ReplyTypeInv, HandInv, AnswerInv, Recedes,
         \A q \in Rows : logs'[q].answered = logs[q].answered
  PROVE  HandInv' /\ AnswerInv'
<1>1. PICK A \in SUBSET Rows : A = {}  OBVIOUS
<1>2. AnswerInv'  BY <1>1, RecedingAnswers
<1> QED  BY <1>2, RecedingHands

\* The rows of the tasks are rows.
LEMMA RowsInHand ==
  ASSUME ReplyTypeInv
  PROVE  /\ \A h \in Handlers : Busy(h) => handler[h].row \in Rows
         /\ Sending => fallback.row \in Rows /\ fallback.row \in Waiting
         /\ \A r \in Rows : ContactOf(r) \in Contacts
BY SceneType DEF ReplyTypeInv, RepliesTypeOK, ReplyTaskInv, Busy, Sending, Waiting

\* A message is noticed: nobody had the contact in hand.
LEMMA NoticeHands ==
  ASSUME ReplyTypeInv, HandInv, AnswerInv, NEW h \in Handlers, NEW c \in Contacts, Notice(h, c)
  PROVE  HandInv' /\ AnswerInv'
<1>1. PICK r \in Rows :
        /\ ContactOf(r) = c
        /\ logs' = [logs EXCEPT ![r].replied = TRUE, ![r].id = TRUE]
        /\ \/ handler' = handler
           \/ ~logs[r].answered /\ handler' = [handler EXCEPT ![h] = [at |-> "reply", row |-> r]]
  BY DEF Notice, RowsSentTo, MayAnswer
<1>2. /\ handler[h].at = "idle" /\ <<c, "id">> \notin locks /\ locks' = locks \cup {<<c, "id">>}
      /\ scene' = scene /\ fallback' = fallback
  BY DEF Notice, Unattended
<1>t. logs \in [Rows -> LogRow] /\ handler \in [Handlers -> HandlerState]
  BY DEF ReplyTypeInv, RepliesTypeOK
<1>3. \A q \in Rows : logs'[q].answered = logs[q].answered  BY <1>1, <1>t DEF LogRow
<1>4. CASE handler' = handler
  <2>1. Recedes  BY <1>2, <1>4 DEF Recedes
  <2> QED  BY <2>1, <1>3, RecedingOnly
<1>5. CASE ~logs[r].answered /\ handler' = [handler EXCEPT ![h] = [at |-> "reply", row |-> r]]
  <2>1. /\ handler'[h].at = "reply" /\ handler'[h].row = r
        /\ \A g \in Handlers \ {h} : handler'[g] = handler[g]
    BY <1>5, <1>t
  <2>2. \A q \in Rows : ContactOf(q)' = ContactOf(q) /\ IdKey(q)' = IdKey(q)
    BY <1>2 DEF ContactOf, IdKey
  <2>3. \A g \in Handlers : Busy(g) => handler[g].row \in Rows /\ ContactOf(handler[g].row) # c
    BY <1>2, RowsInHand DEF HandInv, IdKey
  <2>4. Sending => fallback.row \in Rows /\ ContactOf(fallback.row) # c
    BY <1>2, RowsInHand DEF HandInv, IdKey
  <2>5. \A r1 \in Waiting' : fallback'.batch[r1] = "id"  BY <1>2 DEF Waiting, HandInv
  <2>6. ASSUME NEW g \in Handlers, Busy(g)'
        PROVE  IdKey(handler[g].row)' \in locks' /\ ~logs'[handler'[g].row].answered
    <3>1. CASE g = h  BY <3>1, <2>1, <1>1, <1>2, <1>3, <1>5 DEF IdKey, ContactOf
    <3>2. CASE g # h
      <4>1. Busy(g) /\ handler'[g].row = handler[g].row /\ handler[g].row \in Rows
        BY <2>1, <2>3, <2>6, <3>2 DEF Busy
      <4> QED  BY <4>1, <1>2, <1>3 DEF HandInv, AnswerInv, IdKey, ContactOf
    <3> QED  BY <3>1, <3>2
  <2>7. Sending' => IdKey(fallback.row)' \in locks' /\ ~logs'[fallback'.row].answered
    BY <1>2, <1>3, <2>4 DEF Sending, HandInv, AnswerInv, IdKey, ContactOf
  <2>8. ASSUME NEW g \in Handlers, NEW u \in Handlers, Busy(g)', Busy(u)', g # u
        PROVE  ContactOf(handler[g].row)' # ContactOf(handler[u].row)'
    <3>1. CASE g = h  BY <3>1, <2>8, <2>1, <2>3, <1>1, <1>2 DEF Busy, ContactOf
    <3>2. CASE u = h  BY <3>2, <2>8, <2>1, <2>3, <1>1, <1>2 DEF Busy, ContactOf
    <3>3. CASE g # h /\ u # h  BY <3>3, <2>8, <2>1, <1>2 DEF Busy, ContactOf, HandInv
    <3> QED  BY <3>1, <3>2, <3>3
  <2>9. ASSUME NEW g \in Handlers, Busy(g)', Sending'
        PROVE  ContactOf(handler[g].row)' # ContactOf(fallback.row)'
    <3>1. CASE g = h  BY <3>1, <2>9, <2>1, <2>4, <1>1, <1>2 DEF Sending, ContactOf
    <3>2. CASE g # h  BY <3>2, <2>9, <2>1, <1>2 DEF Busy, Sending, ContactOf, HandInv
    <3> QED  BY <3>1, <3>2
  <2>10. \A q \in Waiting' : IdKey(q)' \notin locks' => ~logs'[q].answered
    BY <1>2, <1>3, <2>2 DEF Waiting, AnswerInv
  <2> QED  BY <2>5, <2>6, <2>7, <2>8, <2>9, <2>10 DEF HandInv, AnswerInv
<1> QED  BY <1>1, <1>4, <1>5

\* The other steps of a handler.
LEMMA HandlerHands ==
  ASSUME ReplyTypeInv, HandInv, AnswerInv, NEW h \in Handlers, Reply(h) \/ RecordReply(h)
  PROVE  HandInv' /\ AnswerInv'
<1>t. logs \in [Rows -> LogRow] /\ handler \in [Handlers -> HandlerState]
  BY DEF ReplyTypeInv, RepliesTypeOK
<1>1. CASE Reply(h)
  <2>1. /\ handler[h].at = "reply" /\ UNCHANGED <<scene, locks, fallback, logs>>
        /\ \/ handler' = [handler EXCEPT ![h].at = "record"]
           \/ handler' = [handler EXCEPT ![h] = IdleHandler]
    BY <1>1 DEF Reply, tables
  <2>2. Recedes  BY <2>1, <1>t DEF Recedes, IdleHandler, HandlerState
  <2> QED  BY <2>1, <2>2, RecedingOnly
<1>2. CASE RecordReply(h)
  <2> DEFINE r == handler[h].row
  <2>1. /\ Busy(h) /\ UNCHANGED <<scene, locks, fallback>>
        /\ handler' = [handler EXCEPT ![h] = IdleHandler]
        /\ logs' = [logs EXCEPT ![r].answered = TRUE] \/ logs' = logs
    BY <1>2 DEF RecordReply, Busy
  <2>2. r \in Rows /\ IdKey(r) \in locks  BY <2>1, RowsInHand DEF HandInv
  <2>3. Recedes  BY <2>1, <1>t DEF Recedes, IdleHandler
  <2>4. \A q \in Rows \ {r} : logs'[q].answered = logs[q].answered
    BY <2>1, <1>t DEF LogRow
  <2>5. \A g \in Handlers : handler'[g].at # "idle" => handler'[g].row \notin {r}
    <3> SUFFICES ASSUME NEW g \in Handlers, handler'[g].at # "idle" PROVE handler[g].row # r /\ handler'[g] = handler[g]
      OBVIOUS
    <3>1. g # h  BY <2>1, <1>t DEF IdleHandler
    <3>2. handler'[g] = handler[g]  BY <3>1, <2>1, <1>t
    <3> QED  BY <2>1, <3>1, <3>2 DEF HandInv, Busy
  <2>6. fallback'.at \in {"send", "record"} => fallback'.row \notin {r}
    BY <2>1 DEF HandInv, Sending
  <2>7. \A q \in {r} : fallback'.batch[q] # "none" => IdKey(q) \in locks  BY <2>2
  <2>8. AnswerInv'
    <3> HIDE DEF r
    <3> QED  BY <2>2, <2>3, <2>4, <2>5, <2>6, <2>7, RecedingAnswers
  <2> QED  BY <2>3, <2>8, RecedingHands
<1> QED  BY <1>1, <1>2

\* Dropping a row, or all of them, from the batch.
LEMMA DroppingRow ==
  ASSUME ReplyTypeInv, NEW r \in Rows, fallback' \in {Without(r), IdleFallback},
         UNCHANGED <<scene, locks, handler>>
  PROVE  /\ Recedes /\ fallback'.at \notin {"send", "record"}
         /\ fallback'.batch[r] = "none"
<1>1. fallback.batch \in [Rows -> {"none", "id", "name"}]
  BY DEF ReplyTypeInv, RepliesTypeOK, FallbackState
<1>2. /\ fallback'.at \notin {"send", "record"} /\ fallback'.batch[r] = "none"
      /\ \A q \in Rows : fallback'.batch[q] # "none" => fallback'.batch[q] = fallback.batch[q]
  <2>1. CASE fallback' = IdleFallback  BY <2>1 DEF IdleFallback
  <2>2. CASE fallback' = Without(r)  BY <2>2, <2>1, <1>1 DEF Without
  <2> QED  BY <2>1, <2>2
<1> QED  BY <1>2 DEF Recedes

\* The rows of a new batch have a user id, and are not answered.
LEMMA BatchHands ==
  ASSUME ReplyTypeInv, RowInv, scene.delay = 1, HandInv, AnswerInv, ReadBatch
  PROVE  HandInv' /\ AnswerInv'
<1>1. PICK chosen \in SUBSET Unanswered :
        /\ fallback.at = "idle" /\ UNCHANGED <<scene, logs, locks, handler>>
        /\ fallback' = [at |-> "next", row |-> 0,
                        batch |-> [r \in Rows |-> IF r \notin chosen THEN "none"
                                                  ELSE IF logs[r].id THEN "id" ELSE "name"]]
  <2> DEFINE C == {r \in Unanswered : Cardinality({q \in Unanswered : q < r}) < BatchLimit}
  <2>1. C \in SUBSET Unanswered  OBVIOUS
  <2>2. /\ fallback.at = "idle" /\ UNCHANGED <<scene, logs, locks, handler>>
        /\ fallback' = [at |-> "next", row |-> 0,
                        batch |-> [r \in Rows |-> IF r \notin C THEN "none"
                                                  ELSE IF logs[r].id THEN "id" ELSE "name"]]
    BY DEF ReadBatch, tables
  <2> HIDE DEF C
  <2> QED  BY <2>1, <2>2
<1>2. ASSUME NEW r \in Waiting'
      PROVE  r \in Rows /\ fallback'.batch[r] = "id" /\ ~logs'[r].answered
  <2>1. r \in Rows /\ fallback'.batch[r] # "none"  BY DEF Waiting
  <2>2. r \in Unanswered  BY <1>1, <2>1
  <2>3. logs[r].id /\ ~logs[r].answered  BY <2>2 DEF Unanswered, RowInv
  <2> QED  BY <1>1, <2>1, <2>3
<1>3. ~Sending'  BY <1>1 DEF Sending
<1>4. \A h \in Handlers : /\ Busy(h)' <=> Busy(h)
                          /\ IdKey(handler[h].row)' = IdKey(handler[h].row)
                          /\ ContactOf(handler[h].row)' = ContactOf(handler[h].row)
  BY <1>1 DEF Busy, IdKey, ContactOf
<1>5. HandInv'
  BY <1>1, <1>2, <1>3, <1>4 DEF HandInv
<1>6. \A h \in Handlers : Busy(h)' => ~logs'[handler'[h].row].answered
  BY <1>1, <1>4 DEF AnswerInv
<1> QED  BY <1>2, <1>3, <1>5, <1>6 DEF AnswerInv

\* The loop takes a row whose lock is free: nobody is busy with the contact.
LEMMA TakeHands ==
  ASSUME ReplyTypeInv, HandInv, AnswerInv, TakeRow
  PROVE  HandInv' /\ AnswerInv'
<1>1. PICK r \in Rows :
        /\ r \in Waiting /\ fallback.at = "next" /\ UNCHANGED <<scene, logs, handler>>
        /\ \/ fallback' = Without(r) /\ UNCHANGED locks
           \/ /\ KeyOf(r) \notin locks /\ fallback' = [fallback EXCEPT !.at = "send", !.row = r]
              /\ locks' = locks \cup {KeyOf(r)}
  BY DEF TakeRow, Waiting, Taken
<1>2. CASE fallback' = Without(r) /\ UNCHANGED locks
  <2>1. Recedes  BY <1>1, <1>2, DroppingRow
  <2> QED  BY <2>1, <1>1, RecedingOnly
<1>3. CASE /\ KeyOf(r) \notin locks /\ fallback' = [fallback EXCEPT !.at = "send", !.row = r]
           /\ locks' = locks \cup {KeyOf(r)}
  <2>1. KeyOf(r) = IdKey(r)  BY <1>1 DEF HandInv, KeyOf, IdKey
  <2>2. fallback \in FallbackState  BY DEF ReplyTypeInv, RepliesTypeOK
  <2>3. fallback'.at = "send" /\ fallback'.row = r /\ fallback'.batch = fallback.batch
    BY <1>3, <2>2 DEF FallbackState
  <2>4. Waiting' = Waiting  BY <2>3 DEF Waiting
  <2>5. ~logs[r].answered  BY <1>1, <1>3, <2>1 DEF AnswerInv
  <2>6. \A h \in Handlers : /\ Busy(h)' <=> Busy(h)
                            /\ IdKey(handler[h].row)' = IdKey(handler[h].row)
                            /\ ContactOf(handler[h].row)' = ContactOf(handler[h].row)
                            /\ handler'[h] = handler[h]
    BY <1>1 DEF Busy, IdKey, ContactOf
  <2>7. /\ IdKey(fallback.row)' = IdKey(r) /\ ContactOf(fallback.row)' = ContactOf(r)
        /\ \A q \in Rows : IdKey(q)' = IdKey(q)
    BY <1>1, <2>3 DEF IdKey, ContactOf
  <2>8. \A h \in Handlers : Busy(h) => ContactOf(handler[h].row) # ContactOf(r)
    BY <1>3, <2>1 DEF HandInv, IdKey
  <2>9. HandInv'
    <3>1. \A q \in Waiting' : fallback'.batch[q] = "id"  BY <2>3, <2>4 DEF HandInv
    <3>2. \A h \in Handlers : Busy(h)' => IdKey(handler[h].row)' \in locks'
      BY <1>3, <2>6 DEF HandInv
    <3>3. IdKey(fallback.row)' \in locks'  BY <1>3, <2>1, <2>7
    <3>4. \A g, h \in Handlers : Busy(g)' /\ Busy(h)' /\ g # h =>
            ContactOf(handler[g].row)' # ContactOf(handler[h].row)'
      BY <2>6 DEF HandInv
    <3>5. \A h \in Handlers : Busy(h)' => ContactOf(handler[h].row)' # ContactOf(fallback.row)'
      BY <2>6, <2>7, <2>8
    <3> QED  BY <3>1, <3>2, <3>3, <3>4, <3>5 DEF HandInv
  <2>10. AnswerInv'
    <3>1. \A h \in Handlers : Busy(h)' => ~logs'[handler'[h].row].answered
      BY <1>1, <2>6 DEF AnswerInv
    <3>2. ~logs'[fallback'.row].answered  BY <1>1, <2>3, <2>5
    <3>3. \A q \in Waiting' : IdKey(q)' \notin locks' => ~logs'[q].answered
      BY <1>1, <1>3, <2>4, <2>7 DEF AnswerInv, Waiting
    <3> QED  BY <3>1, <3>2, <3>3 DEF AnswerInv
  <2> QED  BY <2>9, <2>10
<1> QED  BY <1>1, <1>2, <1>3

\* The loop sends, and records.
LEMMA FallbackHands ==
  ASSUME ReplyTypeInv, HandInv, AnswerInv, FallbackReply \/ RecordFallback
  PROVE  HandInv' /\ AnswerInv'
<1>t. logs \in [Rows -> LogRow] /\ fallback \in FallbackState
  BY DEF ReplyTypeInv, RepliesTypeOK
<1>1. CASE FallbackReply
  <2>1. /\ fallback.at = "send" /\ UNCHANGED <<scene, locks, handler, logs>>
        /\ \/ fallback' = [fallback EXCEPT !.at = "record"]
           \/ fallback' \in {Without(fallback.row), IdleFallback}
    BY <1>1 DEF FallbackReply, tables
  <2>2. fallback.row \in Rows  BY <2>1, RowsInHand DEF Sending
  <2>3. Recedes
    <3>1. CASE fallback' = [fallback EXCEPT !.at = "record"]
      BY <3>1, <2>1, <1>t DEF Recedes, FallbackState
    <3>2. CASE fallback' \in {Without(fallback.row), IdleFallback}
      BY <3>2, <2>1, <2>2, DroppingRow
    <3> QED  BY <2>1, <3>1, <3>2
  <2> QED  BY <2>1, <2>3, RecedingOnly
<1>2. CASE RecordFallback
  <2>1. PICK r \in Rows :
          /\ r = fallback.row /\ Sending /\ UNCHANGED <<scene, locks, handler>>
          /\ fallback' \in {Without(r), IdleFallback}
          /\ logs' = [logs EXCEPT ![r].answered = TRUE] \/ logs' = logs
    BY <1>2, RowsInHand DEF RecordFallback, Sending
  <2>2. Recedes /\ fallback'.at \notin {"send", "record"} /\ fallback'.batch[r] = "none"
    BY <2>1, DroppingRow
  <2>3. \A q \in Rows \ {r} : logs'[q].answered = logs[q].answered
    BY <2>1, <1>t DEF LogRow
  <2>4. \A h \in Handlers : handler'[h].at # "idle" => handler'[h].row \notin {r}
    BY <2>1 DEF HandInv, Busy
  <2>5. AnswerInv'  BY <2>1, <2>2, <2>3, <2>4, RecedingAnswers
  <2> QED  BY <2>2, <2>5, RecedingHands
<1> QED  BY <1>1, <1>2

\* A lock that goes is that of a contact that nobody has in hand.
LEMMA ExpiryHands ==
  ASSUME ReplyTypeInv, HandInv, AnswerInv, NEW k \in LockKeys, ReplyLockExpires(k), ~overrun'
  PROVE  HandInv' /\ AnswerInv'
<1>1. /\ UNCHANGED <<scene, logs, handler, fallback>> /\ locks' = locks \ {k}
      /\ k[1] \notin InHand
  BY DEF ReplyLockExpires, tasks
<1>2. \A q : IdKey(q)' = IdKey(q) /\ ContactOf(q)' = ContactOf(q)
  BY <1>1 DEF IdKey, ContactOf
<1>3. \A h \in Handlers : Busy(h) => IdKey(handler[h].row) # k
  BY <1>1 DEF InHand, Busy, IdKey
<1>4. \A q \in Waiting : IdKey(q) # k  BY <1>1 DEF InHand, IdKey
<1>5. Sending => IdKey(fallback.row) # k  BY <1>4, RowsInHand
<1>6. Waiting' = Waiting /\ (Sending' <=> Sending) /\ \A h \in Handlers : Busy(h)' <=> Busy(h)
  BY <1>1 DEF Waiting, Sending, Busy
<1>7. HandInv'
  BY <1>1, <1>2, <1>3, <1>5, <1>6 DEF HandInv
<1>8. AnswerInv'
  BY <1>1, <1>2, <1>4, <1>6 DEF AnswerInv
<1> QED  BY <1>7, <1>8

\* Whoever dies has nothing in hand any more.
LEMMA DeathHands ==
  ASSUME ReplyTypeInv, HandInv, AnswerInv, TasksDie
  PROVE  HandInv' /\ AnswerInv'
<1>1. /\ \A h \in Handlers : handler'[h].at = "idle"
      /\ fallback'.at = "idle" /\ \A q \in Rows : fallback'.batch[q] = "none"
  BY DEF TasksDie, IdleHandler, IdleFallback
<1> QED  BY <1>1 DEF HandInv, AnswerInv, Busy, Sending, Waiting

\* Rows only ever get on, and the dispatcher looks into old ones.
GetOn ==
  \A q \in Rows :
    /\ logs[q].sent => logs'[q].sent /\ (logs[q].id => logs'[q].id)
    /\ logs[q].late => logs'[q].late
    /\ logs'[q].replied =>
         logs[q].replied \/ (logs'[q].sent /\ (logs'[q].id \/ logs'[q].late))

LooksBack == followup'.at = "inspect" =>
  \/ followup.at = "inspect" /\ followup'.row = followup.row
  \/ followup'.row \in Rows /\ logs'[followup'.row].sent /\ logs'[followup'.row].late

LEMMA RowsGetOn ==
  ASSUME ReplyTypeInv, RowInv, scene' = scene, GetOn, LooksBack
  PROVE  RowInv'
<1> SUFFICES ASSUME scene.delay = 1
             PROVE  /\ \A r \in Rows : logs'[r].replied => logs'[r].sent /\ (logs'[r].id \/ logs'[r].late)
                    /\ followup'.at = "inspect" => logs'[followup'.row].sent /\ logs'[followup'.row].late
  BY DEF RowInv
<1>1. \A r \in Rows : logs'[r].replied => logs'[r].sent /\ (logs'[r].id \/ logs'[r].late)
  BY DEF GetOn, RowInv
<1>2. followup.at = "inspect" => followup.row \in Rows  BY DEF ReplyTypeInv, ReplyTaskInv
<1>3. followup'.at = "inspect" => logs'[followup'.row].sent /\ logs'[followup'.row].late
  BY <1>2 DEF GetOn, LooksBack, RowInv
<1> QED  BY <1>1, <1>3

LEMMA RowStep ==
  ASSUME ReplyTypeInv, RowInv, [Next]_vars
  PROVE  RowInv'
<1>0. /\ logs \in [Rows -> LogRow] /\ followup \in FollowupState
      /\ followup.at # "idle" => followup.row \in Rows
  BY DEF ReplyTypeInv, RepliesTypeOK, ReplyTaskInv
<1>s. scene' = scene  BY NotForgotten
<1>1. CASE UNCHANGED <<logs, followup>>
  BY <1>1, <1>s DEF RowInv
<1>2. CASE \E h \in Handlers : HandlerStep(h)
  <2>1. PICK h \in Handlers : HandlerStep(h)  BY <1>2
  <2>2. followup' = followup  BY <2>1 DEF HandlerStep, Notice, Reply, RecordReply
  <2>3. LooksBack  BY <2>2 DEF LooksBack
  <2>4. GetOn
    <3>1. CASE \E c \in Contacts : Notice(h, c)
      <4>1. PICK r \in Rows : logs[r].sent /\ logs' = [logs EXCEPT ![r].replied = TRUE, ![r].id = TRUE]
        BY <3>1 DEF Notice, RowsSentTo
      <4> QED  BY <4>1, <1>0 DEF GetOn, LogRow
    <3>2. CASE Reply(h)  BY <3>2 DEF Reply, tables, GetOn
    <3>3. CASE RecordReply(h)
      <4>1. logs' = [logs EXCEPT ![handler[h].row].answered = TRUE] \/ logs' = logs
        BY <3>3 DEF RecordReply
      <4> QED  BY <4>1, <1>0 DEF GetOn, LogRow
    <3> QED  BY <2>1, <3>1, <3>2, <3>3 DEF HandlerStep
  <2> QED  BY <2>3, <2>4, <1>s, RowsGetOn
<1>3. CASE FallbackStep
  <2>1. CASE ReadBatch  BY <2>1, <1>1 DEF ReadBatch, tables
  <2>2. CASE TakeRow  BY <2>2, <1>1 DEF TakeRow
  <2>3. CASE FallbackReply  BY <2>3, <1>1 DEF FallbackReply, tables
  <2>4. CASE RecordFallback
    <3>1. /\ followup' = followup
          /\ logs' = [logs EXCEPT ![fallback.row].answered = TRUE] \/ logs' = logs
      BY <2>4 DEF RecordFallback
    <3>2. GetOn /\ LooksBack  BY <3>1, <1>0 DEF GetOn, LooksBack, LogRow
    <3> QED  BY <3>2, <1>s, RowsGetOn
  <2> QED  BY <1>3, <2>1, <2>2, <2>3, <2>4 DEF FallbackStep
<1>4. CASE FollowupStep
  <2>1. CASE Claim
    <3>1. PICK r \in Rows :
            /\ logs[r].sent /\ (logs[r].late \/ scene.delay = 0)
            /\ logs' = [logs EXCEPT ![r].followup = "processing"]
            /\ \/ followup' = [followup EXCEPT !.at = "inspect", !.row = r]
               \/ followup' = followup
      BY <2>1 DEF Claim, Silent
    <3>2. GetOn  BY <3>1, <1>0 DEF GetOn, LogRow
    <3>3. CASE logs[r].late
      <4>1. LooksBack  BY <3>1, <3>3, <1>0 DEF LooksBack, LogRow, FollowupState
      <4> QED  BY <3>2, <4>1, <1>s, RowsGetOn
    <3>4. CASE scene.delay = 0  BY <3>4, <1>s DEF RowInv
    <3> QED  BY <3>1, <3>3, <3>4
  <2>2. ASSUME NEW p, PassGate(p) PROVE GetOn /\ followup'.at # "inspect"
    <3>1. /\ followup'.at # "inspect"
          /\ logs' = [logs EXCEPT ![followup.row].followup = "skipped"] \/ logs' = logs
      BY <2>2, <1>0 DEF PassGate, FirstFollowup, FollowupState
    <3> QED  BY <3>1, <1>0 DEF GetOn, LogRow
  <2>3. CASE Inspect
    <3>1. CASE PassGate(ContactOf(followup.row))
      <4>1. GetOn /\ LooksBack  BY <2>2, <3>1 DEF LooksBack
      <4> QED  BY <4>1, <1>s, RowsGetOn
    <3>2. CASE ~PassGate(ContactOf(followup.row))
      <4>1. /\ followup' = [FirstFollowup EXCEPT !.peer = ContactOf(followup.row)]
            /\ logs' = [logs EXCEPT ![followup.row].replied = TRUE, ![followup.row].followup = "skipped"]
            /\ followup.at = "inspect" /\ followup.row \in Rows
        BY <2>3, <3>2, <1>0 DEF Inspect
      <4>2. LooksBack  BY <4>1 DEF LooksBack, FirstFollowup
      <4>3. CASE scene.delay = 1
        <5>1. logs[followup.row].sent /\ logs[followup.row].late  BY <4>1, <4>3 DEF RowInv
        <5>2. GetOn  BY <4>1, <5>1, <1>0 DEF GetOn, LogRow
        <5> QED  BY <4>2, <5>2, <1>s, RowsGetOn
      <4>4. CASE scene.delay # 1  BY <4>4, <1>s DEF RowInv
      <4> QED  BY <4>3, <4>4
    <3> QED  BY <3>1, <3>2
  <2>4. CASE InspectFails
    <3>1. GetOn /\ LooksBack  BY <2>2, <2>4 DEF InspectFails, LooksBack
    <3> QED  BY <3>1, <1>s, RowsGetOn
  <2>5. ASSUME NEW st, Settle(st) PROVE GetOn /\ followup'.at # "inspect"
    BY <2>5, <1>0 DEF Settle, GetOn, LogRow, FollowupState
  <2>6. CASE SendFollowup
    <3>1. \/ Settle("failed")
          \/ followup' = [followup EXCEPT !.at = "record"] /\ logs' = logs
      BY <2>6 DEF SendFollowup
    <3>2. GetOn /\ followup'.at # "inspect"
      BY <3>1, <2>5, <1>0 DEF GetOn, FollowupState
    <3> QED  BY <3>2, <1>s, RowsGetOn DEF LooksBack
  <2>7. CASE RecordFollowup
    <3>1. \/ Settle("sent")
          \/ followup' = [followup EXCEPT !.at = "idle", !.row = 0, !.yesterday = FALSE] /\ logs' = logs
      BY <2>7 DEF RecordFollowup
    <3>2. GetOn /\ followup'.at # "inspect"
      BY <3>1, <2>5, <1>0 DEF GetOn, FollowupState
    <3> QED  BY <3>2, <1>s, RowsGetOn DEF LooksBack
  <2> QED  BY <1>4, <2>1, <2>3, <2>4, <2>6, <2>7 DEF FollowupStep
<1>5. CASE Surroundings
  <2>1. ASSUME NEW r \in Rows, FirstMessage(r) \/ Ages(r) PROVE RowInv'
    <3>1. /\ followup' = followup
          /\ \/ ~logs[r].sent /\ logs' = [logs EXCEPT ![r].sent = TRUE, ![r].id = r \in scene.known]
             \/ logs' = [logs EXCEPT ![r].late = TRUE]
      BY <2>1 DEF FirstMessage, Ages, tasks
    <3>2. GetOn /\ LooksBack  BY <3>1, <1>0 DEF GetOn, LooksBack, LogRow
    <3> QED  BY <3>2, <1>s, RowsGetOn
  <2>2. ASSUME NEW c \in Contacts, LeadWrites(c) PROVE RowInv'
    BY <2>2, <1>1 DEF LeadWrites, tables, tasks
  <2>3. ASSUME NEW k \in LockKeys, ReplyLockExpires(k) PROVE RowInv'
    BY <2>3, <1>1 DEF ReplyLockExpires, tasks
  <2>4. CASE Midnight
    <3>1. logs' = logs /\ followup'.at = followup.at /\ followup'.row = followup.row
      BY <2>4, <1>0 DEF Midnight, tables, FollowupState
    <3> QED  BY <3>1, <1>s DEF RowInv
  <2>5. CASE CoolsDown \/ Switch  BY <2>5, <1>1 DEF CoolsDown, Switch, tables, tasks
  <2> QED  BY <1>5, <2>1, <2>2, <2>3, <2>4, <2>5 DEF Surroundings
<1>6. CASE TasksDie
  BY <1>6, <1>s DEF TasksDie, FirstFollowup, RowInv, tables
<1>7. ASSUME NEW c \in Contacts, Ignore(c) PROVE RowInv'
  BY <1>7, <1>1 DEF Ignore, tasks
<1>8. CASE UNCHANGED repliesVars  BY <1>8, <1>1 DEF repliesVars, tables, tasks
<1> QED  BY <1>2, <1>3, <1>4, <1>5, <1>6, <1>7, <1>8 DEF Next, Replying, OnUserClient, Pooling,
           InPool, Moving, Outside, WorkerGoes, vars, ValidatorTasks

LEMMA HandsStep ==
  ASSUME ReplyTypeInv, SecondInv, InTime', [Next]_vars
  PROVE  InTime /\ HandInv /\ AnswerInv /\ HandInv' /\ AnswerInv'
<1>1. scene' = scene /\ InTime  BY NotForgotten DEF InTime
<1>2. RowInv /\ HandInv /\ AnswerInv  BY <1>1 DEF SecondInv
<1>3. HandInv' /\ AnswerInv'
  <2>1. ASSUME NEW h \in Handlers, HandlerStep(h) PROVE HandInv' /\ AnswerInv'
    BY <1>2, <2>1, NoticeHands, HandlerHands DEF HandlerStep
  <2>2. CASE FallbackStep
    BY <1>1, <1>2, <2>2, BatchHands, TakeHands, FallbackHands DEF FallbackStep, InTime
  <2>3. ASSUME NEW k \in LockKeys, ReplyLockExpires(k) PROVE HandInv' /\ AnswerInv'
    BY <1>2, <2>3, ExpiryHands DEF InTime
  <2>4. CASE TasksDie  BY <1>2, <2>4, DeathHands
  <2>5. CASE /\ UNCHANGED <<scene, overrun, handler, fallback, replies>>
             /\ locks \subseteq locks'
             /\ \A r \in Rows : logs'[r].answered = logs[r].answered
    <3>1. Recedes  BY <2>5 DEF Recedes
    <3> QED  BY <1>2, <2>5, <3>1, RecedingOnly
  <2> QED  BY <2>1, <2>2, <2>3, <2>4, <2>5, OthersLock
<1> QED  BY <1>1, <1>2, <1>3

LEMMA MishapFacts ==
  ASSUME PoolInv, ReplyTypeInv, [Next]_vars
  PROVE  /\ Mishaps \in Nat /\ Mishaps' \in Nat /\ Mishaps' >= Mishaps
         /\ Failure \/ upsets' = upsets + 1 => Mishaps' >= Mishaps + 1
<1>1. /\ upsets \in Nat /\ upsets' \in Nat /\ upsets' >= upsets
      /\ failures \in Nat /\ failures' \in Nat /\ failures' >= failures
  BY MishapsGrow
<1> QED  BY <1>1, Sums DEF Mishaps, Failure

\* What a step may do to the messages of a row (n), whether one is booked (b) and the
\* mishaps (m).
LEMMA Booking ==
  ASSUME NEW n \in Nat, NEW b \in {0, 1}, NEW m \in Nat,
         NEW n2 \in Nat, NEW b2 \in {0, 1}, NEW m2 \in Nat, n <= b + m, m2 >= m,
         \/ n2 = n /\ (b2 = 1 \/ b = 0 \/ m2 >= m + 1)
         \/ n2 = n + 1 /\ b = 0 /\ (b2 = 1 \/ m2 >= m + 1)
  PROVE  n2 <= b2 + m2
OBVIOUS

\* A second message goes out for a row that is not booked, and is then, unless something
\* fails; and a row stays booked, unless something fails or dies.
Books(r) ==
  \/ replies'[r] = replies[r] /\ (Booked(r)' = 1 \/ Booked(r) = 0 \/ Mishaps' >= Mishaps + 1)
  \/ /\ replies'[r] = replies[r] + 1 /\ Booked(r) = 0
     /\ Booked(r)' = 1 \/ Mishaps' >= Mishaps + 1

\* Nothing is sent, and nobody who records stops, but for the death of all.
LEMMA NothingSent ==
  ASSUME NEW r \in Rows, replies'[r] = replies[r], logs[r].answered => logs'[r].answered,
         Recording(r) => Recording(r)' \/ logs'[r].answered
  PROVE  Books(r)
<1>1. Booked(r) = 1 => Booked(r)' = 1  BY DEF Booked
<1>2. Booked(r) \in {0, 1}  BY DEF Booked
<1> QED  BY <1>1, <1>2 DEF Books

LEMMA HandlerBooks ==
  ASSUME PoolInv, ReplyTypeInv, HandInv, AnswerInv, [Next]_vars,
         NEW h \in Handlers, HandlerStep(h), NEW r \in Rows
  PROVE  Books(r)
<1>t. /\ logs \in [Rows -> LogRow] /\ handler \in [Handlers -> HandlerState]
      /\ replies \in [Rows -> Nat]
  BY DEF ReplyTypeInv, RepliesTypeOK
<1>1. CASE \E c \in Contacts : Notice(h, c)
  <2>1. PICK q \in Rows :
          /\ logs' = [logs EXCEPT ![q].replied = TRUE, ![q].id = TRUE]
          /\ \/ handler' = handler
             \/ handler' = [handler EXCEPT ![h] = [at |-> "reply", row |-> q]]
    BY <1>1 DEF Notice, RowsSentTo
  <2>2. handler[h].at = "idle" /\ fallback' = fallback /\ replies' = replies
    BY <1>1 DEF Notice, received
  <2>3. logs'[r].answered = logs[r].answered  BY <2>1, <1>t DEF LogRow
  <2>4. \A g \in Handlers : handler[g].at = "record" => handler'[g] = handler[g]
    BY <2>1, <2>2, <1>t
  <2>5. Recording(r) => Recording(r)'  BY <2>2, <2>4 DEF Recording
  <2> QED  BY <2>2, <2>3, <2>5, NothingSent
<1>2. CASE Reply(h)
  <2>1. /\ handler[h].at = "reply" /\ logs' = logs /\ fallback' = fallback
        /\ \/ handler' = [handler EXCEPT ![h].at = "record"]
           \/ handler' = [handler EXCEPT ![h] = IdleHandler]
    BY <1>2 DEF Reply, tables
  <2>2. \A g \in Handlers \ {h} : handler'[g] = handler[g]  BY <2>1, <1>t
  <2>3. Recording(r) => Recording(r)'  BY <2>1, <2>2 DEF Recording
  <2>4. CASE replies'[r] = replies[r]  BY <2>1, <2>3, <2>4, NothingSent
  <2>5. CASE replies'[r] # replies[r]
    <3>1. r = handler[h].row /\ replies'[r] = replies[r] + 1
      BY <1>2, <2>5, <1>t DEF Reply, Reached
    <3>2. ~logs[r].answered /\ Busy(h)  BY <2>1, <3>1 DEF AnswerInv, Busy
    <3>3. ~Recording(r)
      <4>1. \A g \in Handlers \ {h} : ~(handler[g].at = "record" /\ handler[g].row = r)
        BY <3>1, <3>2 DEF HandInv, Busy
      <4>2. ~(fallback.at = "record" /\ fallback.row = r)
        BY <3>1, <3>2 DEF HandInv, Sending
      <4> QED  BY <4>1, <4>2, <2>1 DEF Recording
    <3>4. Booked(r) = 0  BY <3>2, <3>3 DEF Booked
    <3>5. CASE handler' = [handler EXCEPT ![h].at = "record"]
      <4>1. handler'[h].at = "record" /\ handler'[h].row = r  BY <3>1, <3>5, <1>t DEF HandlerState
      <4>2. Booked(r)' = 1  BY <4>1 DEF Booked, Recording
      <4> QED  BY <3>1, <3>4, <4>2 DEF Books
    <3>6. CASE Failure  BY <3>1, <3>4, <3>6, MishapFacts DEF Books
    <3> QED  BY <1>2, <2>5, <3>5, <3>6 DEF Reply
  <2> QED  BY <2>4, <2>5
<1>3. CASE RecordReply(h)
  <2>1. /\ handler[h].at = "record" /\ fallback' = fallback /\ replies' = replies
        /\ handler' = [handler EXCEPT ![h] = IdleHandler]
    BY <1>3 DEF RecordReply, received
  <2>2. CASE Failure
    BY <2>1, <2>2, MishapFacts DEF Books
  <2>3. CASE logs' = [logs EXCEPT ![handler[h].row].answered = TRUE]
    <3>1. handler[h].row \in Rows  BY <2>1, RowsInHand DEF Busy
    <3>2. logs[r].answered \/ r = handler[h].row => logs'[r].answered
      BY <2>3, <3>1, <1>t DEF LogRow
    <3>3. \A g \in Handlers \ {h} : handler'[g] = handler[g]  BY <2>1, <1>t
    <3>4. Recording(r) => Recording(r)' \/ logs'[r].answered
      BY <2>1, <3>2, <3>3 DEF Recording
    <3> QED  BY <2>1, <3>2, <3>4, NothingSent
  <2> QED  BY <1>3, <2>2, <2>3 DEF RecordReply
<1> QED  BY <1>1, <1>2, <1>3 DEF HandlerStep

LEMMA FallbackBooks ==
  ASSUME PoolInv, ReplyTypeInv, HandInv, AnswerInv, [Next]_vars,
         FallbackStep, NEW r \in Rows
  PROVE  Books(r)
<1>t. /\ logs \in [Rows -> LogRow] /\ fallback \in FallbackState
      /\ replies \in [Rows -> Nat]
  BY DEF ReplyTypeInv, RepliesTypeOK
<1>1. CASE ReadBatch \/ TakeRow
  <2>1. UNCHANGED <<logs, handler, replies>> /\ fallback.at # "record"
    <3>1. CASE ReadBatch  BY <3>1 DEF ReadBatch, tables, received
    <3>2. CASE TakeRow  BY <3>2 DEF TakeRow, received
    <3> QED  BY <1>1, <3>1, <3>2
  <2>2. Recording(r) => Recording(r)'  BY <2>1 DEF Recording
  <2> QED  BY <2>1, <2>2, NothingSent
<1>2. CASE FallbackReply
  <2>1. fallback.at = "send" /\ UNCHANGED <<logs, handler>>
    BY <1>2 DEF FallbackReply, tables
  <2>2. Recording(r) => Recording(r)'  BY <2>1 DEF Recording
  <2>3. CASE replies'[r] = replies[r]  BY <2>1, <2>2, <2>3, NothingSent
  <2>4. CASE replies'[r] # replies[r]
    <3>1. r = fallback.row /\ replies'[r] = replies[r] + 1
      BY <1>2, <2>4, <1>t DEF FallbackReply, Reached, received
    <3>2. ~logs[r].answered /\ Sending  BY <2>1, <3>1 DEF AnswerInv, Sending
    <3>3. ~Recording(r)
      BY <2>1, <3>1, <3>2 DEF Recording, HandInv, Busy
    <3>4. Booked(r) = 0  BY <3>2, <3>3 DEF Booked
    <3>5. CASE fallback' = [fallback EXCEPT !.at = "record"]
      <4>1. fallback'.at = "record" /\ fallback'.row = r  BY <3>1, <3>5, <1>t DEF FallbackState
      <4>2. Booked(r)' = 1  BY <4>1 DEF Booked, Recording
      <4> QED  BY <3>1, <3>4, <4>2 DEF Books
    <3>6. CASE Failure  BY <3>1, <3>4, <3>6, MishapFacts DEF Books
    <3> QED  BY <1>2, <2>4, <3>5, <3>6 DEF FallbackReply, received
  <2> QED  BY <2>3, <2>4
<1>3. CASE RecordFallback
  <2>1. fallback.at = "record" /\ UNCHANGED <<handler, replies>>
    BY <1>3 DEF RecordFallback, received
  <2>2. CASE Failure  BY <2>1, <2>2, MishapFacts DEF Books
  <2>3. CASE logs' = [logs EXCEPT ![fallback.row].answered = TRUE]
    <3>1. fallback.row \in Rows  BY <2>1, RowsInHand DEF Sending
    <3>2. logs[r].answered \/ r = fallback.row => logs'[r].answered
      BY <2>3, <3>1, <1>t DEF LogRow
    <3>3. Recording(r) => Recording(r)' \/ logs'[r].answered
      BY <2>1, <3>2 DEF Recording
    <3> QED  BY <2>1, <3>2, <3>3, NothingSent
  <2> QED  BY <1>3, <2>2, <2>3 DEF RecordFallback
<1> QED  BY <1>1, <1>2, <1>3 DEF FallbackStep

LEMMA SecondStep == PoolInv /\ ReplyTypeInv /\ SecondInv /\ [Next]_vars => SecondInv'
<1> SUFFICES ASSUME PoolInv, ReplyTypeInv, SecondInv, [Next]_vars PROVE SecondInv'  OBVIOUS
<1>1. RowInv'  BY RowStep DEF SecondInv
<1> SUFFICES ASSUME InTime' PROVE HandInv' /\ AnswerInv' /\ BookedInv'
  BY <1>1 DEF SecondInv
<1>3. InTime /\ HandInv /\ AnswerInv /\ HandInv' /\ AnswerInv'
  BY HandsStep
<1>4. ASSUME NEW r \in Rows PROVE replies'[r] <= Booked(r)' + Mishaps'
  <2>1. replies[r] <= Booked(r) + Mishaps  BY <1>3 DEF SecondInv, BookedInv
  <2>2. /\ replies[r] \in Nat /\ replies'[r] \in Nat
        /\ Booked(r) \in {0, 1} /\ Booked(r)' \in {0, 1}
        /\ Mishaps \in Nat /\ Mishaps' \in Nat /\ Mishaps' >= Mishaps
        /\ upsets' = upsets + 1 => Mishaps' >= Mishaps + 1
    BY ReplyTypeStep, MishapFacts DEF ReplyTypeInv, RepliesTypeOK, Booked
  <2>3. Books(r)
    <3>1. CASE \E h \in Handlers : HandlerStep(h)  BY <1>3, <3>1, HandlerBooks
    <3>2. CASE FallbackStep  BY <1>3, <3>2, FallbackBooks
    <3>3. ASSUME NEW k \in LockKeys, ReplyLockExpires(k) PROVE Books(r)
      <4>1. UNCHANGED <<logs, handler, fallback, replies>>
        BY <3>3 DEF ReplyLockExpires, tasks, received
      <4>2. Recording(r)' = Recording(r)  BY <4>1 DEF Recording
      <4> QED  BY <4>1, <4>2, NothingSent
    <3>4. CASE TasksDie /\ upsets' = upsets + 1
      BY <2>2, <3>4 DEF Books, TasksDie, received
    <3>5. CASE /\ UNCHANGED <<handler, fallback, replies>>
               /\ \A q \in Rows : logs'[q].answered = logs[q].answered
      <4>1. Recording(r)' = Recording(r)  BY <3>5 DEF Recording
      <4> QED  BY <3>5, <4>1, NothingSent
    <3> QED  BY <3>1, <3>2, <3>3, <3>4, <3>5, OthersLock
  <2>4. PICK n \in Nat, b \in {0, 1}, m \in Nat :
          n = replies[r] /\ b = Booked(r) /\ m = Mishaps
    BY <2>2
  <2>5. PICK n2 \in Nat, b2 \in {0, 1}, m2 \in Nat :
          n2 = replies'[r] /\ b2 = Booked(r)' /\ m2 = Mishaps'
    BY <2>2
  <2>6. n2 <= b2 + m2  BY <2>1, <2>2, <2>3, <2>4, <2>5, Booking DEF Books
  <2> QED  BY <2>5, <2>6
<1> QED  BY <1>3, <1>4 DEF BookedInv

\* A row gets its second message once, however often its contact writes, whether a
\* handler or the fallback loop comes first, and however late each of them acts on what
\* it has read, as long as no lock goes under their hands: a failure or a death between
\* the send and auto_reply_sent costs one more.
THEOREM AnsweredOnce == Spec => []OneSecondMessage
<1> DEFINE Inv == HoldInv /\ ReplyTypeInv /\ SecondInv
<1>1. Init => Inv
  <2> SUFFICES ASSUME Init PROVE SecondInv  BY HoldInit, ReplyInitInv DEF Init
  <2>1. /\ \A r \in Rows : ~logs[r].replied /\ replies[r] = 0
        /\ \A h \in Handlers : handler[h].at = "idle"
        /\ fallback.at = "idle" /\ followup.at = "idle"
        /\ \A r \in Rows : fallback.batch[r] = "none"
        /\ failures = 0 /\ upsets = 0
    BY DEF Init, RepliesInit, PoolInit, IdleHandler, IdleFallback, FirstFollowup
  <2>2. RowInv /\ HandInv /\ AnswerInv
    BY <2>1 DEF RowInv, HandInv, AnswerInv, Busy, Sending, Waiting
  <2>3. BookedInv
    <3>1. Mishaps = 0  BY <2>1 DEF Mishaps
    <3>2. \A r \in Rows : Booked(r) \in {0, 1}  BY DEF Booked
    <3> QED  BY <2>1, <3>1, <3>2 DEF BookedInv
  <2> QED  BY <2>2, <2>3 DEF SecondInv
<1>2. Inv /\ [Next]_vars => Inv'
  BY HoldStep, ReplyTypeStep, SecondStep DEF HoldInv
<1>3. Inv => OneSecondMessage
  <2> SUFFICES ASSUME Inv, InTime, NEW r \in Rows PROVE replies[r] <= 1 + Mishaps
    BY DEF OneSecondMessage, InTime
  <2>1. replies[r] <= Booked(r) + Mishaps  BY DEF SecondInv, BookedInv
  <2>2. Booked(r) \in {0, 1} /\ replies[r] \in Nat
    BY DEF Booked, ReplyTypeInv, RepliesTypeOK
  <2>3. failures \in Nat /\ upsets \in Nat
    BY PoolConstants, ReplyConstants DEF ReplyTypeInv, RepliesTypeOK, HoldInv, PoolInv, PoolTypeOK
  <2>4. Mishaps \in Nat  BY <2>3 DEF Mishaps
  <2> HIDE DEF Inv
  <2> QED  BY <2>1, <2>2, <2>4
<1> QED  BY <1>1, <1>2, <1>3, PTL DEF Spec
=============================================================================
