------------------------ MODULE AccountWorkers_proofs ------------------------
(* Proofs of the safety properties of AccountWorkers, for any workers,       *)
(* accounts, tasks, rows, contacts, settings and bounds.                     *)
EXTENDS AccountWorkers, FiniteSetTheorems, TLAPS

-----------------------------------------------------------------------------
(* The accounts: types, and who is where.                                    *)

\* A request that chose an account has one; a call is within the tries.
TaskInv == \A t \in Tasks :
  /\ task[t].at \in {"connect", "try", "call"} => task[t].session \in Sessions
  /\ task[t].at = "call" => task[t].tries < MaxTries

PoolInv == PoolTypeOK /\ TaskInv

\* The constants are what they are declared to be.
LEMMA PoolConstants ==
  /\ UserSession \in Sessions /\ None \notin Sessions \cup Workers
  /\ Stale \notin Workers \cup {None}
  /\ Primary \in [Workers -> Sessions] /\ Clients \in [Workers -> SUBSET Sessions]
  /\ MaxTries \in Nat \ {0} /\ MaxUpsets \in Nat
  /\ Pools \subseteq Pool
BY PoolAssumption

LEMMA PoolSetting ==
  ASSUME pool \in Pools
  PROVE  /\ pool.on \in [Tasks -> Workers] /\ pool.run \subseteq Workers
         /\ pool.ask \in [Tasks -> SUBSET Request] /\ pool.upsets \in 0..MaxUpsets
BY PoolConstants DEF Pool

LEMMA PoolInitInv == PoolInit => PoolInv
<1> SUFFICES ASSUME PoolInit PROVE PoolInv  OBVIOUS
<1>1. IdleTask \in TaskState
  BY PoolConstants DEF IdleTask, TaskState, Request
<1>2. /\ phase \in [Workers -> {"down", "locked", "up"}]
      /\ task \in [Tasks -> TaskState]
      /\ lock \in [Sessions -> Workers \cup {None, Stale}]
      /\ state \in [Sessions -> AccountState]
  BY <1>1 DEF PoolInit, AccountState
<1>3. /\ active \in [Sessions -> Int] /\ leaked \in [Sessions -> Nat]
      /\ upsets \in 0..MaxUpsets
  BY PoolConstants DEF PoolInit
<1>4. PoolTypeOK
  BY <1>2, <1>3 DEF PoolInit, PoolTypeOK
<1> QED  BY <1>4 DEF PoolInv, TaskInv, PoolInit, IdleTask

\* What a step may make of one task.
LEMMA TaskType ==
  ASSUME PoolInv, NEW t \in Tasks
  PROVE  /\ task[t] \in TaskState /\ IdleTask \in TaskState
         /\ task[t].at \in {"connect", "try", "call"} => task[t].session \in Sessions
         /\ task[t].at = "call" => task[t].tries + 1 \in 0..MaxTries
         /\ task[t].tries \in 0..MaxTries
<1>1. task[t] \in TaskState  BY DEF PoolInv, PoolTypeOK
<1>2. IdleTask \in TaskState  BY PoolConstants DEF IdleTask, TaskState, Request
<1>3. task[t].tries \in 0..MaxTries  BY <1>1 DEF TaskState
<1> QED  BY <1>1, <1>2, <1>3, PoolConstants DEF PoolInv, TaskInv

\* A step that gives one task a new record, of the right form, keeps TaskInv.
LEMMA OneTask ==
  ASSUME PoolInv, NEW t \in Tasks, NEW r \in TaskState, task' = [task EXCEPT ![t] = r],
         r.at \in {"connect", "try", "call"} => r.session \in Sessions,
         r.at = "call" => r.tries < MaxTries
  PROVE  task' \in [Tasks -> TaskState] /\ TaskInv'
<1>1. task \in [Tasks -> TaskState]  BY DEF PoolInv, PoolTypeOK
<1>2. task' \in [Tasks -> TaskState]  BY <1>1
<1>3. TaskInv'
  <2> SUFFICES ASSUME NEW u \in Tasks
               PROVE  /\ task'[u].at \in {"connect", "try", "call"} => task'[u].session \in Sessions
                      /\ task'[u].at = "call" => task'[u].tries < MaxTries
    BY DEF TaskInv
  <2>1. CASE u = t  BY <2>1, <1>1
  <2>2. CASE u # t  BY <2>2, <1>1 DEF PoolInv, TaskInv
  <2> QED  BY <2>1, <2>2
<1> QED  BY <1>2, <1>3

\* The actions that leave the requests alone.
LEMMA WorkerTypes ==
  ASSUME PoolInv, NEW w \in Workers,
         \/ StartLock(w) \/ StartConnect(w) \/ \E s \in Sessions : Beat(w, s)
         \/ OpenUserClient
  PROVE  PoolInv'
<1> USE PoolConstants, PoolSetting DEF PoolInv, PoolTypeOK
<1>1. CASE StartLock(w)
  <2>1. /\ phase' \in [Workers -> {"down", "locked", "up"}]
        /\ lock' \in [Sessions -> Workers \cup {None, Stale}]
        /\ beats' \subseteq Workers \X Sessions
    BY <1>1 DEF StartLock, AcquireLock
  <2> QED  BY <1>1, <2>1 DEF StartLock, TaskInv
<1>2. CASE StartConnect(w)
  <2>1. /\ phase' \in [Workers -> {"down", "locked", "up"}]
        /\ lock' \in [Sessions -> Workers \cup {None, Stale}]
        /\ beats' \subseteq Workers \X Sessions /\ open' \subseteq Workers \X Sessions
    BY <1>2 DEF StartConnect, ReleaseLock
  <2>2. upsets' \in 0..MaxUpsets
    BY <1>2 DEF StartConnect, Upset
  <2> QED  BY <1>2, <2>1, <2>2 DEF StartConnect, TaskInv
<1>3. ASSUME NEW s \in Sessions, Beat(w, s) PROVE PoolInv'
  BY <1>3 DEF Beat, TaskInv
<1>4. CASE OpenUserClient
  BY <1>4 DEF OpenUserClient, TaskInv
<1> QED  BY <1>1, <1>2, <1>3, <1>4

\* Those of Redis and Telegram.
LEMMA KeyTypes ==
  ASSUME PoolInv, NEW s \in Sessions, LockExpires(s) \/ StateExpires(s) \/ WaitEnds(s)
  PROVE  PoolInv'
<1> USE PoolConstants, PoolSetting DEF PoolInv, PoolTypeOK
<1>1. CASE LockExpires(s)
  <2>1. /\ lock' \in [Sessions -> Workers \cup {None, Stale}] /\ lapsed' \subseteq Sessions
    BY <1>1 DEF LockExpires
  <2>2. upsets' \in 0..MaxUpsets
    BY <1>1 DEF LockExpires, Upset
  <2> QED  BY <1>1, <2>1, <2>2 DEF LockExpires, TaskInv
<1>2. CASE StateExpires(s)
  <2>1. state' \in [Sessions -> AccountState]
    BY <1>2 DEF StateExpires, AccountState
  <2> QED  BY <1>2, <2>1 DEF StateExpires, TaskInv
<1>3. CASE WaitEnds(s)
  BY <1>3 DEF WaitEnds, TaskInv
<1> QED  BY <1>1, <1>2, <1>3

LEMMA CallsNat == ASSUME NEW w, NEW s PROVE Calls(w, s) \in Nat
<1>1. IsFiniteSet(Tasks)  BY PoolAssumption
<1>2. {t \in TasksOf(w) : task[t].at = "call" /\ task[t].session = s} \subseteq Tasks
  BY DEF TasksOf
<1> QED  BY <1>1, <1>2, FS_Subset, FS_CardinalityType DEF Calls

LEMMA GoneTypes ==
  ASSUME PoolInv, NEW w \in Workers, Kill(w) \/ Stop(w)
  PROVE  PoolInv'
<1> PICK owner \in {None, Stale} : Gone(w, owner)  BY DEF Kill, Stop
<1> USE PoolConstants, PoolSetting
<1>1. upsets' \in 0..MaxUpsets  BY DEF Kill, Stop, Upset, PoolInv, PoolTypeOK
<1>2. task' \in [Tasks -> TaskState] /\ TaskInv'
  <2>1. \A t \in Tasks : task'[t] = IdleTask \/ task'[t] = task[t]  BY DEF Gone
  <2>2. task' \in [Tasks -> TaskState]  BY TaskType DEF Gone
  <2> QED  BY <2>1, <2>2 DEF TaskInv, PoolInv, IdleTask
<1>3. leaked' \in [Sessions -> Nat]
  <2> SUFFICES ASSUME NEW s \in Sessions PROVE leaked[s] + Calls(w, s) \in Nat  BY DEF Gone
  <2>1. leaked[s] \in Nat  BY DEF PoolInv, PoolTypeOK
  <2> QED  BY <2>1, CallsNat
<1>4. /\ phase' \in [Workers -> {"down", "locked", "up"}]
      /\ lock' \in [Sessions -> Workers \cup {None, Stale}]
      /\ userClient' \in BOOLEAN
      /\ open' \subseteq Workers \X Sessions /\ beats' \subseteq Workers \X Sessions
  BY DEF PoolInv, PoolTypeOK, Gone
<1> QED  BY <1>1, <1>2, <1>3, <1>4 DEF PoolInv, PoolTypeOK, Gone

LEMMA RequestTypes ==
  ASSUME PoolInv, NEW t \in Tasks,
         \/ Exhausted(t) \/ Choose(t) \/ Connect(t) \/ Try(t)
         \/ \E r \in Request : Ask(t, r)
  PROVE  PoolInv'
<1> DEFINE r0 == task[t]
<1>0. /\ r0 \in TaskState /\ IdleTask \in TaskState /\ r0.tries \in 0..MaxTries
      /\ r0.at \in {"connect", "try", "call"} => r0.session \in Sessions
  BY TaskType
<1>t. task \in [Tasks -> TaskState] /\ 0 \in 0..MaxTries
  BY PoolConstants DEF PoolInv, PoolTypeOK
<1>w. pool.on[t] \in Workers  BY PoolSetting DEF PoolInv, PoolTypeOK
<1>1. CASE Exhausted(t)
  <2>1. task' = [task EXCEPT ![t] = IdleTask]  BY <1>1 DEF Exhausted
  <2>2. task' \in [Tasks -> TaskState] /\ TaskInv'
    BY <2>1, <1>0, OneTask DEF IdleTask
  <2> QED  BY <1>1, <2>2 DEF Exhausted, PoolInv, PoolTypeOK
<1>2. ASSUME NEW r \in Request, Ask(t, r) PROVE PoolInv'
  <2> DEFINE n == [IdleTask EXCEPT !.at = "choose", !.ask = r]
  <2>1. n \in TaskState /\ n.at = "choose"  BY <1>0 DEF IdleTask, TaskState
  <2>2. task' = [task EXCEPT ![t] = n]  BY <1>2 DEF Ask
  <2>3. task' \in [Tasks -> TaskState] /\ TaskInv'
    <3> HIDE DEF n
    <3> QED  BY <2>1, <2>2, OneTask
  <2> QED  BY <1>2, <2>3 DEF Ask, PoolInv, PoolTypeOK
<1>3. CASE Choose(t)
  <2>1. PICK s \in Selected(t), at \in {"choose", "try", "connect"} :
          /\ task' = [task EXCEPT ![t].session = s, ![t].tries = 0, ![t].at = at,
                                  ![t].tried = @ \cup {s}]
          /\ \/ UNCHANGED <<lock, beats, state>>
             \/ AcquireLock(pool.on[t], s) /\ UNCHANGED state
             \/ ReleaseLock(pool.on[t], s) /\ state' = [state EXCEPT ![s] = "UNAVAILABLE"]
          /\ at # "choose" => s \in Clients[pool.on[t]]
    BY <1>3 DEF Choose
  <2>2. s \in Sessions
    <3>1. r0.ask.want \in Sessions \cup {None}  BY <1>0 DEF TaskState, Request
    <3>2. Candidates(t) \subseteq Sessions
      BY <3>1, <1>w, PoolConstants DEF Candidates
    <3>3. Selected(t) \subseteq Eligible(t)  BY DEF Selected
    <3> QED  BY <2>1, <3>2, <3>3 DEF Eligible
  <2> DEFINE n == [r0 EXCEPT !.session = s, !.tries = 0, !.at = at, !.tried = @ \cup {s}]
  <2>3. n \in TaskState /\ n.session = s /\ n.at # "call"
    BY <1>0, <1>t, <2>1, <2>2 DEF TaskState
  <2>4. task' = [task EXCEPT ![t] = n]  BY <2>1, <1>t
  <2>5. task' \in [Tasks -> TaskState] /\ TaskInv'
    <3> HIDE DEF n
    <3> QED  BY <2>2, <2>3, <2>4, OneTask
  <2>6. /\ lock' \in [Sessions -> Workers \cup {None, Stale}]
        /\ beats' \subseteq Workers \X Sessions
        /\ state' \in [Sessions -> AccountState]
    <3>1. /\ lock \in [Sessions -> Workers \cup {None, Stale}]
          /\ beats \subseteq Workers \X Sessions
          /\ state \in [Sessions -> AccountState] /\ "UNAVAILABLE" \in AccountState
      BY DEF PoolInv, PoolTypeOK, AccountState
    <3> QED  BY <2>1, <2>2, <3>1, <1>w DEF AcquireLock, ReleaseLock
  <2> QED  BY <1>3, <2>5, <2>6 DEF Choose, PoolInv, PoolTypeOK
<1>4. CASE Connect(t)
  <2>1. PICK at \in {"choose", "try"} : task' = [task EXCEPT ![t].at = at]
    BY <1>4 DEF Connect
  <2> DEFINE n == [r0 EXCEPT !.at = at]
  <2>2. n \in TaskState /\ n.session \in Sessions /\ n.at # "call"
    BY <1>0, <1>4, <2>1 DEF TaskState, Connect
  <2>3. task' = [task EXCEPT ![t] = n]  BY <2>1, <1>t
  <2>4. task' \in [Tasks -> TaskState] /\ TaskInv'
    <3> HIDE DEF n
    <3> QED  BY <2>2, <2>3, OneTask
  <2>5. /\ lock' \in [Sessions -> Workers \cup {None, Stale}]
        /\ beats' \subseteq Workers \X Sessions /\ open' \subseteq Workers \X Sessions
        /\ state' \in [Sessions -> AccountState]
        /\ lapsed' \subseteq Sessions
    <3>1. /\ lock \in [Sessions -> Workers \cup {None, Stale}]
          /\ beats \subseteq Workers \X Sessions /\ open \subseteq Workers \X Sessions
          /\ state \in [Sessions -> AccountState] /\ "UNAVAILABLE" \in AccountState
          /\ lapsed \subseteq Sessions
      BY DEF PoolInv, PoolTypeOK, AccountState
    <3>2. r0.session \in Sessions  BY <1>0, <1>4 DEF Connect
    <3> QED  BY <3>1, <3>2, <1>w, <1>4 DEF Connect, ReleaseLock
  <2>6. upsets' \in 0..MaxUpsets
    BY <1>4, PoolSetting, PoolConstants DEF Connect, Upset, PoolInv, PoolTypeOK
  <2> QED  BY <1>4, <2>4, <2>5, <2>6 DEF Connect, PoolInv, PoolTypeOK
<1>5. CASE Try(t)
  <2>1. PICK at \in {"choose", "call"} :
          /\ task' = [task EXCEPT ![t].at = at]
          /\ at = "call" => TryAgain(t)
    BY <1>5 DEF Try
  <2> DEFINE n == [r0 EXCEPT !.at = at]
  <2>2. /\ n \in TaskState /\ n.session \in Sessions
        /\ n.at = "call" => n.tries < MaxTries
    BY <1>0, <1>5, <2>1 DEF TaskState, Try, TryAgain
  <2>3. task' = [task EXCEPT ![t] = n]  BY <2>1, <1>t
  <2>4. task' \in [Tasks -> TaskState] /\ TaskInv'
    <3> HIDE DEF n
    <3> QED  BY <2>2, <2>3, OneTask
  <2>5. active' \in [Sessions -> Int] /\ state' \in [Sessions -> AccountState]
    BY <1>5 DEF Try, PoolInv, PoolTypeOK, AccountState
  <2>6. upsets' \in 0..MaxUpsets
    BY <1>5, PoolSetting, PoolConstants DEF Try, Upset, PoolInv, PoolTypeOK
  <2> QED  BY <1>5, <2>4, <2>5, <2>6 DEF Try, PoolInv, PoolTypeOK
<1> QED  BY <1>1, <1>2, <1>3, <1>4, <1>5

\* After a call: the request has ended, or goes on with the same account or another.
CallOver(t) == Ended(t) \/ Retry(t) \/ Another(t)

LEMMA CallTypes ==
  ASSUME PoolInv, NEW t \in Tasks,
         Succeed(t) \/ FloodWait(t) \/ Banned(t) \/ Fail(t) \/ FailUncounted(t)
  PROVE  PoolInv'
<1>0. /\ task[t] \in TaskState /\ IdleTask \in TaskState
      /\ task[t].at = "call" => task[t].session \in Sessions /\ task[t].tries + 1 \in 0..MaxTries
  BY TaskType
<1>t. task \in [Tasks -> TaskState]  BY DEF PoolInv, PoolTypeOK
<1>1. task[t].at = "call" /\ CallOver(t)
  BY DEF Succeed, FloodWait, Banned, Fail, FailUncounted, CallEnds, CallOver
<1>2. task[t].session \in Sessions  BY <1>0, <1>1
<1>3. task' \in [Tasks -> TaskState] /\ TaskInv'
  <2>1. CASE Ended(t)
    BY <2>1, <1>0, OneTask DEF Ended, IdleTask
  <2>2. CASE Retry(t)
    <3> DEFINE n == [task[t] EXCEPT !.at = "try", !.tries = @ + 1]
    <3>1. n \in TaskState /\ n.session \in Sessions /\ n.at = "try"
      BY <1>0, <1>1, <1>2 DEF TaskState
    <3>2. task' = [task EXCEPT ![t] = n]  BY <2>2, <1>t DEF Retry
    <3> HIDE DEF n
    <3> QED  BY <3>1, <3>2, OneTask
  <2>3. CASE Another(t)
    <3> DEFINE n == [task[t] EXCEPT !.at = "choose"]
    <3>1. n \in TaskState /\ n.at = "choose"  BY <1>0 DEF TaskState
    <3>2. task' = [task EXCEPT ![t] = n]  BY <2>3, <1>t DEF Another
    <3> HIDE DEF n
    <3> QED  BY <3>1, <3>2, OneTask
  <2> QED  BY <1>1, <2>1, <2>2, <2>3 DEF CallOver
<1>4. /\ active' \in [Sessions -> Int] /\ leaked' \in [Sessions -> Nat]
      /\ state' \in [Sessions -> AccountState]
      /\ banned' \subseteq Sessions /\ waiting' \subseteq Sessions
  <2>1. /\ active \in [Sessions -> Int] /\ leaked \in [Sessions -> Nat]
        /\ state \in [Sessions -> AccountState]
        /\ banned \subseteq Sessions /\ waiting \subseteq Sessions
        /\ {"HEALTHY", "UNAVAILABLE", "FLOOD_WAIT"} \subseteq AccountState
    BY DEF PoolInv, PoolTypeOK, AccountState
  <2>2. CASE Succeed(t)  BY <2>1, <2>2, <1>2 DEF Succeed, CallEnds
  <2>3. CASE FloodWait(t)  BY <2>1, <2>3, <1>2 DEF FloodWait, CallEnds
  <2>4. CASE Banned(t)  BY <2>1, <2>4, <1>2 DEF Banned, CallEnds
  <2>5. CASE Fail(t)  BY <2>1, <2>5, <1>2 DEF Fail, CallEnds
  <2>6. CASE FailUncounted(t)  BY <2>1, <2>6, <1>2 DEF FailUncounted
  <2> QED  BY <2>2, <2>3, <2>4, <2>5, <2>6
<1>5. upsets' \in 0..MaxUpsets
  BY PoolSetting, PoolConstants DEF Succeed, FloodWait, Banned, Fail, FailUncounted, Upset,
     PoolInv, PoolTypeOK
<1>6. UNCHANGED <<pool, phase, open, userClient, beats, lock, lapsed>>
  BY DEF Succeed, FloodWait, Banned, Fail, FailUncounted, CallEnds
<1> QED  BY <1>3, <1>4, <1>5, <1>6 DEF PoolInv, PoolTypeOK

LEMMA PoolTypes == ASSUME PoolInv, PoolStep PROVE PoolInv'
<1>1. CASE \E w \in pool.run : StartLock(w) \/ StartConnect(w) \/ \E s \in Sessions : Beat(w, s)
  BY <1>1, PoolSetting, WorkerTypes DEF PoolInv, PoolTypeOK
<1>2. CASE Borrower \in pool.run /\ OpenUserClient
  BY <1>2, PoolSetting, WorkerTypes DEF PoolInv, PoolTypeOK
<1>3. CASE \E t \in Tasks : Serve(t) \/ \E r \in Request : Ask(t, r)
  BY <1>3, RequestTypes, CallTypes DEF Serve
<1>4. CASE \E s \in Sessions : LockExpires(s) \/ StateExpires(s) \/ WaitEnds(s)
  BY <1>4, KeyTypes
<1> QED  BY <1>1, <1>2, <1>3, <1>4 DEF PoolStep

-----------------------------------------------------------------------------
(* The session file of an account is open in one manager: who has it open,   *)
(* or is about to open it, has its lock, until the lock lapses.              *)

\* A worker that is not up has nothing open and serves nobody.
DownInv == \A w \in Workers : phase[w] # "up" =>
  /\ \A s \in Sessions : <<w, s>> \notin open
  /\ \A t \in Tasks : pool.on[t] = w => task[t].at = "idle"

LockInv == \A w \in Workers, s \in Sessions : Uses(w, s) /\ s \notin lapsed => lock[s] = w

HoldInv == PoolInv /\ DownInv /\ LockInv

LEMMA HoldInit == PoolInit => HoldInv
<1> SUFFICES ASSUME PoolInit PROVE DownInv /\ LockInv  BY PoolInitInv DEF HoldInv
<1> QED  BY DEF PoolInit, DownInv, LockInv, Uses, TasksOf, IdleTask

\* What a step of the request t leaves alone.
LEMMA RequestFrame ==
  ASSUME PoolInv, DownInv, NEW t \in Tasks, Serve(t) \/ \E r \in Request : Ask(t, r)
  PROVE  /\ pool' = pool /\ phase' = phase /\ phase[pool.on[t]] = "up"
         /\ pool.on[t] \in Workers
         /\ \A u \in Tasks \ {t} : task'[u] = task[u]
<1>1. pool.on[t] \in Workers  BY PoolSetting DEF PoolInv, PoolTypeOK
<1>2. task \in [Tasks -> TaskState]  BY DEF PoolInv, PoolTypeOK
<1>3. pool' = pool /\ phase' = phase /\ \A u \in Tasks \ {t} : task'[u] = task[u]
  <2>1. CASE Exhausted(t)  BY <2>1, <1>2 DEF Exhausted
  <2>2. CASE Choose(t)  BY <2>2, <1>2 DEF Choose
  <2>3. CASE Connect(t)  BY <2>3, <1>2 DEF Connect
  <2>4. CASE Try(t)  BY <2>4, <1>2 DEF Try
  <2>5. CASE Succeed(t)  BY <2>5, <1>2 DEF Succeed, CallEnds, Ended
  <2>6. CASE FloodWait(t)  BY <2>6, <1>2 DEF FloodWait, CallEnds, Retry, Another
  <2>7. CASE Banned(t)  BY <2>7, <1>2 DEF Banned, CallEnds, Another
  <2>8. CASE Fail(t)  BY <2>8, <1>2 DEF Fail, CallEnds, Ended, Retry
  <2>9. CASE FailUncounted(t)  BY <2>9, <1>2 DEF FailUncounted, Ended, Retry
  <2>10. CASE \E r \in Request : Ask(t, r)  BY <2>10, <1>2 DEF Ask
  <2> QED  BY <2>1, <2>2, <2>3, <2>4, <2>5, <2>6, <2>7, <2>8, <2>9, <2>10 DEF Serve
<1>4. phase[pool.on[t]] = "up"
  <2>1. CASE \E r \in Request : Ask(t, r)  BY <2>1 DEF Ask
  <2>2. CASE Serve(t)
    <3>1. task[t].at # "idle"
      BY <2>2 DEF Serve, Exhausted, Choose, Connect, Try, Succeed, FloodWait, Banned, Fail,
         FailUncounted, CallEnds
    <3> QED  BY <3>1, <1>1 DEF DownInv
  <2> QED  BY <2>1, <2>2
<1> QED  BY <1>1, <1>3, <1>4

\* The steps of a request, but for Choose and Connect, neither open an account nor
\* touch a lock, nor do they lead to Connect.
LEMMA RequestLocks ==
  ASSUME PoolInv, DownInv, NEW t \in Tasks, Serve(t) \/ \E r \in Request : Ask(t, r),
         ~Choose(t), ~Connect(t)
  PROVE  UNCHANGED <<open, lock, lapsed>> /\ task'[t].at # "connect"
<1>1. task \in [Tasks -> TaskState]  BY DEF PoolInv, PoolTypeOK
<1>2. CASE Exhausted(t)  BY <1>2, <1>1 DEF Exhausted, IdleTask
<1>3. CASE \E r \in Request : Ask(t, r)  BY <1>3, <1>1 DEF Ask, IdleTask
<1>4. CASE Try(t)  BY <1>4, <1>1, TaskType DEF Try, TaskState
<1>5. CASE Succeed(t)  BY <1>5, <1>1 DEF Succeed, CallEnds, Ended, IdleTask
<1>6. CASE FloodWait(t)  BY <1>6, <1>1, TaskType DEF FloodWait, CallEnds, Retry, Another, TaskState
<1>7. CASE Banned(t)  BY <1>7, <1>1, TaskType DEF Banned, CallEnds, Another, TaskState
<1>8. CASE Fail(t)  BY <1>8, <1>1, TaskType DEF Fail, CallEnds, Ended, Retry, IdleTask, TaskState
<1>9. CASE FailUncounted(t)
  BY <1>9, <1>1, TaskType DEF FailUncounted, Ended, Retry, IdleTask, TaskState
<1> QED  BY <1>2, <1>3, <1>4, <1>5, <1>6, <1>7, <1>8, <1>9 DEF Serve

LEMMA RequestHolds ==
  ASSUME HoldInv, NEW t \in Tasks, Serve(t) \/ \E r \in Request : Ask(t, r)
  PROVE  DownInv' /\ LockInv'
<1> DEFINE v == pool.on[t]
<1> USE DEF HoldInv
<1>0. /\ pool' = pool /\ phase' = phase /\ phase[v] = "up" /\ v \in Workers
      /\ \A u \in Tasks \ {t} : task'[u] = task[u]
  BY RequestFrame
<1>t. /\ task \in [Tasks -> TaskState] /\ lock \in [Sessions -> Workers \cup {None, Stale}]
      /\ open \subseteq Workers \X Sessions
  BY DEF PoolInv, PoolTypeOK
<1>1. ASSUME \A w \in Workers, s \in Sessions : <<w, s>> \in open' => <<w, s>> \in open \/ w = v
      PROVE DownInv'
  <2> SUFFICES ASSUME NEW w \in Workers, phase[w] # "up"
               PROVE  /\ \A s \in Sessions : <<w, s>> \notin open'
                      /\ \A u \in Tasks : pool.on[u] = w => task'[u].at = "idle"
    BY <1>0 DEF DownInv
  <2>1. w # v  BY <1>0
  <2> QED  BY <1>0, <1>1, <2>1 DEF DownInv
<1>2. CASE Choose(t)
  <2>1. PICK s \in Selected(t) :
          /\ \/ task'[t].at # "connect" /\ UNCHANGED lock
             \/ task'[t].at # "connect" /\ ~CanLock(v, s) /\ ReleaseLock(v, s)
             \/ CanLock(v, s) /\ AcquireLock(v, s) /\ task'[t].session = s
          /\ UNCHANGED <<open, lapsed>>
    BY <1>2, <1>t DEF Choose, TaskState
  <2>2. DownInv'  BY <1>1, <2>1
  <2>3. LockInv'
    <3> SUFFICES ASSUME NEW w \in Workers, NEW r \in Sessions, Uses(w, r)', r \notin lapsed
                 PROVE  lock'[r] = w
      BY <2>1 DEF LockInv
    <3>1. CASE Uses(w, r)
      <4>1. lock[r] = w  BY <3>1 DEF LockInv
      <4> QED  BY <4>1, <2>1, <1>t, PoolConstants DEF AcquireLock, ReleaseLock, CanLock
    <3>2. CASE ~Uses(w, r)
      <4>1. w = v /\ task'[t].at = "connect" /\ task'[t].session = r
        BY <3>2, <2>1, <1>0 DEF Uses, TasksOf
      <4>2. AcquireLock(v, s) /\ s = r  BY <2>1, <4>1
      <4> QED  BY <4>1, <4>2, <1>t DEF AcquireLock
    <3> QED  BY <3>1, <3>2
  <2> QED  BY <2>2, <2>3
<1>3. CASE Connect(t)
  <2> DEFINE s == task[t].session
  <2>0. s \in Sessions /\ task[t].at = "connect" /\ task'[t].at # "connect" /\ Uses(v, s)
    BY <1>0, <1>3, <1>t, TaskType DEF Connect, Uses, TasksOf, TaskState
  <2>1. CASE open' = open \cup {<<v, s>>} /\ UNCHANGED <<lock, lapsed>>
    <3>1. DownInv'  BY <2>0, <2>1, <1>1
    <3>2. ASSUME NEW w \in Workers, NEW r \in Sessions, Uses(w, r)' PROVE Uses(w, r)
      BY <3>2, <2>0, <2>1, <1>0 DEF Uses, TasksOf
    <3> QED  BY <3>1, <3>2, <2>1 DEF LockInv
  <2>2. CASE /\ open' = open \ {<<v, s>>} /\ ReleaseLock(v, s)
             /\ lapsed' = IF \E u \in TasksOf(v) \ {t} : task[u].at = "connect" /\ task[u].session = s
                          THEN lapsed \cup {s} ELSE lapsed
    <3>1. DownInv'  BY <2>2, <1>1
    <3>2. ASSUME NEW w \in Workers, NEW r \in Sessions, Uses(w, r)', r \notin lapsed'
          PROVE  lock'[r] = w
      <4>1. Uses(w, r)  BY <3>2, <2>0, <2>2, <1>0 DEF Uses, TasksOf
      <4>2. r \notin lapsed  BY <3>2, <2>2
      <4>3. lock[r] = w  BY <4>1, <4>2 DEF LockInv
      <4>4. r # s \/ w # v
        <5> SUFFICES ASSUME r = s, w = v PROVE FALSE  OBVIOUS
        <5>1. <<v, s>> \notin open'  BY <2>2
        <5>2. phase[v] # "locked"  BY <1>0
        <5>3. PICK u \in TasksOf(v)' : task'[u].at = "connect" /\ task'[u].session = s
          BY <3>2, <5>1, <5>2, <1>0 DEF Uses
        <5>4. u \in TasksOf(v) \ {t} /\ task[u].at = "connect" /\ task[u].session = s
          BY <5>3, <2>0, <1>0 DEF TasksOf
        <5> QED  BY <5>4, <2>2, <3>2
      <4> QED  BY <4>3, <4>4, <2>2, <2>0, <1>t DEF ReleaseLock
    <3> QED  BY <3>1, <3>2 DEF LockInv
  <2> QED  BY <1>3, <2>1, <2>2 DEF Connect
<1>4. CASE ~Choose(t) /\ ~Connect(t)
  <2>1. UNCHANGED <<open, lock, lapsed>> /\ task'[t].at # "connect"
    BY <1>4, RequestLocks
  <2>2. DownInv'  BY <1>1, <2>1
  <2>3. ASSUME NEW w \in Workers, NEW r \in Sessions, Uses(w, r)' PROVE Uses(w, r)
    BY <2>1, <2>3, <1>0 DEF Uses, TasksOf
  <2> QED  BY <2>1, <2>2, <2>3 DEF LockInv
<1> QED  BY <1>2, <1>3, <1>4

LEMMA WorkerHolds ==
  ASSUME HoldInv, NEW w \in Workers,
         \/ StartLock(w) \/ StartConnect(w) \/ \E s \in Sessions : Beat(w, s)
         \/ OpenUserClient
  PROVE  DownInv' /\ LockInv'
<1> USE DEF HoldInv
<1>t. /\ phase \in [Workers -> {"down", "locked", "up"}]
      /\ lock \in [Sessions -> Workers \cup {None, Stale}]
      /\ Primary[w] \in Sessions
  BY PoolConstants DEF PoolInv, PoolTypeOK
<1>1. CASE StartLock(w)
  <2>1. /\ phase' = [phase EXCEPT ![w] = "locked"] /\ CanLock(w, Primary[w])
        /\ lock' = [lock EXCEPT ![Primary[w]] = w] /\ phase[w] = "down"
        /\ UNCHANGED <<pool, open, task, lapsed>>
    BY <1>1 DEF StartLock, AcquireLock
  <2>2. DownInv'  BY <2>1, <1>t DEF DownInv
  <2>3. ASSUME NEW v \in Workers, NEW s \in Sessions, Uses(v, s)', s \notin lapsed
        PROVE  lock'[s] = v
    <3>1. CASE Uses(v, s)
      <4>1. lock[s] = v  BY <2>3, <3>1 DEF LockInv
      <4> QED  BY <4>1, <2>1, <1>t, PoolConstants DEF CanLock
    <3>2. CASE ~Uses(v, s)
      <4>1. v = w /\ s = Primary[w]  BY <2>3, <3>2, <2>1, <1>t DEF Uses, TasksOf
      <4> QED  BY <4>1, <2>1, <1>t
    <3> QED  BY <3>1, <3>2
  <2> QED  BY <2>1, <2>2, <2>3 DEF LockInv
<1>2. CASE StartConnect(w)
  <2>0. phase[w] = "locked" /\ UNCHANGED <<pool, task, lapsed>>  BY <1>2 DEF StartConnect
  <2>1. CASE /\ phase' = [phase EXCEPT ![w] = "up"] /\ UNCHANGED lock
             /\ open' = open \cup {<<w, Primary[w]>>}
    <3>1. DownInv'  BY <2>0, <2>1, <1>t DEF DownInv
    <3>2. ASSUME NEW v \in Workers, NEW s \in Sessions, Uses(v, s)' PROVE Uses(v, s)
      BY <3>2, <2>0, <2>1, <1>t DEF Uses, TasksOf
    <3> QED  BY <3>1, <3>2, <2>0, <2>1 DEF LockInv
  <2>2. CASE /\ phase' = [phase EXCEPT ![w] = "down"] /\ UNCHANGED open
             /\ ReleaseLock(w, Primary[w])
    <3>1. DownInv'  BY <2>0, <2>2, <1>t DEF DownInv
    <3>2. ASSUME NEW v \in Workers, NEW s \in Sessions, Uses(v, s)'
          PROVE  Uses(v, s) /\ v # w
      <4>1. v # w  BY <3>2, <2>0, <2>2, <1>t DEF Uses, TasksOf, DownInv
      <4> QED  BY <4>1, <3>2, <2>0, <2>2, <1>t DEF Uses, TasksOf
    <3>3. LockInv'
      BY <3>2, <2>0, <2>2, <1>t DEF LockInv, ReleaseLock
    <3> QED  BY <3>1, <3>3
  <2> QED  BY <1>2, <2>1, <2>2 DEF StartConnect
<1>3. CASE \E s \in Sessions : Beat(w, s)
  BY <1>3 DEF Beat, DownInv, LockInv, Uses, TasksOf
<1>4. CASE OpenUserClient
  BY <1>4 DEF OpenUserClient, DownInv, LockInv, Uses, TasksOf
<1> QED  BY <1>1, <1>2, <1>3, <1>4

LEMMA KeyHolds ==
  ASSUME HoldInv, NEW s \in Sessions, LockExpires(s) \/ StateExpires(s) \/ WaitEnds(s)
  PROVE  DownInv' /\ LockInv'
<1> USE DEF HoldInv
<1>1. CASE LockExpires(s)
  <2>1. /\ lock' = [lock EXCEPT ![s] = None] /\ UNCHANGED <<pool, phase, open, task>>
        /\ lapsed' = IF lock[s] # Stale /\ Uses(lock[s], s) THEN lapsed \cup {s} ELSE lapsed
    BY <1>1 DEF LockExpires
  <2>2. ASSUME NEW w \in Workers, NEW r \in Sessions, Uses(w, r)', r \notin lapsed'
        PROVE  lock'[r] = w
    <3>1. Uses(w, r) /\ r \notin lapsed  BY <2>1, <2>2 DEF Uses, TasksOf
    <3>2. lock[r] = w  BY <3>1 DEF LockInv
    <3>3. r # s  BY <3>1, <3>2, <2>1, <2>2, PoolConstants
    <3> QED  BY <3>2, <3>3, <2>1 DEF PoolInv, PoolTypeOK
  <2>3. DownInv'  BY <2>1 DEF DownInv
  <2> QED  BY <2>2, <2>3 DEF LockInv
<1>2. CASE StateExpires(s)  BY <1>2 DEF StateExpires, DownInv, LockInv, Uses, TasksOf
<1>3. CASE WaitEnds(s)  BY <1>3 DEF WaitEnds, DownInv, LockInv, Uses, TasksOf
<1> QED  BY <1>1, <1>2, <1>3

LEMMA GoneHolds ==
  ASSUME HoldInv, NEW w \in Workers, Kill(w) \/ Stop(w)
  PROVE  DownInv' /\ LockInv'
<1> USE DEF HoldInv
<1> PICK owner \in {None, Stale} : Gone(w, owner)  BY DEF Kill, Stop
<1>t. /\ phase \in [Workers -> {"down", "locked", "up"}]
      /\ lock \in [Sessions -> Workers \cup {None, Stale}]
      /\ task \in [Tasks -> TaskState]
  BY DEF PoolInv, PoolTypeOK
<1>1. /\ phase' = [phase EXCEPT ![w] = "down"] /\ open' = open \ ({w} \X Sessions)
      /\ task' = [t \in Tasks |-> IF pool.on[t] = w THEN IdleTask ELSE task[t]]
      /\ lock' = [s \in Sessions |-> IF lock[s] = w THEN owner ELSE lock[s]]
      /\ pool' = pool /\ lapsed' = lapsed
  BY DEF Gone
<1>2. DownInv'
  <2> SUFFICES ASSUME NEW v \in Workers, phase'[v] # "up"
               PROVE  /\ \A s \in Sessions : <<v, s>> \notin open'
                      /\ \A t \in Tasks : pool.on[t] = v => task'[t].at = "idle"
    BY <1>1 DEF DownInv
  <2>1. CASE v = w  BY <2>1, <1>1 DEF IdleTask
  <2>2. CASE v # w  BY <2>2, <1>1, <1>t DEF DownInv, IdleTask
  <2> QED  BY <2>1, <2>2
<1>3. ASSUME NEW v \in Workers, NEW s \in Sessions, Uses(v, s)', s \notin lapsed
      PROVE  lock'[s] = v
  <2>1. v # w  BY <1>3, <1>1, <1>t DEF Uses, TasksOf, IdleTask
  <2>2. Uses(v, s)  BY <1>3, <2>1, <1>1, <1>t DEF Uses, TasksOf, IdleTask
  <2>3. lock[s] = v  BY <1>3, <2>2 DEF LockInv
  <2> QED  BY <2>1, <2>3, <1>1
<1> QED  BY <1>1, <1>2, <1>3 DEF LockInv

LEMMA HoldStep == HoldInv /\ [Next]_vars => HoldInv'
<1> SUFFICES ASSUME HoldInv, [Next]_vars PROVE HoldInv'  OBVIOUS
<1>1. CASE PoolStep
  <2>1. PoolInv'  BY <1>1, PoolTypes DEF HoldInv
  <2>2. pool.run \subseteq Workers  BY PoolSetting DEF HoldInv, PoolInv, PoolTypeOK
  <2>3. DownInv' /\ LockInv'
    BY <1>1, <2>2, WorkerHolds, KeyHolds, RequestHolds DEF PoolStep
  <2> QED  BY <2>1, <2>3 DEF HoldInv
<1>2. CASE \E w \in pool.run : WorkerGoes(w)
  <2>1. pool.run \subseteq Workers  BY PoolSetting DEF HoldInv, PoolInv, PoolTypeOK
  <2>2. PICK w \in Workers : Kill(w) \/ Stop(w)  BY <1>2, <2>1 DEF WorkerGoes
  <2> QED  BY <2>2, GoneTypes, GoneHolds DEF HoldInv
<1>3. CASE UNCHANGED poolVars
  BY <1>3 DEF poolVars, HoldInv, PoolInv, PoolTypeOK, TaskInv, DownInv, LockInv, Uses, TasksOf
<1> QED  BY <1>1, <1>2, <1>3 DEF Next, Replying, OnUserClient, Pooling, InPool, Moving, Outside, vars

\* The session lock does what it is for: two workers never have the session file of an
\* account open in their managers, unless a lock went while it was in use.
THEOREM SessionsExclusive == Spec => []ExclusiveSession
<1>1. Init => HoldInv  BY HoldInit DEF Init
<1>2. HoldInv => ExclusiveSession
  <2> SUFFICES ASSUME HoldInv, NEW s \in Sessions \ lapsed, NEW v \in Workers, NEW w \in Workers,
                      <<v, s>> \in open, <<w, s>> \in open
               PROVE  v = w
    BY DEF ExclusiveSession
  <2>1. Uses(v, s) /\ Uses(w, s)  BY DEF Uses
  <2> QED  BY <2>1 DEF HoldInv, LockInv
<1> QED  BY <1>1, <1>2, HoldStep, PTL DEF Spec

-----------------------------------------------------------------------------
(* The replies: types.                                                       *)

\* The rows in hand are rows; what a contact wrote and nobody saw, it wrote; and the
\* dispatcher that claimed a row today had not used up the limit.
ReplyTaskInv ==
  /\ \A h \in Handlers : handler[h].at # "idle" => handler[h].row \in Rows
  /\ fallback.at \in {"send", "record"} => fallback.row \in Rows /\ fallback.batch[fallback.row] # "none"
  /\ followup.at # "idle" => followup.row \in Rows
  /\ followup.at # "idle" /\ ~followup.yesterday => counted < DailyLimit
  /\ \A c \in Contacts : inbox[c] <= writes[c]

ReplyTypeInv == RepliesTypeOK /\ ReplyTaskInv

LEMMA ReplyConstants ==
  /\ NumRows \in Nat /\ BatchLimit \in Nat \ {0} /\ DailyLimit \in Nat \ {0}
  /\ MaxWrites \in Nat /\ MaxFailures \in Nat /\ MaxSwitches \in Nat
  /\ Scenes \subseteq Scene
  /\ NoContact \notin Contacts /\ "dispatcher" \notin Handlers
BY RepliesAssumption

LEMMA SceneType ==
  ASSUME scene \in Scenes
  PROVE  /\ scene.contact \in [Rows -> Contacts] /\ \A r \in Rows : ContactOf(r) \in Contacts
         /\ scene.writes \in 0..MaxWrites /\ scene.failures \in 0..MaxFailures
         /\ scene.switches \in 0..MaxSwitches
BY ReplyConstants DEF Scene, ContactOf

LEMMA RowsNat == \A r \in Rows : r \in 0..NumRows /\ r \in Nat
BY ReplyConstants DEF Rows

\* Where each task starts.
LEMMA IdleTypes ==
  /\ IdleHandler \in HandlerState /\ IdleFallback \in FallbackState
  /\ FirstFollowup \in FollowupState
BY ReplyConstants DEF IdleHandler, HandlerState, IdleFallback, FallbackState, FirstFollowup,
   FollowupState

LEMMA ReplyInitInv == RepliesInit => ReplyTypeInv
<1> SUFFICES ASSUME RepliesInit PROVE ReplyTypeInv  OBVIOUS
<1>1. logs \in [Rows -> LogRow]  BY DEF RepliesInit, LogRow, FollowupStatus
<1>2. /\ handler \in [Handlers -> HandlerState] /\ fallback \in FallbackState
      /\ followup \in FollowupState
  BY IdleTypes DEF RepliesInit
<1>3. /\ inbox \in [Contacts -> 0..MaxWrites] /\ writes \in [Contacts -> 0..MaxWrites]
      /\ replies \in [Rows -> Nat] /\ followups \in [Rows -> Nat]
      /\ sentTo \in [Rows -> Contacts \cup {NoContact}]
      /\ afterStop \in [Gated -> Nat]
      /\ counted \in 0..DailyLimit /\ switches \in 0..MaxSwitches /\ failures \in 0..MaxFailures
  BY ReplyConstants DEF RepliesInit, NoneSent
<1>4. ReplyTaskInv
  BY DEF RepliesInit, ReplyTaskInv, IdleHandler, IdleFallback, FirstFollowup
<1> QED  BY <1>1, <1>2, <1>3, <1>4 DEF RepliesInit, ReplyTypeInv, RepliesTypeOK

LEMMA FailureType == ASSUME ReplyTypeInv, Failure PROVE failures' \in 0..MaxFailures
BY SceneType, ReplyConstants DEF ReplyTypeInv, RepliesTypeOK, Failure

LEMMA AfterStopType ==
  ASSUME ReplyTypeInv, NEW g \in Gated
  PROVE  /\ Leaves(g) => afterStop' \in [Gated -> Nat]
         /\ StopOutreach => afterStop' \in [Gated -> Nat] /\ stopped' \in BOOLEAN
         /\ NoneSent \in [Gated -> Nat]
<1>1. afterStop \in [Gated -> Nat]  BY DEF ReplyTypeInv, RepliesTypeOK
<1>2. [afterStop EXCEPT ![g] = @ + 1] \in [Gated -> Nat]  BY <1>1
<1>3. Leaves(g) => afterStop' \in [Gated -> Nat]  BY <1>1, <1>2 DEF Leaves
<1>4. NoneSent \in [Gated -> Nat]  BY DEF NoneSent
<1> QED  BY <1>1, <1>3, <1>4 DEF StopOutreach

LEMMA SentRow ==
  ASSUME logs \in [Rows -> LogRow], NEW r \in Rows, NEW b \in BOOLEAN
  PROVE  [logs EXCEPT ![r].sent = TRUE, ![r].id = b] \in [Rows -> LogRow]
BY DEF LogRow

LEMMA SurroundingTypes == ASSUME ReplyTypeInv, Surroundings PROVE ReplyTypeInv'
<1> USE ReplyConstants, SceneType DEF ReplyTypeInv, RepliesTypeOK, tables, gates, tasks, received
<1>1. ASSUME NEW r \in Rows, FirstMessage(r) PROVE ReplyTypeInv'
  <2>1. logs' \in [Rows -> LogRow]
    <3> DEFINE b == r \in scene.known
    <3>1. logs' = [logs EXCEPT ![r].sent = TRUE, ![r].id = b] /\ b \in BOOLEAN
      BY <1>1 DEF FirstMessage
    <3> HIDE DEF b
    <3> QED  BY <3>1, SentRow
  <2> QED  BY <1>1, <2>1 DEF FirstMessage, ReplyTaskInv
<1>2. ASSUME NEW r \in Rows, Ages(r) PROVE ReplyTypeInv'
  <2>1. logs' \in [Rows -> LogRow]  BY <1>2 DEF Ages, LogRow
  <2> QED  BY <1>2, <2>1 DEF Ages, ReplyTaskInv
<1>3. ASSUME NEW c \in Contacts, LeadWrites(c) PROVE ReplyTypeInv'
  <2>1. /\ writes' \in [Contacts -> 0..MaxWrites] /\ inbox' \in [Contacts -> 0..MaxWrites]
        /\ \A d \in Contacts : inbox'[d] <= writes'[d]
    BY <1>3 DEF LeadWrites, ReplyTaskInv
  <2>2. since' \subseteq Contacts  BY <1>3 DEF LeadWrites
  <2> QED  BY <1>3, <2>1, <2>2 DEF LeadWrites, ReplyTaskInv
<1>4. ASSUME NEW k \in LockKeys, ReplyLockExpires(k) PROVE ReplyTypeInv'
  <2>1. locks' \subseteq LockKeys /\ overrun' \in BOOLEAN  BY <1>4 DEF ReplyLockExpires
  <2> QED  BY <1>4, <2>1 DEF ReplyLockExpires, ReplyTaskInv
<1>5. CASE Midnight
  <2>1. followup' = [followup EXCEPT !.yesterday = followup.at # "idle"]  BY <1>5 DEF Midnight
  <2>2. /\ followup' \in FollowupState /\ followup'.at = followup.at /\ followup'.row = followup.row
        /\ followup.at # "idle" => followup'.yesterday
    BY <2>1 DEF FollowupState
  <2> QED  BY <1>5, <2>2 DEF Midnight, ReplyTaskInv
<1>6. CASE CoolsDown  BY <1>6 DEF CoolsDown, ReplyTaskInv
<1>7. CASE Switch
  <2>1. afterStop' \in [Gated -> Nat] /\ stopped' \in BOOLEAN
    BY <1>7, AfterStopType DEF Switch, StopOutreach, NoneSent
  <2>2. switches' \in 0..MaxSwitches  BY <1>7 DEF Switch
  <2> QED  BY <1>7, <2>1, <2>2 DEF Switch, ReplyTaskInv
<1> QED  BY <1>1, <1>2, <1>3, <1>4, <1>5, <1>6, <1>7 DEF Surroundings

\* Marking a row.
LEMMA MarkRow ==
  ASSUME ReplyTypeInv, NEW r \in Rows
  PROVE  /\ [logs EXCEPT ![r].answered = TRUE] \in [Rows -> LogRow]
         /\ [logs EXCEPT ![r].replied = TRUE, ![r].id = TRUE] \in [Rows -> LogRow]
         /\ \A st \in FollowupStatus : [logs EXCEPT ![r].followup = st] \in [Rows -> LogRow]
         /\ \A st \in FollowupStatus :
              [logs EXCEPT ![r].replied = TRUE, ![r].followup = st] \in [Rows -> LogRow]
<1>1. logs \in [Rows -> LogRow]  BY DEF ReplyTypeInv, RepliesTypeOK
<1> QED  BY <1>1 DEF LogRow

\* A handler, the fallback loop and the dispatcher with another record.
LEMMA OneHandler ==
  ASSUME ReplyTypeInv, NEW h \in Handlers, NEW n \in HandlerState,
         handler' = [handler EXCEPT ![h] = n], n.at # "idle" => n.row \in Rows
  PROVE  /\ handler' \in [Handlers -> HandlerState]
         /\ \A g \in Handlers : handler'[g].at # "idle" => handler'[g].row \in Rows
<1>1. handler \in [Handlers -> HandlerState]  BY DEF ReplyTypeInv, RepliesTypeOK
<1>2. ASSUME NEW g \in Handlers, handler'[g].at # "idle" PROVE handler'[g].row \in Rows
  BY <1>1, <1>2 DEF ReplyTypeInv, ReplyTaskInv
<1> QED  BY <1>1, <1>2

LEMMA HandlerTypes ==
  ASSUME ReplyTypeInv,
         \/ \E c \in Contacts : Ignore(c)
         \/ \E h \in Handlers : HandlerStep(h)
  PROVE  ReplyTypeInv'
<1>1. \A c \in Contacts : Given(c) =>
        /\ inbox' \in [Contacts -> 0..MaxWrites]
        /\ \A d \in Contacts : inbox'[d] <= writes[d]
  BY ReplyConstants DEF Given, ReplyTypeInv, RepliesTypeOK, ReplyTaskInv
<1>2. \A c \in Contacts : {<<c, "id">>} \subseteq LockKeys  BY DEF LockKeys
<1>3. ASSUME NEW c \in Contacts, Ignore(c) PROVE ReplyTypeInv'
  <2>1. locks' \subseteq LockKeys  BY <1>2, <1>3 DEF Ignore, ReplyTypeInv, RepliesTypeOK
  <2>2. failures' \in 0..MaxFailures
    BY <1>3, FailureType DEF Ignore, ReplyTypeInv, RepliesTypeOK
  <2> QED  BY <1>1, <1>3, <2>1, <2>2 DEF Ignore, ReplyTypeInv, RepliesTypeOK, ReplyTaskInv,
             gates, tasks, received
<1>4. ASSUME NEW h \in Handlers, NEW c \in Contacts, Notice(h, c) PROVE ReplyTypeInv'
  <2>1. PICK r \in Rows :
          /\ logs' = [logs EXCEPT ![r].replied = TRUE, ![r].id = TRUE]
          /\ done' \in {done, done \cup {<<c, "id">>}}
          /\ \/ handler' = [handler EXCEPT ![h] = [at |-> "reply", row |-> r]]
             \/ handler' = handler
    BY <1>4 DEF Notice, RowsSentTo
  <2>2. logs' \in [Rows -> LogRow]  BY <2>1, MarkRow
  <2>3. locks' \subseteq LockKeys /\ done' \subseteq LockKeys
    BY <1>2, <1>4, <2>1 DEF Notice, ReplyTypeInv, RepliesTypeOK
  <2>4. /\ handler' \in [Handlers -> HandlerState]
        /\ \A g \in Handlers : handler'[g].at # "idle" => handler'[g].row \in Rows
    <3> DEFINE n == [at |-> "reply", row |-> r]
    <3>1. n \in HandlerState /\ n.row \in Rows  BY RowsNat DEF HandlerState
    <3>2. CASE handler' = [handler EXCEPT ![h] = n]
      <4> HIDE DEF n
      <4> QED  BY <3>1, <3>2, OneHandler
    <3>3. CASE handler' = handler  BY <3>3 DEF ReplyTypeInv, RepliesTypeOK, ReplyTaskInv
    <3> QED  BY <2>1, <3>2, <3>3
  <2> QED  BY <1>1, <1>4, <2>2, <2>3, <2>4 DEF Notice, ReplyTypeInv, RepliesTypeOK, ReplyTaskInv,
             gates, received
<1>5. ASSUME NEW h \in Handlers, Reply(h) PROVE ReplyTypeInv'
  <2>1. handler[h] \in HandlerState /\ handler[h].row \in Rows /\ h \in Gated
    BY <1>5 DEF Reply, ReplyTypeInv, RepliesTypeOK, ReplyTaskInv, Gated
  <2>2. /\ handler' \in [Handlers -> HandlerState]
        /\ \A g \in Handlers : handler'[g].at # "idle" => handler'[g].row \in Rows
    <3> DEFINE n == [handler[h] EXCEPT !.at = "record"]
    <3>1. n \in HandlerState /\ n.row \in Rows  BY <2>1 DEF HandlerState
    <3>2. CASE handler' = [handler EXCEPT ![h].at = "record"]
      <4>1. handler' = [handler EXCEPT ![h] = n]  BY <3>2
      <4> HIDE DEF n
      <4> QED  BY <3>1, <4>1, OneHandler
    <3>3. CASE handler' = [handler EXCEPT ![h] = IdleHandler]
      BY <3>3, IdleTypes, OneHandler DEF IdleHandler
    <3> QED  BY <1>5, <3>2, <3>3 DEF Reply
  <2>3. afterStop' \in [Gated -> Nat] /\ stopped' \in BOOLEAN
    BY <1>5, <2>1, AfterStopType DEF Reply, ReplyTypeInv, RepliesTypeOK
  <2>4. /\ replies' \in [Rows -> Nat]
        /\ UNCHANGED <<followups, sentTo, blind, today>>
    BY <1>5, <2>1 DEF Reply, Reached, ReplyTypeInv, RepliesTypeOK
  <2>5. failures' \in 0..MaxFailures
    BY <1>5, FailureType DEF Reply, ReplyTypeInv, RepliesTypeOK
  <2> QED  BY <1>5, <2>2, <2>3, <2>4, <2>5 DEF Reply, ReplyTypeInv, RepliesTypeOK, ReplyTaskInv,
             tables
<1>6. ASSUME NEW h \in Handlers, RecordReply(h) PROVE ReplyTypeInv'
  <2> DEFINE r == handler[h].row
  <2>1. r \in Rows /\ ContactOf(r) \in Contacts
    BY <1>6, SceneType DEF RecordReply, ReplyTypeInv, RepliesTypeOK, ReplyTaskInv
  <2>2. logs' \in [Rows -> LogRow] /\ done' \subseteq LockKeys
    <3>1. \/ logs' = [logs EXCEPT ![r].answered = TRUE] /\ done' = done \cup {<<ContactOf(r), "id">>}
          \/ UNCHANGED <<logs, done>>
      BY <1>6 DEF RecordReply
    <3>2. logs \in [Rows -> LogRow] /\ done \subseteq LockKeys
      BY DEF ReplyTypeInv, RepliesTypeOK
    <3> HIDE DEF r
    <3>3. [logs EXCEPT ![r].answered = TRUE] \in [Rows -> LogRow]  BY <2>1, MarkRow
    <3>4. done \cup {<<ContactOf(r), "id">>} \subseteq LockKeys  BY <3>2, <2>1, <1>2
    <3> QED  BY <3>1, <3>2, <3>3, <3>4
  <2>3. /\ handler' \in [Handlers -> HandlerState]
        /\ \A g \in Handlers : handler'[g].at # "idle" => handler'[g].row \in Rows
    BY <1>6, IdleTypes, OneHandler DEF RecordReply, IdleHandler
  <2>4. failures' \in 0..MaxFailures
    BY <1>6, FailureType DEF RecordReply, ReplyTypeInv, RepliesTypeOK
  <2> QED  BY <1>6, <2>2, <2>3, <2>4 DEF RecordReply, ReplyTypeInv, RepliesTypeOK, ReplyTaskInv,
             gates, received
<1> QED  BY <1>3, <1>4, <1>5, <1>6 DEF HandlerStep

\* What the fallback loop may be given next.
LEMMA FallbackType ==
  ASSUME ReplyTypeInv, NEW r \in Rows
  PROVE  /\ Without(r) \in FallbackState /\ Without(r).at \notin {"send", "record"}
         /\ IdleFallback \in FallbackState /\ IdleFallback.at \notin {"send", "record"}
         /\ fallback.batch[r] # "none" => KeyOf(r) \in LockKeys
<1>1. fallback \in FallbackState /\ 0 \in 0..NumRows
  BY ReplyConstants DEF ReplyTypeInv, RepliesTypeOK
<1>2. fallback.batch \in [Rows -> {"none", "id", "name"}]  BY <1>1 DEF FallbackState
<1>3. ContactOf(r) \in Contacts  BY SceneType DEF ReplyTypeInv, RepliesTypeOK
<1>4. fallback.batch[r] # "none" => KeyOf(r) \in LockKeys  BY <1>2, <1>3 DEF KeyOf, LockKeys
<1>5. IdleFallback \in FallbackState /\ IdleFallback.at = "idle"  BY IdleTypes DEF IdleFallback
<1>6. Without(r) \in FallbackState /\ Without(r).at \in {"idle", "next"}
  BY <1>1, <1>2, <1>5 DEF Without, FallbackState
<1> QED  BY <1>4, <1>5, <1>6

LEMMA FallbackTypes == ASSUME ReplyTypeInv, FallbackStep PROVE ReplyTypeInv'
<1>0. fallback \in FallbackState /\ 0 \in 0..NumRows
  BY ReplyConstants DEF ReplyTypeInv, RepliesTypeOK
<1>1. CASE ReadBatch
  <2>1. fallback' \in FallbackState /\ fallback'.at = "next"
    BY <1>0, <1>1 DEF ReadBatch, FallbackState
  <2> QED  BY <1>1, <2>1 DEF ReadBatch, ReplyTypeInv, RepliesTypeOK, ReplyTaskInv, tables, gates,
             received
<1>2. CASE TakeRow
  <2>1. PICK r \in Rows :
          /\ fallback.batch[r] # "none"
          /\ \/ fallback' = Without(r) /\ UNCHANGED locks
             \/ /\ fallback' = [fallback EXCEPT !.at = "send", !.row = r]
                /\ locks' = locks \cup {KeyOf(r)}
    BY <1>2 DEF TakeRow, Waiting
  <2>2. locks' \subseteq LockKeys
    BY <2>1, FallbackType DEF ReplyTypeInv, RepliesTypeOK
  <2>3. /\ fallback' \in FallbackState
        /\ fallback'.at \in {"send", "record"}
             => fallback'.row \in Rows /\ fallback'.batch[fallback'.row] # "none"
    <3>1. CASE fallback' = Without(r)  BY <3>1, FallbackType
    <3>2. CASE fallback' = [fallback EXCEPT !.at = "send", !.row = r]
      BY <3>2, <2>1, <1>0, RowsNat DEF FallbackState
    <3> QED  BY <2>1, <3>1, <3>2
  <2> QED  BY <1>2, <2>2, <2>3 DEF TakeRow, ReplyTypeInv, RepliesTypeOK, ReplyTaskInv, gates,
             received
<1>3. CASE FallbackReply
  <2> DEFINE r == fallback.row
  <2>1. r \in Rows /\ fallback.batch[r] # "none"
    BY <1>3 DEF FallbackReply, ReplyTypeInv, ReplyTaskInv
  <2>2. /\ fallback' \in FallbackState
        /\ fallback'.at \in {"send", "record"}
             => fallback'.row \in Rows /\ fallback'.batch[fallback'.row] # "none"
    <3>1. CASE fallback' \in {Without(r), IdleFallback}
      <4> HIDE DEF r
      <4> QED  BY <3>1, <2>1, FallbackType
    <3>2. CASE fallback' = [fallback EXCEPT !.at = "record"]
      BY <3>2, <2>1, <1>0 DEF FallbackState
    <3> QED  BY <1>3, <3>1, <3>2 DEF FallbackReply
  <2>3. replies' \in [Rows -> Nat] /\ UNCHANGED <<followups, sentTo, blind, today, afterStop>>
    BY <1>3, <2>1 DEF FallbackReply, Reached, received, ReplyTypeInv, RepliesTypeOK
  <2>4. failures' \in 0..MaxFailures
    BY <1>3, FailureType DEF FallbackReply, ReplyTypeInv, RepliesTypeOK
  <2> QED  BY <1>3, <2>2, <2>3, <2>4 DEF FallbackReply, ReplyTypeInv, RepliesTypeOK, ReplyTaskInv,
             tables, gates
<1>4. CASE RecordFallback
  <2> DEFINE r == fallback.row
  <2>1. r \in Rows /\ fallback.batch[r] # "none"
    BY <1>4 DEF RecordFallback, ReplyTypeInv, ReplyTaskInv
  <2>2. /\ fallback' \in {Without(r), IdleFallback}
        /\ \/ logs' = [logs EXCEPT ![r].answered = TRUE] /\ done' = done \cup {KeyOf(r)}
           \/ UNCHANGED <<logs, done>>
        /\ failures' = failures \/ Failure
    BY <1>4 DEF RecordFallback
  <2>3. /\ fallback' \in FallbackState /\ fallback'.at \notin {"send", "record"}
        /\ logs' \in [Rows -> LogRow] /\ done' \subseteq LockKeys
    <3>1. KeyOf(r) \in LockKeys  BY <2>1, FallbackType
    <3>2. logs \in [Rows -> LogRow] /\ done \subseteq LockKeys  BY DEF ReplyTypeInv, RepliesTypeOK
    <3>3. [logs EXCEPT ![r].answered = TRUE] \in [Rows -> LogRow]  BY <2>1, MarkRow
    <3>4. /\ Without(r) \in FallbackState /\ Without(r).at \notin {"send", "record"}
          /\ IdleFallback \in FallbackState /\ IdleFallback.at \notin {"send", "record"}
      BY <2>1, FallbackType
    <3>5. logs' \in [Rows -> LogRow] /\ done' \subseteq LockKeys  BY <2>2, <3>1, <3>2, <3>3
    <3> QED  BY <2>2, <3>4, <3>5
  <2>4. failures' \in 0..MaxFailures
    BY <2>2, FailureType DEF ReplyTypeInv, RepliesTypeOK
  <2> QED  BY <1>4, <2>3, <2>4 DEF RecordFallback, ReplyTypeInv, RepliesTypeOK, ReplyTaskInv,
             gates, received
<1> QED  BY <1>1, <1>2, <1>3, <1>4 DEF FallbackStep

\* What becomes of the dispatcher.
LEMMA DispatcherType ==
  ASSUME ReplyTypeInv
  PROVE  /\ followup \in FollowupState /\ FirstFollowup \in FollowupState
         /\ \A p \in Contacts \cup {NoContact} :
              /\ [FirstFollowup EXCEPT !.peer = p] \in FollowupState
              /\ [followup EXCEPT !.at = "send", !.peer = p] \in FollowupState
         /\ \A r \in Rows : [followup EXCEPT !.at = "inspect", !.row = r] \in FollowupState
         /\ [followup EXCEPT !.at = "record"] \in FollowupState
         /\ [followup EXCEPT !.at = "idle", !.row = 0, !.yesterday = FALSE] \in FollowupState
         /\ followup.peer \in Contacts \cup {NoContact}
<1>1. followup \in FollowupState /\ FirstFollowup \in FollowupState /\ 0 \in 0..NumRows
  BY IdleTypes, ReplyConstants DEF ReplyTypeInv, RepliesTypeOK
<1> QED  BY <1>1, RowsNat DEF FollowupState

LEMMA PassGateTypes ==
  ASSUME ReplyTypeInv, NEW p \in Contacts \cup {NoContact}, PassGate(p), followup.row \in Rows
  PROVE  /\ logs' \in [Rows -> LogRow] /\ followup' \in FollowupState
         /\ followup'.at # "idle" => followup'.row = followup.row
         /\ followup'.at # "idle" => followup'.yesterday = followup.yesterday
<1>1. followup \in FollowupState  BY DEF ReplyTypeInv, RepliesTypeOK
<1>2. CASE stopped
  <2>1. /\ logs' = [logs EXCEPT ![followup.row].followup = "skipped"]
        /\ followup' = [FirstFollowup EXCEPT !.peer = p]
    BY <1>2 DEF PassGate
  <2>2. followup'.at = "idle"  BY <2>1 DEF FirstFollowup
  <2>3. "skipped" \in FollowupStatus  BY DEF FollowupStatus
  <2> QED  BY <2>1, <2>2, <2>3, DispatcherType, MarkRow
<1>3. CASE ~stopped
  <2>1. followup' = [followup EXCEPT !.at = "send", !.peer = p] /\ logs' = logs
    BY <1>3 DEF PassGate
  <2>2. followup'.row = followup.row /\ followup'.yesterday = followup.yesterday
    BY <2>1, <1>1 DEF FollowupState
  <2> QED  BY <2>1, <2>2, DispatcherType DEF ReplyTypeInv, RepliesTypeOK
<1> QED  BY <1>2, <1>3

LEMMA FollowupTypes == ASSUME ReplyTypeInv, FollowupStep PROVE ReplyTypeInv'
<1>0. /\ followup \in FollowupState
      /\ followup.at # "idle" => followup.row \in Rows /\ ContactOf(followup.row) \in Contacts
      /\ {"processing", "skipped", "sent", "failed"} \subseteq FollowupStatus
  BY SceneType DEF ReplyTypeInv, RepliesTypeOK, ReplyTaskInv, FollowupStatus
<1>1. CASE Claim
  <2>1. PICK r \in Rows :
          /\ logs' = [logs EXCEPT ![r].followup = "processing"]
          /\ since' = since \ {ContactOf(r)}
          /\ \/ followup' = [followup EXCEPT !.at = "inspect", !.row = r] /\ UNCHANGED failures
             \/ followup' = followup /\ Failure
    BY <1>1 DEF Claim, Silent
  <2>2. logs' \in [Rows -> LogRow]  BY <2>1, <1>0, MarkRow
  <2>3. failures' \in 0..MaxFailures  BY <2>1, FailureType DEF ReplyTypeInv, RepliesTypeOK
  <2>4. /\ followup' \in FollowupState
        /\ followup'.at # "idle" => followup'.row \in Rows
    <3>1. followup' = followup => followup'.at = "idle"  BY <1>1 DEF Claim
    <3>2. [followup EXCEPT !.at = "inspect", !.row = r].row = r  BY <1>0 DEF FollowupState
    <3>3. [followup EXCEPT !.at = "inspect", !.row = r] \in FollowupState  BY DispatcherType
    <3> QED  BY <2>1, <1>0, <3>1, <3>2, <3>3
  <2> QED  BY <1>1, <2>1, <2>2, <2>3, <2>4 DEF Claim, ReplyTypeInv, RepliesTypeOK, ReplyTaskInv,
             received
<1>2. CASE Inspect
  <2> DEFINE r == followup.row
  <2>1. r \in Rows /\ ContactOf(r) \in Contacts  BY <1>0, <1>2 DEF Inspect
  <2>2. \/ PassGate(ContactOf(r))
        \/ /\ logs' = [logs EXCEPT ![r].replied = TRUE, ![r].followup = "skipped"]
           /\ followup' = [FirstFollowup EXCEPT !.peer = ContactOf(r)]
    BY <1>2 DEF Inspect
  <2>3. /\ logs' \in [Rows -> LogRow] /\ followup' \in FollowupState
        /\ followup'.at # "idle" => followup'.row = r /\ followup'.yesterday = followup.yesterday
    <3>1. CASE PassGate(ContactOf(r))  BY <3>1, <2>1, PassGateTypes
    <3>2. CASE /\ logs' = [logs EXCEPT ![r].replied = TRUE, ![r].followup = "skipped"]
               /\ followup' = [FirstFollowup EXCEPT !.peer = ContactOf(r)]
      <4>1. followup'.at = "idle"  BY <3>2 DEF FirstFollowup
      <4> HIDE DEF r
      <4> QED  BY <3>2, <4>1, <2>1, <1>0, MarkRow, DispatcherType
    <3> QED  BY <2>2, <3>1, <3>2
  <2> QED  BY <1>2, <2>1, <2>3 DEF Inspect, ReplyTypeInv, RepliesTypeOK, ReplyTaskInv, gates,
             received
<1>3. CASE InspectFails
  <2> DEFINE r == followup.row
  <2>1. r \in Rows /\ ContactOf(r) \in Contacts  BY <1>0, <1>3 DEF InspectFails
  <2>2. PICK p \in Contacts \cup {NoContact} : PassGate(p)
    BY <1>3, <2>1, DispatcherType DEF InspectFails
  <2>3. /\ logs' \in [Rows -> LogRow] /\ followup' \in FollowupState
        /\ followup'.at # "idle" => followup'.row = r /\ followup'.yesterday = followup.yesterday
    BY <2>1, <2>2, PassGateTypes
  <2>4. failures' \in 0..MaxFailures
    BY <1>3, FailureType DEF InspectFails, ReplyTypeInv, RepliesTypeOK
  <2> QED  BY <1>3, <2>1, <2>3, <2>4 DEF InspectFails, ReplyTypeInv, RepliesTypeOK, ReplyTaskInv,
             gates
<1>4. CASE SendFollowup
  <2> DEFINE r == followup.row
  <2>1. r \in Rows  BY <1>0, <1>4 DEF SendFollowup
  <2>2. \/ followup' = [followup EXCEPT !.at = "record"] /\ logs' = logs
        \/ Settle("failed")
    BY <1>4 DEF SendFollowup
  <2>3. /\ logs' \in [Rows -> LogRow] /\ followup' \in FollowupState
        /\ followup'.at # "idle" => followup'.row = r /\ followup'.yesterday = followup.yesterday
    <3>1. CASE followup' = [followup EXCEPT !.at = "record"] /\ logs' = logs
      BY <3>1, <1>0, DispatcherType DEF FollowupState, ReplyTypeInv, RepliesTypeOK
    <3>2. CASE Settle("failed")
      <4>1. followup'.at = "idle"  BY <3>2, <1>0 DEF Settle, FollowupState
      <4> QED  BY <3>2, <4>1, <2>1, <1>0, MarkRow, DispatcherType DEF Settle
    <3> QED  BY <2>2, <3>1, <3>2
  <2>4. /\ followups' \in [Rows -> Nat] /\ sentTo' \in [Rows -> Contacts \cup {NoContact}]
        /\ today' \in Nat
    <3>1. /\ followups \in [Rows -> Nat] /\ sentTo \in [Rows -> Contacts \cup {NoContact}]
          /\ today \in Nat
      BY DEF ReplyTypeInv, RepliesTypeOK
    <3>2. followup.peer \in Contacts \cup {NoContact}  BY DispatcherType
    <3>3. /\ followups' \in {followups, [followups EXCEPT ![r] = @ + 1]}
          /\ sentTo' \in {sentTo, [sentTo EXCEPT ![r] = followup.peer]}
          /\ today' \in {today, today + 1}
      BY <1>4 DEF SendFollowup
    <3>4. /\ [followups EXCEPT ![r] = @ + 1] \in [Rows -> Nat]
          /\ [sentTo EXCEPT ![r] = followup.peer] \in [Rows -> Contacts \cup {NoContact}]
      BY <2>1, <3>1, <3>2
    <3> HIDE DEF r
    <3> QED  BY <3>1, <3>3, <3>4
  <2>5. afterStop' \in [Gated -> Nat] /\ stopped' \in BOOLEAN /\ cooling' \in BOOLEAN
    <3>1. "dispatcher" \in Gated  BY DEF Gated
    <3> QED  BY <1>4, <3>1, AfterStopType DEF SendFollowup, ReplyTypeInv, RepliesTypeOK
  <2>6. failures' \in 0..MaxFailures
    BY <1>4, FailureType DEF SendFollowup, ReplyTypeInv, RepliesTypeOK
  <2> QED  BY <1>4, <2>1, <2>3, <2>4, <2>5, <2>6 DEF SendFollowup, ReplyTypeInv, RepliesTypeOK,
             ReplyTaskInv
<1>5. CASE RecordFollowup
  <2> DEFINE r == followup.row
  <2>1. r \in Rows  BY <1>0, <1>5 DEF RecordFollowup
  <2>2. /\ followup' = [followup EXCEPT !.at = "idle", !.row = 0, !.yesterday = FALSE]
        /\ logs' = [logs EXCEPT ![r].followup = "sent"] \/ logs' = logs
        /\ Count \/ counted' = counted
        /\ Failure \/ failures' = failures
    BY <1>5 DEF RecordFollowup, Settle
  <2>3. followup' \in FollowupState /\ followup'.at = "idle"
    BY <2>2, <1>0, DispatcherType DEF FollowupState
  <2>4. logs' \in [Rows -> LogRow]
    <3>1. "sent" \in FollowupStatus  BY DEF FollowupStatus
    <3>2. [logs EXCEPT ![r].followup = "sent"] \in [Rows -> LogRow]  BY <2>1, <3>1, MarkRow
    <3> HIDE DEF r
    <3> QED  BY <2>2, <3>2 DEF ReplyTypeInv, RepliesTypeOK
  <2>5. counted' \in 0..DailyLimit
    BY <2>2, <1>5, ReplyConstants DEF Count, RecordFollowup, ReplyTypeInv, RepliesTypeOK, ReplyTaskInv
  <2>6. failures' \in 0..MaxFailures
    BY <2>2, FailureType DEF ReplyTypeInv, RepliesTypeOK
  <2> QED  BY <1>5, <2>3, <2>4, <2>5, <2>6 DEF RecordFollowup, ReplyTypeInv, RepliesTypeOK,
             ReplyTaskInv, received
<1> QED  BY <1>1, <1>2, <1>3, <1>4, <1>5 DEF FollowupStep

LEMMA DeathTypes == ASSUME ReplyTypeInv, TasksDie PROVE ReplyTypeInv'
<1>1. /\ handler' \in [Handlers -> HandlerState] /\ fallback' \in FallbackState
      /\ followup' \in FollowupState
  BY IdleTypes DEF TasksDie
<1>2. inbox' \in [Contacts -> 0..MaxWrites] /\ \A c \in Contacts : inbox'[c] <= writes[c]
  BY ReplyConstants DEF TasksDie, ReplyTypeInv, RepliesTypeOK
<1>3. ReplyTaskInv'
  BY <1>2 DEF TasksDie, ReplyTaskInv, IdleHandler, IdleFallback, FirstFollowup
<1> QED  BY <1>1, <1>2, <1>3 DEF TasksDie, ReplyTypeInv, RepliesTypeOK, tables, gates, received

LEMMA ReplyTypeStep == ReplyTypeInv /\ [Next]_vars => ReplyTypeInv'
<1> SUFFICES ASSUME ReplyTypeInv, [Next]_vars PROVE ReplyTypeInv'  OBVIOUS
<1>1. CASE ValidatorTasks
  BY <1>1, HandlerTypes, FallbackTypes, FollowupTypes DEF ValidatorTasks
<1>2. CASE Surroundings  BY <1>2, SurroundingTypes
<1>3. CASE TasksDie  BY <1>3, DeathTypes
<1>4. CASE UNCHANGED repliesVars
  BY <1>4 DEF repliesVars, tables, gates, tasks, received, ReplyTypeInv, RepliesTypeOK, ReplyTaskInv
<1> QED  BY <1>1, <1>2, <1>3, <1>4 DEF Next, Replying, OnUserClient, Pooling, InPool, Moving, Outside, WorkerGoes, vars

-----------------------------------------------------------------------------
\* The follow-ups.  Only the dispatcher, the crash and midnight touch what they are
\* about: the handlers and the fallback loop write other columns.
LEMMA ElsewhereUntouched ==
  ASSUME ReplyTypeInv, [Next]_vars
  PROVE  \/ FollowupStep \/ (TasksDie /\ \E w \in pool.run : WorkerGoes(w)) \/ Midnight
         \/ /\ UNCHANGED <<followup, followups, sentTo, blind, counted, today>>
            /\ \A r \in Rows : logs'[r].followup = logs[r].followup
<1> DEFINE Same == \A r \in Rows : logs'[r].followup = logs[r].followup
           Still == UNCHANGED <<followup, followups, sentTo, blind, counted, today>>
<1>0. logs \in [Rows -> LogRow]  BY DEF ReplyTypeInv, RepliesTypeOK
<1>1. ASSUME NEW c \in Contacts, Ignore(c) PROVE Still /\ Same
  BY <1>1 DEF Ignore, gates, tasks, received
<1>2. ASSUME NEW h \in Handlers, HandlerStep(h) PROVE Still /\ Same
  <2>1. CASE \E c \in Contacts : Notice(h, c)
    BY <2>1, <1>0 DEF Notice, gates, received, LogRow, RowsSentTo
  <2>2. CASE Reply(h)  BY <2>2 DEF Reply, Reached, tables
  <2>3. CASE RecordReply(h)  BY <2>3, <1>0 DEF RecordReply, gates, received, LogRow
  <2> QED  BY <1>2, <2>1, <2>2, <2>3 DEF HandlerStep
<1>3. CASE FallbackStep
  <2>1. CASE ReadBatch  BY <2>1 DEF ReadBatch, tables, gates, received
  <2>2. CASE TakeRow  BY <2>2 DEF TakeRow, gates, received
  <2>3. CASE FallbackReply  BY <2>3 DEF FallbackReply, Reached, tables, gates, received
  <2>4. CASE RecordFallback  BY <2>4, <1>0 DEF RecordFallback, gates, received, LogRow
  <2> QED  BY <1>3, <2>1, <2>2, <2>3, <2>4 DEF FallbackStep
<1>4. CASE Surroundings
  <2>1. ASSUME NEW r \in Rows, FirstMessage(r) \/ Ages(r) PROVE Still /\ Same
    BY <2>1, <1>0 DEF FirstMessage, Ages, gates, tasks, received, LogRow
  <2>2. ASSUME NEW c \in Contacts, LeadWrites(c) PROVE Still /\ Same
    BY <2>2 DEF LeadWrites, tables, gates, tasks, received
  <2>3. ASSUME NEW k \in LockKeys, ReplyLockExpires(k) PROVE Still /\ Same
    BY <2>3 DEF ReplyLockExpires, gates, tasks, received
  <2>4. CASE CoolsDown  BY <2>4 DEF CoolsDown, tables, tasks, received
  <2>5. CASE Switch  BY <2>5 DEF Switch, tables, tasks
  <2> QED  BY <1>4, <2>1, <2>2, <2>3, <2>4, <2>5 DEF Surroundings
<1>5. CASE UNCHANGED repliesVars
  BY <1>5 DEF repliesVars, tables, gates, tasks, received
<1> QED  BY <1>1, <1>2, <1>3, <1>4, <1>5 DEF Next, Replying, OnUserClient, Pooling, InPool, Moving, Outside,
           WorkerGoes, vars, ValidatorTasks

\* A row in the dispatcher's hands is claimed; one that got its follow-up is not in its
\* hands before the send, and stays claimed or settled.
ClaimInv ==
  /\ followup.at # "idle" => logs[followup.row].followup = "processing"
  /\ \A r \in Rows : followups[r] # 0 =>
       /\ followups[r] = 1 /\ logs[r].followup # "none"
       /\ ~(followup.at \in {"inspect", "send"} /\ followup.row = r)

LEMMA ClaimStep == ReplyTypeInv /\ ClaimInv /\ [Next]_vars => ClaimInv'
<1> SUFFICES ASSUME ReplyTypeInv, ClaimInv, [Next]_vars PROVE ClaimInv'  OBVIOUS
<1>0. /\ logs \in [Rows -> LogRow] /\ followup \in FollowupState /\ followups \in [Rows -> Nat]
      /\ followup.at # "idle" => followup.row \in Rows
  BY DEF ReplyTypeInv, RepliesTypeOK, ReplyTaskInv
<1>1. CASE Claim
  <2>1. PICK r \in Rows :
          /\ logs[r].followup = "none"
          /\ logs' = [logs EXCEPT ![r].followup = "processing"]
          /\ \/ followup' = [followup EXCEPT !.at = "inspect", !.row = r]
             \/ followup' = followup
    BY <1>1 DEF Claim, Silent
  <2>2. followups[r] = 0 /\ followups' = followups /\ followup.at = "idle"
    BY <1>1, <2>1, <1>0 DEF ClaimInv, Claim, received
  <2>3. /\ logs'[r].followup = "processing"
        /\ \A q \in Rows \ {r} : logs'[q].followup = logs[q].followup
    BY <2>1, <1>0 DEF LogRow
  <2>4. /\ followup'.at # "idle" => followup'.row = r
    BY <2>1, <2>2, <1>0 DEF FollowupState
  <2> QED  BY <2>2, <2>3, <2>4, <1>0 DEF ClaimInv
<1>2. ASSUME NEW p, PassGate(p), followup.at = "inspect", followups' = followups PROVE ClaimInv'
  <2> DEFINE r == followup.row
  <2>1. r \in Rows /\ followups[r] = 0  BY <1>2, <1>0 DEF ClaimInv
  <2>2. CASE stopped
    <3>1. followup'.at = "idle"  BY <1>2, <2>2 DEF PassGate, FirstFollowup
    <3>2. logs' = [logs EXCEPT ![r].followup = "skipped"]  BY <1>2, <2>2 DEF PassGate
    <3>3. \A q \in Rows : logs'[q].followup \in {logs[q].followup, "skipped"}
      BY <3>2, <2>1, <1>0 DEF LogRow
    <3> QED  BY <1>2, <3>1, <3>3 DEF ClaimInv
  <2>3. CASE ~stopped
    <3>1. /\ logs' = logs /\ followup'.at = "send" /\ followup'.row = r
      BY <1>2, <2>3, <1>0 DEF PassGate, FollowupState
    <3> QED  BY <1>2, <2>1, <3>1, <1>0 DEF ClaimInv
  <2> QED  BY <2>2, <2>3
<1>3. CASE Inspect
  <2>1. CASE PassGate(ContactOf(followup.row))
    BY <1>2, <1>3, <2>1 DEF Inspect, received
  <2>2. CASE ~PassGate(ContactOf(followup.row))
    <3> DEFINE r == followup.row
    <3>1. /\ r \in Rows /\ followups' = followups
          /\ logs' = [logs EXCEPT ![r].replied = TRUE, ![r].followup = "skipped"]
          /\ followup' = [FirstFollowup EXCEPT !.peer = ContactOf(r)]
      BY <1>3, <2>2, <1>0 DEF Inspect, received
    <3>2. followup'.at = "idle"  BY <3>1 DEF FirstFollowup
    <3>3. \A q \in Rows : logs'[q].followup \in {logs[q].followup, "skipped"}
      BY <3>1, <1>0 DEF LogRow
    <3> QED  BY <3>1, <3>2, <3>3 DEF ClaimInv
  <2> QED  BY <2>1, <2>2
<1>4. CASE InspectFails
  BY <1>2, <1>4 DEF InspectFails
<1>5. CASE SendFollowup
  <2> DEFINE r == followup.row
  <2>1. r \in Rows /\ followups[r] = 0 /\ logs[r].followup = "processing"
    BY <1>5, <1>0 DEF SendFollowup, ClaimInv
  <2>2. followups' = [followups EXCEPT ![r] = @ + 1] \/ followups' = followups
    BY <1>5 DEF SendFollowup
  <2>3. followups'[r] \in {0, 1} /\ \A q \in Rows \ {r} : followups'[q] = followups[q]
    <3> HIDE DEF r
    <3> QED  BY <2>1, <2>2, <1>0
  <2>4. CASE followup' = [followup EXCEPT !.at = "record"] /\ UNCHANGED logs
    <3>1. followup'.at = "record" /\ followup'.row = r  BY <2>4, <1>0 DEF FollowupState
    <3> HIDE DEF r
    <3> QED  BY <2>1, <2>3, <2>4, <3>1, <1>0 DEF ClaimInv
  <2>5. CASE Settle("failed")
    <3>1. followup'.at = "idle"  BY <2>5, <1>0 DEF Settle, FollowupState
    <3>2. \A q \in Rows : logs'[q].followup \in {logs[q].followup, "failed"}
      BY <2>5, <2>1, <1>0 DEF Settle, LogRow
    <3> HIDE DEF r
    <3> QED  BY <2>1, <2>3, <3>1, <3>2, <1>0 DEF ClaimInv
  <2> QED  BY <1>5, <2>4, <2>5 DEF SendFollowup
<1>6. CASE RecordFollowup
  <2> DEFINE r == followup.row
  <2>1. r \in Rows /\ followups' = followups  BY <1>6, <1>0 DEF RecordFollowup, received
  <2>2. followup'.at = "idle"  BY <1>6, <1>0 DEF RecordFollowup, Settle, FollowupState
  <2>3. logs' = [logs EXCEPT ![r].followup = "sent"] \/ logs' = logs
    BY <1>6 DEF RecordFollowup, Settle
  <2>4. \A q \in Rows : logs'[q].followup \in {logs[q].followup, "sent"}
    <3> HIDE DEF r
    <3> QED  BY <2>1, <2>3, <1>0 DEF LogRow
  <2> QED  BY <2>1, <2>2, <2>4 DEF ClaimInv
<1>7. CASE TasksDie
  BY <1>7 DEF TasksDie, FirstFollowup, ClaimInv, tables, received
<1>8. CASE Midnight
  <2>1. followup'.at = followup.at /\ followup'.row = followup.row
    BY <1>8, <1>0 DEF Midnight, FollowupState
  <2> QED  BY <1>8, <2>1 DEF Midnight, ClaimInv, tables
<1>9. CASE /\ UNCHANGED <<followup, followups, sentTo, blind, counted, today>>
           /\ \A r \in Rows : logs'[r].followup = logs[r].followup
  BY <1>9, <1>0 DEF ClaimInv
<1> QED  BY <1>1, <1>3, <1>4, <1>5, <1>6, <1>7, <1>8, <1>9, ElsewhereUntouched DEF FollowupStep

\* A row gets one follow-up, whatever fails or dies.
THEOREM FollowedUpOnce == Spec => []OneFollowup
<1>1. Init => ReplyTypeInv /\ ClaimInv
  BY ReplyInitInv DEF Init, RepliesInit, ClaimInv, FirstFollowup
<1>2. ReplyTypeInv /\ ClaimInv => OneFollowup
  BY DEF ReplyTypeInv, RepliesTypeOK, ClaimInv, OneFollowup
<1> QED  BY <1>1, <1>2, ReplyTypeStep, ClaimStep, PTL DEF Spec

\* When the dispatcher is about to send, the peer is the contact of the row and the
\* contact has not written but after the look, or else the look failed.
PeerInv ==
  followup.at = "send" /\ followup.row \notin blind =>
    /\ followup.peer = ContactOf(followup.row)
    /\ writes[ContactOf(followup.row)] > 0 => ContactOf(followup.row) \in since

LEMMA PassGatePeer ==
  ASSUME ReplyTypeInv, NEW p, PassGate(p), followup'.at = "send"
  PROVE  followup'.peer = p /\ followup'.row = followup.row
<1>1. followup \in FollowupState  BY DEF ReplyTypeInv, RepliesTypeOK
<1>2. CASE stopped  BY <1>2 DEF PassGate, FirstFollowup
<1>3. CASE ~stopped
  <2>1. followup' = [followup EXCEPT !.at = "send", !.peer = p]  BY <1>3 DEF PassGate
  <2> QED  BY <2>1, <1>1 DEF FollowupState
<1> QED  BY <1>2, <1>3

\* Who wrote, and who wrote since: other steps than the dispatcher's only add to both,
\* and to both at once.
LEMMA WritersStep ==
  ASSUME ReplyTypeInv, [Next]_vars
  PROVE  /\ scene' = scene
         /\ FollowupStep => writes' = writes
         /\ ~FollowupStep => \A c \in Contacts :
              writes'[c] > 0 /\ (writes[c] > 0 => c \in since) => c \in since'
<1>0. writes \in [Contacts -> 0..MaxWrites]  BY DEF ReplyTypeInv, RepliesTypeOK
<1>1. ASSUME NEW c \in Contacts, Ignore(c) PROVE UNCHANGED <<scene, writes, since>>
  BY <1>1 DEF Ignore
<1>2. ASSUME NEW h \in Handlers, HandlerStep(h) PROVE UNCHANGED <<scene, writes, since>>
  BY <1>2 DEF HandlerStep, Notice, Reply, RecordReply
<1>3. CASE FallbackStep
  BY <1>3 DEF FallbackStep, ReadBatch, TakeRow, FallbackReply, RecordFallback
<1>4. CASE FollowupStep
  BY <1>4 DEF FollowupStep, Claim, Inspect, InspectFails, SendFollowup, RecordFollowup
<1>5. CASE Surroundings
  <2>1. ASSUME NEW c \in Contacts, LeadWrites(c)
        PROVE  /\ scene' = scene
               /\ \A b \in Contacts :
                    writes'[b] > 0 /\ (writes[b] > 0 => b \in since) => b \in since'
    BY <2>1, <1>0 DEF LeadWrites
  <2>2. CASE ~\E c \in Contacts : LeadWrites(c)
    <3>1. UNCHANGED <<scene, writes, since>>
      BY <1>5, <2>2 DEF Surroundings, FirstMessage, Ages, ReplyLockExpires, Midnight, CoolsDown, Switch
    <3> QED  BY <3>1
  <2>3. FollowupStep => writes' = writes
    BY DEF FollowupStep, Claim, Inspect, InspectFails, SendFollowup, RecordFollowup
  <2> QED  BY <2>1, <2>2, <2>3
<1>6. CASE TasksDie  BY <1>6 DEF TasksDie
<1>7. CASE UNCHANGED repliesVars  BY <1>7 DEF repliesVars
<1> QED  BY <1>1, <1>2, <1>3, <1>4, <1>5, <1>6, <1>7 DEF Next, Replying, OnUserClient, Pooling, InPool, Moving,
           Outside, WorkerGoes, vars, ValidatorTasks

LEMMA PeerStep == ReplyTypeInv /\ PeerInv /\ [Next]_vars => PeerInv'
<1> SUFFICES ASSUME ReplyTypeInv, PeerInv, [Next]_vars, followup'.at = "send"
             PROVE  PeerInv'
  BY DEF PeerInv
<1>0. /\ followup \in FollowupState
      /\ followup.at # "idle" => followup.row \in Rows /\ ContactOf(followup.row) \in Contacts
      /\ writes \in [Contacts -> 0..MaxWrites]
  BY SceneType DEF ReplyTypeInv, RepliesTypeOK, ReplyTaskInv
<1>1. scene' = scene  BY WritersStep
<1>2. CASE Inspect
  <2> DEFINE c == ContactOf(followup.row)
  <2>1. ~Conversation(c) /\ PassGate(c)
    BY <1>2 DEF Inspect, FirstFollowup
  <2>2. followup'.peer = c /\ followup'.row = followup.row  BY <2>1, PassGatePeer
  <2>3. c \in Contacts /\ writes' = writes /\ ~(writes[c] > 0)
    BY <1>2, <2>1, <1>0 DEF Inspect, Conversation
  <2> QED  BY <2>2, <2>3, <1>1 DEF PeerInv, ContactOf
<1>3. CASE InspectFails
  <2>1. PICK p : PassGate(p)  BY <1>3 DEF InspectFails
  <2>2. followup'.row \in blind'  BY <1>3, <2>1, PassGatePeer DEF InspectFails
  <2> QED  BY <2>2 DEF PeerInv
<1>4. CASE Claim \/ SendFollowup \/ RecordFollowup
  <2>1. followup'.at # "send"
    BY <1>4, <1>0 DEF Claim, SendFollowup, RecordFollowup, Settle, FollowupState
  <2> QED  BY <2>1
<1>5. CASE ~FollowupStep
  <2>1. /\ followup'.at = followup.at /\ followup'.row = followup.row
        /\ followup'.peer = followup.peer /\ blind' = blind
    <3>1. CASE TasksDie  BY <3>1 DEF TasksDie, FirstFollowup
    <3>2. CASE Midnight  BY <3>2, <1>0 DEF Midnight, FollowupState
    <3> QED  BY <1>5, <3>1, <3>2, ElsewhereUntouched
  <2>2. followup.row \in Rows /\ ContactOf(followup.row) \in Contacts  BY <2>1, <1>0
  <2> QED  BY <2>1, <2>2, <1>1, <1>5, WritersStep DEF PeerInv, ContactOf
<1> QED  BY <1>2, <1>3, <1>4, <1>5 DEF FollowupStep

\* A follow-up reaches the contact of its row, and not one who had written before the
\* look into the chat, unless the look failed.
THEOREM FollowedUpIfSilent == Spec => FollowUpOnlyToSilent
<1> DEFINE Sent == \A r \in Rows : followups'[r] # followups[r] /\ r \notin blind =>
                     /\ sentTo'[r] = ContactOf(r)
                     /\ writes[ContactOf(r)] > 0 => ContactOf(r) \in since
<1>1. Init => ReplyTypeInv /\ PeerInv
  BY ReplyInitInv DEF Init, RepliesInit, PeerInv, FirstFollowup
<1>2. ReplyTypeInv /\ PeerInv /\ [Next]_vars => [Sent]_vars
  <2> SUFFICES ASSUME ReplyTypeInv, PeerInv, [Next]_vars,
                      NEW r \in Rows, followups'[r] # followups[r], r \notin blind
               PROVE  /\ sentTo'[r] = ContactOf(r)
                      /\ writes[ContactOf(r)] > 0 => ContactOf(r) \in since
    OBVIOUS
  <2>1. SendFollowup
    BY ElsewhereUntouched DEF FollowupStep, Claim, Inspect, InspectFails, RecordFollowup, TasksDie,
       Midnight, received
  <2>2. followups \in [Rows -> Nat] /\ sentTo \in [Rows -> Contacts \cup {NoContact}]
    BY DEF ReplyTypeInv, RepliesTypeOK
  <2>3. /\ followup.at = "send"
        /\ followups' = [followups EXCEPT ![followup.row] = @ + 1]
        /\ sentTo' = [sentTo EXCEPT ![followup.row] = followup.peer]
    BY <2>1 DEF SendFollowup
  <2>4. r = followup.row /\ sentTo'[r] = followup.peer  BY <2>2, <2>3
  <2> QED  BY <2>3, <2>4 DEF PeerInv
<1> QED  BY <1>1, <1>2, ReplyTypeStep, PeerStep, PTL DEF Spec, FollowUpOnlyToSilent

\* No message has left since outreach was stopped, of a task that is past the gate and
\* has not sent yet.
StopInv ==
  /\ ~stopped => afterStop = NoneSent
  /\ \A h \in Handlers : handler[h].at = "reply" => afterStop[h] = 0
  /\ followup.at = "send" => afterStop["dispatcher"] = 0
  /\ \A g \in Gated : afterStop[g] \in {0, 1}

LEMMA LeavesOnce ==
  ASSUME ReplyTypeInv, NEW g \in Gated, Leaves(g), afterStop[g] = 0, StopInv
  PROVE  /\ \A x \in Gated : afterStop'[x] \in {0, 1}
         /\ \A x \in Gated \ {g} : afterStop'[x] = afterStop[x]
         /\ ~stopped => afterStop' = NoneSent
<1>1. afterStop \in [Gated -> Nat]  BY DEF ReplyTypeInv, RepliesTypeOK
<1> QED  BY <1>1 DEF Leaves, StopInv

LEMMA StopStep == ReplyTypeInv /\ StopInv /\ [Next]_vars => StopInv'
<1> SUFFICES ASSUME ReplyTypeInv, StopInv, [Next]_vars PROVE StopInv'  OBVIOUS
<1>0. /\ afterStop \in [Gated -> Nat] /\ handler \in [Handlers -> HandlerState]
      /\ followup \in FollowupState
      /\ Handlers \subseteq Gated /\ "dispatcher" \in Gated /\ "dispatcher" \notin Handlers
  BY ReplyConstants DEF ReplyTypeInv, RepliesTypeOK, Gated
<1>1. ASSUME NEW h \in Handlers, \E c \in Contacts : Notice(h, c) PROVE StopInv'
  <2>1. /\ UNCHANGED <<stopped, afterStop, followup>>
        /\ \/ handler' = handler
           \/ ~stopped /\ \E r \in Rows : handler' = [handler EXCEPT ![h] = [at |-> "reply", row |-> r]]
    BY <1>1 DEF Notice, MayAnswer, RowsSentTo, gates, received
  <2>2. CASE handler' = handler  BY <2>1, <2>2 DEF StopInv
  <2>3. CASE ~stopped
    <3>1. afterStop' = NoneSent  BY <2>1, <2>3 DEF StopInv
    <3> QED  BY <3>1, <2>1, <2>3, <1>0 DEF StopInv, NoneSent
  <2> QED  BY <2>1, <2>2, <2>3
<1>2. ASSUME NEW h \in Handlers, Reply(h) PROVE StopInv'
  <2>1. /\ handler[h].at = "reply" /\ afterStop[h] = 0 /\ followup' = followup
        /\ \/ handler' = [handler EXCEPT ![h].at = "record"]
           \/ handler' = [handler EXCEPT ![h] = IdleHandler]
    BY <1>2 DEF Reply, StopInv
  <2>2. /\ handler'[h].at # "reply"
        /\ \A x \in Handlers \ {h} : handler'[x] = handler[x]
    BY <2>1, <1>0 DEF HandlerState, IdleHandler
  <2>3. CASE Leaves(h) /\ stopped' = stopped
    BY <2>1, <2>2, <2>3, <1>0, LeavesOnce DEF StopInv
  <2>4. CASE afterStop' = afterStop /\ (stopped' \/ stopped' = stopped)
    BY <2>1, <2>2, <2>4 DEF StopInv
  <2> QED  BY <1>2, <2>3, <2>4 DEF Reply, StopOutreach
<1>3. ASSUME NEW h \in Handlers, RecordReply(h) PROVE StopInv'
  <2>1. /\ UNCHANGED <<stopped, afterStop, followup>>
        /\ handler' = [handler EXCEPT ![h] = IdleHandler]
    BY <1>3 DEF RecordReply, gates, received
  <2>2. \A x \in Handlers : handler'[x].at = "reply" => handler[x].at = "reply"
    BY <2>1, <1>0 DEF IdleHandler
  <2> QED  BY <2>1, <2>2 DEF StopInv
<1>4. CASE FollowupStep
  <2>1. handler' = handler
    BY <1>4 DEF FollowupStep, Claim, Inspect, InspectFails, SendFollowup, RecordFollowup
  <2>2. CASE Inspect \/ InspectFails
    <3>1. /\ UNCHANGED <<stopped, afterStop>>
          /\ \/ \E p : PassGate(p)
             \/ \E c : followup' = [FirstFollowup EXCEPT !.peer = c]
      BY <2>2 DEF Inspect, InspectFails, gates, received
    <3>2. followup'.at = "send" => ~stopped
      BY <3>1 DEF PassGate, FirstFollowup
    <3> QED  BY <2>1, <3>1, <3>2, <1>0 DEF StopInv, NoneSent
  <2>3. CASE Claim \/ RecordFollowup
    <3>1. UNCHANGED <<stopped, afterStop>> /\ followup'.at # "send"
      BY <2>3, <1>0 DEF Claim, RecordFollowup, Settle, FollowupState, received
    <3> QED  BY <2>1, <3>1 DEF StopInv
  <2>4. CASE SendFollowup
    <3>1. /\ afterStop["dispatcher"] = 0 /\ followup'.at # "send"
      BY <2>4, <1>0 DEF SendFollowup, Settle, FollowupState, StopInv
    <3>2. CASE Leaves("dispatcher") /\ stopped' = stopped
      BY <2>1, <3>1, <3>2, <1>0, LeavesOnce DEF StopInv
    <3>3. CASE afterStop' = afterStop /\ (stopped' \/ stopped' = stopped)
      BY <2>1, <3>1, <3>3 DEF StopInv
    <3> QED  BY <2>4, <3>2, <3>3 DEF SendFollowup, StopOutreach
  <2> QED  BY <1>4, <2>2, <2>3, <2>4 DEF FollowupStep
<1>5. CASE Switch
  <2>1. UNCHANGED <<handler, followup>>  BY <1>5 DEF Switch, tasks
  <2>2. CASE stopped' = TRUE /\ afterStop' = afterStop  BY <2>1, <2>2 DEF StopInv
  <2>3. CASE stopped' = FALSE /\ afterStop' = NoneSent
    BY <2>1, <2>3, <1>0 DEF StopInv, NoneSent
  <2> QED  BY <1>5, <2>2, <2>3 DEF Switch, StopOutreach
<1>6. CASE TasksDie
  BY <1>6 DEF TasksDie, IdleHandler, FirstFollowup, StopInv, gates, received
<1>7. CASE UNCHANGED <<stopped, afterStop, handler>> /\ followup'.at = followup.at
  BY <1>7 DEF StopInv
<1>8. ASSUME NEW c \in Contacts, Ignore(c) PROVE StopInv'
  BY <1>8, <1>7 DEF Ignore, gates, tasks, received
<1>9. CASE FallbackStep
  <2>1. UNCHANGED <<stopped, afterStop, handler, followup>>
    BY <1>9 DEF FallbackStep, ReadBatch, TakeRow, FallbackReply, Reached, RecordFallback, gates,
       received
  <2> QED  BY <2>1, <1>7
<1>10. CASE Surroundings /\ ~Switch
  <2>1. CASE Midnight
    BY <2>1, <1>0, <1>7 DEF Midnight, FollowupState
  <2>2. CASE ~Midnight
    <3>1. UNCHANGED <<stopped, afterStop, handler, followup>>
      BY <1>10, <2>2 DEF Surroundings, FirstMessage, Ages, LeadWrites, ReplyLockExpires, CoolsDown,
         gates, tasks, received
    <3> QED  BY <3>1, <1>7
  <2> QED  BY <2>1, <2>2
<1>11. CASE UNCHANGED repliesVars
  BY <1>11, <1>7 DEF repliesVars, gates, tasks, received
<1> QED  BY <1>1, <1>2, <1>3, <1>4, <1>5, <1>6, <1>8, <1>9, <1>10, <1>11 DEF Next, Replying,
           OnUserClient, Pooling, InPool, Moving, Outside, WorkerGoes, vars, ValidatorTasks, HandlerStep

\* Once outreach is stopped, a handler or the dispatcher lets out at most one message.
THEOREM StopIsHeard == Spec => []StopHolds
<1>1. Init => ReplyTypeInv /\ StopInv
  BY ReplyInitInv DEF Init, RepliesInit, StopInv, NoneSent, FirstFollowup, IdleHandler, Gated
<1>2. StopInv => StopHolds  BY DEF StopInv, StopHolds
<1> QED  BY <1>1, <1>2, ReplyTypeStep, StopStep, PTL DEF Spec

\* What left today is what was counted, what is about to be counted, and what was never
\* counted because a statement failed or the process died.
Pending == IF followup.at = "record" /\ ~followup.yesterday THEN 1 ELSE 0

CountInv == today <= counted + Pending + Mishaps

\* The counters of mishaps never go back; a death counts as one.
LEMMA MishapsGrow ==
  ASSUME PoolInv, ReplyTypeInv, [Next]_vars
  PROVE  /\ upsets \in Nat /\ upsets' \in Nat /\ upsets' >= upsets
         /\ failures \in Nat /\ failures' \in Nat /\ failures' >= failures
         /\ FollowupStep \/ Midnight \/ upsets' = upsets + 1
              \/ UNCHANGED <<followup, counted, today>>
<1>0. upsets \in Nat /\ failures \in Nat
  BY PoolConstants, ReplyConstants DEF PoolInv, PoolTypeOK, ReplyTypeInv, RepliesTypeOK
<1>1. upsets' \in {upsets, upsets + 1}
  <2>1. CASE PoolStep
    BY <2>1 DEF PoolStep, StartLock, StartConnect, Beat, OpenUserClient, Serve, Ask, Exhausted, Choose,
       Connect, Try, Succeed, FloodWait, Banned, Fail, FailUncounted, LockExpires, StateExpires, WaitEnds, Upset
  <2>2. ASSUME NEW w \in pool.run, Kill(w) \/ Stop(w) PROVE upsets' = upsets + 1
    BY <2>2 DEF Kill, Stop, Upset
  <2>3. CASE UNCHANGED poolVars  BY <2>3 DEF poolVars
  <2> QED  BY <2>1, <2>2, <2>3 DEF Next, Replying, OnUserClient, Pooling, InPool, Moving, Outside, WorkerGoes, vars
<1>2. failures' \in {failures, failures + 1}
  <2>1. ASSUME NEW c \in Contacts, Ignore(c) PROVE failures' \in {failures, failures + 1}
    BY <2>1 DEF Ignore, Failure
  <2>2. ASSUME NEW h \in Handlers, HandlerStep(h) PROVE failures' \in {failures, failures + 1}
    BY <2>2 DEF HandlerStep, Notice, Reply, RecordReply, Failure
  <2>3. CASE FallbackStep
    BY <2>3 DEF FallbackStep, ReadBatch, TakeRow, FallbackReply, RecordFallback, Failure
  <2>4. CASE FollowupStep
    BY <2>4 DEF FollowupStep, Claim, Inspect, InspectFails, SendFollowup, RecordFollowup, Failure
  <2>5. CASE Surroundings
    BY <2>5 DEF Surroundings, FirstMessage, Ages, LeadWrites, ReplyLockExpires, Midnight, CoolsDown,
       Switch
  <2>6. CASE TasksDie \/ UNCHANGED repliesVars  BY <2>6 DEF TasksDie, repliesVars
  <2> QED  BY <2>1, <2>2, <2>3, <2>4, <2>5, <2>6 DEF Next, Replying, OnUserClient, Pooling, InPool, Moving, Outside,
             WorkerGoes, vars, ValidatorTasks
<1>3. FollowupStep \/ Midnight \/ upsets' = upsets + 1 \/ UNCHANGED <<followup, counted, today>>
  BY ElsewhereUntouched DEF WorkerGoes, Kill, Stop, Upset
<1> QED  BY <1>0, <1>1, <1>2, <1>3

LEMMA Sums ==
  ASSUME NEW a \in Nat, NEW b \in Nat, NEW c \in Nat, NEW d \in Nat, a >= b, c >= d
  PROVE  /\ a + c \in Nat /\ b + d \in Nat /\ a + c >= b + d
         /\ a = b + 1 \/ c = d + 1 => a + c >= b + d + 1
OBVIOUS

\* What a step may do to what left (t), what was counted (c), what is pending (p) and
\* the mishaps (m).
LEMMA Balance ==
  ASSUME NEW t \in Nat, NEW c \in Nat, NEW p \in {0, 1}, NEW m \in Nat,
         NEW t2 \in Nat, NEW c2 \in Nat, NEW p2 \in {0, 1}, NEW m2 \in Nat,
         t <= c + p + m, m2 >= m,
         \/ t2 = 0
         \/ t2 = t /\ c2 = c /\ (p = 0 \/ p2 = p \/ m2 >= m + 1)
         \/ t2 = t + 1 /\ c2 = c /\ p = 0 /\ (p2 = 1 \/ m2 >= m + 1)
         \/ t2 = t /\ c2 = c + p
  PROVE  t2 <= c2 + p2 + m2
OBVIOUS

LEMMA CountStep == PoolInv /\ ReplyTypeInv /\ CountInv /\ [Next]_vars => CountInv'
<1> SUFFICES ASSUME PoolInv, ReplyTypeInv, CountInv, [Next]_vars PROVE CountInv'  OBVIOUS
<1>0. /\ today \in Nat /\ counted \in Nat /\ today' \in Nat /\ counted' \in Nat
      /\ followup \in FollowupState
      /\ Pending \in {0, 1} /\ Pending' \in {0, 1}
  BY ReplyTypeStep, ReplyConstants DEF ReplyTypeInv, RepliesTypeOK, Pending
<1>1. /\ upsets \in Nat /\ upsets' \in Nat /\ upsets' >= upsets
      /\ failures \in Nat /\ failures' \in Nat /\ failures' >= failures
      /\ FollowupStep \/ Midnight \/ upsets' = upsets + 1 \/ UNCHANGED <<followup, counted, today>>
  BY MishapsGrow
<1>2. /\ Mishaps \in Nat /\ Mishaps' \in Nat /\ Mishaps' >= Mishaps
      /\ failures' = failures + 1 \/ upsets' = upsets + 1 => Mishaps' >= Mishaps + 1
  BY <1>1, Sums DEF Mishaps
<1>3. SUFFICES \/ today' = 0
               \/ /\ today' = today /\ counted' = counted
                  /\ Pending = 0 \/ Pending' = Pending \/ Mishaps' >= Mishaps + 1
               \/ /\ today' = today + 1 /\ counted' = counted /\ Pending = 0
                  /\ Pending' = 1 \/ Mishaps' >= Mishaps + 1
               \/ today' = today /\ counted' = counted + Pending
  <2>1. today <= counted + Pending + Mishaps  BY DEF CountInv
  <2>2. today' <= counted' + Pending' + Mishaps'
    <3>1. PICK t \in Nat, c \in Nat, p \in {0, 1}, m \in Nat :
            t = today /\ c = counted /\ p = Pending /\ m = Mishaps
      BY <1>0, <1>2
    <3>2. PICK t2 \in Nat, c2 \in Nat, p2 \in {0, 1}, m2 \in Nat :
            t2 = today' /\ c2 = counted' /\ p2 = Pending' /\ m2 = Mishaps'
      BY <1>0, <1>2
    <3>3. /\ t <= c + p + m /\ m2 >= m
          /\ \/ t2 = 0
             \/ t2 = t /\ c2 = c /\ (p = 0 \/ p2 = p \/ m2 >= m + 1)
             \/ t2 = t + 1 /\ c2 = c /\ p = 0 /\ (p2 = 1 \/ m2 >= m + 1)
             \/ t2 = t /\ c2 = c + p
      BY <1>2, <1>3, <2>1, <3>1, <3>2
    <3>4. t2 <= c2 + p2 + m2  BY <3>3, Balance
    <3> QED  BY <3>2, <3>4
  <2> QED  BY <2>2 DEF CountInv
<1>4. CASE Claim \/ Inspect \/ InspectFails
  BY <1>4 DEF Claim, Inspect, InspectFails, Pending, gates, received
<1>5. CASE SendFollowup
  <2>1. counted' = counted /\ Pending = 0  BY <1>5 DEF SendFollowup, Pending
  <2>2. CASE today' = today  BY <2>1, <2>2
  <2>3. CASE today' # today
    <3>1. ~followup.yesterday /\ today' = today + 1  BY <1>5, <2>3 DEF SendFollowup
    <3>2. CASE followup' = [followup EXCEPT !.at = "record"]
      <4>1. Pending' = 1  BY <3>1, <3>2, <1>0 DEF FollowupState, Pending
      <4> QED  BY <2>1, <3>1, <4>1
    <3>3. CASE Failure  BY <2>1, <3>1, <3>3, <1>2 DEF Failure
    <3> QED  BY <1>5, <2>3, <3>2, <3>3 DEF SendFollowup
  <2> QED  BY <2>2, <2>3
<1>6. CASE RecordFollowup
  <2>1. today' = today  BY <1>6 DEF RecordFollowup, received
  <2>2. CASE Count
    <3>1. counted' = counted + Pending  BY <1>6, <2>2, <1>0 DEF RecordFollowup, Count, Pending
    <3> QED  BY <2>1, <3>1
  <2>3. CASE counted' = counted /\ Failure  BY <2>1, <2>3, <1>2 DEF Failure
  <2> QED  BY <1>6, <2>2, <2>3 DEF RecordFollowup
<1>7. CASE Midnight  BY <1>7 DEF Midnight
<1>8. CASE UNCHANGED <<followup, counted, today>>  BY <1>8 DEF Pending
<1>9. CASE upsets' = upsets + 1 /\ UNCHANGED <<counted, today>>  BY <1>9, <1>2
<1>10. FollowupStep \/ Midnight \/ UNCHANGED <<counted, today>>
  BY ElsewhereUntouched DEF TasksDie, gates, received
<1> QED  BY <1>1, <1>4, <1>5, <1>6, <1>7, <1>8, <1>9, <1>10 DEF FollowupStep

\* Of the rows claimed between two midnights no more than the limit get a follow-up,
\* but for those never counted: the counter is below the limit while a row of the day
\* is in the dispatcher's hands, and the loop is its only writer.
THEOREM DailyLimitKept == Spec => []DailyLimitHolds
<1> DEFINE Inv == HoldInv /\ ReplyTypeInv /\ CountInv
<1>1. Init => Inv
  <2>1. Init => HoldInv /\ ReplyTypeInv  BY HoldInit, ReplyInitInv DEF Init
  <2>2. Init => today = 0 /\ counted = 0 /\ failures = 0 /\ upsets = 0 /\ Pending = 0
    BY DEF Init, RepliesInit, PoolInit, Pending, FirstFollowup
  <2> QED  BY <2>1, <2>2 DEF CountInv, Mishaps
<1>2. Inv /\ [Next]_vars => Inv'
  BY HoldStep, ReplyTypeStep, CountStep DEF HoldInv
<1>3. Inv => DailyLimitHolds
  <2> SUFFICES ASSUME Inv PROVE today <= DailyLimit + Mishaps  BY DEF DailyLimitHolds
  <2>1. /\ today \in Nat /\ counted \in 0..DailyLimit /\ failures \in Nat /\ upsets \in Nat
        /\ DailyLimit \in Nat
    BY PoolConstants, ReplyConstants DEF ReplyTypeInv, RepliesTypeOK, HoldInv, PoolInv, PoolTypeOK
  <2>2. Pending \in {0, 1} /\ (Pending = 1 => counted < DailyLimit)
    BY DEF Pending, ReplyTypeInv, ReplyTaskInv
  <2> QED  BY <2>1, <2>2 DEF CountInv, Mishaps
<1> QED  BY <1>1, <1>2, <1>3, PTL DEF Spec
=============================================================================
