----------------------------- MODULE SessionPool -----------------------------
(***************************************************************************)
(* The Telegram accounts: which worker process may open the session file   *)
(* of an account (tg_manager.py: the session lock and its heartbeat), and  *)
(* how execute_request chooses an account for a request, tries it, and     *)
(* turns to the next one (tg_manager.py, app/core/telegram_pool.py).       *)
(*                                                                         *)
(* The lock and the state of each account are keys in Redis.  A worker is  *)
(* one asyncio loop with several tasks; an action is what one of them does *)
(* between two awaits.                                                     *)
(***************************************************************************)
EXTENDS Integers, FiniteSets

CONSTANTS
  Workers,      \* processes with a TelegramManager
  Sessions,     \* accounts, by session name
  UserSession,  \* the account that outbound messages go through
  Primary,      \* [Workers -> Sessions]
  Clients,      \* [Workers -> SUBSET Sessions]: the accounts a worker has loaded
  Borrower,     \* the worker that opens UserSession outside its TelegramManager
  Tasks,        \* tasks that issue requests
  MaxTries,     \* RetryPolicy.max_retries (3)
  MaxUpsets,    \* bound: crashes, stalls and errors that are nobody's verdict
  Pools,        \* the settings considered
  None,
  Stale         \* the owner id of a process that is gone

\* A setting: the workers that are started, the worker of each task, its requests
\* (the account it prefers, or None, and whether it is outbound), and a bound.
Request == [want : Sessions \cup {None}, outbound : BOOLEAN]
Pool == [run : SUBSET Workers, on : [Tasks -> Workers], ask : [Tasks -> SUBSET Request],
         upsets : 0..MaxUpsets]

ASSUME PoolAssumption ==
  /\ UserSession \in Sessions
  /\ None \notin Sessions \cup Workers /\ Stale \notin Workers \cup {None}
  /\ Primary \in [Workers -> Sessions]
  /\ Clients \in [Workers -> SUBSET Sessions]
  /\ MaxTries \in Nat \ {0} /\ MaxUpsets \in Nat
  /\ Pools \subseteq Pool
  /\ IsFiniteSet(Sessions) /\ IsFiniteSet(Tasks)

VARIABLES
  pool,         \* the setting of this behaviour
  phase,        \* of each worker: what start_all does next
  open,         \* <<w, s>>: the TelegramManager of w has the session file of s open
  userClient,   \* the Borrower has that of UserSession open, without asking for the lock
  beats,        \* <<w, s>>: w runs _lock_heartbeat_loop for s
  task,         \* the requests
  \* Redis.
  lock,         \* lock:session:{name}, by the owner
  state,        \* account:pool:{name}:state
  active,       \* active_jobs in account:pool:{name}:meta
  banned        \* health:{name}:banned

\* What an observer outside the code would note.
VARIABLES
  lapsed,       \* sessions whose lock went while a worker had, or was opening, them
  leaked,       \* calls on an account that ended without record_request_end
  waiting,      \* accounts that Telegram makes wait
  upsets        \* counts towards pool.upsets

poolVars == <<pool, phase, open, userClient, beats, task, lock, state, active, banned, lapsed,
              leaked, waiting, upsets>>

AccountState == {"HEALTHY", "COOLDOWN", "FLOOD_WAIT", "UNAVAILABLE"}

\* at: what execute_request does next.
TaskState == [at : {"idle", "choose", "connect", "try", "call"},
              ask : Request, session : Sessions \cup {None},
              tried : SUBSET Sessions, tries : 0..MaxTries]
IdleTask == [at |-> "idle", ask |-> [want |-> None, outbound |-> FALSE], session |-> None,
             tried |-> {}, tries |-> 0]

PoolTypeOK ==
  /\ pool \in Pools
  /\ phase \in [Workers -> {"down", "locked", "up"}]
  /\ open \subseteq Workers \X Sessions /\ beats \subseteq Workers \X Sessions
  /\ userClient \in BOOLEAN
  /\ task \in [Tasks -> TaskState]
  /\ lock \in [Sessions -> Workers \cup {None, Stale}]
  /\ state \in [Sessions -> AccountState]
  /\ active \in [Sessions -> Int] /\ leaked \in [Sessions -> Nat]
  /\ banned \subseteq Sessions
  /\ lapsed \subseteq Sessions /\ waiting \subseteq Sessions
  /\ upsets \in 0..MaxUpsets

PoolInit ==
  /\ pool \in Pools
  /\ phase = [w \in Workers |-> "down"]
  /\ open = {} /\ userClient = FALSE /\ beats = {}
  /\ task = [t \in Tasks |-> IdleTask]
  /\ lock = [s \in Sessions |-> None]
  /\ state = [s \in Sessions |-> "HEALTHY"]
  /\ active = [s \in Sessions |-> 0]
  /\ banned = {}
  /\ lapsed = {} /\ leaked = [s \in Sessions |-> 0] /\ waiting = {}
  /\ upsets = 0

Upset == upsets < pool.upsets /\ upsets' = upsets + 1

-----------------------------------------------------------------------------
\* The session lock.

TasksOf(w) == {t \in Tasks : pool.on[t] = w}

\* w has the session file of s open under the lock, or is about to open it.
Uses(w, s) == \/ <<w, s>> \in open
              \/ phase[w] = "locked" /\ Primary[w] = s
              \/ \E t \in TasksOf(w) : task[t].at = "connect" /\ task[t].session = s

\* SET NX EX; the owner renews.  The heartbeat starts anew.
CanLock(w, s) == lock[s] \in {None, w}
AcquireLock(w, s) ==
  /\ lock' = [lock EXCEPT ![s] = w]
  /\ beats' = beats \cup {<<w, s>>}

SlipReleaseLock(w, s) ==
  /\ lock' = [lock EXCEPT ![s] = None]
  /\ beats' = beats \ {<<w, s>>}

\* The heartbeat is cancelled; compare and delete.
ReleaseLock(w, s) ==
  /\ lock' = [lock EXCEPT ![s] = IF @ = w THEN None ELSE @]
  /\ beats' = beats \ {<<w, s>>}

\* A heartbeat that finds the lock in other hands warns and ends; the client
\* stays connected.
Beat(w, s) ==
  /\ <<w, s>> \in beats /\ lock[s] # w
  /\ beats' = beats \ {<<w, s>>}
  /\ UNCHANGED <<pool, phase, open, task, lock, state, active, banned, userClient, lapsed,
                 leaked, waiting, upsets>>

SlipExpiring == {s \in Sessions : lock[s] \notin {None, Stale}}

\* Every lock has a time to live.
Expiring == {s \in Sessions : lock[s] # None}

\* 60 seconds without a renewal: the owner is gone, or its loop or Redis stalls.
LockExpires(s) ==
  /\ s \in Expiring
  /\ IF <<lock[s], s>> \in beats THEN Upset ELSE UNCHANGED upsets
  /\ lock' = [lock EXCEPT ![s] = None]
  /\ lapsed' = IF lock[s] # Stale /\ Uses(lock[s], s) THEN lapsed \cup {s} ELSE lapsed
  /\ UNCHANGED <<pool, phase, open, beats, task, state, active, banned, userClient, leaked,
                 waiting>>

\* start_all: the lock of the primary session, or the process ends and is started again.
StartLock(w) ==
  /\ phase[w] = "down" /\ CanLock(w, Primary[w])
  /\ phase' = [phase EXCEPT ![w] = "locked"]
  /\ AcquireLock(w, Primary[w])
  /\ UNCHANGED <<pool, open, task, state, active, banned, userClient, lapsed, leaked, waiting,
                 upsets>>

StartConnect(w) ==
  /\ phase[w] = "locked"
  /\ \/ /\ phase' = [phase EXCEPT ![w] = "up"]
        /\ open' = open \cup {<<w, Primary[w]>>}
        /\ UNCHANGED <<lock, beats, upsets>>
     \/ /\ Upset
        /\ phase' = [phase EXCEPT ![w] = "down"]
        /\ ReleaseLock(w, Primary[w])
        /\ UNCHANGED open
  /\ UNCHANGED <<pool, task, state, active, banned, userClient, lapsed, leaked, waiting>>

\* init_user_client of the validator: a client of its own, and no lock.
OpenUserClient ==
  /\ phase[Borrower] = "up" /\ ~userClient
  /\ userClient' = TRUE
  /\ UNCHANGED <<pool, phase, open, beats, task, lock, state, active, banned, lapsed, leaked,
                 waiting, upsets>>

Calls(w, s) == Cardinality({t \in TasksOf(w) : task[t].at = "call" /\ task[t].session = s})

\* The process is gone, with what it had open; its locks have `owner` now, since
\* the next process draws another id.
Gone(w, owner) ==
  /\ phase' = [phase EXCEPT ![w] = "down"]
  /\ open' = open \ ({w} \X Sessions)
  /\ beats' = beats \ ({w} \X Sessions)
  /\ userClient' = (userClient /\ w # Borrower)
  /\ task' = [t \in Tasks |-> IF pool.on[t] = w THEN IdleTask ELSE task[t]]
  /\ leaked' = [s \in Sessions |-> leaked[s] + Calls(w, s)]
  /\ lock' = [s \in Sessions |-> IF lock[s] = w THEN owner ELSE lock[s]]
  /\ UNCHANGED <<pool, state, active, banned, lapsed, waiting>>

Kill(w) == phase[w] # "down" /\ Upset /\ Gone(w, Stale)

\* A shutdown: disconnect_all gives back the locks.
Stop(w) == phase[w] = "up" /\ Upset /\ Gone(w, None)

-----------------------------------------------------------------------------
\* execute_request.

\* Outbound requests, and those that ask for it, go through UserSession alone;
\* no other request does.
Candidates(t) ==
  LET want == task[t].ask.want IN
  IF task[t].ask.outbound \/ want = UserSession THEN {UserSession}
  ELSE (Clients[pool.on[t]] \cup ({want} \ {None})) \ {UserSession}

SlipEligible(t) == Candidates(t) \ banned

Eligible(t) == Candidates(t) \ (task[t].tried \cup banned)

\* The preferred account whatever its state is; or one of those in a good state,
\* or any if none is.  active_jobs, recent errors and idle time together say
\* which one; that is left open.
Selected(t) ==
  LET want == task[t].ask.want
      good == {s \in Eligible(t) : state[s] = "HEALTHY"}
  IN IF want \in Eligible(t) THEN {want}
     ELSE IF good # {} THEN good ELSE Eligible(t)

Ask(t, r) ==
  /\ task[t].at = "idle" /\ phase[pool.on[t]] = "up" /\ r \in pool.ask[t]
  /\ task' = [task EXCEPT ![t] = [IdleTask EXCEPT !.at = "choose", !.ask = r]]
  /\ UNCHANGED <<pool, phase, open, beats, lock, state, active, banned, userClient, lapsed,
                 leaked, waiting, upsets>>

\* Every account was tried or is banned: the request fails.
Exhausted(t) ==
  /\ task[t].at = "choose" /\ Eligible(t) = {}
  /\ task' = [task EXCEPT ![t] = IdleTask]
  /\ UNCHANGED <<pool, phase, open, beats, lock, state, active, banned, userClient, lapsed,
                 leaked, waiting, upsets>>

\* An account without a client is passed over; one that is not connected has to
\* be locked, or is marked unavailable, for every worker.
Choose(t) ==
  /\ task[t].at = "choose"
  /\ \E s \in Selected(t) :
       LET w == pool.on[t]
           next(where) == task' = [task EXCEPT ![t].session = s, ![t].tries = 0, ![t].at = where,
                                               ![t].tried = @ \cup {s}]
       IN \/ /\ s \notin Clients[w] /\ next("choose")
             /\ UNCHANGED <<lock, beats, state>>
          \/ /\ s \in Clients[w] /\ <<w, s>> \in open /\ next("try")
             /\ UNCHANGED <<lock, beats, state>>
          \/ /\ s \in Clients[w] /\ <<w, s>> \notin open
             /\ IF CanLock(w, s)
                THEN next("connect") /\ AcquireLock(w, s) /\ UNCHANGED state
                ELSE /\ next("choose")
                     /\ state' = [state EXCEPT ![s] = "UNAVAILABLE"]
                     /\ ReleaseLock(w, s)
  /\ UNCHANGED <<pool, phase, open, active, banned, userClient, lapsed, leaked, waiting, upsets>>

\* connect, or its failure: disconnect and release, whoever else in this worker
\* is about to use the account.
Connect(t) ==
  /\ task[t].at = "connect"
  /\ LET w == pool.on[t]
         s == task[t].session
     IN \/ /\ open' = open \cup {<<w, s>>}
           /\ task' = [task EXCEPT ![t].at = "try"]
           /\ UNCHANGED <<lock, beats, state, lapsed, upsets>>
        \/ /\ Upset
           /\ open' = open \ {<<w, s>>}
           /\ task' = [task EXCEPT ![t].at = "choose"]
           /\ ReleaseLock(w, s)
           /\ state' = [state EXCEPT ![s] = "UNAVAILABLE"]
           /\ lapsed' = IF \E u \in TasksOf(w) \ {t} : task[u].at = "connect" /\ task[u].session = s
                        THEN lapsed \cup {s} ELSE lapsed
  /\ UNCHANGED <<pool, phase, active, banned, userClient, leaked, waiting>>

SlipTryAgain(t) == task[t].tries <= MaxTries

TryAgain(t) == task[t].tries < MaxTries

\* The inner loop: check_request_limit; another account if the limit is reached,
\* the tries are used up or the account is gone.
Try(t) ==
  /\ task[t].at = "try"
  /\ LET s == task[t].session IN
       \/ /\ TryAgain(t)
          /\ task' = [task EXCEPT ![t].at = "call"]
          /\ active' = [active EXCEPT ![s] = @ + 1]
          /\ UNCHANGED <<state, upsets>>
       \/ /\ TryAgain(t)
          /\ Upset
          /\ task' = [task EXCEPT ![t].at = "choose"]
          /\ state' = [state EXCEPT ![s] = "COOLDOWN"]
          /\ UNCHANGED active
       \/ /\ ~TryAgain(t)
          /\ task' = [task EXCEPT ![t].at = "choose"]
          /\ UNCHANGED <<state, active, upsets>>
  /\ UNCHANGED <<pool, phase, open, beats, lock, banned, userClient, lapsed, leaked, waiting>>

Ended(t)   == task' = [task EXCEPT ![t] = IdleTask]
Retry(t)   == task' = [task EXCEPT ![t].at = "try", ![t].tries = @ + 1]
Another(t) == task' = [task EXCEPT ![t].at = "choose"]

CallEnds(t) ==
  /\ task[t].at = "call"
  /\ active' = [active EXCEPT ![task[t].session] = @ - 1]
  /\ UNCHANGED <<pool, phase, open, beats, lock, userClient, lapsed, leaked>>

\* The state is HEALTHY, whatever another call has made of it.
Succeed(t) ==
  /\ CallEnds(t) /\ Ended(t)
  /\ state' = [state EXCEPT ![task[t].session] = "HEALTHY"]
  /\ UNCHANGED <<banned, waiting, upsets>>

\* Up to 60 s are slept off; more than that, and it is another account's turn.
FloodWait(t) ==
  /\ CallEnds(t)
  /\ state' = [state EXCEPT ![task[t].session] = "FLOOD_WAIT"]
  /\ \/ Retry(t) /\ UNCHANGED waiting
     \/ Another(t) /\ waiting' = waiting \cup {task[t].session}
  /\ task[t].session \in waiting \/ upsets < pool.upsets
  /\ upsets' = IF task[t].session \in waiting THEN upsets ELSE upsets + 1
  /\ UNCHANGED banned

\* mark_account_banned.
Banned(t) ==
  /\ CallEnds(t) /\ Another(t)
  /\ Upset
  /\ banned' = banned \cup {task[t].session}
  /\ state' = [state EXCEPT ![task[t].session] = "UNAVAILABLE"]
  /\ UNCHANGED waiting

SlipFail(t) ==
  /\ task[t].at = "call"
  /\ Ended(t) \/ Retry(t)
  /\ Upset
  /\ UNCHANGED <<pool, phase, open, userClient, beats, lock, state, active, banned, lapsed,
                 leaked, waiting>>

\* An RPC error: permanent, and the caller's affair; or it is tried again.
Fail(t) ==
  /\ CallEnds(t)
  /\ Ended(t) \/ Retry(t)
  /\ Upset
  /\ UNCHANGED <<state, banned, waiting>>

\* Any other exception that may pass, and the join request that counts as a
\* success: active_jobs is not taken back.
FailUncounted(t) ==
  /\ task[t].at = "call"
  /\ Ended(t) \/ Retry(t)
  /\ Upset
  /\ leaked' = [leaked EXCEPT ![task[t].session] = @ + 1]
  /\ UNCHANGED <<pool, phase, open, beats, lock, state, active, banned, userClient, lapsed,
                 waiting>>

\* A state with a time to live is forgotten: that of a flood wait 30 s after it is over.
StateExpires(s) ==
  /\ state[s] # "HEALTHY" /\ s \notin banned
  /\ state[s] = "FLOOD_WAIT" => s \notin waiting
  /\ state' = [state EXCEPT ![s] = "HEALTHY"]
  /\ UNCHANGED <<pool, phase, open, beats, task, lock, active, banned, userClient, lapsed,
                 leaked, waiting, upsets>>

WaitEnds(s) ==
  /\ s \in waiting /\ waiting' = waiting \ {s}
  /\ UNCHANGED <<pool, phase, open, beats, task, lock, state, active, banned, userClient, lapsed,
                 leaked, upsets>>

-----------------------------------------------------------------------------
\* What goes on by itself once somebody asked.
Serve(t) ==
  \/ Exhausted(t) \/ Choose(t) \/ Connect(t) \/ Try(t)
  \/ Succeed(t) \/ FloodWait(t) \/ Banned(t) \/ Fail(t) \/ FailUncounted(t)

PoolStep ==
  \/ \E w \in pool.run : StartLock(w) \/ StartConnect(w) \/ \E s \in Sessions : Beat(w, s)
  \/ Borrower \in pool.run /\ OpenUserClient
  \/ \E t \in Tasks : Serve(t) \/ \E r \in Request : Ask(t, r)
  \/ \E s \in Sessions : LockExpires(s) \/ StateExpires(s) \/ WaitEnds(s)
=============================================================================
